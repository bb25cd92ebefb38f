---------------------------- MODULE MCRiakAnswer ----------------------------
(* A small instance of RiakAnswer. *)
EXTENDS RiakAnswer

AllKinds == {"get", "put", "search", "get_bucketprops", "serverinfo", "get_clientid", "ping"}

SomeObjects ==
    {[binaries |-> {}, indexes |-> 0, usermeta |-> 0, links |-> 1],
     [binaries |-> {"charset", "vtag"}, indexes |-> 2, usermeta |-> 0, links |-> 1],
     [binaries |-> {"content_encoding", "content_type"}, indexes |-> 0, usermeta |-> 1, links |-> 0]}

SomeDocs == {0, 1, 2}

SomeHooks == {[name |-> TRUE, modfun |-> TRUE], [name |-> TRUE, modfun |-> FALSE],
              [name |-> FALSE, modfun |-> TRUE]}
=============================================================================

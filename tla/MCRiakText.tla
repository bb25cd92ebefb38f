----------------------------- MODULE MCRiakText -----------------------------
(***************************************************************************)
(* A small instance of RiakText: buffers down to one character, binaries   *)
(* of up to three, and objects that differ from one another in one field   *)
(* or two.                                                                 *)
(***************************************************************************)
EXTENDS RiakText

Whole == [bucket |-> "a", bucket_type |-> Null, key |-> "a", value |-> "a", charset |-> "a",
          content_type |-> "a", content_encoding |-> "a", vtag |-> Null, last_mod |-> Null,
          last_mod_usecs |-> Null, deleted |-> FALSE,
          indexes |-> <<>>, links |-> <<>>, usermeta |-> <<>>]

Link(bucket, key, tag) == [bucket |-> bucket, key |-> key, tag |-> tag]
Pair(key, value) == [key |-> key, value |-> value]

Metas == {<<Pair("a", "a")>>, <<Pair("a", Null)>>, <<Pair("b", "a")>>, <<Pair("a", "b")>>,
          <<Pair("a", "a"), Pair("a", "b")>>}
Links == {<<Link("a", "a", "a")>>, <<Link("a", "a", "b")>>, <<Link("a", "b", "a")>>,
          <<Link(Null, "a", "a")>>, <<Link("a", "a", Null)>>, <<Link("b", Null, "a")>>}

Differing(o) ==
    {[o EXCEPT ![f] = v] : f \in {"charset", "content_type", "content_encoding", "vtag", "last_mod",
                                  "last_mod_usecs", "bucket_type", "key"}, v \in {Null, "a", "b"}}
    \cup {[o EXCEPT !.bucket = "b"], [o EXCEPT !.value = "b"], [o EXCEPT !.deleted = TRUE]}
    \cup {[o EXCEPT !.links = l] : l \in Links}
    \cup {[o EXCEPT !.indexes = l] : l \in Metas} \cup {[o EXCEPT !.usermeta = l] : l \in Metas}

Tagged == [Whole EXCEPT !.vtag = "a", !.last_mod = "a", !.last_mod_usecs = "a",
                        !.links = <<Link("a", "a", "b")>>]

SomePairs == {<<o, p>> : o \in {Whole, Tagged}, p \in Differing(Whole) \cup Differing(Tagged)}
             \cup {<<o, o>> : o \in Differing(Tagged)}
=============================================================================

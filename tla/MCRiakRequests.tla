--------------------------- MODULE MCRiakRequests ---------------------------
(***************************************************************************)
(* Small instances of RiakRequests for TLC.                                *)
(***************************************************************************)
EXTENDS RiakRequests

\* Every call there is.
AllCalls == {"get", "put", "delete", "search", "index", "object", "set_bucketprops",
             "reset_bucketprops", "get_bucketprops", "list_keys", "list_buckets",
             "mapreduce", "set_clientid", "get_clientid", "serverinfo", "ping"}
=============================================================================

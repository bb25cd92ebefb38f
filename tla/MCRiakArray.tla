---------------------------- MODULE MCRiakArray ----------------------------
(* A small instance of RiakArray. *)
EXTENDS RiakArray

AtMost == {<<a, b>> \in Elems \X Elems : a <= b}
SomePositions == -1..4
=============================================================================

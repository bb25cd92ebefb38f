-------------------------- MODULE MCRiakLibevent --------------------------
(***************************************************************************)
(* Two operations on one base for TLC, answered in three frames each: a    *)
(* may lose its connection, and b is answered, in pieces of any kind, and  *)
(* may run out of memory and wait for ever.                                *)
(***************************************************************************)
EXTENDS RiakLibevent

CONSTANTS a, b

Two     == {a, b}
Lost    == {a}
Live    == {b}
Short   == {b}
Pieces  == [o \in Two |-> IF o = b THEN {1, 2, 3} ELSE {3}]
Numbers == 3..5
=============================================================================

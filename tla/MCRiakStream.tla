---------------------------- MODULE MCRiakStream ----------------------------
(***************************************************************************)
(* Small instances of RiakStream for TLC.                                  *)
(***************************************************************************)
EXTENDS RiakStream

\* Messages with none, one or two keys, or terms.
SmallMessages == [keys : 0..2, terms : 0..2, done : BOOLEAN]
=============================================================================

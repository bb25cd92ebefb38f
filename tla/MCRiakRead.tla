---------------------------- MODULE MCRiakRead ----------------------------
(***************************************************************************)
(* Small instances of RiakRead for TLC.                                    *)
(***************************************************************************)
EXTENDS RiakRead

\* Three frames of one, three and two bytes: a bare id, and messages long
\* enough to be cut in two places and in one.
ThreeFrames == <<0, 5, 12, 18>>
TwoFrames   == <<0, 5, 12>>

\* A server that answers as the protocol says, one whose messages may not
\* parse, and one whose error reports may not either.  The answer may end with
\* any frame, and ends with the last one.
WellFormed == [k \in Frame |-> IF k = NFrames THEN {"last", "error"}
                                ELSE {"more", "last", "error"}]
Rejected   == [k \in Frame |-> WellFormed[k] \cup {"bad"}]
Malformed  == [k \in Frame |-> Rejected[k] \cup {"bad_error"}]

\* Deliveries that end anywhere, and anywhere but inside a length prefix.
AnyCut   == 1..Total
BodyCuts == {b \in 1..Total : ~InPrefix(b)}

\* What four bytes of message text may spell: nothing, less than a split
\* prefix has left over, and lengths shorter and longer than the real frames.
SmallLengths == {0, 2, 5}
=============================================================================

---------------------------- MODULE MCRiakSync ----------------------------
(***************************************************************************)
(* Small instances of RiakSync for TLC: three calls, the second of which   *)
(* is answered in two frames, and the last a ping.                         *)
(***************************************************************************)
EXTENDS RiakSync

FourFrames == <<0, 6, 11, 17, 22>>
Answers    == <<1, 3, 4>>
ThreeCalls == <<"other", "other", "ping">>
Kinds == <<{"last", "error"}, {"more"}, {"last", "error"}, {"last"}>>

\* Deliveries that end with a frame or its prefix; and also after one byte of
\* a message.
WholeCuts == {Start[k] : k \in 2..(NFrames + 1)} \cup {Start[k] + 4 : k \in 1..NFrames}
BodyCuts  == WholeCuts \cup {Start[k] + 5 : k \in 1..NFrames}

\* One call whose answer is one frame.
OneFrame  == <<0, 6>>
OneAnswer == <<1>>
OneCall   == <<"other">>
OneKind   == <<{"last"}>>

SmallLengths == {0, 2, 5}
=============================================================================

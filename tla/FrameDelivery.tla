--------------------------- MODULE FrameDelivery ---------------------------
(***************************************************************************)
(* What riak_read owes the user of an operation, whatever the transport    *)
(* does to the bytes: the frames of the server's answer are taken one at a *)
(* time and in order, and the operation ends once, either by handing the   *)
(* user the whole answer, or by reporting the server's error, or because a *)
(* message made no sense, and then handing over nothing.                   *)
(***************************************************************************)
EXTENDS Naturals, Sequences

CONSTANT NFrames        \* frames the server sends at most

VARIABLES
    taken,      \* frames taken off the stream
    answer,     \* the answer put together so far
    outcome,    \* "pending", then what the operation ended with
    given       \* the answers handed to the user

vars == <<taken, answer, outcome, given>>

Init == taken = 0 /\ answer = <<>> /\ outcome = "pending" /\ given = {}

Take == outcome = "pending" /\ taken < NFrames /\ taken' = taken + 1

\* A part of the answer, with more to come.
TakePart ==
    /\ Take /\ taken' < NFrames
    /\ answer' = Append(answer, taken')
    /\ UNCHANGED <<outcome, given>>

\* Its last part: the user gets all of it.
TakeLast ==
    /\ Take
    /\ answer' = Append(answer, taken')
    /\ outcome' = "OK"
    /\ given' = {answer'}

\* An error in place of the rest: the user gets none of it.
TakeError ==
    /\ Take
    /\ answer' = <<>>
    /\ outcome' = "SERVER_ERROR"
    /\ UNCHANGED given

\* A message that cannot be understood: whether it is kept or not, the user gets
\* nothing, not even a word.
TakeBad ==
    /\ Take
    /\ answer' \in {answer, Append(answer, taken')}
    /\ outcome' = "READ"
    /\ UNCHANGED given

Next == TakePart \/ TakeLast \/ TakeError \/ TakeBad
Spec == Init /\ [][Next]_vars /\ WF_vars(Next)
=============================================================================

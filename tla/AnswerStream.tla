---------------------------- MODULE AnswerStream ----------------------------
(***************************************************************************)
(* What the player promises the host of its answers: they come whole, in   *)
(* the order in which they were sent, each at most once.  Some may be      *)
(* given up, but only in favour of a newer one: the newest is never lost.  *)
(***************************************************************************)
EXTENDS Integers, Sequences

CONSTANT MaxAnswers  \* bound: answers are the numbers from 1 on

VARIABLES
  underway,          \* the answers the host has still to get
  got                \* the answers the host has

vars == <<underway, got>>

Init == underway = <<>> /\ got = <<>>

\* The newest answer, once there is one.
Newest == LET all == got \o underway IN all[Len(all)]

\* A new answer comes behind the first n that are underway; those that follow
\* them are given up.
Send ==
  \E n \in 0 .. Len(underway) :
    LET a == IF got \o underway = <<>> THEN 1 ELSE Newest + 1 IN
    /\ a <= MaxAnswers
    /\ underway' = Append(SubSeq(underway, 1, n), a)
    /\ got' = got

Arrive ==
  \E n \in 1 .. Len(underway) :
    /\ got' = got \o SubSeq(underway, 1, n)
    /\ underway' = SubSeq(underway, n + 1, Len(underway))

Next == Send \/ Arrive

Spec == Init /\ [][Next]_vars
=============================================================================

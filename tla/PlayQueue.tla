----------------------------- MODULE PlayQueue ------------------------------
(***************************************************************************)
(* What the player promises about the order of playing, without buffers,   *)
(* backups and swaps: the song that plays, one queued song with the number *)
(* of times it is still to be played, and a mark that holds the queue back *)
(* until the marked song plays.                                            *)
(*                                                                         *)
(* An entry is a pair of a list and a position in it.                      *)
(***************************************************************************)
EXTENDS Integers

CONSTANTS Entries, None, MaxTimes

VARIABLES now, queued, mark, times

vars == <<now, queued, mark, times>>

Init == now = None /\ queued = None /\ mark = None /\ times = 0

SameList(a, b) == a # None /\ b # None /\ a[1] = b[1]

Emptied == queued' = None /\ mark' = None /\ times' = 0

\* A song is chosen: the queue does not survive it.
PlayEntry == now' \in Entries /\ Emptied

\* Another song of the list that plays.
MoveInList ==
  /\ now' \in Entries /\ SameList(now, now')
  /\ UNCHANGED <<queued, mark, times>>

QueueOpen == queued # None /\ mark \in {None, now}

\* The queued list starts, at its song or at a later one that opens.  The
\* entry stays as it was until it has been played as often as was asked.
TakeQueued ==
  /\ QueueOpen /\ times > 0
  /\ now' \in Entries /\ SameList(queued, now')
  /\ IF times = 1 THEN Emptied
     ELSE times' = times - 1 /\ UNCHANGED <<queued, mark>>

\* No song of the queued list opens: the list that plays goes on.
DropQueued ==
  /\ QueueOpen
  /\ now' = now \/ (now' \in Entries /\ SameList(now, now'))
  /\ Emptied

Enqueue ==
  /\ queued' \in Entries
  /\ IF queued' = queued THEN times < MaxTimes /\ times' = times + 1
                         ELSE times' = 1
  /\ UNCHANGED <<now, mark>>

\* An entry that cannot be queued leaves the queued one, once.
EnqueueFails ==
  /\ queued # None
  /\ times' = 1
  /\ UNCHANGED <<now, queued, mark>>

PlaceMark == mark' \in Entries /\ UNCHANGED <<now, queued, times>>

Eject == now' = None /\ Emptied

Next == \/ PlayEntry \/ MoveInList \/ TakeQueued \/ DropQueued
        \/ Enqueue \/ EnqueueFails \/ PlaceMark \/ Eject

Spec == Init /\ [][Next]_vars
=============================================================================

----------------------------- MODULE Broadcast -----------------------------
(***************************************************************************)
(* What the multiplexing server promises its clients: a client gets every  *)
(* byte that the player sends from the start of the structure the player   *)
(* is in when the client joins, each once and in order, until it leaves.   *)
(***************************************************************************)
EXTENDS Integers, Sequences

CONSTANTS
  Client, Byte,
  StructSize,     \* length of the structure that a byte begins
  MaxRead         \* bytes of the player read at once

VARIABLES
  left,           \* what each client has still to get
  tail            \* what the player has sent of the structure it is in

\* The part of a structure that has come once byte b follows the part t.
Follow(t, b) ==
  LET s == Append(t, b) IN IF Len(s) = StructSize[Head(s)] THEN <<>> ELSE s

\* The same, once the bytes v follow.
FollowAll(t, v) ==
  LET after[n \in 0 .. Len(v)] == IF n = 0 THEN t ELSE Follow(after[n - 1], v[n])
  IN after[Len(v)]

Init == left = [f \in {} |-> <<>>] /\ tail = <<>>

Send(v) ==
  /\ left' = [f \in DOMAIN left |-> left[f] \o v]
  /\ tail' = FollowAll(tail, v)

Join(f) ==
  /\ f \notin DOMAIN left
  /\ left' = [g \in DOMAIN left \cup {f} |-> IF g = f THEN tail ELSE left[g]]
  /\ UNCHANGED tail

Deliver(f, n) ==
  /\ left' = [left EXCEPT ![f] = SubSeq(left[f], n + 1, Len(left[f]))]
  /\ UNCHANGED tail

Leave(f) ==
  /\ left' = [g \in DOMAIN left \ {f} |-> left[g]]
  /\ UNCHANGED tail

Next ==
  \/ \E v \in UNION {[1 .. n -> Byte] : n \in 1 .. MaxRead} : Send(v)
  \/ \E f \in Client : Join(f)
  \/ \E f \in DOMAIN left : Leave(f) \/ \E n \in 1 .. Len(left[f]) : Deliver(f, n)

Spec == Init /\ [][Next]_<<left, tail>>
=============================================================================

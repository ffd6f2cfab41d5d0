---------------------------- MODULE CommandStream ----------------------------
(***************************************************************************)
(* What the multiplexing server promises the player: it gets whole         *)
(* commands, one after another, each client's in the order in which the    *)
(* client wrote them.                                                      *)
(***************************************************************************)
EXTENDS Integers, FiniteSets, SequencesExt

CONSTANTS
  Client,
  Commands           \* client -> its commands, strings: the first byte of each
                     \* tells it from all the others

VARIABLE line        \* what has been passed on

Passed(f) ==
  Cardinality({k \in DOMAIN Commands[f] : Commands[f][k][1] \in ToSet(line)})

Init == line = <<>>

Pass(f) ==
  \E n \in 1 .. Len(Commands[f]) - Passed(f) :
    line' = line \o FlattenSeq(SubSeq(Commands[f], Passed(f) + 1, Passed(f) + n))

Next == \E f \in Client : Pass(f)

Spec == Init /\ [][Next]_line
=============================================================================

------------------------------ MODULE CheckString ------------------------------
(***************************************************************************)
(* The sender of one command takes the known command that is nearest to    *)
(* the word it is given: send and diff_string of                           *)
(* utilities/command_sender/src/command_line.  The distance is calculated  *)
(* row by row, with the two rows before at hand, and costs depend on the   *)
(* direction: a letter that was forgotten is cheap.                        *)
(***************************************************************************)
EXTENDS Integers, Sequences, FiniteSetsExt

CONSTANTS
  str_commands,          \* the known commands, a tuple of words
  Words,                 \* what may be typed
  cost_add, cost_replace, cost_delete, cost_swap,  \* 1, 3, 3 and 2
  diff_sz_limit,         \* 100
  activation_porog       \* 10

CheckStringAssumption ==
  /\ {cost_add, cost_replace, cost_delete, cost_swap, diff_sz_limit, activation_porog}
       \subseteq Nat \ {0}
  /\ Len(str_commands) > 0

VARIABLES
  command,               \* the word
  i,                     \* the known command it is compared with
  row,                   \* the next row
  prev, prev_2,          \* the two before
  best_v, best_i,        \* best_v = None before the first
  written                \* what the socket was given

vars == <<command, i, row, prev, prev_2, best_v, best_i, written>>

None == -1
Known == str_commands[i]
NoRow == [j \in {} |-> 0]

TooDifferent(a, b) ==
  Len(a) * diff_sz_limit < Len(b) \/ Len(b) * diff_sz_limit < Len(a)

\* Row r of a, up to place j of b; d and e are the rows before it.
Swapped(a, b, r, j) ==
  /\ r >= 2 /\ j >= 2
  /\ a[r - 1] = b[j] /\ a[r] = b[j - 1]

Cell(a, b, r, j, left, d, e) ==
  IF r = 0 \/ j = 0 THEN cost_delete * r + cost_add * j
  ELSE Min({d[j] + cost_delete, left + cost_add, d[j - 1] + cost_replace}
           \cup (IF a[r] = b[j] THEN {d[j - 1]} ELSE {})
           \cup (IF Swapped(a, b, r, j) THEN {e[j - 2] + cost_swap} ELSE {}))

RowOf(a, b, r, d, e) ==
  LET cur[j \in 0 .. Len(b)] ==
        Cell(a, b, r, j, IF j = 0 THEN 0 ELSE cur[j - 1], d, e)
  IN cur

\* std::swap, twice.
Rolled(cur) == prev' = cur /\ prev_2' = prev

Compare(v) ==
  /\ IF best_v = None \/ best_v > v THEN best_v' = v /\ best_i' = i
                                    ELSE UNCHANGED <<best_v, best_i>>
  /\ i' = i + 1 /\ row' = 0 /\ prev' = NoRow /\ prev_2' = NoRow

Limit ==
  /\ i <= Len(str_commands) /\ row = 0 /\ TooDifferent(command, Known)
  /\ Compare(Max({Len(command), Len(Known)}))
  /\ UNCHANGED <<command, written>>

NextRow ==
  /\ i <= Len(str_commands) /\ ~TooDifferent(command, Known)
  /\ row <= Len(command)
  /\ Rolled(RowOf(command, Known, row, prev, prev_2))
  /\ row' = row + 1
  /\ UNCHANGED <<command, i, best_v, best_i, written>>

LastRow ==
  /\ i <= Len(str_commands) /\ row = Len(command) + 1
  /\ Compare(prev[Len(Known)])
  /\ UNCHANGED <<command, written>>

Write ==
  /\ i = Len(str_commands) + 1
  /\ written' = IF best_v < activation_porog THEN Append(written, best_i) ELSE written
  /\ i' = i + 1
  /\ UNCHANGED <<command, row, prev, prev_2, best_v, best_i>>

Init ==
  /\ command \in Words
  /\ i = 1 /\ row = 0 /\ prev = NoRow /\ prev_2 = NoRow
  /\ best_v = None /\ best_i = 0 /\ written = <<>>

send == Limit \/ NextRow \/ LastRow \/ Write

(***************************************************************************)
(* Properties.                                                             *)
(***************************************************************************)

\* The rows are as long as the known command they belong to.
TypeOK ==
  /\ command \in Words /\ i \in 1 .. Len(str_commands) + 2
  /\ row \in 0 .. Len(command) + 1
  /\ row > 0 => DOMAIN prev = 0 .. Len(Known)
  /\ row > 1 => DOMAIN prev_2 = 0 .. Len(Known)
  /\ best_v \in {None} \cup Nat /\ best_i \in 0 .. Len(str_commands)
  /\ Len(written) <= 1

\* The cheapest way to make b of a from the left: letters are taken over, added,
\* replaced and deleted, and two that stand side by side are swapped.
RECURSIVE Distance(_, _)
Distance(a, b) ==
  IF a = <<>> THEN cost_add * Len(b)
  ELSE IF b = <<>> THEN cost_delete * Len(a)
  ELSE Min({cost_delete + Distance(Tail(a), b),
            cost_add + Distance(a, Tail(b)),
            Distance(Tail(a), Tail(b)) + IF Head(a) = Head(b) THEN 0 ELSE cost_replace}
           \cup (IF Len(a) > 1 /\ Len(b) > 1 /\ a[1] = b[2] /\ a[2] = b[1]
                   THEN {cost_swap + Distance(SubSeq(a, 3, Len(a)), SubSeq(b, 3, Len(b)))}
                   ELSE {}))

Difference(a, b) ==
  IF TooDifferent(a, b) THEN Max({Len(a), Len(b)}) ELSE Distance(a, b)

\* What is sent is the nearest command, the first of those that are equally near,
\* and nothing if none is near enough.
NearestIsSent ==
  i = Len(str_commands) + 2 =>
    LET difference == [k \in DOMAIN str_commands |-> Difference(command, str_commands[k])]
        least == Min({difference[k] : k \in DOMAIN str_commands})
    IN written = IF least < activation_porog
                   THEN <<Min({k \in DOMAIN str_commands : difference[k] = least})>>
                   ELSE <<>>
=============================================================================

------------------------------- MODULE FindSong -------------------------------
(***************************************************************************)
(* The search for a string in a song's name (playlist/find_song.h and      *)
(* find_song.cpp): calc_prefix_function fills the prefix function of the   *)
(* pattern, once for a search, and find_substr runs over a name with it.   *)
(* A turn of either while loop is a step of its own, so that what the      *)
(* loops read, and that they end, can be checked.                          *)
(*                                                                         *)
(* substr[k + 1] is the code's substr[k], and so for text.                 *)
(***************************************************************************)
EXTENDS Integers, Sequences

CONSTANTS
  Char,              \* bound: the characters
  MaxSize,           \* the longest pattern, sz::song_name or sz::group_name
  text_size          \* the length of a name, which is the same

FindSongAssumption == MaxSize \in Nat /\ text_size \in Nat

VARIABLES
  substr, text,      \* chosen once
  pf,                \* prefix_function
  phase,             \* "prefix", "scan", "done"
  i, pos,            \* pos is j in calc_prefix_function
  found

input == <<substr, text>>
vars  == <<input, pf, phase, i, pos, found>>

str_size == Len(substr)

FirstEntry == -1

Init ==
  /\ substr \in UNION {[1 .. n -> Char] : n \in 0 .. MaxSize}
  /\ text \in [1 .. text_size -> Char]
  /\ pf = [k \in 0 .. str_size |-> IF k = 0 /\ str_size # 0 THEN FirstEntry ELSE 0]
  /\ phase = "prefix"
  /\ i = 0
  /\ pos = -1
  /\ found = FALSE

(***************************************************************************)
(* calc_prefix_function                                                    *)
(***************************************************************************)
FromStart(p) == IF p = 0 THEN -1 ELSE 0             \* mutant: borders skipped
Back(p) == pf[p]

PrefixBack ==
  /\ phase = "prefix" /\ i # str_size
  /\ pos # -1 /\ substr[pos + 1] # substr[i + 1]
  /\ pos' = Back(pos)
  /\ UNCHANGED <<input, pf, phase, i, found>>

PrefixNext ==
  /\ phase = "prefix" /\ i # str_size
  /\ pos # -1 => substr[pos + 1] = substr[i + 1]
  /\ pos' = pos + 1
  /\ pf' = [pf EXCEPT ![i + 1] = pos + 1]
  /\ i' = i + 1
  /\ UNCHANGED <<input, phase, found>>

\* An empty pattern is found at once.
PrefixEnd ==
  /\ phase = "prefix" /\ i = str_size
  /\ found' = (str_size = 0)
  /\ phase' = IF str_size = 0 THEN "done" ELSE "scan"
  /\ i' = 0 /\ pos' = 0
  /\ UNCHANGED <<input, pf>>

(***************************************************************************)
(* find_substr                                                             *)
(***************************************************************************)
ScanBack ==
  /\ phase = "scan" /\ i # text_size
  /\ pos # -1 /\ substr[pos + 1] # text[i + 1]
  /\ pos' = Back(pos)
  /\ UNCHANGED <<input, pf, phase, i, found>>

Complete(p) == p = str_size

ScanNext ==
  /\ phase = "scan" /\ i # text_size
  /\ pos # -1 => substr[pos + 1] = text[i + 1]
  /\ pos' = pos + 1
  /\ i' = i + 1
  /\ found' = Complete(pos + 1)
  /\ phase' = IF Complete(pos + 1) THEN "done" ELSE "scan"
  /\ UNCHANGED <<input, pf>>

ScanEnd ==
  /\ phase = "scan" /\ i = text_size
  /\ phase' = "done"
  /\ UNCHANGED <<input, pf, i, pos, found>>

Next ==
  \/ PrefixBack \/ PrefixNext \/ PrefixEnd
  \/ ScanBack \/ ScanNext \/ ScanEnd

Spec == Init /\ [][Next]_vars

(***************************************************************************)
(* Properties.                                                             *)
(***************************************************************************)

\* The arrays are read within their bounds: of the pattern only characters
\* that it has.
TypeOK ==
  /\ substr \in Seq(Char) /\ Len(substr) <= MaxSize
  /\ text \in [1 .. text_size -> Char]
  /\ pf \in [0 .. str_size -> Int]
  /\ \A k \in 0 .. str_size : pf[k] >= -1 /\ (k > 0 => pf[k] < k)
  /\ phase \in {"prefix", "scan", "done"}
  /\ i \in Nat /\ (phase = "prefix" => i <= str_size)
  /\ phase # "prefix" => i <= text_size
  /\ pos \in Int /\ pos >= -1
  /\ phase = "prefix" => pos <= i /\ (i # str_size => pos < str_size)
  /\ phase = "scan" => pos < str_size
  /\ found \in BOOLEAN

\* The first l characters of the pattern stand in the text before place n.
Stands(l, n) ==
  /\ l \in 0 .. n
  /\ \A k \in 1 .. l : substr[k] = text[(n - l) + k]

Occurs == \E n \in 0 .. text_size : Stands(str_size, n)

\* What the search answers is true: it overlooks no occurrence, although a
\* mismatch never sends it back in the text, and it makes none up.
FoundIffOccurs == phase = "done" => (found <=> Occurs)
=============================================================================

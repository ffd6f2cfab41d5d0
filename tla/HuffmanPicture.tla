---------------------------- MODULE HuffmanPicture ----------------------------
(***************************************************************************)
(* A picture from the host to the screen with Huffman codes:               *)
(* utilities/huffman_encode/huffman_encode.cpp builds the tree and writes  *)
(* the codes, pictures/display_picture_huffman.cpp reads them, whole bytes *)
(* with a table of two steps of the tree (pictures/huffman_pic.h), the     *)
(* last ones digit by digit, and draws the picture line by line.           *)
(*                                                                         *)
(* A digit is the number of a branch, two bits in the code; a byte holds   *)
(* four.  Inner vertices are numbered from 1, so the root is inner_cnt.    *)
(* The picture in the flash is not damaged (picture_size is sz).           *)
(***************************************************************************)
EXTENDS Integers, FiniteSetsExt, SequencesExt

CONSTANTS
  symbol_cnt,        \* 256, the values of a byte of the picture
  branches,          \* 4
  line_size,         \* the bytes of a line, x_size_in_bytes
  Pictures           \* bound: the pictures

Symbol == 0 .. symbol_cnt - 1
inner_cnt == (symbol_cnt - 1) \div (branches - 1)
Inner == 1 .. inner_cnt
Digit == 1 .. branches

HuffmanAssumption ==
  /\ symbol_cnt \in Nat /\ branches \in Nat \ {0, 1}
  /\ inner_cnt * (branches - 1) = symbol_cnt - 1 /\ inner_cnt > 0
  /\ line_size \in Nat /\ line_size >= 4
  /\ Pictures \subseteq Seq(Symbol)
  /\ \A p \in Pictures : p # <<>> /\ Len(p) % line_size = 0

VARIABLES
  picture,           \* chosen once
  tree, digits,      \* vertex, and what follows it in the file
  ptr,               \* how many digits have been read
  state, in_line,    \* in_line: the first in_line_ptr bytes of symbol
  shown, ended       \* the lines on the screen

file == <<picture, tree, digits>>
vars == <<file, ptr, state, in_line, shown, ended>>

(***************************************************************************)
(* build_tree                                                              *)
(***************************************************************************)
Frequency(p, v) == Cardinality({k \in DOMAIN p : p[k] = v})

\* A vertex that has no parent yet: its frequency and its number, which is
\* symbol_cnt and more for inner ones.
Rarer(a, b) == a[1] < b[1] \/ (a[1] = b[1] /\ a[2] < b[2])

Child(number) ==
  IF number < symbol_cnt
    THEN [is_term |-> 1, next |-> inner_cnt, value |-> number]
    ELSE [is_term |-> 0, next |-> (number - symbol_cnt) + 1, value |-> -1]

Joined(t) ==
  LET taken == SubSeq(SetToSortSeq(t.free, Rarer), 1, branches)
      sum   == FoldLeft(LAMBDA n, v : n + v[1], 0, taken)
  IN [free   |-> (t.free \ ToSet(taken)) \cup {<<sum, symbol_cnt + Len(t.vertex)>>},
      vertex |-> Append(t.vertex, [d \in Digit |-> Child(taken[d][2])])]

build_tree(p) ==
  FoldLeft(LAMBDA t, i : Joined(t),
           [free |-> {<<Frequency(p, v), v>> : v \in Symbol}, vertex |-> <<>>],
           [i \in Inner |-> i]).vertex

(***************************************************************************)
(* compress: the way up from a symbol, in reverse.                         *)
(***************************************************************************)
ParentOf(t, child) ==
  CHOOSE at \in Inner \X Digit : t[at[1]][at[2]] = child

CodeOf(t, v) ==
  LET WayTo[i \in Inner] ==
        IF i = inner_cnt THEN <<>>
        ELSE LET at == ParentOf(t, [is_term |-> 0, next |-> i, value |-> -1])
             IN Append(WayTo[at[1]], at[2])
      last == ParentOf(t, Child(v))
  IN Append(WayTo[last[1]], last[2])

compress(p, t) ==
  LET code == [v \in Symbol |-> CodeOf(t, v)]
  IN FlattenSeq([k \in DOMAIN p |-> code[p[k]]])

Init ==
  /\ picture \in Pictures
  /\ tree = build_tree(picture)
  /\ digits = compress(picture, tree)
  /\ ptr = 0 /\ state = inner_cnt
  /\ in_line = <<>>
  /\ shown = <<>> /\ ended = FALSE

(***************************************************************************)
(* huffman_unp_pass_2: two steps of the tree at once.  values has room for *)
(* two; the second overwrites the first if that is none.                   *)
(***************************************************************************)
SecondStays(s0, s1) == <<s0.value, s1.value>>       \* mutant: none is kept
Values(s0, s1) ==
  IF s0.is_term = 1 THEN <<s0.value, s1.value>> ELSE <<s1.value, s1.value>>

TwoSteps(s, d0, d1) ==
  LET s0 == tree[s][d0]
      s1 == tree[s0.next][d1]
  IN [next   |-> s1.next,
      values |-> SubSeq(Values(s0, s1), 1, s0.is_term + s1.is_term)]

LineIsLast == (Len(shown) + 1) * line_size = Len(picture)

\* write_region shows a line, and says whether it is the last one.
write_region(bytes) ==
  /\ shown' = Append(shown, SubSeq(bytes, 1, line_size))
  /\ ended' = LineIsLast

\* Four digits.  What is behind a full line is the begin of the next.
DrawByte ==
  /\ ~ended /\ ptr + 4 <= Len(digits)
  /\ LET a == TwoSteps(state, digits[ptr + 1], digits[ptr + 2])
         b == TwoSteps(a.next, digits[ptr + 3], digits[ptr + 4])
         bytes == in_line \o a.values \o b.values
     IN /\ state' = b.next
        /\ IF Len(bytes) >= line_size
             THEN /\ write_region(bytes)
                  /\ in_line' = SubSeq(bytes, line_size + 1, Len(bytes))
             ELSE in_line' = bytes /\ UNCHANGED <<shown, ended>>
  /\ ptr' = ptr + 4
  /\ UNCHANGED file

\* One of the last digits.
DrawDigit ==
  /\ ~ended /\ ptr + 4 > Len(digits) /\ ptr < Len(digits)
  /\ LET s == tree[state][digits[ptr + 1]]
         bytes == IF s.is_term = 1 THEN Append(in_line, s.value) ELSE in_line
     IN /\ state' = s.next
        /\ IF Len(bytes) = line_size
             THEN write_region(bytes) /\ in_line' = <<>>
             ELSE in_line' = bytes /\ UNCHANGED <<shown, ended>>
  /\ ptr' = ptr + 1
  /\ UNCHANGED file

Next == DrawByte \/ DrawDigit

Spec == Init /\ [][Next]_vars

(***************************************************************************)
(* Properties.                                                             *)
(***************************************************************************)

\* The reader is in an inner vertex and within the file, and a line is drawn as
\* soon as it is full: what a byte adds, at most four, has room in pixel.
TypeOK ==
  /\ state \in Inner
  /\ ptr \in 0 .. Len(digits)
  /\ in_line \in Seq(Symbol) /\ Len(in_line) < line_size
  /\ ended \in BOOLEAN

\* Whatever the picture, its lines are on the screen as they were, also those
\* that end within a byte of the file or within a code, and when the file has
\* been read all of them are.
PictureShown ==
  /\ FlattenSeq(shown) = SubSeq(picture, 1, Len(shown) * line_size)
  /\ ended \/ ptr = Len(digits) => Len(shown) * line_size = Len(picture)
=============================================================================

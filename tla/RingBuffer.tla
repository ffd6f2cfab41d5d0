----------------------------- MODULE RingBuffer -----------------------------
(***************************************************************************)
(* The ring of utilities/ring_buffer: a queue of bytes whose places have   *)
(* numbers that never change while the byte is in it.  The first byte has  *)
(* number offset_in_history; erase moves it on, and add starts the numbers *)
(* again from zero when they would grow past HistoryMax and returns by how *)
(* much its caller has to lower the numbers it keeps.                      *)
(*                                                                         *)
(* A cell that holds no byte of the queue is junk: fresh memory in the     *)
(* code, or a byte that was erased.                                        *)
(***************************************************************************)
EXTENDS Integers, Sequences

CONSTANTS
  Byte,
  junk,              \* what a cell outside the queue holds
  size_inc_value,    \* cells to spare in a new allocation (2048, 16)
  HistoryMax         \* half of the largest size_t

ASSUME RingAssumption ==
  /\ junk \notin Byte
  /\ size_inc_value \in Nat \ {0}
  /\ HistoryMax \in Nat \ {0}

Ring(data, capacity, begin_v, size_v, offset_in_history) ==
  [data |-> data, capacity |-> capacity, begin_v |-> begin_v,
   size_v |-> size_v, offset_in_history |-> offset_in_history]

EmptyRing == Ring([c \in {} |-> junk], 0, 0, 0, 0)

begin(r) == r.offset_in_history
end(r) == r.size_v + r.offset_in_history

Wrap(r, x) == IF x >= r.capacity THEN x - r.capacity ELSE x

\* Cells from cell a on to cell c.
Ahead(r, a, c) == IF c >= a THEN c - a ELSE c - a + r.capacity

\* The byte with number pos, and the bytes from number pos on.
Get(r, pos) == r.data[Wrap(r, pos - r.offset_in_history + r.begin_v)]
From(r, pos) == [i \in 1 .. end(r) - pos |-> Get(r, pos + i - 1)]

realloc(r, size_diff) ==
  LET new_capacity == r.size_v + size_diff + size_inc_value
      cells == [c \in 0 .. new_capacity - 1 |->
                  IF c < r.size_v THEN Get(r, begin(r) + c) ELSE junk]
  IN Ring(cells, new_capacity, 0, r.size_v, r.offset_in_history)

\* The ring with room for n more bytes.
Grown(r, n) == IF r.capacity - r.size_v < n THEN realloc(r, n) ELSE r

\* The bytes v are copied behind the last one, the rest of them to cell 0,
\* and the first byte has number o.
Stored(r, v, o) ==
  LET first == Wrap(r, r.begin_v + r.size_v)
      cells == [c \in DOMAIN r.data |->
                  IF Ahead(r, first, c) < Len(v)
                    THEN v[Ahead(r, first, c) + 1] ELSE r.data[c]]
  IN Ring(cells, r.capacity, r.begin_v, r.size_v + Len(v), o)

\* What add returns.
AddDiff(r, v) ==
  IF end(r) + Len(v) >= HistoryMax THEN r.offset_in_history ELSE 0

add(r, v) ==
  Stored(Grown(r, Len(v)), v, r.offset_in_history - AddDiff(r, v))

Dropped(r, n) ==
  Ring([c \in DOMAIN r.data |->
          IF Ahead(r, r.begin_v, c) < n THEN junk ELSE r.data[c]],
       r.capacity, Wrap(r, r.begin_v + n), r.size_v - n, r.offset_in_history + n)

\* Memory that the queue has shrunk out of is given back.
Trimmed(r) ==
  IF r.size_v + 2 * size_inc_value < r.capacity THEN realloc(r, 0) ELSE r

erase(r, n) == Trimmed(Dropped(r, n))

\* The bytes that one call of the socket's write is given: up to the last
\* byte or the last cell.
WriteCount(r, pos) ==
  LET cell == Wrap(r, pos - r.offset_in_history + r.begin_v)
      left == end(r) - pos
  IN IF cell + left > r.capacity THEN r.capacity - cell ELSE left

Given(r, pos) ==
  LET cell == Wrap(r, pos - r.offset_in_history + r.begin_v) IN
  [i \in 1 .. WriteCount(r, pos) |->
     IF cell + i - 1 \in DOMAIN r.data THEN r.data[cell + i - 1] ELSE junk]

\* The fields of a ring, and the bytes of the queue in its cells.
RingTypeOK(r) ==
  /\ r = Ring(r.data, r.capacity, r.begin_v, r.size_v, r.offset_in_history)
  /\ r.capacity \in Nat /\ r.size_v \in Nat /\ r.begin_v \in Nat
  /\ r.offset_in_history \in Nat
  /\ r.data \in [0 .. r.capacity - 1 -> Byte \cup {junk}]
  /\ r.size_v <= r.capacity
  /\ r.begin_v < r.capacity \/ (r.begin_v = 0 /\ r.capacity = 0)
  /\ \A pos \in begin(r) .. end(r) - 1 : Get(r, pos) \in Byte
=============================================================================

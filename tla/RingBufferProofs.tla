--------------------------- MODULE RingBufferProofs ---------------------------
(***************************************************************************)
(* What the operations of the ring do to the queue of bytes it holds, for  *)
(* every ring: growth and shrinking keep every byte under its number, add  *)
(* puts the new bytes behind, erase takes bytes from the front only.       *)
(***************************************************************************)
EXTENDS RingBuffer, SequenceTheorems, TLAPS

\* Cells ahead of the last byte are those behind the first one.
LEMMA Circle ==
  ASSUME NEW c \in Nat, NEW b \in Nat, NEW s \in Nat, NEW n \in Nat, NEW i \in Nat,
         b < c, s + n <= c
  PROVE  LET W(x) == IF x >= c THEN x - c ELSE x
             A(x, y) == IF y >= x THEN y - x ELSE y - x + c
         IN /\ i < s => ~(A(W(b + s), W(i + b)) < n)
            /\ i < n => A(W(b + s), W(s + i + b)) = i
  OBVIOUS

\* Going round from the begin moved by n is going round from the begin.
LEMMA WrapTwice ==
  ASSUME NEW c \in Nat, NEW b \in Nat, b < c, NEW n \in Nat, NEW i \in Nat,
         n <= i, i < c, NEW w,
         w = IF b + n >= c THEN (b + n) - c ELSE b + n
  PROVE  (IF (i - n) + w >= c THEN ((i - n) + w) - c ELSE (i - n) + w)
           = (IF i + b >= c THEN (i + b) - c ELSE i + b)
  OBVIOUS

\* A place in the queue, counted from its first byte, is one cell.
LEMMA CellOf ==
  ASSUME NEW r, RingTypeOK(r), NEW i \in Nat, i < r.capacity
  PROVE  /\ Wrap(r, i + r.begin_v) \in 0 .. r.capacity - 1
         /\ Ahead(r, r.begin_v, Wrap(r, i + r.begin_v)) = i
  BY DEF RingTypeOK, Wrap, Ahead

\* A place keeps its distance from the first byte when all numbers fall by d.
LEMMA PlaceAfterShift ==
  ASSUME NEW b \in Nat, NEW s \in Nat, NEW d \in Int, NEW pos \in b .. (s + b) - 1
  PROVE  /\ pos - b \in 0 .. s - 1
         /\ (b - d) + (pos - b) = pos - d
         /\ b + (pos - b) = pos
  OBVIOUS

\* realloc: the allocation changes and nothing that a caller can see.
LEMMA ReallocKeeps ==
  ASSUME NEW r, RingTypeOK(r), NEW d \in Nat
  PROVE  LET q == realloc(r, d) IN
         /\ RingTypeOK(q)
         /\ begin(q) = begin(r) /\ end(q) = end(r) /\ q.size_v = r.size_v
         /\ q.capacity = r.size_v + d + size_inc_value
         /\ \A pos \in begin(r) .. end(r) - 1 : Get(q, pos) = Get(r, pos)
  <1> DEFINE q == realloc(r, d)
             n == r.size_v + d + size_inc_value
             cells == [c \in 0 .. n - 1 |->
                        IF c < r.size_v THEN Get(r, begin(r) + c) ELSE junk]
  <1>1. /\ r.size_v \in Nat /\ r.offset_in_history \in Nat /\ n \in Nat
        /\ n > r.size_v
    BY RingAssumption DEF RingTypeOK
  <1>2. q = Ring(cells, n, 0, r.size_v, r.offset_in_history)
    BY DEF realloc
  <1>3. begin(q) = begin(r) /\ end(q) = end(r) /\ q.size_v = r.size_v
        /\ q.capacity = n /\ q.begin_v = 0 /\ q.data = cells
        /\ q.offset_in_history = r.offset_in_history
    BY <1>2 DEF begin, end, Ring
  <1>4. ASSUME NEW pos \in begin(r) .. end(r) - 1
        PROVE  Get(q, pos) = Get(r, pos)
    <2>1. /\ pos - r.offset_in_history \in 0 .. n - 1
          /\ pos - r.offset_in_history < r.size_v
          /\ begin(r) + (pos - r.offset_in_history) = pos
      BY <1>1 DEF begin, end
    <2>2. Wrap(q, pos - r.offset_in_history + 0) = pos - r.offset_in_history
      BY <2>1, <1>1, <1>3 DEF Wrap
    <2> QED
      BY <2>1, <2>2, <1>3 DEF Get
  <1>5. cells \in [0 .. n - 1 -> Byte \cup {junk}]
    <2> SUFFICES ASSUME NEW c \in 0 .. n - 1, c < r.size_v
                 PROVE  Get(r, begin(r) + c) \in Byte
      OBVIOUS
    <2>1. begin(r) + c \in begin(r) .. end(r) - 1
      BY <1>1 DEF begin, end
    <2> QED
      BY <2>1 DEF RingTypeOK
  <1>6. \A pos \in begin(q) .. end(q) - 1 : Get(q, pos) \in Byte
    BY <1>3, <1>4 DEF RingTypeOK
  <1>7. RingTypeOK(q)
    <2> HIDE DEF n, cells
    <2>1. q.data \in [0 .. q.capacity - 1 -> Byte \cup {junk}]
      BY <1>3, <1>5
    <2>2. q = Ring(q.data, q.capacity, q.begin_v, q.size_v, q.offset_in_history)
      BY <1>2, <1>3
    <2> HIDE DEF q
    <2>3. /\ q.capacity \in Nat /\ q.size_v \in Nat /\ q.begin_v \in Nat
          /\ q.offset_in_history \in Nat /\ q.size_v <= q.capacity
          /\ q.begin_v < q.capacity
      BY <1>1, <1>3
    <2>4. q.begin_v < q.capacity \/ (q.begin_v = 0 /\ q.capacity = 0)
      BY <2>3
    <2> QED
      BY <1>6, <2>1, <2>2, <2>3, <2>4, Zenon DEF RingTypeOK
  <1> QED
    BY <1>3, <1>4, <1>7

\* Where there is room the bytes v come behind those of the queue.
LEMMA StoredAdds ==
  ASSUME NEW r, RingTypeOK(r), NEW v \in Seq(Byte), NEW o \in Nat,
         r.capacity # 0, r.size_v + Len(v) <= r.capacity
  PROVE  LET q == Stored(r, v, o) IN
         /\ RingTypeOK(q)
         /\ begin(q) = o /\ q.size_v = r.size_v + Len(v)
         /\ q.capacity = r.capacity
         /\ \A i \in 0 .. r.size_v - 1 : Get(q, o + i) = Get(r, begin(r) + i)
         /\ \A i \in 1 .. Len(v) : Get(q, end(q) - Len(v) + i - 1) = v[i]
  <1> DEFINE q == Stored(r, v, o)
             first == Wrap(r, r.begin_v + r.size_v)
             cells == [c \in DOMAIN r.data |->
                        IF Ahead(r, first, c) < Len(v)
                          THEN v[Ahead(r, first, c) + 1] ELSE r.data[c]]
  <1>1. /\ r.size_v \in Nat /\ r.offset_in_history \in Nat /\ r.capacity \in Nat
        /\ r.begin_v \in Nat /\ r.begin_v < r.capacity /\ Len(v) \in Nat
        /\ DOMAIN r.data = 0 .. r.capacity - 1
    BY DEF RingTypeOK
  <1>2. q = Ring(cells, r.capacity, r.begin_v, r.size_v + Len(v), o)
    BY DEF Stored
  <1>3. /\ begin(q) = o /\ end(q) = r.size_v + Len(v) + o
        /\ q.size_v = r.size_v + Len(v) /\ q.data = cells
        /\ q.capacity = r.capacity /\ q.begin_v = r.begin_v
        /\ q.offset_in_history = o
    BY <1>1, <1>2 DEF begin, end, Ring
  <1>5. ASSUME NEW i \in Nat, i < r.size_v
        PROVE  ~(Ahead(r, first, Wrap(r, i + r.begin_v)) < Len(v))
    BY <1>1, <1>5, Circle DEF Wrap, Ahead
  <1>6. ASSUME NEW i \in Nat, i < Len(v)
        PROVE  Ahead(r, first, Wrap(r, r.size_v + i + r.begin_v)) = i
    BY <1>1, <1>6, Circle DEF Wrap, Ahead
  <1>7. ASSUME NEW i \in 0 .. r.size_v - 1
        PROVE  Get(q, o + i) = Get(r, begin(r) + i)
    <2>1. i \in Nat /\ i < r.size_v /\ i < r.capacity
      BY <1>1
    <2>2. Wrap(r, i + r.begin_v) \in 0 .. r.capacity - 1
      BY <2>1, CellOf
    <2>3. Get(q, o + i) = cells[Wrap(r, i + r.begin_v)]
      <3>1. (o + i) - o + r.begin_v = i + r.begin_v
        BY <1>1
      <3>2. Get(q, o + i) = cells[Wrap(q, (o + i) - o + r.begin_v)]
        BY <1>3 DEF Get
      <3> QED
        BY <3>1, <3>2, <1>3 DEF Wrap
    <2>4. Get(r, begin(r) + i) = r.data[Wrap(r, i + r.begin_v)]
      <3>1. (r.offset_in_history + i) - r.offset_in_history = i
        BY <1>1
      <3> QED
        BY <3>1 DEF Get, begin
    <2> HIDE DEF q
    <2> QED
      BY <2>1, <2>2, <2>3, <2>4, <1>1, <1>5
  <1>8. ASSUME NEW i \in 1 .. Len(v)
        PROVE  Get(q, end(q) - Len(v) + i - 1) = v[i]
    <2>1. /\ i - 1 \in Nat /\ i - 1 < Len(v) /\ r.size_v + (i - 1) < r.capacity
          /\ r.size_v + (i - 1) \in Nat /\ (i - 1) + 1 = i
      BY <1>1
    <2>2. Wrap(r, r.size_v + (i - 1) + r.begin_v) \in 0 .. r.capacity - 1
      BY <2>1, CellOf
    <2>3. Get(q, end(q) - Len(v) + i - 1)
            = cells[Wrap(r, r.size_v + (i - 1) + r.begin_v)]
      <3>1. (end(q) - Len(v) + i - 1) - o + r.begin_v
              = r.size_v + (i - 1) + r.begin_v
        BY <1>1, <1>3
      <3>2. Get(q, end(q) - Len(v) + i - 1)
              = cells[Wrap(q, (end(q) - Len(v) + i - 1) - o + r.begin_v)]
        BY <1>3 DEF Get
      <3> QED
        BY <3>1, <3>2, <1>3 DEF Wrap
    <2>4. Ahead(r, first, Wrap(r, r.size_v + (i - 1) + r.begin_v)) = i - 1
      BY <2>1, <1>6
    <2> HIDE DEF first, q
    <2>5. cells[Wrap(r, r.size_v + (i - 1) + r.begin_v)] = v[i]
      BY <2>1, <2>2, <2>4, <1>1
    <2> HIDE DEF cells
    <2> QED
      BY <2>3, <2>5
  <1>9. cells \in [0 .. r.capacity - 1 -> Byte \cup {junk}]
    <2> SUFFICES ASSUME NEW c \in 0 .. r.capacity - 1
                 PROVE  (IF Ahead(r, first, c) < Len(v)
                           THEN v[Ahead(r, first, c) + 1] ELSE r.data[c])
                          \in Byte \cup {junk}
      BY <1>1
    <2>1. r.data[c] \in Byte \cup {junk}
      BY DEF RingTypeOK
    <2>2. CASE Len(v) = 0
      <3>1. Ahead(r, first, c) >= 0
        BY <1>1 DEF Ahead, Wrap
      <3> QED
        BY <2>1, <2>2, <3>1, <1>1 DEF Ahead, Wrap
    <2>3. CASE Len(v) # 0
      <3>1. Ahead(r, first, c) \in Nat
        BY <2>3, <1>1 DEF Ahead, Wrap
      <3> HIDE DEF first
      <3>2. CASE Ahead(r, first, c) < Len(v)
        <4>1. Ahead(r, first, c) + 1 \in 1 .. Len(v)
          BY <3>1, <3>2, <1>1
        <4> QED
          BY <3>2, <4>1
      <3> QED
        BY <2>1, <3>2
    <2> QED
      BY <2>2, <2>3
  <1>10. \A pos \in begin(q) .. end(q) - 1 : Get(q, pos) \in Byte
    <2> SUFFICES ASSUME NEW pos \in begin(q) .. end(q) - 1
                 PROVE  Get(q, pos) \in Byte
      OBVIOUS
    <2> HIDE DEF q
    <2>1. CASE pos < o + r.size_v
      <3>1. pos - o \in 0 .. r.size_v - 1 /\ o + (pos - o) = pos
        BY <2>1, <1>1, <1>3
      <3>2. begin(r) + (pos - o) \in begin(r) .. end(r) - 1
        BY <3>1, <1>1, SMTT(60) DEF begin, end
      <3> QED
        BY <3>1, <3>2, <1>7 DEF RingTypeOK
    <2>2. CASE pos >= o + r.size_v
      <3>1. /\ pos - o - r.size_v + 1 \in 1 .. Len(v)
            /\ end(q) - Len(v) + (pos - o - r.size_v + 1) - 1 = pos
        BY <2>2, <1>1, <1>3, SMTT(60)
      <3> QED
        BY <3>1, <1>8
    <2>3. pos < o + r.size_v \/ pos >= o + r.size_v
      BY <1>1, <1>3
    <2> QED
      BY <2>1, <2>2, <2>3
  <1>11. RingTypeOK(q)
    <2> HIDE DEF cells
    <2>1. q.data \in [0 .. q.capacity - 1 -> Byte \cup {junk}]
      BY <1>3, <1>9
    <2> HIDE DEF q
    <2> QED
      BY <1>1, <1>2, <1>3, <1>10, <2>1 DEF RingTypeOK
  <1> QED
    BY <1>3, <1>7, <1>8, <1>11

\* The n first bytes go and the others keep their numbers.
LEMMA DroppedKeeps ==
  ASSUME NEW r, RingTypeOK(r), NEW n \in 0 .. r.size_v
  PROVE  LET q == Dropped(r, n) IN
         /\ RingTypeOK(q)
         /\ begin(q) = begin(r) + n /\ end(q) = end(r)
         /\ q.size_v = r.size_v - n /\ q.capacity = r.capacity
         /\ \A pos \in begin(q) .. end(q) - 1 : Get(q, pos) = Get(r, pos)
  <1> DEFINE q == Dropped(r, n)
             cells == [c \in DOMAIN r.data |->
                        IF Ahead(r, r.begin_v, c) < n THEN junk ELSE r.data[c]]
  <1>1. /\ r.size_v \in Nat /\ r.offset_in_history \in Nat /\ r.capacity \in Nat
        /\ r.begin_v \in Nat /\ r.size_v <= r.capacity /\ n \in Nat
        /\ n <= r.size_v
        /\ DOMAIN r.data = 0 .. r.capacity - 1
    BY DEF RingTypeOK
  <1>2. r.begin_v < r.capacity \/ (r.begin_v = 0 /\ r.capacity = 0)
    BY DEF RingTypeOK
  <1>3. q = Ring(cells, r.capacity, Wrap(r, r.begin_v + n), r.size_v - n,
                 r.offset_in_history + n)
    BY DEF Dropped
  <1>4. /\ begin(q) = begin(r) + n /\ end(q) = end(r)
        /\ q.size_v = r.size_v - n /\ q.data = cells
        /\ q.capacity = r.capacity /\ q.begin_v = Wrap(r, r.begin_v + n)
        /\ q.offset_in_history = r.offset_in_history + n
    BY <1>1, <1>3 DEF begin, end, Ring
  <1>5. /\ Wrap(r, r.begin_v + n) \in Nat
        /\ \/ Wrap(r, r.begin_v + n) < r.capacity
           \/ (Wrap(r, r.begin_v + n) = 0 /\ r.capacity = 0)
    BY <1>1, <1>2, SMTT(40) DEF Wrap
  <1>6. ASSUME NEW pos \in begin(q) .. end(q) - 1
        PROVE  Get(q, pos) = Get(r, pos)
    <2> DEFINE i == pos - r.offset_in_history
    <2>1. /\ i \in Nat /\ n <= i /\ i < r.size_v /\ i < r.capacity
          /\ pos - q.offset_in_history = i - n
      <3> HIDE DEF cells, q
      <3>1. /\ pos \in Nat /\ r.offset_in_history + n <= pos
            /\ pos < r.offset_in_history + r.size_v
        BY <1>1, <1>4, SMTT(40) DEF begin, end
      <3> QED
        BY <3>1, <1>1, <1>4, SMTT(90)
    <2>2. /\ Wrap(r, i + r.begin_v) \in 0 .. r.capacity - 1
          /\ Ahead(r, r.begin_v, Wrap(r, i + r.begin_v)) = i
      BY <2>1, CellOf
    <2>3. Wrap(q, i - n + q.begin_v) = Wrap(r, i + r.begin_v)
      <3> HIDE DEF i, q, cells
      <3>1. r.begin_v < r.capacity
        BY <2>1, <1>1, <1>2
      <3>2. q.begin_v = IF r.begin_v + n >= r.capacity
                          THEN (r.begin_v + n) - r.capacity ELSE r.begin_v + n
        BY <1>4 DEF Wrap
      <3> QED
        BY <2>1, <1>1, <1>4, <3>1, <3>2, WrapTwice, SMTT(60) DEF Wrap
    <2> HIDE DEF i
    <2>4. cells[Wrap(r, i + r.begin_v)] = r.data[Wrap(r, i + r.begin_v)]
      BY <2>1, <2>2, <1>1
    <2>5. Get(q, pos) = cells[Wrap(r, i + r.begin_v)]
      <3> HIDE DEF cells, q
      <3> QED
        BY <2>1, <2>3, <1>4 DEF Get
    <2>6. Get(r, pos) = r.data[Wrap(r, i + r.begin_v)]
      BY DEF Get, i
    <2> QED
      BY <2>4, <2>5, <2>6
  <1>7. cells \in [0 .. r.capacity - 1 -> Byte \cup {junk}]
    BY <1>1 DEF RingTypeOK
  <1>8. \A pos \in begin(q) .. end(q) - 1 : Get(q, pos) \in Byte
    <2> SUFFICES ASSUME NEW pos \in begin(q) .. end(q) - 1
                 PROVE  Get(q, pos) \in Byte
      OBVIOUS
    <2>1. pos \in begin(r) .. end(r) - 1
      BY <1>1, <1>4 DEF begin, end
    <2> QED
      BY <2>1, <1>6 DEF RingTypeOK
  <1>9. RingTypeOK(q)
    <2> HIDE DEF cells
    <2>1. q.data \in [0 .. q.capacity - 1 -> Byte \cup {junk}]
      BY <1>4, <1>7
    <2>2. q = Ring(q.data, q.capacity, q.begin_v, q.size_v, q.offset_in_history)
      BY <1>3, <1>4
    <2> HIDE DEF q
    <2>3. /\ q.capacity \in Nat /\ q.size_v \in Nat /\ q.begin_v \in Nat
          /\ q.offset_in_history \in Nat /\ q.size_v <= q.capacity
      BY <1>1, <1>4, <1>5
    <2>4. q.begin_v < q.capacity \/ (q.begin_v = 0 /\ q.capacity = 0)
      BY <1>4, <1>5
    <2> QED
      BY <1>8, <2>1, <2>2, <2>3, <2>4, Zenon DEF RingTypeOK
  <1> QED
    BY <1>4, <1>6, <1>9

\* erase takes n bytes from the front, and the memory that is left follows the
\* size of the queue, whatever it was before.
THEOREM EraseKeeps ==
  ASSUME NEW r, RingTypeOK(r), NEW n \in 0 .. r.size_v
  PROVE  LET q == erase(r, n) IN
         /\ RingTypeOK(q)
         /\ begin(q) = begin(r) + n /\ end(q) = end(r) /\ q.size_v = r.size_v - n
         /\ q.capacity <= q.size_v + 2 * size_inc_value
         /\ \A pos \in begin(q) .. end(q) - 1 : Get(q, pos) = Get(r, pos)
  <1> DEFINE d == Dropped(r, n)
  <1>1. /\ RingTypeOK(d)
        /\ begin(d) = begin(r) + n /\ end(d) = end(r) /\ d.size_v = r.size_v - n
        /\ \A pos \in begin(d) .. end(d) - 1 : Get(d, pos) = Get(r, pos)
    BY DroppedKeeps
  <1>2. d.size_v \in Nat /\ d.capacity \in Nat
    BY <1>1 DEF RingTypeOK
  <1> HIDE DEF d
  <1>3. CASE d.size_v + 2 * size_inc_value < d.capacity
    <2>1. Trimmed(d) = realloc(d, 0)
      BY <1>3 DEF Trimmed
    <2>2. LET q == realloc(d, 0) IN
          /\ RingTypeOK(q)
          /\ begin(q) = begin(d) /\ end(q) = end(d) /\ q.size_v = d.size_v
          /\ q.capacity = d.size_v + 0 + size_inc_value
          /\ \A pos \in begin(d) .. end(d) - 1 : Get(q, pos) = Get(d, pos)
      BY <1>1, ReallocKeeps
    <2>3. d.size_v + 0 + size_inc_value <= d.size_v + 2 * size_inc_value
      BY <1>2, RingAssumption
    <2> QED
      BY <2>1, <2>2, <2>3, <1>1 DEF erase, d
  <1>4. CASE ~(d.size_v + 2 * size_inc_value < d.capacity)
    <2>1. Trimmed(d) = d
      BY <1>4 DEF Trimmed
    <2>2. d.capacity <= d.size_v + 2 * size_inc_value
      BY <1>2, <1>4, RingAssumption
    <2> QED
      BY <2>1, <2>2, <1>1 DEF erase, d
  <1> QED
    BY <1>3, <1>4

\* add puts v behind the bytes of the queue; every number in use falls by what
\* add returns, and the ring is never larger than it has to be.
THEOREM AddKeeps ==
  ASSUME NEW r, RingTypeOK(r), NEW v \in Seq(Byte), v # <<>>
  PROVE  LET q == add(r, v)
             diff == AddDiff(r, v)
         IN /\ RingTypeOK(q) /\ diff \in 0 .. begin(r)
            /\ begin(q) = begin(r) - diff /\ q.size_v = r.size_v + Len(v)
            /\ end(q) = end(r) - diff + Len(v)
            /\ q.capacity <= r.capacity \/ q.capacity = q.size_v + size_inc_value
            /\ \A pos \in begin(r) .. end(r) - 1 : Get(q, pos - diff) = Get(r, pos)
            /\ \A i \in 1 .. Len(v) : Get(q, end(q) - Len(v) + i - 1) = v[i]
  <1> DEFINE g == Grown(r, Len(v))
             o == r.offset_in_history - AddDiff(r, v)
             q == add(r, v)
  <1>1. /\ r.size_v \in Nat /\ r.offset_in_history \in Nat /\ r.capacity \in Nat
        /\ Len(v) \in Nat /\ Len(v) # 0 /\ r.size_v <= r.capacity
    BY DEF RingTypeOK
  <1>2. AddDiff(r, v) \in 0 .. begin(r) /\ o \in Nat
    BY <1>1 DEF AddDiff, begin
  <1>3. /\ RingTypeOK(g)
        /\ begin(g) = begin(r) /\ end(g) = end(r) /\ g.size_v = r.size_v
        /\ \A pos \in begin(r) .. end(r) - 1 : Get(g, pos) = Get(r, pos)
        /\ g.capacity = r.capacity \/ g.capacity = r.size_v + Len(v) + size_inc_value
        /\ r.size_v + Len(v) <= g.capacity
    <2>1. CASE r.capacity - r.size_v < Len(v)
      <3>1. g = realloc(r, Len(v))
        BY <2>1 DEF Grown
      <3> HIDE DEF g
      <3>2. /\ RingTypeOK(g)
            /\ begin(g) = begin(r) /\ end(g) = end(r) /\ g.size_v = r.size_v
            /\ g.capacity = r.size_v + Len(v) + size_inc_value
            /\ \A pos \in begin(r) .. end(r) - 1 : Get(g, pos) = Get(r, pos)
        BY <3>1, <1>1, ReallocKeeps
      <3>3. r.size_v + Len(v) <= r.size_v + Len(v) + size_inc_value
        BY <1>1, RingAssumption
      <3> QED
        BY <3>2, <3>3
    <2>2. CASE ~(r.capacity - r.size_v < Len(v))
      <3>1. g = r
        BY <2>2 DEF Grown
      <3> HIDE DEF g
      <3> QED
        BY <3>1, <2>2, <1>1
    <2> QED
      BY <2>1, <2>2
  <1>4. g.capacity # 0
    BY <1>1, <1>3 DEF RingTypeOK
  <1>5. q = Stored(g, v, o)
    BY DEF add
  <1> HIDE DEF g, o, q
  <1>6. /\ RingTypeOK(q)
        /\ begin(q) = o /\ q.size_v = g.size_v + Len(v) /\ q.capacity = g.capacity
        /\ \A i \in 0 .. g.size_v - 1 : Get(q, o + i) = Get(g, begin(g) + i)
        /\ \A i \in 1 .. Len(v) : Get(q, end(q) - Len(v) + i - 1) = v[i]
    BY <1>2, <1>3, <1>4, <1>5, StoredAdds
  <1>7. ASSUME NEW pos \in begin(r) .. end(r) - 1
        PROVE  Get(q, pos - AddDiff(r, v)) = Get(r, pos)
    <2>1. /\ r.offset_in_history \in Nat /\ r.size_v \in Nat
          /\ pos \in r.offset_in_history .. (r.size_v + r.offset_in_history) - 1
      BY <1>1, <1>7 DEF begin, end
    <2>2. AddDiff(r, v) \in Int
      BY <1>2, <2>1
    <2>3. /\ pos - r.offset_in_history \in 0 .. r.size_v - 1
          /\ (r.offset_in_history - AddDiff(r, v)) + (pos - r.offset_in_history)
               = pos - AddDiff(r, v)
          /\ r.offset_in_history + (pos - r.offset_in_history) = pos
      BY ONLY <2>1, <2>2, PlaceAfterShift
    <2>4. /\ pos - begin(r) \in 0 .. r.size_v - 1
          /\ o + (pos - begin(r)) = pos - AddDiff(r, v)
          /\ begin(r) + (pos - begin(r)) = pos
      BY ONLY <2>3 DEF begin, o
    <2> QED
      BY <2>4, <1>3, <1>6
  <1>8. begin(q) = begin(r) - AddDiff(r, v)
    BY <1>6 DEF o, begin
  <1>9. end(q) = end(r) - AddDiff(r, v) + Len(v)
    BY <1>1, <1>2, <1>3, <1>6, <1>8 DEF begin, end
  <1>10. q.capacity <= r.capacity \/ q.capacity = q.size_v + size_inc_value
    BY <1>1, <1>3, <1>6
  <1>11. q.size_v = r.size_v + Len(v)
    BY <1>3, <1>6
  <1> QED
    BY <1>2, <1>6, <1>7, <1>8, <1>9, <1>10, <1>11 DEF q

(***************************************************************************)
(* What is read of the ring.                                               *)
(***************************************************************************)
\* Numbers of bytes are naturals.
LEMMA Numbers ==
  ASSUME NEW r, RingTypeOK(r)
  PROVE  /\ begin(r) \in Nat /\ end(r) \in Nat /\ r.size_v \in Nat
         /\ r.capacity \in Nat /\ r.size_v = end(r) - begin(r) /\ begin(r) <= end(r)
  BY DEF RingTypeOK, begin, end

\* Up to the end of the ring there is something to write.
LEMMA CountInHistory ==
  ASSUME NEW r, RingTypeOK(r), NEW pos \in begin(r) .. end(r)
  PROVE  /\ WriteCount(r, pos) \in 0 .. end(r) - pos
         /\ pos # end(r) => WriteCount(r, pos) # 0
  <1>1. /\ r.size_v \in Nat /\ r.offset_in_history \in Nat /\ r.capacity \in Nat
        /\ r.begin_v \in Nat /\ r.size_v <= r.capacity
        /\ pos - r.offset_in_history \in 0 .. r.size_v
        /\ end(r) - pos = r.size_v - (pos - r.offset_in_history)
        /\ end(r) - pos \in Nat
    BY DEF RingTypeOK, begin, end
  <1>2. r.begin_v < r.capacity \/ (r.begin_v = 0 /\ r.capacity = 0)
    BY DEF RingTypeOK
  <1> DEFINE k == pos - r.offset_in_history
             cell == Wrap(r, k + r.begin_v)
  <1>3. cell \in Nat /\ (cell < r.capacity \/ r.capacity = 0 \/ k = r.capacity)
    <2> HIDE DEF k
    <2> QED
      BY <1>1, <1>2 DEF Wrap, k
  <1>4. k = r.capacity => end(r) - pos = 0
    BY <1>1
  <1>5. r.capacity = 0 => end(r) - pos = 0
    BY <1>1
  <1>6. cell <= r.capacity
    BY <1>1, <1>2, <1>3 DEF Wrap
  <1>7. pos # end(r) => end(r) - pos # 0
    BY <1>1 DEF end
  <1>8. WriteCount(r, pos) = IF cell + (end(r) - pos) > r.capacity
                               THEN r.capacity - cell ELSE end(r) - pos
    BY DEF WriteCount
  <1> HIDE DEF cell, k
  <1> QED
    BY <1>1, <1>3, <1>4, <1>5, <1>6, <1>7, <1>8

\* The bytes that one write is given are the next ones.
LEMMA GivenIsNext ==
  ASSUME NEW r, RingTypeOK(r), NEW pos \in begin(r) .. end(r)
  PROVE  LET given == Given(r, pos) IN
         /\ given = SubSeq(From(r, pos), 1, Len(given)) /\ Len(given) = WriteCount(r, pos)
         /\ pos # end(r) => given # <<>>
  <1> DEFINE k == pos - r.offset_in_history
             cell == Wrap(r, k + r.begin_v)
             n == WriteCount(r, pos)
             given == Given(r, pos)
             rest == From(r, pos)
  <1>1. /\ RingTypeOK(r) /\ pos \in begin(r) .. end(r)
        /\ begin(r) \in Nat /\ end(r) \in Nat
    BY Numbers
  <1>2. /\ r.size_v \in Nat /\ r.offset_in_history \in Nat
        /\ r.capacity \in Nat /\ r.begin_v \in Nat
        /\ r.size_v <= r.capacity
        /\ DOMAIN r.data = 0 .. r.capacity - 1
    BY <1>1 DEF RingTypeOK
  <1>3. n \in 0 .. end(r) - pos /\ (pos # end(r) => n # 0)
    BY <1>1, CountInHistory
  <1>4. k \in 0 .. r.size_v /\ end(r) - pos = r.size_v - k
        /\ end(r) - pos \in Nat
    BY <1>1, <1>2 DEF begin, end
  <1>5. n = IF cell + (end(r) - pos) > r.capacity
              THEN r.capacity - cell ELSE end(r) - pos
    BY DEF WriteCount
  <1>6. cell \in Nat
    <2> HIDE DEF k
    <2> QED
      BY <1>2, <1>4 DEF Wrap
  <1>7. ASSUME NEW i \in 1 .. n
        PROVE  /\ cell + i - 1 \in DOMAIN r.data
               /\ Get(r, pos + i - 1) = r.data[cell + i - 1]
    <2>1. cell + i - 1 \in 0 .. r.capacity - 1
      <3> HIDE DEF cell, n
      <3> QED
        BY <1>2, <1>3, <1>4, <1>5, <1>6
    <2>2. (pos + i - 1) - r.offset_in_history + r.begin_v = k + i - 1 + r.begin_v
      BY <1>1, <1>2, <1>3
    <2>3. k + i - 1 < r.size_v /\ i - 1 \in Nat
      <3> HIDE DEF n, k
      <3> QED
        BY <1>2, <1>3, <1>4
    <2>4. Wrap(r, k + i - 1 + r.begin_v) = cell + i - 1
      <3> HIDE DEF n, k
      <3> QED
        BY <2>1, <2>3, <1>2, <1>4, SMTT(60) DEF Wrap
    <2> HIDE DEF k, cell, n
    <2> QED
      BY <2>1, <2>2, <2>4, <1>2 DEF Get
  <1>8. given = [i \in 1 .. n |-> r.data[cell + i - 1]]
    <2>1. given = [i \in 1 .. n |->
                    IF cell + i - 1 \in DOMAIN r.data
                      THEN r.data[cell + i - 1] ELSE junk]
      BY DEF Given
    <2> HIDE DEF given, n, cell
    <2> QED
      BY <2>1, <1>7
  <1>9. rest = [i \in 1 .. end(r) - pos |-> Get(r, pos + i - 1)]
    BY DEF From
  <1> HIDE DEF given, rest, n, cell, k
  <1>10. Len(given) = n /\ n \in Nat
    BY <1>3, <1>4, <1>8
  <1>11. SubSeq(rest, 1, n) = [i \in 1 .. n |-> rest[i]]
    <2>1. SubSeq(rest, 1, n) = [i \in 1 .. (1 + n - 1) |-> rest[i + 1 - 1]]
      BY <1>10
    <2> QED
      BY <2>1, <1>10
  <1>12. \A i \in 1 .. n : rest[i] = given[i]
    BY <1>3, <1>4, <1>7, <1>8, <1>9
  <1>13. given = SubSeq(rest, 1, Len(given))
    BY <1>8, <1>10, <1>11, <1>12
  <1>14. pos # end(r) => given # <<>>
    BY <1>3, <1>10
  <1> QED
    BY <1>10, <1>13, <1>14 DEF given, rest, n

\* The history from a byte that stays is the same when older bytes go.
LEMMA FromKept ==
  ASSUME NEW r, NEW q, end(q) = end(r), begin(q) \in Nat, end(r) \in Nat,
         \A x \in begin(q) .. end(r) - 1 : Get(q, x) = Get(r, x),
         NEW pos \in begin(q) .. end(r)
  PROVE  From(q, pos) = From(r, pos)
  <1>1. \A i \in 1 .. end(r) - pos : Get(q, pos + i - 1) = Get(r, pos + i - 1)
    <2> SUFFICES ASSUME NEW i \in 1 .. end(r) - pos
                 PROVE  Get(q, pos + i - 1) = Get(r, pos + i - 1)
      OBVIOUS
    <2>1. pos + i - 1 \in begin(q) .. end(r) - 1
      OBVIOUS
    <2> QED
      BY <2>1
  <1> QED
    BY <1>1 DEF From

\* Behind n bytes more of the ring is what is left of it behind them.
LEMMA FromTail ==
  ASSUME NEW r, RingTypeOK(r), NEW pos \in begin(r) .. end(r), NEW n \in 0 .. end(r) - pos
  PROVE  From(r, pos + n) = SubSeq(From(r, pos), n + 1, Len(From(r, pos)))
  <1>0. begin(r) \in Nat /\ end(r) \in Nat /\ pos \in Nat /\ n \in Nat /\ n <= end(r) - pos
    BY Numbers
  <1> DEFINE s == From(r, pos)
             m == end(r) - pos
  <1>1. s = [i \in 1 .. m |-> Get(r, pos + i - 1)]
    BY DEF From
  <1>2. m \in Nat /\ end(r) - (pos + n) = m - n /\ m - n \in Nat
    BY <1>0
  <1> HIDE DEF m, s
  <1>3. Len(s) = m
    BY <1>1, <1>2
  <1>4. SubSeq(s, n + 1, m) = [i \in 1 .. m - n |-> s[i + n]]
    <2>1. SubSeq(s, n + 1, m) = [i \in 1 .. (1 + m - (n + 1)) |-> s[i + (n + 1) - 1]]
      BY <1>2, <1>0
    <2>2. 1 + m - (n + 1) = m - n
      BY <1>2, <1>0
    <2>3. \A i \in 1 .. m - n : i + (n + 1) - 1 = i + n
      BY <1>2, <1>0
    <2> QED
      BY <2>1, <2>2, <2>3
  <1>5. \A i \in 1 .. m - n : s[i + n] = Get(r, (pos + n) + i - 1)
    <2> SUFFICES ASSUME NEW i \in 1 .. m - n
                 PROVE  s[i + n] = Get(r, (pos + n) + i - 1)
      OBVIOUS
    <2>1. i + n \in 1 .. m /\ pos + (i + n) - 1 = (pos + n) + i - 1
      BY <1>2, <1>0
    <2> QED
      BY <2>1, <1>1
  <1>6. From(r, pos + n) = [i \in 1 .. m - n |-> Get(r, (pos + n) + i - 1)]
    BY <1>2 DEF From
  <1>7. From(r, pos + n) = SubSeq(s, n + 1, m)
    BY <1>4, <1>5, <1>6
  <1> QED
    BY <1>3, <1>7 DEF s

\* The history behind a byte is what it was and the bytes that came, though
\* the numbers may have started again.
LEMMA Longer ==
  ASSUME NEW r, RingTypeOK(r), NEW v \in Seq(Byte), v # <<>>,
         NEW pos \in begin(r) .. end(r)
  PROVE  From(add(r, v), pos - AddDiff(r, v)) = From(r, pos) \o v
  <1> DEFINE q == add(r, v)
             diff == AddDiff(r, v)
             n == end(r) - pos
             s == From(r, pos)
  <1>1. /\ begin(r) \in Nat /\ end(r) \in Nat /\ Len(v) \in Nat
        /\ n \in Nat /\ pos \in Nat
    BY Numbers
  <1>2. /\ diff \in 0 .. begin(r) /\ end(q) = end(r) - diff + Len(v)
        /\ \A x \in begin(r) .. end(r) - 1 : Get(q, x - diff) = Get(r, x)
        /\ \A i \in 1 .. Len(v) : Get(q, end(q) - Len(v) + i - 1) = v[i]
    BY AddKeeps
  <1>3. s = [i \in 1 .. n |-> Get(r, pos + i - 1)] /\ Len(s) = n
    BY <1>1 DEF From
  <1> HIDE DEF q, diff, s
  <1>4. end(q) - (pos - diff) = n + Len(v)
    BY <1>1, <1>2
  <1>5. ASSUME NEW i \in 1 .. n + Len(v)
        PROVE  Get(q, (pos - diff) + i - 1) = IF i <= n THEN s[i] ELSE v[i - n]
    <2>1. CASE i <= n
      <3>1. /\ pos + i - 1 \in begin(r) .. end(r) - 1
            /\ (pos + i - 1) - diff = (pos - diff) + i - 1
        BY <2>1, <1>1, <1>2
      <3>2. s[i] = Get(r, pos + i - 1)
        BY <2>1, <1>1, <1>3
      <3>3. Get(q, (pos + i - 1) - diff) = Get(r, pos + i - 1)
        BY <3>1, <1>2
      <3> HIDE DEF n
      <3> QED
        BY ONLY <2>1, <3>1, <3>2, <3>3
    <2>2. CASE ~(i <= n)
      <3>1. /\ i - n \in 1 .. Len(v)
            /\ end(q) - Len(v) + (i - n) - 1 = (pos - diff) + i - 1
        <4>1. /\ end(q) = end(r) - diff + Len(v) /\ diff \in Nat /\ n = end(r) - pos
              /\ i \in Nat /\ i <= n + Len(v)
          BY <1>1, <1>2
        <4> HIDE DEF n
        <4> QED
          BY ONLY <2>2, <4>1, <1>1, SMTT(60)
      <3>2. Get(q, end(q) - Len(v) + (i - n) - 1) = v[i - n]
        BY <3>1, <1>2
      <3> HIDE DEF n
      <3> QED
        BY ONLY <2>2, <3>1, <3>2
    <2> QED
      BY <2>1, <2>2
  <1>6. From(q, pos - diff) = [i \in 1 .. n + Len(v) |-> Get(q, (pos - diff) + i - 1)]
    BY <1>4 DEF From
  <1>7. s \o v = [i \in 1 .. n + Len(v) |-> IF i <= n THEN s[i] ELSE v[i - n]]
    <2>1. s \in Seq(Byte)
      <3>1. \A i \in 1 .. n : s[i] \in Byte
        <4>1. \A i \in 1 .. n : pos + i - 1 \in begin(r) .. end(r) - 1
          BY <1>1
        <4> QED
          BY <1>3, <4>1 DEF RingTypeOK
      <3>2. s = [i \in 1 .. n |-> s[i]]
        BY <1>3
      <3> HIDE DEF n
      <3> QED
        BY <3>1, <3>2, <1>1
    <2>2. /\ s \o v \in Seq(Byte)
          /\ Len(s \o v) = Len(s) + Len(v)
          /\ \A i \in 1 .. Len(s) + Len(v) :
               (s \o v)[i] = IF i <= Len(s) THEN s[i] ELSE v[i - Len(s)]
      BY <2>1, ConcatProperties
    <2>3. s \o v = [i \in 1 .. Len(s \o v) |-> (s \o v)[i]]
      <3> DEFINE w == s \o v
      <3>1. w \in Seq(Byte)
        BY <2>2
      <3> HIDE DEF w
      <3>2. w = [i \in 1 .. Len(w) |-> w[i]]
        BY <3>1
      <3> QED
        BY <3>2 DEF w
    <2> HIDE DEF n
    <2> QED
      BY <2>2, <2>3, <1>3
  <1> HIDE DEF n
  <1>8. From(q, pos - diff) = s \o v
    BY <1>5, <1>6, <1>7
  <1> QED
    BY <1>8 DEF q, diff, s

\* What add lowers the numbers by is the same before it makes room.
LEMMA SameDiff ==
  ASSUME NEW r, NEW v
  PROVE  AddDiff(Grown(r, Len(v)), v) = AddDiff(r, v)
  BY DEF AddDiff, Grown, realloc, end, begin, Ring

\* From any number on there are bytes.
LEMMA FromTyped ==
  ASSUME NEW r, RingTypeOK(r), NEW pos \in begin(r) .. end(r)
  PROVE  From(r, pos) \in Seq(Byte) /\ Len(From(r, pos)) = end(r) - pos
  <1>1. begin(r) \in Nat /\ end(r) \in Nat /\ end(r) - pos \in Nat
    BY Numbers
  <1>2. ASSUME NEW i \in 1 .. end(r) - pos
        PROVE  Get(r, pos + i - 1) \in Byte
    <2>1. pos + i - 1 \in begin(r) .. end(r) - 1
      BY <1>1
    <2> QED
      BY <2>1 DEF RingTypeOK
  <1> QED
    BY <1>1, <1>2 DEF From

\* What a socket takes of what it is given, and what erase leaves of it, are what
\* there was.
LEMMA TakenAndLeft ==
  ASSUME NEW r, RingTypeOK(r), NEW n \in 0 .. WriteCount(r, begin(r))
  PROVE  LET taken == SubSeq(Given(r, begin(r)), 1, n)
             q == erase(r, n)
         IN /\ taken \in Seq(Byte) /\ RingTypeOK(q) /\ begin(q) = begin(r) + n
            /\ taken \o From(q, begin(q)) = From(r, begin(r))
  <1> DEFINE b == begin(r)
             t == From(r, b)
             g == Given(r, b)
             q == erase(r, n)
  <1>1. /\ b \in Nat /\ end(r) \in Nat /\ b \in begin(r) .. end(r)
        /\ r.size_v = end(r) - b /\ r.size_v \in Nat
    BY Numbers
  <1>2. WriteCount(r, b) \in 0 .. end(r) - b
    BY <1>1, CountInHistory
  <1>3. t \in Seq(Byte) /\ Len(t) = end(r) - b
    BY <1>1, FromTyped
  <1>4. g = SubSeq(t, 1, Len(g)) /\ Len(g) = WriteCount(r, b)
    BY <1>1, GivenIsNext
  <1>5. n \in 0 .. end(r) - b /\ n \in 0 .. r.size_v /\ n \in 0 .. Len(t) /\ n <= Len(g)
    BY <1>1, <1>2, <1>3, <1>4
  <1>6. /\ RingTypeOK(q) /\ begin(q) = b + n /\ end(q) = end(r)
        /\ \A pos \in begin(q) .. end(q) - 1 : Get(q, pos) = Get(r, pos)
    BY <1>5, EraseKeeps
  <1>7. From(q, b + n) = SubSeq(t, n + 1, Len(t))
    <2>1. From(r, b + n) = SubSeq(t, n + 1, Len(t))
      BY <1>1, <1>5, FromTail
    <2> DEFINE p == b + n
    <2>2. p \in begin(q) .. end(r) /\ begin(q) \in Nat
      BY <1>1, <1>5, <1>6
    <2> HIDE DEF q, p
    <2>3. From(q, p) = From(r, p)
      BY <1>1, <1>6, <2>2, FromKept
    <2> QED
      BY <2>1, <2>3 DEF p
  <1> HIDE DEF t, g, b, q
  <1>8. SubSeq(g, 1, n) = SubSeq(t, 1, n) /\ SubSeq(t, 1, n) \in Seq(Byte)
    <2> DEFINE m == Len(g)
    <2>1. m \in Nat /\ m <= Len(t) /\ n <= m /\ n \in Nat
      BY <1>1, <1>2, <1>3, <1>4, <1>5
    <2> HIDE DEF m
    <2>2. SubSeq(SubSeq(t, 1, m), 1, n) = SubSeq(t, 1, n)
      BY <1>3, <2>1
    <2>3. SubSeq(t, 1, n) \in Seq(Byte)
      BY <1>3, <2>1
    <2> QED
      BY <1>4, <2>2, <2>3 DEF m
  <1>9. SubSeq(t, 1, n) \o SubSeq(t, n + 1, Len(t)) = t
    <2>1. Len(t) \in Nat /\ n \in 0 .. Len(t)
      BY <1>3, <1>5, LenProperties
    <2>2. 1 \in 1 .. Len(t) + 1 /\ n \in 1 - 1 .. Len(t) /\ Len(t) \in n .. Len(t)
      BY <2>1
    <2>3. SubSeq(t, 1, n) \o SubSeq(t, n + 1, Len(t)) = SubSeq(t, 1, Len(t))
      BY <1>3, <2>2, ConcatAdjacentSubSeq
    <2>4. SubSeq(t, 1, Len(t)) = t
      BY <1>3, SubSeqFull
    <2> QED
      BY <2>3, <2>4
  <1> QED
    BY <1>6, <1>7, <1>8, <1>9 DEF t, g, b, q

==============================================================================

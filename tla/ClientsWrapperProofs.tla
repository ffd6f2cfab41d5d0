------------------------ MODULE ClientsWrapperProofs ------------------------
(***************************************************************************)
(* Theorems about the history of the multiplexing server, for every set of *)
(* clients, every length of the structures and every size of the ring it   *)
(* is kept in: its invariants, and that it implements the broadcast.       *)
(***************************************************************************)
EXTENDS ClientsWrapper, RingBufferProofs, WellFoundedInduction, SequenceTheorems, TLAPS

(***************************************************************************)
(* The least of a set, and the search of append for the structures that    *)
(* have come whole.                                                        *)
(***************************************************************************)

\* A set of naturals has a least member.
LEMMA Least ==
  ASSUME NEW T, T \subseteq Nat, T # {}
  PROVE  \E m \in T : \A n \in T : m <= n
  <1>1. PICK m \in T : \A n \in T : <<n, m>> \notin OpToRel(<, Nat)
    BY NatLessThanWellFounded, WFMin
  <1>2. ASSUME NEW n \in T
        PROVE  m <= n
    <2>1. ~(n < m)
      BY <1>1 DEF OpToRel
    <2> QED
      BY <2>1
  <1> QED
    BY <1>2

Steps(r, p, g) ==
  g = [q \in p .. end(r) |->
         IF q = end(r) \/ q + StructSize[Get(r, q)] > end(r) THEN q
         ELSE g[q + StructSize[Get(r, q)]]]

\* The search is defined: it goes on, so from the end back each place has an
\* outcome.
LEMMA SearchDefined ==
  ASSUME NEW r, RingTypeOK(r), NEW p \in begin(r) .. end(r)
  PROVE  \E g : Steps(r, p, g)
  <1> DEFINE e == end(r)
             Step(q) == q + StructSize[Get(r, q)]
             Stop(q) == q = e \/ Step(q) > e
             Part(n, g) == g = [q \in e - n .. e |->
                                  IF Stop(q) THEN q ELSE g[Step(q)]]
             Bad == {n \in Nat : n <= e - p /\ ~\E g : Part(n, g)}
  <1>1. e \in Nat /\ p \in Nat /\ p <= e
    BY DEF begin, end, RingTypeOK
  <1>2. \A q \in p .. e : ~Stop(q) => Step(q) \in q + 1 .. e
    <2> SUFFICES ASSUME NEW q \in p .. e, ~Stop(q)
                 PROVE  Step(q) \in q + 1 .. e
      OBVIOUS
    <2>1. q \in begin(r) .. end(r) - 1
      BY <1>1 DEF begin, end, RingTypeOK
    <2>2. StructSize[Get(r, q)] \in Nat \ {0}
      BY <2>1, ClientsAssumption DEF RingTypeOK
    <2> QED
      BY <2>2, <1>1
  <1> HIDE DEF Step
  <1>3. Bad = {}
    <2> SUFFICES ASSUME Bad # {}
                 PROVE  FALSE
      OBVIOUS
    <2>1. PICK m \in Bad : \A n \in Bad : m <= n
      <3>1. Bad \in SUBSET Nat
        OBVIOUS
      <3> HIDE DEF Bad
      <3> QED
        BY <3>1, Least
    <2>2. m \in Nat /\ m <= e - p
      OBVIOUS
    <2>3. CASE m = 0
      <3>1. Part(0, [q \in e .. e |-> e])
        BY <1>1
      <3> QED
        BY <2>3, <3>1
    <2>4. CASE m # 0
      <3>1. m - 1 \in Nat /\ m - 1 <= e - p /\ m - 1 \notin Bad
        BY <2>1, <2>2, <2>4, <1>1
      <3>2. PICK g : Part(m - 1, g)
        BY <3>1
      <3> DEFINE h == [q \in e - m .. e |->
                         IF q = e - m
                           THEN (IF Stop(q) THEN q ELSE g[Step(q)])
                           ELSE g[q]]
      <3>3. ASSUME NEW q \in e - m .. e
            PROVE  h[q] = IF Stop(q) THEN q ELSE h[Step(q)]
        <4>1. /\ q \in p .. e
              /\ ~Stop(q) => /\ Step(q) \in e - (m - 1) .. e
                             /\ Step(q) \in e - m .. e
                             /\ Step(q) # e - m
          BY <1>1, <1>2, <2>2
        <4>2. ~Stop(q) => h[Step(q)] = g[Step(q)]
          BY <4>1
        <4>3. CASE q = e - m
          BY <4>2, <4>3
        <4>4. CASE q # e - m
          <5>1. q \in e - (m - 1) .. e
            BY <4>4, <1>1, <2>2
          <5>2. g[q] = IF Stop(q) THEN q ELSE g[Step(q)]
            <6> HIDE DEF Stop
            <6> QED
              BY <3>2, <5>1
          <5> QED
            BY <4>2, <4>4, <5>2
        <4> QED
          BY <4>3, <4>4
      <3>4. Part(m, h)
        <4> HIDE DEF Stop
        <4> QED
          BY <3>3
      <3> QED
        BY <3>4
    <2> QED
      BY <2>3, <2>4
  <1>4. e - p \in Nat /\ e - (e - p) = p
    BY <1>1
  <1>5. PICK g : Part(e - p, g)
    BY <1>3, <1>4
  <1> QED
    BY <1>4, <1>5 DEF Steps, Step

\* append finds the last structure: from there on not a whole one has come.
LEMMA LastFullFound ==
  ASSUME NEW r, RingTypeOK(r), NEW p \in begin(r) .. end(r)
  PROVE  LET l == LastFull(r, p) IN
         /\ l \in p .. end(r)
         /\ l = end(r) \/ l + StructSize[Get(r, l)] > end(r)
  <1> DEFINE f == CHOOSE g : Steps(r, p, g)
             Step(q) == q + StructSize[Get(r, q)]
             Good(q) == /\ f[q] \in q .. end(r)
                        /\ f[q] = end(r) \/ Step(f[q]) > end(r)
             Bad == {n \in Nat : \E q \in p .. end(r) : n = end(r) - q /\ ~Good(q)}
  <1>1. end(r) \in Nat /\ p \in Nat /\ p <= end(r) /\ begin(r) \in Nat /\ begin(r) <= p
    BY DEF begin, end, RingTypeOK
  <1>2. Steps(r, p, f)
    BY SearchDefined
  <1>3. LastFull(r, p) = f[p]
    BY DEF LastFull, Steps
  <1> HIDE DEF f
  <1>4. Bad = {}
    <2> SUFFICES ASSUME Bad # {}
                 PROVE  FALSE
      OBVIOUS
    <2>1. PICK m \in Bad : \A n \in Bad : m <= n
      <3>1. Bad \in SUBSET Nat
        OBVIOUS
      <3> HIDE DEF Bad
      <3> QED
        BY <3>1, Least
    <2>2. PICK q \in p .. end(r) : m = end(r) - q /\ ~Good(q)
      BY <2>1
    <2>3. f[q] = IF q = end(r) \/ Step(q) > end(r) THEN q ELSE f[Step(q)]
      BY <1>2 DEF Steps
    <2>4. CASE q = end(r) \/ Step(q) > end(r)
      BY <2>2, <2>3, <2>4, <1>1
    <2>5. CASE ~(q = end(r) \/ Step(q) > end(r))
      <3>1. q \in begin(r) .. end(r) - 1
        <4>1. q # end(r)
          BY <2>5
        <4> QED
          BY <4>1, <1>1
      <3>2. StructSize[Get(r, q)] \in Nat \ {0}
        BY <3>1, ClientsAssumption DEF RingTypeOK
      <3>3. Step(q) \in q + 1 .. end(r)
        BY <3>2, <2>5, <1>1
      <3>4. Good(Step(q))
        <4>1. end(r) - Step(q) \in Nat /\ end(r) - Step(q) < m /\ Step(q) \in p .. end(r)
          BY <3>3, <2>2, <1>1
        <4>2. end(r) - Step(q) \notin Bad
          BY <4>1, <2>1, <2>2, <1>1
        <4> QED
          BY <4>1, <4>2
      <3>5. f[q] = f[Step(q)]
        BY <2>3, <2>5
      <3> QED
        BY <2>2, <3>3, <3>4, <3>5, <1>1
    <2> QED
      BY <2>4, <2>5
  <1>5. Good(p)
    <2>1. end(r) - p \in Nat /\ p \in p .. end(r)
      BY <1>1
    <2> QED
      BY <2>1, <1>4
  <1> QED
    BY <1>3, <1>5

(***************************************************************************)
(* The inductive invariant.  What append leaves behind last_full_struct_ptr *)
(* is less than a structure, which bounds the history when the slow clients *)
(* have been dropped; within a batch it grows by one read of the player.    *)
(***************************************************************************)

PartIncomplete ==
  \/ last_full_struct_ptr = end(data)
  \/ last_full_struct_ptr + StructSize[Get(data, last_full_struct_ptr)] > end(data)

SizeByTurn ==
  /\ turn = "events" => data.size_v <= max_capacity
  /\ data.size_v <= max_capacity + MaxRead

CapacityFollows == data.capacity <= data.size_v + 2 * size_inc_value

IInv ==
  /\ TypeOK
  /\ LessSizeMatches
  /\ WokenWhenBehind
  /\ PartIncomplete
  /\ SizeByTurn
  /\ CapacityFollows

\* The oldest byte that is needed belongs to a client or to the next one.
LEMMA MinPtrLeast ==
  ASSUME NEW less, NEW lf \in Nat, \A p \in less : p.offset \in Nat
  PROVE  LET m == MinPtr(less, lf) IN
         /\ m \in Nat
         /\ m <= lf /\ \A p \in less : m <= p.offset
         /\ m = lf \/ \E p \in less : m = p.offset
  <1> DEFINE offsets == {p.offset : p \in less} \cup {lf}
  <1>1. offsets \subseteq Nat /\ offsets # {}
    OBVIOUS
  <1>2. \E m \in offsets : \A q \in offsets : m <= q
    <2> HIDE DEF offsets
    <2> QED
      BY <1>1, Least
  <1>3. /\ MinPtr(less, lf) \in offsets
        /\ \A q \in offsets : MinPtr(less, lf) <= q
    <2>1. MinPtr(less, lf) = CHOOSE m \in offsets : \A q \in offsets : m <= q
      BY DEF MinPtr
    <2> HIDE DEF offsets
    <2> QED
      BY <1>2, <2>1
  <1> QED
    BY <1>1, <1>3

\* shrink_to_fit frees nothing that is needed and keeps the memory in bounds.
LEMMA Shrunk ==
  ASSUME RingTypeOK(data), last_full_struct_ptr \in begin(data) .. end(data),
         NEW less, \A p \in less : p.offset \in begin(data) .. end(data),
         shrink_to_fit(less)
  PROVE  /\ RingTypeOK(data')
         /\ end(data') = end(data) /\ begin(data) <= begin(data')
         /\ data'.size_v <= data.size_v
         /\ data'.capacity <= data'.size_v + 2 * size_inc_value
         /\ begin(data') <= last_full_struct_ptr
         /\ \A p \in less : begin(data') <= p.offset
         /\ \/ begin(data') = last_full_struct_ptr
            \/ \E p \in less : begin(data') = p.offset
         /\ \A pos \in begin(data') .. end(data) - 1 : Get(data', pos) = Get(data, pos)
  <1> DEFINE m == MinPtr(less, last_full_struct_ptr)
             n == m - begin(data)
  <1>1. /\ begin(data) \in Nat /\ end(data) \in Nat /\ data.size_v \in Nat
        /\ data.size_v = end(data) - begin(data)
    BY Numbers
  <1>2. /\ m \in Nat
        /\ m <= last_full_struct_ptr /\ \A p \in less : m <= p.offset
        /\ m = last_full_struct_ptr \/ \E p \in less : m = p.offset
    <2>1. last_full_struct_ptr \in Nat /\ \A p \in less : p.offset \in Nat
      BY <1>1
    <2> QED
      BY <2>1, MinPtrLeast
  <1>3. m >= begin(data) /\ m <= end(data)
    BY <1>1, <1>2
  <1> HIDE DEF m
  <1>4. n \in 0 .. data.size_v /\ begin(data) + n = m
    BY <1>1, <1>2, <1>3
  <1>5. data' = erase(data, n)
    BY DEF shrink_to_fit, m
  <1> HIDE DEF n
  <1>6. /\ RingTypeOK(data')
        /\ begin(data') = m /\ end(data') = end(data)
        /\ data'.size_v = data.size_v - n
        /\ data'.capacity <= data'.size_v + 2 * size_inc_value
        /\ \A pos \in begin(data') .. end(data') - 1 : Get(data', pos) = Get(data, pos)
    BY <1>4, <1>5, EraseKeeps
  <1> QED
    BY <1>1, <1>2, <1>3, <1>4, <1>6

LEMMA InitIInv == Init => IInv
  <1> SUFFICES ASSUME Init
               PROVE  IInv
    OBVIOUS
  <1>1. data = Ring([c \in {} |-> junk], 0, 0, 0, 0)
    BY DEF Init, EmptyRing
  <1>2. /\ data.data = [c \in {} |-> junk] /\ data.capacity = 0
        /\ data.begin_v = 0 /\ data.size_v = 0 /\ data.offset_in_history = 0
    BY <1>1 DEF Ring
  <1>3. begin(data) = 0 /\ end(data) = 0
    BY <1>2 DEF begin, end
  <1>4. data.data \in [0 .. data.capacity - 1 -> Byte \cup {junk}]
    <2>1. 0 .. 0 - 1 = {}
      OBVIOUS
    <2> QED
      BY <1>2, <2>1
  <1>5. RingTypeOK(data)
    BY <1>1, <1>2, <1>3, <1>4 DEF RingTypeOK
  <1>6. Clients = {}
    BY DEF Init, Clients
  <1>7. TypeOK
    BY <1>3, <1>5, <1>6 DEF TypeOK, Init, Clients
  <1>8. LessSizeMatches /\ WokenWhenBehind
    BY <1>6 DEF LessSizeMatches, WokenWhenBehind, Init
  <1>9. PartIncomplete
    BY <1>3 DEF PartIncomplete, Init
  <1>10. SizeByTurn /\ CapacityFollows
    BY <1>2, ClientsAssumption, RingAssumption DEF SizeByTurn, CapacityFollows
  <1> QED
    BY <1>7, <1>8, <1>9, <1>10 DEF IInv

\* The clients that less_size lists are those of pointers, in their places.
LEMMA Listed ==
  ASSUME IInv
  PROVE  /\ \A f \in Clients : Pos(pointers[f], f) \in less_size
         /\ \A p \in less_size : /\ p.fd \in Clients
                                  /\ p = Pos(pointers[p.fd], p.fd)
                                  /\ p.offset \in begin(data) .. end(data)
  BY DEF IInv, TypeOK, LessSizeMatches, Pos

\* shrink_to_fit, in a step that leaves the structures alone.
LEMMA ShrinkKeeps ==
  ASSUME IInv, \A p \in less_size' : p.offset \in begin(data) .. end(data),
         shrink_to_fit(less_size'), UNCHANGED last_full_struct_ptr
  PROVE  /\ RingTypeOK(data')
         /\ end(data') = end(data) /\ data'.size_v <= data.size_v
         /\ last_full_struct_ptr' \in begin(data') .. end(data')
         /\ \A p \in less_size' : begin(data') <= p.offset
         /\ PartIncomplete' /\ CapacityFollows'
         /\ \A pos \in begin(data') .. end(data) - 1 : Get(data', pos) = Get(data, pos)
  <1>1. RingTypeOK(data) /\ last_full_struct_ptr \in begin(data) .. end(data)
    BY DEF IInv, TypeOK
  <1>2. begin(data) \in Nat /\ end(data) \in Nat
    BY <1>1, Numbers
  <1>3. /\ RingTypeOK(data')
        /\ end(data') = end(data) /\ begin(data) <= begin(data')
        /\ data'.size_v <= data.size_v
        /\ data'.capacity <= data'.size_v + 2 * size_inc_value
        /\ begin(data') <= last_full_struct_ptr
        /\ \A p \in less_size' : begin(data') <= p.offset
        /\ \A pos \in begin(data') .. end(data) - 1 : Get(data', pos) = Get(data, pos)
    BY <1>1, Shrunk
  <1>4. begin(data') \in Nat
    BY <1>3, Numbers
  <1>5. last_full_struct_ptr \in begin(data') .. end(data')
    BY <1>1, <1>2, <1>3, <1>4
  <1>6. PartIncomplete'
    <2>1. CASE last_full_struct_ptr = end(data)
      BY <2>1, <1>3 DEF PartIncomplete
    <2>2. CASE last_full_struct_ptr # end(data)
      <3>1. last_full_struct_ptr \in begin(data') .. end(data) - 1
        BY <2>2, <1>1, <1>2, <1>3, <1>4
      <3>2. Get(data', last_full_struct_ptr) = Get(data, last_full_struct_ptr)
        BY <3>1, <1>3
      <3> QED
        BY <2>2, <3>2, <1>3 DEF IInv, PartIncomplete
    <2> QED
      BY <2>1, <2>2
  <1> QED
    BY <1>3, <1>5, <1>6 DEF CapacityFollows

\* The part of the invariant about the clients, when the ring was shrunk.
LEMMA ClientsKept ==
  ASSUME IInv, RingTypeOK(data'), end(data') = end(data),
         last_full_struct_ptr' \in begin(data') .. end(data'),
         NEW C \in SUBSET Client,
         pointers' = [f \in C |-> pointers'[f]],
         \A f \in C : pointers'[f] \in begin(data) .. end(data),
         \A f \in C : begin(data') <= pointers'[f],
         less_size' = {Pos(pointers'[f], f) : f \in C},
         polled' = {f \in C : pointers'[f] # end(data)},
         not_registred' = C \ polled',
         turn' \in {"events", "read", "drop"}
  PROVE  TypeOK' /\ LessSizeMatches' /\ WokenWhenBehind'
  <1>1. begin(data) \in Nat /\ end(data) \in Nat /\ begin(data') \in Nat
    BY Numbers DEF IInv, TypeOK
  <1>2. Clients' = C
    BY DEF Clients
  <1>3. \A f \in C : pointers'[f] \in begin(data') .. end(data')
    BY <1>1
  <1>4. pointers' \in [C -> begin(data') .. end(data')]
    BY <1>3
  <1>5. less_size' \subseteq [offset : Nat, fd : Client]
    BY <1>1 DEF Pos
  <1>6. TypeOK'
    BY <1>2, <1>4, <1>5 DEF TypeOK
  <1>7. LessSizeMatches'
    BY <1>2 DEF LessSizeMatches
  <1>8. WokenWhenBehind'
    BY <1>2 DEF WokenWhenBehind
  <1> QED
    BY <1>6, <1>7, <1>8

LEMMA ForgetKeeps ==
  ASSUME IInv, NEW f \in Clients, Forget(f), turn' = turn
  PROVE  IInv'
  <1> DEFINE C == Clients \ {f}
  <1>1. /\ less_size' = {Pos(pointers[g], g) : g \in C}
        /\ \A p \in less_size' : p \in less_size
    <2>1. less_size = {Pos(pointers[g], g) : g \in Clients}
      BY DEF IInv, LessSizeMatches
    <2>2. \A g \in Clients : Pos(pointers[g], g) = Pos(pointers[f], f) => g = f
      BY DEF Pos
    <2> QED
      BY <2>1, <2>2 DEF Forget
  <1>2. \A p \in less_size' : p.offset \in begin(data) .. end(data)
    BY <1>1, Listed
  <1>3. shrink_to_fit(less_size') /\ UNCHANGED last_full_struct_ptr
    BY DEF Forget
  <1>4. /\ RingTypeOK(data')
        /\ end(data') = end(data) /\ data'.size_v <= data.size_v
        /\ last_full_struct_ptr' \in begin(data') .. end(data')
        /\ \A p \in less_size' : begin(data') <= p.offset
        /\ PartIncomplete' /\ CapacityFollows'
    BY <1>2, <1>3, ShrinkKeeps
  <1>5. pointers' = [g \in C |-> pointers[g]]
    BY DEF Forget
  <1>6. \A g \in C : pointers[g] \in begin(data) .. end(data)
    BY DEF IInv, TypeOK
  <1>7. \A g \in C : begin(data') <= pointers[g]
    <2>1. \A g \in C : /\ Pos(pointers[g], g) \in less_size'
                       /\ Pos(pointers[g], g).offset = pointers[g]
      BY <1>1 DEF Pos
    <2> QED
      BY <2>1, <1>4
  <1>8. polled' = {g \in C : pointers[g] # end(data)} /\ not_registred' = C \ polled'
    BY DEF Forget, IInv, WokenWhenBehind
  <1>9. /\ C \in SUBSET Client /\ turn \in {"events", "read", "drop"}
    BY DEF IInv, TypeOK
  <1>10. TypeOK' /\ LessSizeMatches' /\ WokenWhenBehind'
    <2> HIDE DEF C
    <2>1. \A g \in C : pointers'[g] = pointers[g]
      BY <1>5
    <2> QED
      BY <1>1, <1>4, <1>5, <1>6, <1>7, <1>8, <1>9, <2>1, ClientsKept
  <1>11. SizeByTurn'
    <2>1. data.size_v \in Nat /\ data'.size_v \in Nat
      BY <1>4, Numbers DEF IInv, TypeOK
    <2> QED
      BY <2>1, <1>4, ClientsAssumption DEF IInv, SizeByTurn
  <1> QED
    BY <1>4, <1>10, <1>11 DEF IInv

LEMMA RegKeeps ==
  ASSUME IInv, NEW f \in Client, reg(f)
  PROVE  IInv'
  <1> DEFINE C == Clients \cup {f}
             lf == last_full_struct_ptr
  <1>1. f \notin Clients /\ UNCHANGED <<data, last_full_struct_ptr, turn>>
    BY DEF reg
  <1>2. /\ begin(data) \in Nat /\ end(data) \in Nat /\ RingTypeOK(data)
        /\ lf \in begin(data) .. end(data)
    BY Numbers DEF IInv, TypeOK
  <1>3. pointers' = [g \in C |-> IF g = f THEN lf ELSE pointers[g]]
    BY DEF reg
  <1>4. \A g \in C : pointers'[g] \in begin(data) .. end(data)
    BY <1>2, <1>3 DEF IInv, TypeOK
  <1>5. less_size' = {Pos(pointers'[g], g) : g \in C}
    <2>1. less_size = {Pos(pointers[g], g) : g \in Clients}
      BY DEF IInv, LessSizeMatches
    <2>2. less_size' = less_size \cup {Pos(lf, f)}
      BY DEF reg
    <2> QED
      BY <2>1, <2>2, <1>1, <1>3
  <1>6. polled' = {g \in C : pointers'[g] # end(data)} /\ not_registred' = C \ polled'
    <2>1. polled = {g \in Clients : pointers[g] # end(data)} /\ not_registred = Clients \ polled
      BY DEF IInv, WokenWhenBehind
    <2>2. CASE lf # end(data)
      <3>1. polled' = polled \cup {f} /\ not_registred' = not_registred
        BY <2>2 DEF reg, RegMask
      <3> QED
        BY <2>1, <2>2, <3>1, <1>1, <1>3
    <2>3. CASE lf = end(data)
      <3>1. polled' = polled /\ not_registred' = not_registred \cup {f}
        BY <2>3 DEF reg, RegMask
      <3> QED
        BY <2>1, <2>3, <3>1, <1>1, <1>3
    <2> QED
      BY <2>2, <2>3
  <1>7. C \in SUBSET Client /\ turn \in {"events", "read", "drop"}
    BY DEF IInv, TypeOK
  <1>8. TypeOK' /\ LessSizeMatches' /\ WokenWhenBehind'
    <2> HIDE DEF C
    <2>1. pointers' = [g \in C |-> pointers'[g]]
      BY <1>3
    <2>2. \A g \in C : begin(data') <= pointers'[g]
      BY <1>1, <1>2, <1>4
    <2>3. lf' \in begin(data') .. end(data') /\ end(data') = end(data)
      BY <1>1, <1>2
    <2>4. RingTypeOK(data')
      BY <1>1, <1>2
    <2>5. turn' \in {"events", "read", "drop"}
      BY <1>1, <1>7
    <2> QED
      BY <1>4, <1>5, <1>6, <1>7, <2>1, <2>2, <2>3, <2>4, <2>5, ClientsKept
  <1>9. PartIncomplete' /\ SizeByTurn' /\ CapacityFollows'
    BY <1>1 DEF IInv, PartIncomplete, SizeByTurn, CapacityFollows
  <1> QED
    BY <1>8, <1>9 DEF IInv

LEMMA WriteKeeps ==
  ASSUME IInv, NEW f \in Clients, NEW wb, write(f, wb)
  PROVE  IInv'
  <1> DEFINE q == pointers[f] + wb
  <1>1. /\ begin(data) \in Nat /\ end(data) \in Nat /\ RingTypeOK(data)
        /\ pointers \in [Clients -> begin(data) .. end(data)]
        /\ pointers[f] \in begin(data) .. end(data)
    BY Numbers DEF IInv, TypeOK
  <1>2. q \in begin(data) .. end(data)
    <2>1. WriteCount(data, pointers[f]) \in 0 .. end(data) - pointers[f]
      BY <1>1, CountInHistory
    <2>2. wb \in 0 .. WriteCount(data, pointers[f])
      BY DEF write
    <2> QED
      BY <1>1, <2>1, <2>2
  <1>3. pointers' = [pointers EXCEPT ![f] = q]
    BY DEF write
  <1> HIDE DEF q
  <1>4. /\ pointers' = [g \in Clients |-> pointers'[g]]
        /\ \A g \in Clients : pointers'[g] = IF g = f THEN q ELSE pointers[g]
        /\ \A g \in Clients : pointers'[g] \in begin(data) .. end(data)
    BY <1>1, <1>2, <1>3
  <1>5. less_size' = {Pos(pointers'[g], g) : g \in Clients}
    <2>1. less_size = {Pos(pointers[g], g) : g \in Clients}
      BY DEF IInv, LessSizeMatches
    <2>2. less_size' = (less_size \ {Pos(pointers[f], f)}) \cup {Pos(q, f)}
      BY DEF write, q
    <2>3. \A g \in Clients : Pos(pointers[g], g) = Pos(pointers[f], f) => g = f
      BY DEF Pos
    <2> QED
      BY <2>1, <2>2, <2>3, <1>4
  <1>6. /\ polled' = {g \in Clients : pointers'[g] # end(data)}
        /\ not_registred' = Clients \ polled'
    <2>1. polled = {g \in Clients : pointers[g] # end(data)} /\ not_registred = Clients \ polled
      BY DEF IInv, WokenWhenBehind
    <2>2. f \in polled
      BY DEF write
    <2>3. CASE q = end(data)
      <3>1. polled' = polled \ {f} /\ not_registred' = not_registred \cup {f}
        BY <2>3 DEF write, q
      <3> QED
        BY <2>1, <2>2, <2>3, <3>1, <1>4
    <2>4. CASE q # end(data)
      <3>1. polled' = polled /\ not_registred' = not_registred
        BY <2>4 DEF write, q
      <3> QED
        BY <2>1, <2>2, <2>4, <3>1, <1>4
    <2> QED
      BY <2>3, <2>4
  <1>7. /\ shrink_to_fit(less_size') /\ UNCHANGED last_full_struct_ptr
        /\ UNCHANGED turn
    BY DEF write
  <1>8. \A p \in less_size' : p.offset \in begin(data) .. end(data)
    BY <1>4, <1>5 DEF Pos
  <1>9. /\ RingTypeOK(data')
        /\ end(data') = end(data) /\ data'.size_v <= data.size_v
        /\ last_full_struct_ptr' \in begin(data') .. end(data')
        /\ \A p \in less_size' : begin(data') <= p.offset
        /\ PartIncomplete' /\ CapacityFollows'
    BY <1>7, <1>8, ShrinkKeeps
  <1>10. \A g \in Clients : begin(data') <= pointers'[g]
    <2>1. \A g \in Clients : /\ Pos(pointers'[g], g) \in less_size'
                             /\ Pos(pointers'[g], g).offset = pointers'[g]
      BY <1>5 DEF Pos
    <2> QED
      BY <2>1, <1>9
  <1>11. Clients \in SUBSET Client /\ turn' \in {"events", "read", "drop"}
    BY <1>7 DEF IInv, TypeOK
  <1>12. TypeOK' /\ LessSizeMatches' /\ WokenWhenBehind'
    BY <1>4, <1>5, <1>6, <1>9, <1>10, <1>11, ClientsKept
  <1>13. SizeByTurn'
    <2>1. data.size_v \in Nat /\ data'.size_v \in Nat
      BY <1>9, Numbers DEF IInv, TypeOK
    <2> QED
      BY <2>1, <1>7, <1>9, ClientsAssumption DEF IInv, SizeByTurn
  <1> QED
    BY <1>9, <1>12, <1>13 DEF IInv

LEMMA ReadsAreSequences ==
  ASSUME NEW v \in Reads
  PROVE  v \in Seq(Byte) /\ v # <<>> /\ Len(v) \in 1 .. MaxRead
  <1>1. PICK n \in 1 .. MaxRead : v \in [1 .. n -> Byte]
    BY DEF Reads
  <1>2. n \in Nat
    BY ClientsAssumption
  <1>3. v \in Seq(Byte) /\ Len(v) = n
    BY <1>1, <1>2
  <1> QED
    BY <1>1, <1>2, <1>3

LEMMA AppendKeeps ==
  ASSUME IInv, NEW v \in Reads, append(v)
  PROVE  IInv'
  <1> DEFINE diff == AddDiff(data, v)
  <1>1. /\ begin(data) \in Nat /\ end(data) \in Nat /\ RingTypeOK(data)
        /\ data.size_v \in Nat /\ data.capacity \in Nat
        /\ pointers \in [Clients -> begin(data) .. end(data)]
        /\ last_full_struct_ptr \in begin(data) .. end(data)
    BY Numbers DEF IInv, TypeOK
  <1>2. v \in Seq(Byte) /\ v # <<>> /\ Len(v) \in 1 .. MaxRead /\ MaxRead \in Nat
    BY ReadsAreSequences, ClientsAssumption
  <1>3. data' = add(data, v)
    BY DEF append
  <1>4. /\ RingTypeOK(data') /\ diff \in 0 .. begin(data)
        /\ begin(data') = begin(data) - diff
        /\ data'.size_v = data.size_v + Len(v)
        /\ end(data') = end(data) - diff + Len(v)
        /\ data'.capacity <= data.capacity \/ data'.capacity = data'.size_v + size_inc_value
    BY <1>1, <1>2, <1>3, AddKeeps
  <1>5. data'.capacity \in Nat /\ data'.size_v \in Nat
    BY <1>4, Numbers
  <1>6. /\ less_size' = Lowered(diff)
        /\ pointers' = [f \in Clients |-> pointers[f] - diff]
        /\ last_full_struct_ptr' = LastFull(data', last_full_struct_ptr - diff)
    BY DEF append
  <1> HIDE DEF diff
  <1>7. /\ last_full_struct_ptr - diff \in begin(data') .. end(data')
        /\ \A f \in Clients : /\ pointers'[f] \in begin(data') .. end(data')
                              /\ pointers'[f] # end(data')
    BY <1>1, <1>2, <1>4, <1>6, SMTT(60)
  <1>8. /\ last_full_struct_ptr' \in begin(data') .. end(data')
        /\ PartIncomplete'
    <2>1. LET l == LastFull(data', last_full_struct_ptr - diff) IN
          /\ l \in last_full_struct_ptr - diff .. end(data')
          /\ l = end(data') \/ l + StructSize[Get(data', l)] > end(data')
      BY <1>4, <1>7, LastFullFound
    <2>2. begin(data') \in Nat /\ end(data') \in Nat
      BY <1>4, Numbers
    <2>3. last_full_struct_ptr' \in begin(data') .. end(data')
      BY <2>1, <2>2, <1>6, <1>7
    <2>4. PartIncomplete'
      BY <2>1, <1>6 DEF PartIncomplete
    <2> QED
      BY <2>3, <2>4
  <1>9. Clients' = Clients
    BY <1>6 DEF Clients
  <1>10. less_size' = {Pos(pointers'[f], f) : f \in Clients}
    <2>1. less_size = {Pos(pointers[f], f) : f \in Clients}
      BY DEF IInv, LessSizeMatches
    <2>2. \A f \in Clients : /\ Pos(pointers[f], f).offset = pointers[f]
                             /\ Pos(pointers[f], f).fd = f
                             /\ pointers'[f] = pointers[f] - diff
      BY <1>6 DEF Pos
    <2>3. less_size' = {Pos(p.offset - diff, p.fd) : p \in less_size}
      BY <1>6 DEF Lowered
    <2> QED
      BY <2>1, <2>2, <2>3
  <1>11. polled' = Clients /\ not_registred' = {}
    BY DEF append, Woken, IInv, WokenWhenBehind
  <1>12. TypeOK'
    <2>1. pointers' \in [Clients' -> begin(data') .. end(data')]
      BY <1>6, <1>7, <1>9
    <2>2. begin(data') \in Nat
      BY <1>4, Numbers
    <2>3. less_size' \subseteq [offset : Nat, fd : Client]
      <3>1. \A f \in Clients : f \in Client /\ pointers'[f] \in Nat
        BY <2>2, <1>7 DEF IInv, TypeOK
      <3> QED
        BY <3>1, <1>10 DEF Pos
    <2>4. turn' = "read" /\ Clients \subseteq Client
      BY DEF append, IInv, TypeOK
    <2> QED
      BY <2>1, <2>3, <2>4, <1>4, <1>8, <1>9, <1>11 DEF TypeOK
  <1>13. LessSizeMatches'
    BY <1>9, <1>10 DEF LessSizeMatches
  <1>14. WokenWhenBehind'
    BY <1>7, <1>9, <1>11 DEF WokenWhenBehind
  <1>15. SizeByTurn'
    <2>1. turn' = "read" /\ data.size_v <= max_capacity
      BY DEF append, IInv, SizeByTurn
    <2> QED
      BY <2>1, <1>1, <1>2, <1>4, ClientsAssumption DEF SizeByTurn
  <1>16. CapacityFollows'
    <2>1. data.capacity <= data.size_v + 2 * size_inc_value
      BY DEF IInv, CapacityFollows
    <2>2. data.size_v <= data'.size_v /\ size_inc_value \in Nat /\ size_inc_value > 0
      BY <1>1, <1>2, <1>4, RingAssumption
    <2>3. data'.capacity <= data'.size_v + 2 * size_inc_value
      <3>1. CASE data'.capacity <= data.capacity
        BY ONLY <3>1, <2>1, <2>2, <1>1, <1>5
      <3>2. CASE data'.capacity = data'.size_v + size_inc_value
        BY ONLY <3>2, <2>2, <1>5
      <3> QED
        BY <3>1, <3>2, <1>4
    <2> QED
      BY <2>3 DEF CapacityFollows
  <1> QED
    BY <1>8, <1>12, <1>13, <1>14, <1>15, <1>16 DEF IInv

\* When only the ring is shrunk the clients stay as they are.
LEMMA ShrinkOnly ==
  ASSUME IInv, shrink_to_fit(less_size),
         UNCHANGED <<last_full_struct_ptr, pointers, less_size, not_registred, polled>>,
         turn' = "events"
  PROVE  /\ TypeOK' /\ LessSizeMatches' /\ WokenWhenBehind'
         /\ PartIncomplete' /\ CapacityFollows'
         /\ end(data') = end(data) /\ data'.size_v <= data.size_v
         /\ data'.size_v \in Nat
  <1>1. \A p \in less_size' : p.offset \in begin(data) .. end(data)
    BY Listed
  <1>2. /\ RingTypeOK(data')
        /\ end(data') = end(data) /\ data'.size_v <= data.size_v
        /\ last_full_struct_ptr' \in begin(data') .. end(data')
        /\ \A p \in less_size' : begin(data') <= p.offset
        /\ PartIncomplete' /\ CapacityFollows'
    BY <1>1, ShrinkKeeps
  <1>3. \A g \in Clients : begin(data') <= pointers'[g]
    <2>1. \A g \in Clients : /\ Pos(pointers[g], g) \in less_size'
                             /\ Pos(pointers[g], g).offset = pointers[g]
      BY Listed DEF Pos
    <2> QED
      BY <2>1, <1>2
  <1>4. /\ Clients \in SUBSET Client
        /\ pointers' = [g \in Clients |-> pointers'[g]]
        /\ \A g \in Clients : pointers'[g] \in begin(data) .. end(data)
    BY DEF IInv, TypeOK
  <1>5. /\ less_size' = {Pos(pointers'[g], g) : g \in Clients}
        /\ polled' = {g \in Clients : pointers'[g] # end(data)}
        /\ not_registred' = Clients \ polled'
    BY DEF IInv, LessSizeMatches, WokenWhenBehind
  <1>6. TypeOK' /\ LessSizeMatches' /\ WokenWhenBehind'
    BY <1>2, <1>3, <1>4, <1>5, ClientsKept
  <1> QED
    BY <1>2, <1>6, Numbers

LEMMA RemoveKeeps ==
  ASSUME IInv, remove_too_big
  PROVE  IInv'
  <1>1. data.size_v \in Nat
    BY Numbers DEF IInv, TypeOK
  <1>2. UNCHANGED <<last_full_struct_ptr, pointers, less_size, not_registred, polled>>
    BY DEF remove_too_big
  <1>3. CASE data.size_v > max_capacity
    <2>1. turn' = "drop" /\ data' = data
      BY <1>3 DEF remove_too_big
    <2> QED
      BY <2>1, <1>2 DEF IInv, TypeOK, LessSizeMatches, WokenWhenBehind,
                        PartIncomplete, SizeByTurn, CapacityFollows, Clients
  <1>4. CASE ~(data.size_v > max_capacity)
    <2>1. turn' = "events" /\ shrink_to_fit(less_size)
      BY <1>4 DEF remove_too_big
    <2>2. /\ TypeOK' /\ LessSizeMatches' /\ WokenWhenBehind'
          /\ PartIncomplete' /\ CapacityFollows'
          /\ data'.size_v <= data.size_v /\ data'.size_v \in Nat
      BY <2>1, <1>2, ShrinkOnly
    <2>3. SizeByTurn'
      BY <2>2, <1>1, <1>4, ClientsAssumption DEF SizeByTurn
    <2> QED
      BY <2>2, <2>3 DEF IInv
  <1> QED
    BY <1>3, <1>4

LEMMA DropFirstKeeps ==
  ASSUME IInv, DropFirst
  PROVE  IInv'
  <1>1. PICK p \in less_size : Forget(p.fd)
    BY DEF DropFirst
  <1>2. p.fd \in Clients /\ turn' = turn
    BY Listed DEF DropFirst
  <1> QED
    BY <1>1, <1>2, ForgetKeeps

\* After the slow clients have gone the rest of the history fits again.
LEMMA DropEndsKeeps ==
  ASSUME IInv, DropEnds
  PROVE  IInv'
  <1>1. /\ UNCHANGED <<last_full_struct_ptr, pointers, less_size, not_registred, polled>>
        /\ turn' = "events" /\ shrink_to_fit(less_size)
    BY DEF DropEnds
  <1>2. /\ TypeOK' /\ LessSizeMatches' /\ WokenWhenBehind'
        /\ PartIncomplete' /\ CapacityFollows'
    BY <1>1, ShrinkOnly
  <1>3. /\ RingTypeOK(data) /\ last_full_struct_ptr \in begin(data) .. end(data)
        /\ begin(data) \in Nat /\ end(data) \in Nat
    BY Numbers DEF IInv, TypeOK
  <1>4. /\ RingTypeOK(data') /\ end(data') = end(data) /\ begin(data) <= begin(data')
        /\ \A p \in less_size : begin(data') <= p.offset
        /\ \/ begin(data') = last_full_struct_ptr
           \/ \E p \in less_size : begin(data') = p.offset
    <2>1. \A p \in less_size : p.offset \in begin(data) .. end(data)
      BY Listed
    <2> QED
      BY <2>1, <1>1, <1>3, Shrunk
  <1>5. data'.size_v = end(data) - begin(data') /\ begin(data') \in Nat
    BY <1>4, Numbers
  <1>6. data'.size_v <= max_capacity
    <2>1. CASE begin(data') = last_full_struct_ptr
      <3>1. CASE last_full_struct_ptr = end(data)
        BY <2>1, <3>1, <1>3, <1>5, ClientsAssumption
      <3>2. CASE last_full_struct_ptr # end(data)
        <4>1. last_full_struct_ptr \in begin(data) .. end(data) - 1
          BY <3>2, <1>3
        <4>2. Get(data, last_full_struct_ptr) \in Byte
          BY <4>1, <1>3 DEF RingTypeOK
        <4>3. /\ StructSize[Get(data, last_full_struct_ptr)] \in Nat
              /\ StructSize[Get(data, last_full_struct_ptr)] <= max_capacity
          BY <4>2, ClientsAssumption
        <4>4. last_full_struct_ptr + StructSize[Get(data, last_full_struct_ptr)] > end(data)
          BY <3>2 DEF IInv, PartIncomplete
        <4> QED
          BY <4>3, <4>4, <2>1, <1>3, <1>5, ClientsAssumption
      <3> QED
        BY <3>1, <3>2
    <2>2. CASE \E p \in less_size : begin(data') = p.offset
      <3>1. PICK p \in less_size : begin(data') = p.offset
        BY <2>2
      <3>2. FirstPos(p)
        BY <3>1, <1>4 DEF FirstPos
      <3>3. ~(p.offset + max_capacity \div 2 < end(data))
        BY <3>2 DEF DropEnds, TooFarBehind
      <3>4. max_capacity \div 2 \in Nat /\ max_capacity \div 2 <= max_capacity
        BY ClientsAssumption
      <3> QED
        BY <3>1, <3>3, <3>4, <1>3, <1>5, ClientsAssumption
    <2> QED
      BY <2>1, <2>2, <1>4
  <1>7. SizeByTurn'
    BY <1>1, <1>5, <1>6, <1>3, ClientsAssumption DEF SizeByTurn
  <1> QED
    BY <1>2, <1>7 DEF IInv

LEMMA NextIInv == IInv /\ [Next]_vars => IInv'
  <1> SUFFICES ASSUME IInv, [Next]_vars
               PROVE  IInv'
    OBVIOUS
  <1>1. ASSUME NEW f \in Client, reg(f)
        PROVE  IInv'
    BY <1>1, RegKeeps
  <1>2. ASSUME NEW f \in Client, unreg(f)
        PROVE  IInv'
    BY <1>2, ForgetKeeps DEF unreg
  <1>3. ASSUME NEW f \in Clients, NEW wb, write(f, wb)
        PROVE  IInv'
    BY <1>3, WriteKeeps
  <1>4. ASSUME NEW v \in Reads, append(v)
        PROVE  IInv'
    BY <1>4, AppendKeeps
  <1>5. CASE UNCHANGED vars
    BY <1>5 DEF vars, IInv, TypeOK, LessSizeMatches, WokenWhenBehind,
                PartIncomplete, SizeByTurn, CapacityFollows, Clients
  <1> QED
    BY <1>1, <1>2, <1>3, <1>4, <1>5, RemoveKeeps, DropFirstKeeps, DropEndsKeeps DEF Next

LEMMA InvariantHolds == Spec => []IInv
  <1> QED
    BY InitIInv, NextIInv, PTL DEF Spec

\* The numbers that the server keeps are numbers of bytes in its history.
THEOREM TypeCorrect == Spec => []TypeOK
  <1>1. IInv => TypeOK
    BY DEF IInv
  <1> QED
    BY <1>1, InvariantHolds, PTL

\* Every client is in less_size once and at its place, also when the numbers
\* start again and when clients are dropped.
THEOREM AlwaysListed == Spec => []LessSizeMatches
  <1>1. IInv => LessSizeMatches
    BY DEF IInv
  <1> QED
    BY <1>1, InvariantHolds, PTL

\* A client is polled for writing exactly while it has not everything.
THEOREM AlwaysWoken == Spec => []WokenWhenBehind
  <1>1. IInv => WokenWhenBehind
    BY DEF IInv
  <1> QED
    BY <1>1, InvariantHolds, PTL

\* The history and its allocation are bounded, however slow the clients are.
THEOREM AlwaysBounded == Spec => []MemoryBounded
  <1>1. IInv => MemoryBounded
    BY DEF IInv, SizeByTurn, CapacityFollows, MemoryBounded
  <1> QED
    BY <1>1, InvariantHolds, PTL

\* A socket is given the next bytes that its client has to get.
THEOREM AlwaysGivesNext == Spec => []GivesNext
  <1>1. IInv => GivesNext
    <2> SUFFICES ASSUME IInv, NEW f \in Clients
                 PROVE  LET given == Given(data, pointers[f]) IN
                        /\ given = SubSeq(From(data, pointers[f]), 1, Len(given))
                        /\ pointers[f] # end(data) => given # <<>>
      BY DEF GivesNext
    <2>1. RingTypeOK(data) /\ pointers[f] \in begin(data) .. end(data)
      BY DEF IInv, TypeOK
    <2> QED
      BY <2>1, GivenIsNext
  <1> QED
    BY <1>1, InvariantHolds, PTL

(***************************************************************************)
(* The history implements the broadcast: a client's place in the ring      *)
(* stands for the bytes it has still to get.                               *)
(***************************************************************************)

(***************************************************************************)
(* append looks for structures from the last one on in the ring; the       *)
(* broadcast follows the structures byte by byte.                          *)
(***************************************************************************)

\* The bytes of the ring r with numbers from a up to b.
Bytes(r, a, b) == [i \in 1 .. b - a |-> Get(r, a + i - 1)]

Follows(t, v, g) ==
  g = [n \in 0 .. Len(v) |-> IF n = 0 THEN t ELSE Stream!Follow(g[n - 1], v[n])]

\* Following the structures byte by byte is defined.
LEMMA FollowDefined ==
  ASSUME NEW t, NEW v \in Seq(Byte)
  PROVE  \E g : Follows(t, v, g)
  <1> DEFINE F(s, n) == Stream!Follow(s, v[n])
             Part(m, g) == g = [n \in 0 .. m |-> IF n = 0 THEN t ELSE F(g[n - 1], n)]
             Bad == {m \in Nat : ~\E g : Part(m, g)}
  <1> HIDE DEF F
  <1>1. Bad = {}
    <2> SUFFICES ASSUME Bad # {}
                 PROVE  FALSE
      OBVIOUS
    <2>1. PICK m \in Bad : \A n \in Bad : m <= n
      <3>1. Bad \in SUBSET Nat
        OBVIOUS
      <3> HIDE DEF Bad
      <3> QED
        BY <3>1, Least
    <2>2. CASE m = 0
      <3>1. Part(0, [n \in 0 .. 0 |-> t])
        OBVIOUS
      <3> QED
        BY <2>2, <3>1
    <2>3. CASE m # 0
      <3>1. m - 1 \in Nat /\ m - 1 \notin Bad
        BY <2>1, <2>3, SMTT(60)
      <3>2. PICK g : Part(m - 1, g)
        BY <3>1
      <3> DEFINE h == [n \in 0 .. m |-> IF n = m THEN F(g[m - 1], m) ELSE g[n]]
      <3>3. ASSUME NEW n \in 0 .. m
            PROVE  h[n] = IF n = 0 THEN t ELSE F(h[n - 1], n)
        <4>1. CASE n = m
          <5>1. m - 1 \in 0 .. m /\ m - 1 # m /\ m \in 0 .. m
            BY <2>3
          <5>2. h[m - 1] = g[m - 1] /\ h[m] = F(g[m - 1], m)
            BY <5>1
          <5> HIDE DEF h
          <5> QED
            BY <4>1, <2>3, <5>2
        <4>2. CASE n # m
          <5>1. n \in 0 .. m - 1 /\ (n # 0 => n - 1 \in 0 .. m /\ n - 1 # m)
            BY <4>2
          <5>2. h[n] = g[n] /\ (n # 0 => h[n - 1] = g[n - 1])
            BY <4>2, <5>1
          <5>3. g[n] = IF n = 0 THEN t ELSE F(g[n - 1], n)
            BY <3>2, <5>1
          <5> HIDE DEF h
          <5> QED
            BY <5>2, <5>3
        <4> QED
          BY <4>1, <4>2
      <3>4. Part(m, h)
        BY <3>3
      <3> QED
        BY <3>4
    <2> QED
      BY <2>2, <2>3
  <1>2. Len(v) \in Nat
    OBVIOUS
  <1>3. PICK g : Part(Len(v), g)
    BY <1>1, <1>2
  <1> QED
    BY <1>3 DEF Follows, F

\* Both ways end at the same structure.
LEMMA TailFound ==
  ASSUME NEW r, RingTypeOK(r), NEW v \in Seq(Byte),
         NEW p \in begin(r) .. end(r) - Len(v),
         \A i \in 1 .. Len(v) : Get(r, end(r) - Len(v) + i - 1) = v[i],
         \/ p = end(r) - Len(v)
         \/ p + StructSize[Get(r, p)] > end(r) - Len(v)
  PROVE  Stream!FollowAll(Bytes(r, p, end(r) - Len(v)), v) = From(r, LastFull(r, p))
  <1> DEFINE e == end(r) - Len(v)
             t == Bytes(r, p, e)
             A == CHOOSE g : Follows(t, v, g)
             f == CHOOSE g : Steps(r, p, g)
             Size(q) == StructSize[Get(r, q)]
             At(n, q) == /\ q \in p .. e + n
                         /\ f[q] = f[p]
                         /\ A[n] = Bytes(r, q, e + n)
                         /\ q = e + n \/ q + Size(q) > e + n
             Bad == {n \in 0 .. Len(v) : ~\E q : At(n, q)}
  <1>1. /\ begin(r) \in Nat /\ end(r) \in Nat /\ Len(v) \in Nat
        /\ p \in Nat /\ e \in Nat /\ begin(r) <= p /\ p <= e /\ p \in begin(r) .. end(r)
    BY Numbers
  <1>2. Follows(t, v, A)
    <2> HIDE DEF t
    <2> QED
      BY FollowDefined
  <1>3. Steps(r, p, f)
    BY <1>1, SearchDefined
  <1>4. Stream!FollowAll(t, v) = A[Len(v)]
    <2> HIDE DEF t
    <2> QED
      BY DEF Stream!FollowAll, Follows
  <1>5. LastFull(r, p) = f[p]
    BY DEF LastFull, Steps
  <1>6. A[0] = t /\ \A n \in 1 .. Len(v) : A[n] = Stream!Follow(A[n - 1], v[n])
    <2> HIDE DEF A, t
    <2> QED
      BY <1>1, <1>2, SMTT(60) DEF Follows
  <1>7. \A q \in p .. end(r) :
          f[q] = IF q = end(r) \/ q + Size(q) > end(r) THEN q ELSE f[q + Size(q)]
    <2> HIDE DEF f
    <2> QED
      BY <1>3 DEF Steps
  <1>8. \A q \in p .. end(r) - 1 : Size(q) \in Nat \ {0}
    <2> SUFFICES ASSUME NEW q \in p .. end(r) - 1
                 PROVE  Size(q) \in Nat \ {0}
      OBVIOUS
    <2>1. q \in begin(r) .. end(r) - 1
      BY <1>1
    <2> QED
      BY <2>1, ClientsAssumption DEF RingTypeOK
  <1> HIDE DEF A, f, t, Size
  <1>9. \E q : At(0, q)
    <2>1. At(0, p)
      BY <1>1, <1>6 DEF t, Size
    <2> QED
      BY <2>1
  <1>10. ASSUME NEW n \in 1 .. Len(v), NEW q, At(n - 1, q)
         PROVE  \E x : At(n, x)
    <2> DEFINE d == e + (n - 1)
               s == Append(A[n - 1], v[n])
    <2>9. /\ q \in p .. d /\ f[q] = f[p] /\ A[n - 1] = Bytes(r, q, d)
          /\ q = d \/ q + Size(q) > d
      BY <1>10
    <2>1. /\ d \in Nat /\ d + 1 = e + n /\ d + 1 <= end(r) /\ q \in p .. d
          /\ q \in p .. end(r) - 1 /\ d + 1 - q \in Nat /\ d - q \in Nat
      <3>1. /\ n \in Nat /\ n >= 1 /\ n <= Len(v) /\ e \in Nat /\ e + Len(v) = end(r)
            /\ Len(v) \in Nat /\ p \in Nat /\ end(r) \in Nat
        BY <1>1
      <3>2. q \in p .. e + (n - 1)
        BY <2>9
      <3> HIDE DEF e
      <3>3. d = e + (n - 1) /\ q \in p .. d
        BY <3>2
      <3> HIDE DEF d
      <3>4. d \in Nat /\ d + 1 = e + n /\ d + 1 <= end(r)
        BY ONLY <3>1, <3>3
      <3>5. q \in p .. end(r) - 1
        BY ONLY <3>1, <3>3, <3>4
      <3>6. d + 1 - q \in Nat /\ d - q \in Nat
        BY ONLY <3>1, <3>3, <3>4
      <3> QED
        BY ONLY <3>3, <3>4, <3>5, <3>6
    <2>2. v[n] = Get(r, d)
      <3>1. end(r) - Len(v) + n - 1 = d
        BY <1>1
      <3> QED
        BY <3>1
    <2>3. s = Bytes(r, q, d + 1)
      <3>1. A[n - 1] = [i \in 1 .. d - q |-> Get(r, q + i - 1)]
        BY <2>9 DEF Bytes
      <3>2. Len(A[n - 1]) = d - q
        BY <3>1, <2>1
      <3>3. s = [i \in 1 .. (d - q) + 1 |->
                   IF i <= d - q THEN Get(r, q + i - 1) ELSE Get(r, d)]
        <4> HIDE DEF d
        <4> QED
          BY <3>1, <3>2, <2>1, <2>2
      <3>4. (d - q) + 1 = (d + 1) - q
        BY <2>1
      <3> HIDE DEF d, s
      <3>5. \A i \in 1 .. (d + 1) - q : ~(i <= d - q) => q + i - 1 = d
        BY <2>1
      <3>6. \A i \in 1 .. (d + 1) - q :
              (IF i <= d - q THEN Get(r, q + i - 1) ELSE Get(r, d)) = Get(r, q + i - 1)
        BY <3>5
      <3>7. s = [i \in 1 .. (d + 1) - q |-> Get(r, q + i - 1)]
        <4>1. s = [i \in 1 .. (d + 1) - q |->
                     IF i <= d - q THEN Get(r, q + i - 1) ELSE Get(r, d)]
          BY <3>3, <3>4
        <4> QED
          BY ONLY <3>6, <4>1
      <3> QED
        BY <3>7 DEF Bytes
    <2>4. Len(s) = d + 1 - q /\ Head(s) = Get(r, q)
      <3> HIDE DEF d, s
      <3> QED
        BY <2>1, <2>3 DEF Bytes
    <2>5. A[n] = IF d + 1 - q = Size(q) THEN <<>> ELSE s
      <3>1. A[n] = IF Len(s) = StructSize[Head(s)] THEN <<>> ELSE s
        BY <1>6 DEF Stream!Follow
      <3> HIDE DEF d, s
      <3> QED
        BY <3>1, <2>4 DEF Size
    <2>6. Size(q) \in Nat \ {0}
      BY <1>8, <2>1
    <2>7. CASE d + 1 - q = Size(q)
      <3>1. q + Size(q) = d + 1
        BY <2>1, <2>6, <2>7
      <3>2. f[d + 1] = f[p]
        <4>1. q \in p .. end(r) /\ q # end(r) /\ ~(q + Size(q) > end(r))
          <5> HIDE DEF d, e
          <5> QED
            BY <3>1, <2>1, <1>1
        <4>2. f[q] = f[q + Size(q)]
          BY <4>1, <1>7
        <4> QED
          BY <3>1, <4>2, <2>9
      <3>3. A[n] = Bytes(r, d + 1, d + 1)
        <4> HIDE DEF d, s
        <4>1. 1 .. (d + 1) - (d + 1) = {}
          BY <2>1
        <4>2. A[n] = <<>>
          BY <2>5, <2>7
        <4>3. Bytes(r, d + 1, d + 1) = <<>>
          BY <4>1 DEF Bytes
        <4> QED
          BY <4>2, <4>3
      <3>4. At(n, d + 1)
        BY <3>2, <3>3, <2>1, SMTT(60)
      <3> QED
        BY <3>4
    <2>8. CASE d + 1 - q # Size(q)
      <3>1. q + Size(q) > d + 1
        <4> HIDE DEF d
        <4>1. d \in Nat /\ q \in Int /\ q <= d /\ Size(q) \in Nat /\ Size(q) >= 1
          BY <2>1, <2>6, <1>1
        <4>2. CASE q = d
          BY ONLY <4>1, <4>2, <2>8
        <4>3. CASE q + Size(q) > d
          BY ONLY <4>1, <4>3, <2>8
        <4> QED
          BY <4>2, <4>3, <2>9
      <3>2. At(n, q)
        BY <3>1, <2>9, <2>1, <2>3, <2>5, <2>8
      <3> QED
        BY <3>2
    <2> QED
      BY <2>7, <2>8
  <1>11. Bad = {}
    <2> SUFFICES ASSUME Bad # {}
                 PROVE  FALSE
      OBVIOUS
    <2> HIDE DEF At
    <2>1. PICK m \in Bad : \A n \in Bad : m <= n
      <3>1. Bad \in SUBSET Nat
        BY <1>1
      <3> HIDE DEF Bad
      <3> QED
        BY <3>1, Least
    <2>2. m # 0
      BY <1>9
    <2>3. m \in 1 .. Len(v) /\ m - 1 \in 0 .. Len(v) /\ m - 1 \notin Bad
      <3>1. m \in 0 .. Len(v)
        OBVIOUS
      <3>2. m - 1 \in 0 .. Len(v) /\ m - 1 < m
        BY <3>1, <2>2, <1>1
      <3> HIDE DEF Bad
      <3>3. m - 1 \notin Bad
        BY <3>1, <3>2, <2>1, <1>1
      <3> QED
        BY <3>1, <3>2, <3>3, <2>2, <1>1
    <2>4. PICK q : At(m - 1, q)
      BY <2>3
    <2> QED
      BY <1>10, <2>3, <2>4
  <1>12. PICK q : At(Len(v), q)
    <2>1. Len(v) \in 0 .. Len(v)
      BY <1>1
    <2> HIDE DEF At
    <2> QED
      BY <1>11, <2>1
  <1>13. e + Len(v) = end(r)
    BY <1>1
  <1>14. f[q] = q
    <2>1. q \in p .. end(r) /\ (q = end(r) \/ q + Size(q) > end(r))
      BY <1>12, <1>13
    <2> QED
      BY <2>1, <1>7
  <1>15. A[Len(v)] = From(r, q)
    BY <1>12, <1>13 DEF Bytes, From
  <1> QED
    BY <1>4, <1>5, <1>12, <1>14, <1>15 DEF t

(***************************************************************************)
(* Steps of the server are steps of the broadcast.                         *)
(***************************************************************************)

left == [f \in Clients |-> From(data, pointers[f])]
tail == From(data, last_full_struct_ptr)

\* shrink_to_fit takes nothing from what a client or the next one has to get.
LEMMA ShrinkInvisible ==
  ASSUME IInv, IInv', NEW less, shrink_to_fit(less),
         \A p \in less : p.offset \in begin(data) .. end(data),
         UNCHANGED last_full_struct_ptr
  PROVE  /\ tail' = tail
         /\ end(data') = end(data) /\ begin(data') \in Nat /\ end(data) \in Nat
         /\ \A pos \in begin(data') .. end(data) : From(data', pos) = From(data, pos)
  <1>1. RingTypeOK(data) /\ last_full_struct_ptr \in begin(data) .. end(data)
    BY DEF IInv, TypeOK
  <1>2. /\ RingTypeOK(data') /\ end(data') = end(data)
        /\ \A pos \in begin(data') .. end(data) - 1 : Get(data', pos) = Get(data, pos)
    BY <1>1, Shrunk
  <1>3. begin(data') \in Nat /\ end(data) \in Nat
    BY <1>1, <1>2, Numbers
  <1>4. \A pos \in begin(data') .. end(data) : From(data', pos) = From(data, pos)
    BY <1>2, <1>3, FromKept
  <1>5. last_full_struct_ptr' \in begin(data') .. end(data')
    BY DEF IInv, TypeOK
  <1> QED
    BY <1>2, <1>3, <1>4, <1>5 DEF tail

LEMMA ForgetLeaves ==
  ASSUME IInv, IInv', NEW f \in Clients, Forget(f)
  PROVE  Stream!Leave(f) /\ f \in DOMAIN left
  <1>1. \A p \in less_size' : p.offset \in begin(data) .. end(data)
    BY Listed DEF Forget
  <1>2. shrink_to_fit(less_size') /\ UNCHANGED last_full_struct_ptr
    BY DEF Forget
  <1>3. /\ tail' = tail /\ end(data') = end(data)
        /\ \A pos \in begin(data') .. end(data) : From(data', pos) = From(data, pos)
    BY <1>1, <1>2, ShrinkInvisible
  <1>4. pointers' = [g \in Clients \ {f} |-> pointers[g]] /\ Clients' = Clients \ {f}
    BY DEF Forget, Clients
  <1>5. pointers' \in [Clients' -> begin(data') .. end(data')]
    BY DEF IInv, TypeOK
  <1>6. \A g \in Clients \ {f} : From(data', pointers'[g]) = From(data, pointers[g])
    BY <1>3, <1>4, <1>5
  <1>7. left' = [g \in DOMAIN left \ {f} |-> left[g]]
    BY <1>4, <1>6 DEF left
  <1> QED
    BY <1>3, <1>7 DEF Stream!Leave, left, tail

LEMMA RegJoins ==
  ASSUME IInv, NEW f \in Client, reg(f)
  PROVE  Stream!Join(f)
  <1>1. /\ f \notin Clients /\ UNCHANGED <<data, last_full_struct_ptr>>
        /\ Clients' = Clients \cup {f}
        /\ pointers' = [g \in Clients \cup {f} |->
                          IF g = f THEN last_full_struct_ptr ELSE pointers[g]]
    BY DEF reg, Clients
  <1>2. tail' = tail
    BY <1>1 DEF tail
  <1>3. left' = [g \in DOMAIN left \cup {f} |-> IF g = f THEN tail ELSE left[g]]
    BY <1>1 DEF left, tail
  <1> QED
    BY <1>1, <1>2, <1>3 DEF Stream!Join, left, tail

LEMMA WriteDelivers ==
  ASSUME IInv, IInv', NEW f \in Clients, NEW wb, write(f, wb)
  PROVE  \/ \E n \in 1 .. Len(left[f]) : Stream!Deliver(f, n)
         \/ left' = left /\ tail' = tail
  <1> DEFINE pos == pointers[f]
  <1>1. /\ begin(data) \in Nat /\ end(data) \in Nat /\ RingTypeOK(data)
        /\ pointers \in [Clients -> begin(data) .. end(data)]
        /\ pos \in begin(data) .. end(data)
    BY Numbers DEF IInv, TypeOK
  <1>2. wb \in Nat /\ wb <= end(data) - pos
    <2>1. WriteCount(data, pos) \in 0 .. end(data) - pos
      BY <1>1, CountInHistory
    <2>2. wb \in 0 .. WriteCount(data, pos)
      BY DEF write
    <2> QED
      BY <1>1, <2>1, <2>2
  <1>3. /\ pointers' = [pointers EXCEPT ![f] = pos + wb] /\ Clients' = Clients
        /\ \A g \in Clients : pointers'[g] = IF g = f THEN pos + wb ELSE pointers[g]
    <2>1. pointers' = [pointers EXCEPT ![f] = pos + wb]
      BY DEF write
    <2> HIDE DEF pos
    <2> QED
      BY <2>1, <1>1 DEF Clients
  <1>4. /\ tail' = tail /\ end(data') = end(data)
        /\ \A x \in begin(data') .. end(data) : From(data', x) = From(data, x)
    <2>1. shrink_to_fit(less_size') /\ UNCHANGED last_full_struct_ptr
      BY DEF write
    <2>2. less_size' \subseteq less_size \cup {Pos(pos + wb, f)}
      BY DEF write
    <2>3. Pos(pos + wb, f).offset \in begin(data) .. end(data)
      BY <1>1, <1>2 DEF Pos
    <2>4. \A p \in less_size' : p.offset \in begin(data) .. end(data)
      BY <2>2, <2>3, Listed
    <2> QED
      BY <2>1, <2>4, ShrinkInvisible
  <1>5. \A g \in Clients : left'[g] = From(data, pointers'[g])
    <2>1. pointers' \in [Clients' -> begin(data') .. end(data')]
      BY DEF IInv, TypeOK
    <2> QED
      BY <2>1, <1>3, <1>4 DEF left
  <1> HIDE DEF pos
  <1>6. From(data, pos + wb) = SubSeq(From(data, pos), wb + 1, Len(From(data, pos)))
    BY <1>1, <1>2, FromTail
  <1>7. left[f] = From(data, pos) /\ Len(left[f]) = end(data) - pos
    <2>1. left[f] = From(data, pos)
      BY DEF left, pos
    <2>2. From(data, pos) = [i \in 1 .. end(data) - pos |-> Get(data, pos + i - 1)]
      BY DEF From
    <2> QED
      BY <2>1, <2>2, <1>1
  <1>8. left' = [left EXCEPT ![f] = SubSeq(left[f], wb + 1, Len(left[f]))]
    <2>1. \A g \in Clients : left'[g] = IF g = f THEN From(data, pos + wb) ELSE left[g]
      BY <1>3, <1>5 DEF left, pos
    <2>2. left' = [g \in Clients |-> left'[g]] /\ left = [g \in Clients |-> left[g]]
      BY <1>3 DEF left
    <2> QED
      BY <2>1, <2>2, <1>6, <1>7
  <1>9. CASE wb = 0
    <2>1. \A g \in Clients : left'[g] = left[g]
      <3>1. pos + 0 = pos
        BY <1>1
      <3> QED
        BY <3>1, <1>3, <1>5, <1>9 DEF left, pos
    <2>2. left' = left
      <3>1. left' = [g \in Clients |-> left'[g]] /\ left = [g \in Clients |-> left[g]]
        BY <1>3 DEF left
      <3> QED
        BY <2>1, <3>1
    <2> QED
      BY <2>2, <1>4
  <1>10. CASE wb # 0
    <2>1. wb \in 1 .. Len(left[f])
      BY <1>1, <1>2, <1>7, <1>10
    <2>2. Stream!Deliver(f, wb)
      BY <1>4, <1>8 DEF Stream!Deliver, left, tail
    <2> QED
      BY <2>1, <2>2
  <1> QED
    BY <1>9, <1>10

LEMMA AppendSends ==
  ASSUME IInv, NEW v \in Reads, append(v)
  PROVE  Stream!Send(v)
  <1> DEFINE diff == AddDiff(data, v)
             p == last_full_struct_ptr - diff
             e == end(data') - Len(v)
  <1>1. /\ begin(data) \in Nat /\ end(data) \in Nat /\ RingTypeOK(data)
        /\ pointers \in [Clients -> begin(data) .. end(data)]
        /\ last_full_struct_ptr \in begin(data) .. end(data)
    BY Numbers DEF IInv, TypeOK
  <1>2. v \in Seq(Byte) /\ v # <<>> /\ Len(v) \in Nat
    BY ReadsAreSequences
  <1>3. /\ data' = add(data, v)
        /\ pointers' = [f \in Clients |-> pointers[f] - diff]
        /\ last_full_struct_ptr' = LastFull(data', p)
    BY DEF append
  <1>4. /\ RingTypeOK(data') /\ diff \in 0 .. begin(data)
        /\ begin(data') = begin(data) - diff
        /\ end(data') = end(data) - diff + Len(v)
        /\ \A pos \in begin(data) .. end(data) - 1 :
             Get(data', pos - diff) = Get(data, pos)
        /\ \A i \in 1 .. Len(v) : Get(data', end(data') - Len(v) + i - 1) = v[i]
    BY <1>1, <1>2, <1>3, AddKeeps
  <1>5. \A pos \in begin(data) .. end(data) : From(data', pos - diff) = From(data, pos) \o v
    BY <1>1, <1>2, <1>3, Longer
  <1> HIDE DEF diff
  <1>6. left' = [f \in DOMAIN left |-> left[f] \o v]
    <2>1. Clients' = Clients
      BY <1>3 DEF Clients
    <2>2. \A f \in Clients : From(data', pointers'[f]) = left[f] \o v
      BY <1>1, <1>3, <1>5 DEF left
    <2>3. DOMAIN left = Clients
      BY DEF left
    <2> QED
      BY <2>1, <2>2, <2>3 DEF left
  <1>7. /\ p \in begin(data') .. end(data') - Len(v)
        /\ e = end(data) - diff /\ e - p = end(data) - last_full_struct_ptr
    BY <1>1, <1>2, <1>4
  <1>8. Bytes(data', p, e) = tail
    <2>1. \A i \in 1 .. end(data) - last_full_struct_ptr :
            Get(data', p + i - 1) = Get(data, last_full_struct_ptr + i - 1)
      <3> SUFFICES ASSUME NEW i \in 1 .. end(data) - last_full_struct_ptr
                   PROVE  Get(data', p + i - 1) = Get(data, last_full_struct_ptr + i - 1)
        OBVIOUS
      <3>1. /\ last_full_struct_ptr + i - 1 \in begin(data) .. end(data) - 1
            /\ (last_full_struct_ptr + i - 1) - diff = p + i - 1
        BY <1>1, <1>4
      <3> HIDE DEF p
      <3> QED
        BY <3>1, <1>4
    <2> HIDE DEF p, e
    <2> QED
      BY <2>1, <1>7 DEF Bytes, tail, From
  <1>9. p = e \/ p + StructSize[Get(data', p)] > e
    <2>1. CASE last_full_struct_ptr = end(data)
      BY <2>1, <1>7
    <2>2. CASE last_full_struct_ptr # end(data)
      <3>1. last_full_struct_ptr \in begin(data) .. end(data) - 1
        BY <2>2, <1>1
      <3>2. Get(data', p) = Get(data, last_full_struct_ptr)
        BY <3>1, <1>4
      <3>3. StructSize[Get(data, last_full_struct_ptr)] \in Nat
        BY <3>1, <1>1, ClientsAssumption DEF RingTypeOK
      <3>4. last_full_struct_ptr + StructSize[Get(data, last_full_struct_ptr)] > end(data)
        BY <2>2 DEF IInv, PartIncomplete
      <3> QED
        BY <3>2, <3>3, <3>4, <1>1, <1>4, <1>7, SMTT(60)
    <2> QED
      BY <2>1, <2>2
  <1>10. Stream!FollowAll(Bytes(data', p, e), v) = From(data', LastFull(data', p))
    <2> HIDE DEF p
    <2> QED
      BY <1>2, <1>4, <1>7, <1>9, TailFound
  <1>11. tail' = Stream!FollowAll(tail, v)
    BY <1>3, <1>8, <1>10 DEF tail
  <1> QED
    BY <1>6, <1>11 DEF Stream!Send, left, tail

\* What is dropped at the start of a turn, no client still has to get.
LEMMA ShrinkOnlyStutters ==
  ASSUME IInv, IInv', shrink_to_fit(less_size),
         UNCHANGED <<last_full_struct_ptr, pointers>>
  PROVE  left' = left /\ tail' = tail
  <1>1. /\ tail' = tail /\ end(data') = end(data)
        /\ \A pos \in begin(data') .. end(data) : From(data', pos) = From(data, pos)
    BY Listed, ShrinkInvisible
  <1>2. pointers' \in [Clients' -> begin(data') .. end(data')]
    BY DEF IInv, TypeOK
  <1>3. Clients' = Clients /\ pointers' = pointers
    BY DEF Clients
  <1>4. \A f \in Clients : From(data', pointers'[f]) = From(data, pointers[f])
    BY <1>1, <1>2, <1>3
  <1> QED
    BY <1>1, <1>3, <1>4 DEF left

LEMMA InitBroadcasts == Init => Stream!Init
  <1> SUFFICES ASSUME Init
               PROVE  Stream!Init
    OBVIOUS
  <1>1. data = EmptyRing /\ last_full_struct_ptr = 0 /\ Clients = {}
    BY DEF Init, Clients
  <1>2. left = [f \in {} |-> <<>>]
    BY <1>1 DEF left
  <1>3. tail = <<>>
    <2>1. end(data) = 0
      BY <1>1 DEF EmptyRing, Ring, end
    <2>2. 1 .. 0 - 0 = {}
      OBVIOUS
    <2> QED
      BY <1>1, <2>1, <2>2 DEF tail, From
  <1> QED
    BY <1>2, <1>3 DEF Stream!Init, left, tail

LEMMA StepBroadcasts ==
  ASSUME IInv, IInv', [Next]_vars
  PROVE  Stream!Next \/ (left' = left /\ tail' = tail)
  <1>1. ASSUME NEW f \in Client, reg(f)
        PROVE  Stream!Next
    BY <1>1, RegJoins DEF Stream!Next
  <1>2. ASSUME NEW f \in Client, unreg(f)
        PROVE  Stream!Next
    <2>1. f \in Clients /\ Forget(f)
      BY <1>2 DEF unreg
    <2>2. Stream!Leave(f) /\ f \in DOMAIN left
      BY <2>1, ForgetLeaves
    <2> QED
      BY <2>2 DEF Stream!Next, left
  <1>3. ASSUME NEW f \in Clients, NEW wb, write(f, wb)
        PROVE  Stream!Next \/ (left' = left /\ tail' = tail)
    <2>1. f \in DOMAIN left
      BY DEF left
    <2> QED
      BY <1>3, <2>1, WriteDelivers DEF Stream!Next, left
  <1>4. ASSUME NEW v \in Reads, append(v)
        PROVE  Stream!Next
    BY <1>4, AppendSends DEF Stream!Next, Reads
  <1>5. CASE remove_too_big
    <2>1. UNCHANGED <<last_full_struct_ptr, pointers>>
      BY <1>5 DEF remove_too_big
    <2>2. CASE UNCHANGED data
      BY <2>1, <2>2 DEF left, tail, Clients
    <2>3. CASE shrink_to_fit(less_size)
      BY <2>1, <2>3, ShrinkOnlyStutters
    <2> QED
      BY <2>2, <2>3, <1>5 DEF remove_too_big
  <1>6. CASE DropFirst
    <2>1. PICK q \in less_size : Forget(q.fd)
      BY <1>6 DEF DropFirst
    <2>2. q.fd \in Clients
      BY Listed
    <2>3. Stream!Leave(q.fd) /\ q.fd \in DOMAIN left
      BY <2>1, <2>2, ForgetLeaves
    <2> QED
      BY <2>3 DEF Stream!Next, left
  <1>7. CASE DropEnds
    BY <1>7, ShrinkOnlyStutters DEF DropEnds
  <1>8. CASE UNCHANGED vars
    BY <1>8 DEF vars, left, tail, Clients
  <1> QED
    BY <1>1, <1>2, <1>3, <1>4, <1>5, <1>6, <1>7, <1>8 DEF Next

\* The ring with its numbers, the clients' places and the loss of slow clients
\* implement the broadcast, for every ring, structure length and set of clients.
THEOREM Implements == Spec => ImplementsBroadcast
  <1>1. IInv /\ IInv' /\ [Next]_vars => [Stream!Next]_<<left, tail>>
    BY StepBroadcasts
  <1>2. IInv /\ IInv' /\ [Next]_vars
          => [Stream!Next]_<<[f \in Clients |-> From(data, pointers[f])],
                             From(data, last_full_struct_ptr)>>
    BY <1>1 DEF left, tail
  <1> QED
    BY <1>2, InitBroadcasts, InvariantHolds, PTL
    DEF Spec, ImplementsBroadcast, Stream!Spec
=============================================================================

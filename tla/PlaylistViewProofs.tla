------------------------- MODULE PlaylistViewProofs -------------------------
(***************************************************************************)
(* Proofs about module PlaylistView, for all lists of songs.               *)
(***************************************************************************)
EXTENDS PlaylistView, TLAPS

USE DEF border_cnt, view_cnt, RingPos, Song

----------------------------------------------------------------------------
(***************************************************************************)
(* Remainders, and places in the ring.                                     *)
(***************************************************************************)
LEMMA SmallMod ==
  ASSUME NEW n \in Nat, NEW a \in 0 .. n - 1
  PROVE  a % n = a
  OBVIOUS

LEMMA ModSeven ==
  ASSUME NEW a \in 0 .. 13
  PROVE  a % 7 = IF a < 7 THEN a ELSE a - 7
  OBVIOUS

LEMMA ModRange ==
  ASSUME NEW n \in Nat \ {0}, NEW a \in Int
  PROVE  a % n \in 0 .. n - 1
  OBVIOUS

\* In a list that does not slip, pn_common only goes round the ring.
LEMMA ReducedIsRound ==
  ASSUME TypeOK, cnt > view_cnt, ~Slips(cnt), NEW a \in 0 .. 13
  PROVE  Reduced(a) = IF a < 7 THEN a ELSE a - 7
<1>1. cnt \in Nat /\ cnt >= 14
  BY DEF TypeOK, Slips
<1>2. a % cnt = a
  BY <1>1, SmallMod
<1> QED
  BY <1>2, ModSeven DEF Reduced

LEMMA ReducedInRing ==
  ASSUME TypeOK, cnt # 0, NEW a \in Int
  PROVE  Reduced(a) \in RingPos
<1>1. cnt \in Nat \ {0}
  BY DEF TypeOK
<1>2. a % cnt \in Int
  BY <1>1, ModRange
<1>3. (a % cnt) % 7 \in 0 .. 6
  BY <1>2
<1> QED
  BY <1>3 DEF Reduced

\* The songs on the screen, by places of the ring.
LEMMA NamesByPlace ==
  ASSUME TypeOK, WindowNames, cnt > view_cnt, ~Slips(cnt)
  PROVE  \A i \in 0 .. 6 :
           names[IF i + pos_begin < 7 THEN i + pos_begin
                                      ELSE i + pos_begin - 7] = <<fd, First + i>>
<1> SUFFICES ASSUME NEW i \in 0 .. 6
             PROVE  names[IF i + pos_begin < 7 THEN i + pos_begin
                            ELSE i + pos_begin - 7] = <<fd, First + i>>
  OBVIOUS
<1>1. pos_begin \in 0 .. 6 /\ i + pos_begin \in 0 .. 13
  BY DEF TypeOK
<1>2. i \in LinesUsed /\ cnt # 0
  BY DEF LinesUsed, TypeOK
<1>3. Line(i) = <<fd, First + i>>
  BY <1>2 DEF WindowNames
<1>4. (i + pos_begin) % 7 = IF i + pos_begin < 7 THEN i + pos_begin
                                                 ELSE i + pos_begin - 7
  BY <1>1, ModSeven
<1> QED
  BY <1>3, <1>4 DEF Line

----------------------------------------------------------------------------
(***************************************************************************)
(* The names after each kind of change.                                    *)
(***************************************************************************)
\* fill_names from the first position of the window.
LEMMA FilledNames ==
  ASSUME NEW l, NEW n \in Nat, NEW p \in Nat,
         fd' = l, cnt' = n, pos_begin' = 0, pos' = p, n # 0 => p < n,
         names' = Filled(l, FirstOf(p, n), n)
  PROVE  WindowNames'
<1> SUFFICES ASSUME n # 0, NEW i \in LinesUsed'
             PROVE  Line(i)' = <<l, FirstOf(p, n) + i>>
  BY DEF WindowNames, First
<1>1. i \in 0 .. 6 /\ i < n
  BY DEF LinesUsed
<1>2. (i + pos_begin') % 7 = i
  BY <1>1, ModSeven
<1>3. names'[i] = <<l, FirstOf(p, n) + i>>
  BY <1>1 DEF Filled
<1> QED
  BY <1>2, <1>3 DEF Line

\* A song that enters below.
LEMMA ShiftedDown ==
  ASSUME TypeOK, WindowNames, cnt > view_cnt,
         pos >= border_cnt, pos + border_cnt + 1 < cnt, pos' = pos + 1,
         Shifted(pos_begin + 1, pos_begin + view_cnt, pos + border_cnt + 1)
  PROVE  WindowNames'
<1> SUFFICES ASSUME ~Slips(cnt), NEW i \in 0 .. 6
             PROVE  Line(i)' = <<fd, (First + i)'>>
  BY DEF WindowNames, Shifted, LinesUsed, TypeOK, Slips
<1>1. /\ pos_begin \in 0 .. 6 /\ pos \in Nat /\ cnt \in Nat
      /\ names = [k \in 0 .. 6 |-> names[k]]
  BY DEF TypeOK
<1>2. Reduced(pos_begin + view_cnt) = pos_begin
  <2>1. pos_begin + view_cnt \in 7 .. 13
    BY <1>1
  <2> QED
    BY <2>1, <1>1, ReducedIsRound
<1>3. pos_begin' = IF pos_begin = 6 THEN 0 ELSE pos_begin + 1
  BY <1>1, ReducedIsRound DEF Shifted
<1>4. names' = [names EXCEPT ![pos_begin] = <<fd, pos + 4>>]
  <2>1. pos + border_cnt + 1 = pos + 4
    BY <1>1
  <2> QED
    BY <1>2, <2>1 DEF Shifted
<1>5. First = pos - 3 /\ First' = pos - 2
  BY <1>1 DEF First, FirstOf, Shifted
<1>6. (i + pos_begin') % 7 = IF i + pos_begin' < 7 THEN i + pos_begin'
                                                   ELSE i + pos_begin' - 7
  BY <1>1, <1>3, ModSeven
<1>7. CASE i = 6
  <2>1. (i + pos_begin') % 7 = pos_begin
    BY <1>1, <1>3, <1>6, <1>7
  <2> QED
    BY <2>1, <1>1, <1>4, <1>5, <1>7 DEF Line
<1>8. CASE i # 6
  <2> DEFINE at == IF i + 1 + pos_begin < 7 THEN i + 1 + pos_begin
                                            ELSE i + 1 + pos_begin - 7
  <2>1. (i + pos_begin') % 7 = at /\ at # pos_begin /\ at \in 0 .. 6
    BY <1>1, <1>3, <1>6, <1>8
  <2>2. names[at] = <<fd, First + (i + 1)>>
    BY <1>8, NamesByPlace
  <2>3. names'[at] = names[at]
    BY <1>1, <1>4, <2>1
  <2> HIDE DEF at
  <2> QED
    BY <2>1, <2>2, <2>3, <1>5, <1>1 DEF Line
<1> QED
  BY <1>7, <1>8

\* A song that enters above.
LEMMA ShiftedUp ==
  ASSUME TypeOK, WindowNames, cnt > view_cnt,
         pos > border_cnt, pos + border_cnt < cnt, pos' = pos - 1,
         Shifted(pos_begin + view_cnt - 1, pos_begin + view_cnt - 1,
                 pos - border_cnt - 1)
  PROVE  WindowNames'
<1> SUFFICES ASSUME ~Slips(cnt), NEW i \in 0 .. 6
             PROVE  Line(i)' = <<fd, (First + i)'>>
  BY DEF WindowNames, Shifted, LinesUsed, TypeOK, Slips
<1>1. /\ pos_begin \in 0 .. 6 /\ pos \in Nat /\ cnt \in Nat
      /\ names = [k \in 0 .. 6 |-> names[k]]
  BY DEF TypeOK
<1> DEFINE new == IF pos_begin = 0 THEN 6 ELSE pos_begin - 1
<1>2. Reduced(pos_begin + view_cnt - 1) = new
  <2>1. pos_begin + view_cnt - 1 \in 6 .. 12
    BY <1>1
  <2> QED
    BY <2>1, <1>1, ReducedIsRound
<1>3. pos_begin' = new
  BY <1>2 DEF Shifted
<1>4. names' = [names EXCEPT ![new] = <<fd, pos - 4>>]
  <2>1. pos - border_cnt - 1 = pos - 4
    BY <1>1
  <2> QED
    BY <1>2, <2>1 DEF Shifted
<1>5. First = pos - 3 /\ First' = pos - 4
  BY <1>1 DEF First, FirstOf, Shifted
<1>6. (i + new) % 7 = IF i + new < 7 THEN i + new ELSE i + new - 7
  BY <1>1, ModSeven
<1>7. CASE i = 0
  <2>1. (i + pos_begin') % 7 = new
    BY <1>1, <1>3, <1>6, <1>7
  <2> QED
    BY <2>1, <1>1, <1>4, <1>5, <1>7 DEF Line
<1>8. CASE i # 0
  <2> DEFINE at == IF i - 1 + pos_begin < 7 THEN i - 1 + pos_begin
                                            ELSE i - 1 + pos_begin - 7
  <2>1. (i + pos_begin') % 7 = at /\ at # new /\ at \in 0 .. 6
    BY <1>1, <1>3, <1>6, <1>8
  <2>2. names[at] = <<fd, First + (i - 1)>>
    BY <1>8, NamesByPlace
  <2>3. names'[at] = names[at]
    BY <1>1, <1>4, <2>1
  <2> HIDE DEF at, new
  <2> QED
    BY <2>1, <2>2, <2>3, <1>5, <1>1 DEF Line
<1> QED
  BY <1>7, <1>8

----------------------------------------------------------------------------
(***************************************************************************)
(* Each action keeps the types and the names.                              *)
(***************************************************************************)
Inv == TypeOK /\ WindowNames

\* What an access to the card that failed leaves.
LEMMA UnreadNames ==
  ASSUME TypeOK, WindowNames, Unread, First' = First
  PROVE  WindowNames'
  BY DEF WindowNames, Unread, shape, Line, LinesUsed

LEMMA SameFirst ==
  ASSUME NEW n \in Nat, NEW p \in Nat, NEW q \in Nat,
         \/ n <= view_cnt
         \/ p <= border_cnt /\ q <= border_cnt
         \/ p + border_cnt + 1 >= n /\ q + border_cnt + 1 >= n
  PROVE  FirstOf(q, n) = FirstOf(p, n)
  BY DEF FirstOf

\* The cursor moved, and the first line is the same.
LEMMA FirstKept ==
  ASSUME TypeOK, Unread, pos' \in Nat,
         \/ cnt <= view_cnt
         \/ pos <= border_cnt /\ pos' <= border_cnt
         \/ pos + border_cnt + 1 >= cnt /\ pos' + border_cnt + 1 >= cnt
  PROVE  First' = First
<1>1. cnt \in Nat /\ pos \in Nat /\ cnt' = cnt
  BY DEF TypeOK, Unread, shape
<1>2. FirstOf(pos', cnt) = FirstOf(pos, cnt)
  BY <1>1, SameFirst
<1> QED
  BY <1>1, <1>2 DEF First

LEMMA FilledType ==
  ASSUME NEW l, NEW p, NEW n, names' = Filled(l, p, n)
  PROVE  names' = [i \in RingPos |-> names'[i]]
  BY DEF Filled

LEMMA ShiftedType ==
  ASSUME TypeOK, cnt # 0, NEW begin \in Int, NEW ins_pos, NEW p,
         Shifted(begin, ins_pos, p)
  PROVE  /\ pos_begin' \in RingPos
         /\ names' = [i \in RingPos |-> names'[i]]
         /\ fd' = fd /\ cnt' = cnt
<1>1. Reduced(begin) \in RingPos
  BY ReducedInRing
<1>2. names = [i \in RingPos |-> names[i]]
  BY DEF TypeOK
<1>3. names' = [i \in RingPos |-> names'[i]]
  BY <1>2 DEF Shifted
<1> QED
  BY <1>1, <1>3 DEF Shifted

LEMMA NextKeeps ==
  ASSUME Inv, next
  PROVE  Inv'
<1> USE DEF Inv, MovedTo, StayedAfter
<1>1. /\ cnt \in Nat /\ pos \in Nat /\ pos_begin \in 0 .. 6
      /\ cnt # 0 => pos < cnt
      /\ Pending \in {"nothing", "not_easy"}
      /\ Easy("top_bottom") \in {"not_easy", "top_bottom"}
      /\ Easy("middle") \in {"not_easy", "middle"}
  BY DEF TypeOK, Pending, Easy
<1>2. direction' = 0 /\ playing' = playing
  BY DEF next
<1>3. CASE cnt = 0 /\ UNCHANGED <<shape, pos, type>>
  BY <1>2, <1>3 DEF TypeOK, WindowNames, shape
<1>4. CASE cnt \in 1 .. view_cnt /\ Unread /\ MovedTo((pos + 1) % cnt, "not_easy")
  <2>1. pos' \in 0 .. cnt - 1
    BY <1>1, <1>4, ModRange
  <2>2. TypeOK'
    BY <2>1, <1>1, <1>2, <1>4 DEF TypeOK, Unread, shape
  <2> QED
    BY <2>1, <2>2, <1>4, FirstKept, UnreadNames
<1>5. CASE cnt > view_cnt /\ pos + 1 = cnt /\ jump_over(0, 0)
  <2>1. CASE Refilled(0) /\ MovedTo(0, "not_easy")
    <3>1. TypeOK'
      BY <2>1, <1>1, <1>2, <1>5, FilledType DEF TypeOK, Refilled
    <3>2. FirstOf(0, cnt) = 0
      BY <1>1, <1>5 DEF FirstOf
    <3>3. WindowNames'
      BY <3>2, <2>1, <1>1, FilledNames DEF Refilled
    <3> QED
      BY <3>1, <3>3
  <2>2. CASE Unread /\ StayedAfter(Pending)
    BY <2>2, <1>1, <1>2, FirstKept, UnreadNames DEF TypeOK, Unread, shape, First
  <2> QED
    BY <2>1, <2>2, <1>5 DEF jump_over
<1>6. CASE /\ cnt > view_cnt /\ pos + 1 # cnt
           /\ OnTopNext \/ pos + border_cnt + 1 >= cnt
           /\ Unread /\ MovedTo(pos + 1, Easy("top_bottom"))
  <2>1. TypeOK'
    BY <1>1, <1>2, <1>6 DEF TypeOK, Unread, shape
  <2>2. First' = First
    BY <1>1, <1>6, FirstKept DEF OnTopNext
  <2> QED
    BY <2>1, <2>2, <1>6, UnreadNames
<1>7. CASE /\ cnt > view_cnt /\ ~OnTopNext /\ pos + border_cnt + 1 < cnt
           /\ Shifted(pos_begin + 1, pos_begin + view_cnt, pos + border_cnt + 1)
           /\ MovedTo(pos + 1, Easy("middle"))
  <2>1. TypeOK'
    <3>1. pos_begin + 1 \in Int /\ cnt # 0
      BY <1>1, <1>7
    <3>2. /\ pos_begin' \in RingPos
          /\ names' = [i \in RingPos |-> names'[i]]
          /\ fd' = fd /\ cnt' = cnt
      BY <3>1, <1>7, ShiftedType
    <3> QED
      BY <3>2, <1>1, <1>2, <1>7 DEF TypeOK
  <2>2. WindowNames'
    BY <1>1, <1>7, ShiftedDown DEF OnTopNext
  <2> QED
    BY <2>1, <2>2
<1>8. CASE Unread /\ StayedAfter(Pending)
  BY <1>8, <1>1, <1>2, UnreadNames DEF TypeOK, Unread, shape, First
<1> QED
  BY <1>3, <1>4, <1>5, <1>6, <1>7, <1>8 DEF next

LEMMA PrevKeeps ==
  ASSUME Inv, prev
  PROVE  Inv'
<1> USE DEF Inv, MovedTo, StayedAfter
<1>1. /\ cnt \in Nat /\ pos \in Nat /\ pos_begin \in 0 .. 6
      /\ cnt # 0 => pos < cnt
      /\ Pending \in {"nothing", "not_easy"}
      /\ Easy("top_bottom") \in {"not_easy", "top_bottom"}
      /\ Easy("middle") \in {"not_easy", "middle"}
  BY DEF TypeOK, Pending, Easy
<1>2. direction' = 1 /\ playing' = playing
  BY DEF prev
<1>3. CASE cnt = 0 /\ UNCHANGED <<shape, pos, type>>
  BY <1>2, <1>3 DEF TypeOK, WindowNames, shape
<1>4. CASE cnt \in 1 .. view_cnt /\ Unread /\ MovedTo((pos + cnt - 1) % cnt, "not_easy")
  <2>1. pos' \in 0 .. cnt - 1
    BY <1>1, <1>4, ModRange
  <2>2. TypeOK'
    BY <2>1, <1>1, <1>2, <1>4 DEF TypeOK, Unread, shape
  <2> QED
    BY <2>1, <2>2, <1>4, FirstKept, UnreadNames
<1>5. CASE cnt > view_cnt /\ pos = 0 /\ jump_over(cnt - view_cnt, cnt - 1)
  <2>1. CASE Refilled(cnt - view_cnt) /\ MovedTo(cnt - 1, "not_easy")
    <3>1. TypeOK'
      BY <2>1, <1>1, <1>2, <1>5, FilledType DEF TypeOK, Refilled
    <3>2. FirstOf(cnt - 1, cnt) = cnt - view_cnt /\ cnt - 1 \in Nat /\ cnt - 1 < cnt
      BY <1>1, <1>5 DEF FirstOf
    <3>3. WindowNames'
      BY <3>2, <2>1, <1>1, FilledNames DEF Refilled
    <3> QED
      BY <3>1, <3>3
  <2>2. CASE Unread /\ StayedAfter(Pending)
    BY <2>2, <1>1, <1>2, FirstKept, UnreadNames DEF TypeOK, Unread, shape, First
  <2> QED
    BY <2>1, <2>2, <1>5 DEF jump_over
<1>6. CASE /\ cnt > view_cnt /\ pos # 0
           /\ OnTopPrev \/ pos + border_cnt >= cnt
           /\ Unread /\ MovedTo(pos - 1, Easy("top_bottom"))
  <2>1. TypeOK'
    BY <1>1, <1>2, <1>6 DEF TypeOK, Unread, shape
  <2>2. First' = First
    BY <1>1, <1>6, FirstKept DEF OnTopPrev
  <2> QED
    BY <2>1, <2>2, <1>6, UnreadNames
<1>7. CASE /\ cnt > view_cnt /\ ~OnTopPrev /\ pos + border_cnt < cnt
           /\ Shifted(pos_begin + view_cnt - 1, pos_begin + view_cnt - 1,
                      pos - border_cnt - 1)
           /\ MovedTo(pos - 1, Easy("middle"))
  <2>1. TypeOK'
    <3>1. pos_begin + view_cnt - 1 \in Int /\ cnt # 0
      BY <1>1, <1>7
    <3>2. /\ pos_begin' \in RingPos
          /\ names' = [i \in RingPos |-> names'[i]]
          /\ fd' = fd /\ cnt' = cnt
      BY <3>1, <1>7, ShiftedType
    <3> QED
      BY <3>2, <1>1, <1>2, <1>7 DEF TypeOK, OnTopPrev
  <2>2. WindowNames'
    BY <1>1, <1>7, ShiftedUp DEF OnTopPrev
  <2> QED
    BY <2>1, <2>2
<1>8. CASE Unread /\ StayedAfter(Pending)
  BY <1>8, <1>1, <1>2, UnreadNames DEF TypeOK, Unread, shape, First
<1> QED
  BY <1>3, <1>4, <1>5, <1>6, <1>7, <1>8 DEF prev

LEMMA SeekKeeps ==
  ASSUME Inv, NEW p \in 0 .. cnt - 1, seek(p)
  PROVE  Inv'
<1> USE DEF Inv, MovedTo, StayedAfter
<1>1. cnt \in Nat /\ pos \in Nat /\ p % cnt = p
  BY SmallMod DEF TypeOK
<1>2. direction' = direction /\ playing' = playing /\ cnt # 0
  BY DEF seek
<1>3. CASE cnt <= view_cnt /\ Unread /\ MovedTo(p, "not_easy")
  <2>1. TypeOK'
    BY <1>1, <1>2, <1>3 DEF TypeOK, Unread, shape
  <2> QED
    BY <2>1, <1>1, <1>3, FirstKept, UnreadNames
<1>4. CASE cnt > view_cnt /\ Refilled(FirstOf(p, cnt)) /\ MovedTo(p, "not_easy")
  <2>1. TypeOK'
    BY <1>1, <1>2, <1>4, FilledType DEF TypeOK, Refilled
  <2>2. WindowNames'
    BY <1>1, <1>4, FilledNames DEF Refilled
  <2> QED
    BY <2>1, <2>2
<1>5. CASE Unread /\ StayedAfter(type)
  BY <1>5, <1>1, <1>2, UnreadNames DEF TypeOK, Unread, shape, First
<1> QED
  BY <1>1, <1>3, <1>4, <1>5 DEF seek

LEMMA OpenKeeps ==
  ASSUME Inv, NEW l \in Lists, open_playlist(l)
  PROVE  Inv'
<1> USE DEF Inv, MovedTo
<1>1. direction' = direction /\ playing' = playing /\ cnt_songs[l] \in Nat
  BY ListsAssumption DEF open_playlist
<1>2. CASE /\ fd' = l /\ cnt' = cnt_songs[l] /\ pos_begin' = 0
           /\ names' = Filled(l, 0, cnt_songs[l])
           /\ MovedTo(0, "not_easy")
  <2>1. TypeOK'
    BY <1>1, <1>2, FilledType DEF TypeOK
  <2>2. FirstOf(0, cnt_songs[l]) = 0
    BY DEF FirstOf
  <2>3. WindowNames'
    BY <1>1, <1>2, <2>2, FilledNames
  <2> QED
    BY <2>1, <2>3
<1>3. CASE cnt' \in {0, cnt} /\ UNCHANGED <<fd, pos_begin, names, pos, type>>
  <2>1. TypeOK'
    BY <1>1, <1>3 DEF TypeOK
  <2>2. CASE cnt' = 0
    BY <2>1, <2>2 DEF WindowNames
  <2>3. CASE cnt' = cnt
    BY <2>1, <2>3, <1>3 DEF WindowNames, Line, LinesUsed, First
  <2> QED
    BY <2>1, <2>2, <2>3, <1>3
<1> QED
  BY <1>2, <1>3 DEF open_playlist

LEMMA ResetKeeps ==
  ASSUME Inv, reset
  PROVE  Inv'
  BY DEF Inv, reset, MovedTo, TypeOK, WindowNames

LEMMA PlayKeeps ==
  ASSUME Inv, play
  PROVE  Inv'
<1>1. UNCHANGED <<fd, cnt, pos_begin, names, pos, type, direction>>
  BY DEF play, shape
<1>2. /\ playing' \in [fd : Lists \cup {Fake}, pos : Nat]
      /\ playing'.fd # Fake => playing'.pos < cnt_songs[playing'.fd]
  <2>1. CASE cnt # 0 /\ playing' = [fd |-> fd, pos |-> pos]
    BY <2>1 DEF Inv, TypeOK
  <2>2. CASE /\ playing.fd # Fake
             /\ playing' = [playing EXCEPT !.pos = (@ + 1) % cnt_songs[playing.fd]]
    <3>1. /\ playing.fd \in Lists /\ playing.pos \in Nat
          /\ playing.pos < cnt_songs[playing.fd]
      BY <2>2 DEF Inv, TypeOK
    <3>2. cnt_songs[playing.fd] \in Nat \ {0} /\ playing.pos + 1 \in Int
      BY <3>1, ListsAssumption
    <3>3. (playing.pos + 1) % cnt_songs[playing.fd] \in 0 .. cnt_songs[playing.fd] - 1
      BY <3>1, <3>2, ModRange
    <3> QED
      BY <2>2, <3>1, <3>2, <3>3 DEF Inv, TypeOK
  <2> QED
    BY <2>1, <2>2 DEF play
<1>3. TypeOK'
  BY <1>1, <1>2 DEF Inv, TypeOK
<1>4. WindowNames'
  BY <1>1 DEF Inv, WindowNames, Line, LinesUsed, First
<1> QED
  BY <1>3, <1>4 DEF Inv

LEMMA StillKeeps ==
  ASSUME Inv, UNCHANGED <<shape, pos, direction, playing>>,
         type' \in {"nothing", type}
  PROVE  Inv'
  BY DEF Inv, shape, TypeOK, WindowNames, Line, LinesUsed, First

LEMMA StepKeeps ==
  ASSUME Inv, [Next]_vars
  PROVE  Inv'
<1>1. CASE next
  BY <1>1, NextKeeps
<1>2. CASE prev
  BY <1>2, PrevKeeps
<1>3. CASE \E p \in 0 .. cnt - 1 : seek(p)
  BY <1>3, SeekKeeps
<1>4. CASE \E l \in Lists : open_playlist(l)
  BY <1>4, OpenKeeps
<1>5. CASE reset
  BY <1>5, ResetKeeps
<1>6. CASE play
  BY <1>6, PlayKeeps
<1>7. CASE display
  BY <1>7, StillKeeps DEF display
<1>8. CASE UNCHANGED vars
  BY <1>8, StillKeeps DEF vars
<1> QED
  BY <1>1, <1>2, <1>3, <1>4, <1>5, <1>6, <1>7, <1>8 DEF Next

LEMMA InitHolds ==
  ASSUME Init
  PROVE  Inv
  BY DEF Init, Inv, TypeOK, WindowNames

LEMMA InvAlways == Spec => []Inv
  BY InitHolds, StepKeeps, PTL DEF Spec

\* The type invariant, for all lists of songs.
THEOREM TypeCorrect == Spec => []TypeOK
<1>1. Inv => TypeOK
  BY DEF Inv
<1> QED
  BY <1>1, InvAlways, PTL

\* The names in the ring are those of the window, for lists of every length
\* but 8 to 13, however the cursor moved and whatever could not be read.
THEOREM WindowAlways == Spec => []WindowNames
<1>1. Inv => WindowNames
  BY DEF Inv
<1> QED
  BY <1>1, InvAlways, PTL

----------------------------------------------------------------------------
(***************************************************************************)
(* The mark of the playing song.                                           *)
(***************************************************************************)
LEMMA NearIsOnScreen ==
  ASSUME NEW n \in Nat, NEW p \in 0 .. n - 1, NEW b \in 0 .. n - 1
  PROVE  Near(p, b, n) <=> b \in FirstOf(p, n) .. FirstOf(p, n) + view_cnt - 1
  BY DEF Near, FirstOf

\* In a list that could be opened, check_near accepts the playing song exactly
\* when it is on the screen.
THEOREM MarkAlways == Spec => []MarkExact
<1>1. TypeOK => MarkExact
  <2> SUFFICES ASSUME TypeOK, cnt # 0, playing.fd = fd
               PROVE  Near(pos, playing.pos, cnt) <=> OnScreen(playing.pos)
    BY DEF MarkExact
  <2>1. cnt \in Nat /\ pos \in 0 .. cnt - 1 /\ playing.pos \in 0 .. cnt - 1
    BY ListsAssumption DEF TypeOK
  <2> QED
    BY <2>1, NearIsOnScreen DEF OnScreen, First
<1> QED
  BY <1>1, TypeCorrect, PTL

----------------------------------------------------------------------------
(***************************************************************************)
(* What is left to draw.                                                   *)
(***************************************************************************)
\* A step after which all is to be drawn, or nothing, or the same as before.
LEMMA RedrawPlain ==
  ASSUME RedrawSound, Draws,
         \/ type' \in {"not_easy", "nothing"}
         \/ UNCHANGED <<cnt, pos, type, direction>>
         \/ cnt' = 0
  PROVE  RedrawSound'
<1>1. CASE type' = "not_easy" \/ cnt' = 0
  BY <1>1 DEF RedrawSound
<1>2. CASE type' = "nothing"
  BY <1>2 DEF RedrawSound, Draws
<1>3. CASE UNCHANGED <<cnt, pos, type, direction>> /\ type' \notin {"not_easy", "nothing"}
  <2>1. drawn' = drawn
    BY <1>3 DEF Draws
  <2> QED
    BY <2>1, <1>3 DEF RedrawSound, Screen, First, Step
<1> QED
  BY <1>1, <1>2, <1>3

\* The line of the cursor, where a single line or two are redrawn.
LEMMA CursorLine ==
  ASSUME NEW n \in Nat, NEW p \in 0 .. n - 1, n > view_cnt
  PROVE  RedrawLine(p, n) = p - FirstOf(p, n)
  BY DEF RedrawLine, FirstOf

\* The cursor moved by d lines while nothing else was left to draw.
LEMMA RedrawEasy ==
  ASSUME TypeOK, RedrawSound, Draws, cnt > view_cnt, cnt' = cnt, type = "nothing",
         NEW d \in {-1, 1}, pos' = pos + d, pos' \in 0 .. cnt - 1,
         direction' = IF d = 1 THEN 0 ELSE 1,
         \/ type' = "top_bottom" /\ First' = First
         \/ type' = "middle" /\ First' = First + d
  PROVE  RedrawSound'
<1>1. cnt \in Nat /\ cnt # 0 /\ pos \in Nat /\ First \in Int
  BY DEF TypeOK, First, FirstOf
<1>2. drawn' = [first |-> First, pos |-> pos]
  BY <1>1 DEF Draws, RedrawSound, Screen, First
<1>3. Step' = d
  BY DEF Step
<1>4. Screen' = [first |-> First', pos |-> pos + d]
  BY DEF Screen, First
<1>5. RedrawLine(pos', cnt') = pos' - First'
  BY <1>1, CursorLine DEF First
<1>6. First' - d = First \/ First' = First
  BY <1>1
<1>7. pos' - d = pos
  BY <1>1
<1>8. type' = "top_bottom" => drawn' = [Screen' EXCEPT !.pos = @ - Step']
  BY <1>1, <1>2, <1>3, <1>4, <1>7
<1>9. type' = "middle" => drawn' = [first |-> First' - Step', pos |-> pos' - Step']
  BY <1>1, <1>2, <1>3, <1>7
<1> QED
  BY <1>5, <1>8, <1>9 DEF RedrawSound

LEMMA NextRedraws ==
  ASSUME Inv, RedrawSound, next, Draws
  PROVE  RedrawSound'
<1> USE DEF Inv, MovedTo, StayedAfter
<1>1. /\ cnt \in Nat /\ pos \in Nat /\ (cnt # 0 => pos < cnt)
      /\ direction' = 0
      /\ Pending \in {"nothing", "not_easy"}
  BY DEF TypeOK, Pending, next
<1>2. CASE \/ type' \in {"not_easy", "nothing"}
           \/ cnt = 0 /\ UNCHANGED <<shape, pos, type>>
  BY <1>2, RedrawPlain DEF shape
<1>3. CASE /\ cnt > view_cnt /\ pos + 1 # cnt
           /\ OnTopNext \/ pos + border_cnt + 1 >= cnt
           /\ Unread /\ MovedTo(pos + 1, Easy("top_bottom"))
           /\ type' \notin {"not_easy", "nothing"}
  <2>1. type = "nothing" /\ type' = "top_bottom"
    BY <1>3 DEF Easy, Pending
  <2>2. First' = First
    BY <1>1, <1>3, FirstKept DEF OnTopNext
  <2> QED
    BY <2>1, <2>2, <1>1, <1>3, RedrawEasy DEF Unread, shape
<1>4. CASE /\ cnt > view_cnt /\ ~OnTopNext /\ pos + border_cnt + 1 < cnt
           /\ Shifted(pos_begin + 1, pos_begin + view_cnt, pos + border_cnt + 1)
           /\ MovedTo(pos + 1, Easy("middle"))
           /\ type' \notin {"not_easy", "nothing"}
  <2>1. type = "nothing" /\ type' = "middle" /\ cnt' = cnt
    BY <1>4 DEF Easy, Pending, Shifted
  <2>2. First' = First + 1
    BY <1>1, <1>4, <2>1 DEF First, FirstOf, OnTopNext
  <2> QED
    BY <2>1, <2>2, <1>1, <1>4, RedrawEasy
<1> QED
  BY <1>1, <1>2, <1>3, <1>4 DEF next, jump_over

LEMMA PrevRedraws ==
  ASSUME Inv, RedrawSound, prev, Draws
  PROVE  RedrawSound'
<1> USE DEF Inv, MovedTo, StayedAfter
<1>1. /\ cnt \in Nat /\ pos \in Nat /\ (cnt # 0 => pos < cnt)
      /\ direction' = 1
      /\ Pending \in {"nothing", "not_easy"}
  BY DEF TypeOK, Pending, prev
<1>2. CASE \/ type' \in {"not_easy", "nothing"}
           \/ cnt = 0 /\ UNCHANGED <<shape, pos, type>>
  BY <1>2, RedrawPlain DEF shape
<1>3. CASE /\ cnt > view_cnt /\ pos # 0
           /\ OnTopPrev \/ pos + border_cnt >= cnt
           /\ Unread /\ MovedTo(pos - 1, Easy("top_bottom"))
           /\ type' \notin {"not_easy", "nothing"}
  <2>1. type = "nothing" /\ type' = "top_bottom" /\ pos' = pos + (-1)
    BY <1>1, <1>3 DEF Easy, Pending
  <2>2. First' = First
    BY <1>1, <1>3, FirstKept DEF OnTopPrev
  <2> QED
    BY <2>1, <2>2, <1>1, <1>3, RedrawEasy DEF Unread, shape
<1>4. CASE /\ cnt > view_cnt /\ ~OnTopPrev /\ pos + border_cnt < cnt
           /\ Shifted(pos_begin + view_cnt - 1, pos_begin + view_cnt - 1,
                      pos - border_cnt - 1)
           /\ MovedTo(pos - 1, Easy("middle"))
           /\ type' \notin {"not_easy", "nothing"}
  <2>1. type = "nothing" /\ type' = "middle" /\ cnt' = cnt /\ pos' = pos + (-1)
    BY <1>1, <1>4 DEF Easy, Pending, Shifted
  <2>2. First' = First + (-1)
    BY <1>1, <1>4, <2>1 DEF First, FirstOf, OnTopPrev
  <2> QED
    BY <2>1, <2>2, <1>1, <1>4, RedrawEasy DEF OnTopPrev
<1> QED
  BY <1>1, <1>2, <1>3, <1>4 DEF prev, jump_over

LEMMA StepRedraws ==
  ASSUME Inv, RedrawSound, [Next]_vars
  PROVE  RedrawSound'
<1>1. CASE next /\ Draws
  BY <1>1, NextRedraws
<1>2. CASE prev /\ Draws
  BY <1>2, PrevRedraws
<1>3. CASE (\E p \in 0 .. cnt - 1 : seek(p)) /\ Draws
  BY <1>3, RedrawPlain DEF seek, MovedTo, StayedAfter, Unread, shape
<1>4. CASE (\E l \in Lists : open_playlist(l)) /\ Draws
  BY <1>4, RedrawPlain DEF open_playlist, MovedTo
<1>5. CASE reset /\ Draws
  BY <1>5, RedrawPlain DEF reset, MovedTo
<1>6. CASE play /\ Draws
  BY <1>6, RedrawPlain DEF play, shape
<1>7. CASE display /\ Draws
  BY <1>7, RedrawPlain DEF display
<1>8. CASE UNCHANGED vars
  BY <1>8 DEF vars, shape, RedrawSound, Screen, First, Step
<1> QED
  BY <1>1, <1>2, <1>3, <1>4, <1>5, <1>6, <1>7, <1>8 DEF Next

\* The redraw type always says how the screen differs from what it is to show.
THEOREM RedrawAlways == Spec => []RedrawSound
<1>1. Init => RedrawSound
  BY DEF Init, RedrawSound
<1> QED
  BY <1>1, InvAlways, StepRedraws, PTL DEF Spec
=============================================================================

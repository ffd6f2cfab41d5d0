----------------------------- MODULE ViewProofs -----------------------------
(***************************************************************************)
(* Theorems about the player core, for every card: any number of playlist  *)
(* files, songs, paths and directories in place of songs.                  *)
(***************************************************************************)
EXTENDS View, WellFoundedInduction, TLAPS

(***************************************************************************)
(* The inductive invariant.  The properties alone are not inductive: that  *)
(* a step fits needs the lengths of the paths that were read (Stands),     *)
(* that a queue is not taken 2^32 times needs its count (Counted), that    *)
(* a failed choice empties nothing needs that nothing plays before a list  *)
(* has been looked at (PagesOK).                                           *)
(***************************************************************************)
PlaylistRec ==
  [fd : Lists \cup {Fake}, cnt : 0 .. view_cnt, pos : 0 .. view_cnt - 1,
   len : Nat, sz : Nat, of : Song \cup {NoPath}]

PlayingRec == [index : Lists \cup {max_plb_files}, value : PlaylistRec]

PlayerRec ==
  [pl : PlayingRec, next_playlist : PlayingRec, jmp_index : PlayingRec,
   repeat_counter : 0 .. repeat_max, backup_sz : Nat, audio_file : Song \cup {Fake},
   overrun : {"no", "open", "clone", "step"}]

\* A list that has songs stands at one of them, with its path in the buffer.
Stands(q) ==
  /\ q.fd = Fake => q.cnt = 0 /\ q.pos = 0
  /\ q.cnt # 0 => /\ q.cnt = cnt_songs[q.fd] /\ q.pos < q.cnt
                  /\ q.of = <<q.fd, q.pos>> /\ q.len <= q.sz

ListOK(q) == q \in PlaylistRec /\ Stands(q)

Indexed(p) == p.index = IF IsFake(p) THEN max_plb_files ELSE p.value.fd

\* What is queued is to be played at least once more.
Counted(s) == ~IsFake(s.next_playlist) => s.repeat_counter # 0

Decodes(s) ==
  s.pl.value.cnt # 0 =>
    s.audio_file = <<s.pl.value.fd, s.pl.value.pos>> \/ IsDir(s.audio_file)

ListsOK(s) ==
  /\ s \in PlayerRec
  /\ \A p \in {s.pl, s.next_playlist, s.jmp_index} : Stands(p.value) /\ Indexed(p)
  /\ Counted(s)

PlayerOK(s) == ListsOK(s) /\ Decodes(s)

PllOK(c) ==
  /\ c \in [cnt : CardSizes, pos : 0 .. view_cnt]
  /\ c.pos < c.cnt \/ c = [cnt |-> 0, pos |-> 0]

PlvOK(v) ==
  /\ v \in [fd : Lists \cup {Fake}, cnt : 0 .. view_cnt, pos : 0 .. view_cnt - 1,
            len : Nat, index : Lists \cup {max_plb_files}]
  /\ v.fd = Fake => v.cnt = 0 /\ v.pos = 0
  /\ v.cnt # 0 => v.cnt = cnt_songs[v.fd] /\ v.pos < v.cnt
  /\ v.index = IF v.fd = Fake THEN max_plb_files ELSE v.fd

AllFake(s) == IsFake(s.pl) /\ IsFake(s.next_playlist) /\ IsFake(s.jmp_index)

\* Nothing plays before a list has been looked at.
PagesOK == PllOK(pll) /\ PlvOK(plv) /\ (plv.fd = Fake => AllFake(Player))

AudioOK ==
  /\ state \in {"pl_list", "playlist", "song"}
  /\ state_song_view \in {"volume", "seek", "next_prev"}
  /\ repeat_mode \in BOOLEAN
  /\ pause_status \in {"play", "pause", "soft_pause"}
  /\ volume \in 0 .. volume_max
  /\ overrun \in {"no", "open", "clone"}

IInv == PlayerOK(Player) /\ PagesOK /\ AudioOK

(***************************************************************************)
(* Constants                                                               *)
(***************************************************************************)
LEMMA SongIs ==
  \A f, p : <<f, p>> \in Song <=> f \in Lists /\ p \in 0 .. cnt_songs[f] - 1
<1> TAKE f, p
<1>1. ASSUME <<f, p>> \in Song
      PROVE  f \in Lists /\ p \in 0 .. cnt_songs[f] - 1
  <2>1. PICK l \in Lists : <<f, p>> \in {l} \X (0 .. cnt_songs[l] - 1)
    BY <1>1 DEF Song
  <2> QED
    BY <2>1
<1>2. ASSUME f \in Lists, p \in 0 .. cnt_songs[f] - 1
      PROVE  <<f, p>> \in Song
  <2>1. <<f, p>> \in {f} \X (0 .. cnt_songs[f] - 1)
    BY <1>2
  <2> QED
    BY <2>1, <1>2 DEF Song
<1> QED
  BY <1>1, <1>2

LEMMA Sizes ==
  /\ view_cnt = 7
  /\ \A f \in Lists : f \in Nat /\ cnt_songs[f] \in 0 .. 7
  /\ \A f \in Lists : \A p \in 0 .. cnt_songs[f] - 1 : path_len[f][p] \in Nat
  /\ Fake \notin Lists /\ NoPath \notin Song
  BY ListsAssumption, FakeAssumption, NoPathAssumption DEF view_cnt

LEMMA ModRange ==
  ASSUME NEW n \in Nat \ {0}, NEW a \in Int
  PROVE  a % n \in 0 .. n - 1
  OBVIOUS

(***************************************************************************)
(* Moving in a list                                                        *)
(***************************************************************************)
\* A set of naturals given by two is bounded by the greater.
LEMMA LongerIsLonger ==
  ASSUME NEW a \in Nat, NEW b \in Nat
  PROVE  LongerOf(a, b) \in Nat /\ LongerOf(a, b) >= a /\ LongerOf(a, b) >= b
  BY DEF LongerOf

Lengths(q, direction, j) ==
  {q.sz} \cup {path_len[q.fd][PosAfter(q, direction, i)] : i \in 1 .. j}

LEMMA PosInList ==
  ASSUME NEW q, ListOK(q), q.cnt # 0, NEW direction \in {next, prev}, NEW j \in Nat
  PROVE  /\ PosAfter(q, direction, j) \in 0 .. q.cnt - 1
         /\ path_len[q.fd][PosAfter(q, direction, j)] \in Nat
         /\ <<q.fd, PosAfter(q, direction, j)>> \in Song
         /\ q.fd \in Lists /\ q.cnt = cnt_songs[q.fd] /\ q.cnt \in 1 .. 7
<1>1. q.fd \in Lists /\ q.cnt = cnt_songs[q.fd] /\ q.cnt \in 1 .. 7 /\ q.pos \in Int
  BY Sizes DEF ListOK, Stands, PlaylistRec
<1>2. q.pos + direction * j \in Int
  BY <1>1 DEF next, prev
<1>3. PosAfter(q, direction, j) \in 0 .. q.cnt - 1
  <2> DEFINE a == q.pos + direction * j
  <2>1. a \in Int /\ q.cnt \in Nat \ {0}
    BY <1>1, <1>2
  <2> HIDE DEF a
  <2>2. a % q.cnt \in 0 .. q.cnt - 1
    BY <2>1, ModRange
  <2> QED
    BY <2>2 DEF PosAfter, a
<1> QED
  BY <1>1, <1>3, Sizes, SongIs

\* A set of naturals has a least member.
LEMMA Least ==
  ASSUME NEW T, T \subseteq Nat, T # {}
  PROVE  \E m \in T : \A n \in T : m <= n
<1>1. PICK m \in T : \A n \in T : <<n, m>> \notin OpToRel(<, Nat)
  BY NatLessThanWellFounded, WFMin
<1>2. ASSUME NEW n \in T
      PROVE  m <= n
  <2>1. ~(n < m)
    BY <1>1 DEF OpToRel
  <2> QED
    BY <2>1
<1> QED
  BY <1>2

\* A list has a longest path; by the least number of moves for which it had none.
LEMMA LongestExists ==
  ASSUME NEW q, ListOK(q), q.cnt # 0, NEW direction \in {next, prev}, NEW j \in Nat
  PROVE  \E s \in Lengths(q, direction, j) :
           s \in Nat /\ \A t \in Lengths(q, direction, j) : t <= s
<1> DEFINE Has(i) == \E s \in Lengths(q, direction, i) :
                       s \in Nat /\ \A t \in Lengths(q, direction, i) : t <= s
           Bad == {i \in Nat : ~Has(i)}
           new(i) == path_len[q.fd][PosAfter(q, direction, i)]
<1>0. \A i \in Nat : new(i) \in Nat
  <2> TAKE i \in Nat
  <2> QED
    BY PosInList
<1>1. Has(0)
  <2>1. Lengths(q, direction, 0) = {q.sz}
    BY DEF Lengths
  <2> QED
    BY <2>1 DEF ListOK, PlaylistRec
<1>2. ASSUME NEW i \in Nat, Has(i)
      PROVE  Has(i + 1)
  <2>1. Lengths(q, direction, i + 1) = Lengths(q, direction, i) \cup {new(i + 1)}
    BY DEF Lengths
  <2>2. new(i + 1) \in Nat
    BY <1>0
  <2> HIDE DEF new
  <2>3. PICK s \in Lengths(q, direction, i) :
          s \in Nat /\ \A t \in Lengths(q, direction, i) : t <= s
    BY <1>2
  <2>4. CASE new(i + 1) <= s
    BY <2>1, <2>3, <2>4
  <2>5. CASE ~(new(i + 1) <= s)
    <3>1. \A t \in Lengths(q, direction, i) : t \in Nat
      BY <1>0 DEF Lengths, ListOK, PlaylistRec, new
    <3>2. ASSUME NEW t \in Lengths(q, direction, i + 1)
          PROVE  t <= new(i + 1)
      BY <2>1, <2>2, <2>3, <2>5, <3>1, <3>2
    <3> QED
      BY <2>1, <2>2, <3>2
  <2> QED
    BY <2>4, <2>5
<1> HIDE DEF Has
<1>3. Bad = {}
  <2> SUFFICES ASSUME Bad # {}
               PROVE  FALSE
    OBVIOUS
  <2>1. PICK m \in Bad : \A n \in Bad : m <= n
    BY Least
  <2>2. m # 0
    BY <1>1
  <2>3. m - 1 \in Nat /\ m - 1 \notin Bad
    BY <2>1, <2>2
  <2>4. Has((m - 1) + 1)
    BY <2>3, <1>2
  <2> QED
    BY <2>4
<1> QED
  BY <1>3 DEF Has

\* Moving keeps a list at one of its songs, and never shortens the buffer.
LEMMA SteppedOK ==
  ASSUME NEW q, ListOK(q), q.cnt # 0, NEW direction \in {next, prev}, NEW j \in Nat
  PROVE  /\ ListOK(Stepped(q, direction, j))
         /\ Stepped(q, direction, j).fd = q.fd
         /\ Stepped(q, direction, j).cnt = q.cnt
         /\ Stepped(q, direction, j).sz >= q.sz
<1>1. CASE j = 0
  BY <1>1 DEF Stepped, ListOK, PlaylistRec
<1>2. CASE j # 0
  <2> DEFINE p == PosAfter(q, direction, j)
             m == CHOOSE s \in Lengths(q, direction, j) :
                    \A t \in Lengths(q, direction, j) : t <= s
  <2>1. /\ m \in Lengths(q, direction, j) /\ m \in Nat
        /\ \A t \in Lengths(q, direction, j) : t <= m
    <3>1. m \in Lengths(q, direction, j) /\ \A t \in Lengths(q, direction, j) : t <= m
      BY LongestExists
    <3>2. PICK s \in Lengths(q, direction, j) :
            s \in Nat /\ \A t \in Lengths(q, direction, j) : t <= s
      BY LongestExists
    <3>3. q.sz \in Nat /\ q.sz \in Lengths(q, direction, j)
      BY DEF Lengths, ListOK, PlaylistRec
    <3>4. \A t \in Lengths(q, direction, j) : t \in Nat
      <4>1. ASSUME NEW i \in 1 .. j
            PROVE  path_len[q.fd][PosAfter(q, direction, i)] \in Nat
        <5>1. i \in Nat
          OBVIOUS
        <5> QED
          BY <5>1, PosInList
      <4> QED
        BY <3>3, <4>1 DEF Lengths
    <3> QED
      BY <3>1, <3>4
  <2>2. q.sz <= m /\ path_len[q.fd][p] <= m
    BY <1>2, <2>1 DEF Lengths
  <2>3. Stepped(q, direction, j) = [SoughtTo(q, p) EXCEPT !.sz = m]
    BY <1>2 DEF Stepped, Lengths
  <2>4. /\ p \in 0 .. q.cnt - 1 /\ path_len[q.fd][p] \in Nat /\ <<q.fd, p>> \in Song
        /\ q.fd \in Lists /\ q.cnt = cnt_songs[q.fd] /\ q.cnt \in 1 .. 7
    BY PosInList
  <2> HIDE DEF p, m
  <2>5. q = [fd |-> q.fd, cnt |-> q.cnt, pos |-> q.pos, len |-> q.len,
             sz |-> q.sz, of |-> q.of]
    BY DEF ListOK, PlaylistRec
  <2>6. Stepped(q, direction, j) =
          [fd |-> q.fd, cnt |-> q.cnt, pos |-> p, len |-> path_len[q.fd][p],
           sz |-> m, of |-> <<q.fd, p>>]
    BY <2>3, <2>5 DEF SoughtTo
  <2>7. m >= q.sz /\ m >= path_len[q.fd][p]
    BY <2>1, <2>2, <2>4 DEF ListOK, PlaylistRec
  <2>8. q.fd # Fake /\ p \in 0 .. view_cnt - 1 /\ q.cnt \in 0 .. view_cnt
    BY <2>4, Sizes
  <2> QED
    BY <2>1, <2>4, <2>6, <2>7, <2>8 DEF ListOK, Stands, PlaylistRec
<1> QED
  BY <1>1, <1>2

\* A list with the position of another and its own buffer.
LEMMA WithLplIs ==
  ASSUME NEW q \in PlaylistRec, NEW lpl, lpl.fd \in Lists \cup {Fake},
         lpl.cnt \in 0 .. view_cnt, lpl.pos \in 0 .. view_cnt - 1, lpl.len \in Nat
  PROVE  /\ WithLpl(q, lpl) \in PlaylistRec
         /\ WithLpl(q, lpl).fd = lpl.fd /\ WithLpl(q, lpl).cnt = lpl.cnt
         /\ WithLpl(q, lpl).pos = lpl.pos /\ WithLpl(q, lpl).len = lpl.len
         /\ WithLpl(q, lpl).sz = q.sz /\ WithLpl(q, lpl).of = q.of
  BY DEF WithLpl, PlaylistRec

\* A failed seek gives the position of the backup back, not its path.
Failed(o, q, backup) ==
  /\ o.ok = FALSE /\ o.over \in BOOLEAN /\ o.q \in PlaylistRec
  /\ o.q.fd = backup.fd /\ o.q.cnt = backup.cnt
  /\ o.q.pos = backup.pos /\ o.q.len = backup.len
  /\ o.q.sz >= q.sz /\ o.q.of \in {q.of, backup.of}
  /\ o.over => backup.len > q.sz

LEMMA SeekFails ==
  ASSUME NEW q \in PlaylistRec, NEW p, path_len[q.fd][p] \in Nat,
         NEW backup \in PlaylistRec, NEW o \in SeekFailures(q, p, backup)
  PROVE  Failed(o, q, backup)
<1> DEFINE g == Grown(q, p)
           old == WithLpl(q, backup)
<1>1. q.sz \in Nat /\ backup.len \in Nat /\ g \in Nat /\ g >= q.sz
  BY LongerIsLonger DEF Grown, PlaylistRec
<1>2. /\ old \in PlaylistRec /\ old.sz = q.sz /\ old.of = q.of /\ old.fd = backup.fd
      /\ old.cnt = backup.cnt /\ old.pos = backup.pos /\ old.len = backup.len
  BY WithLplIs DEF PlaylistRec
<1> HIDE DEF g, old
<1>3. \/ o = [q |-> old, ok |-> FALSE, over |-> FALSE]
      \/ o = [q |-> [old EXCEPT !.sz = g], ok |-> FALSE, over |-> FALSE]
      \/ o = [q |-> [old EXCEPT !.sz = g, !.of = backup.of], ok |-> FALSE,
              over |-> backup.len > g]
  BY DEF SeekFailures, Outcome, g, old
<1>4. CASE o = [q |-> old, ok |-> FALSE, over |-> FALSE]
  BY <1>1, <1>2, <1>4 DEF Failed
<1>5. CASE o = [q |-> [old EXCEPT !.sz = g], ok |-> FALSE, over |-> FALSE]
  <2>1. o.q = [old EXCEPT !.sz = g] /\ o.ok = FALSE /\ o.over = FALSE
    BY <1>5
  <2> QED
    BY <1>1, <1>2, <2>1 DEF PlaylistRec, Failed
<1>6. CASE o = [q |-> [old EXCEPT !.sz = g, !.of = backup.of], ok |-> FALSE,
                over |-> backup.len > g]
  <2> DEFINE new  == [old EXCEPT !.sz = g, !.of = backup.of]
             long == backup.len > g
  <2>1. /\ new \in PlaylistRec /\ new.sz = g /\ new.of = backup.of
        /\ new.fd = old.fd /\ new.cnt = old.cnt /\ new.pos = old.pos /\ new.len = old.len
    BY <1>1, <1>2 DEF PlaylistRec
  <2>2. long \in BOOLEAN /\ (long => backup.len > q.sz)
    BY <1>1
  <2>3. o = [q |-> new, ok |-> FALSE, over |-> long]
    BY <1>6
  <2> HIDE DEF new, long
  <2>4. o.q = new /\ o.ok = FALSE /\ o.over = long
    BY <2>3
  <2> QED
    BY <1>1, <1>2, <2>1, <2>2, <2>4 DEF Failed
<1> QED
  BY <1>3, <1>4, <1>5, <1>6

\* clone: the position, the path and at least the buffer of the other list.
LEMMA CloneOK ==
  ASSUME NEW q \in PlaylistRec, NEW other, ListOK(other),
         NEW c \in CloneOutcomes(q, other)
  PROVE  /\ c.ok \in BOOLEAN /\ c.over \in BOOLEAN
         /\ c.ok => /\ ListOK(c.q) /\ c.q.fd = other.fd /\ c.q.cnt = other.cnt
                    /\ c.q.pos = other.pos /\ c.q.len = other.len
                    /\ c.q.of = other.of /\ c.q.sz >= other.sz
         /\ c.over => other.cnt = 0
<1> DEFINE l == LongerOf(q.sz, other.sz)
           new == [WithLpl(q, other) EXCEPT !.sz = l, !.of = other.of]
           long == other.len > l
<1>1. /\ other \in PlaylistRec /\ q.sz \in Nat /\ other.sz \in Nat /\ other.len \in Nat
      /\ l \in Nat /\ l >= other.sz
  BY LongerIsLonger DEF ListOK, PlaylistRec
<1>2. long \in BOOLEAN /\ (long => other.cnt = 0)
  BY <1>1 DEF ListOK, Stands
<1> HIDE DEF l, long
<1>3. /\ WithLpl(q, other) \in PlaylistRec /\ WithLpl(q, other).fd = other.fd
      /\ WithLpl(q, other).cnt = other.cnt /\ WithLpl(q, other).pos = other.pos
      /\ WithLpl(q, other).len = other.len
  BY <1>1, WithLplIs DEF PlaylistRec
<1>4. /\ new \in PlaylistRec /\ new.fd = other.fd /\ new.cnt = other.cnt
      /\ new.pos = other.pos /\ new.len = other.len
      /\ new.sz = l /\ new.of = other.of
  BY <1>1, <1>3 DEF PlaylistRec
<1>5. \/ c = [q |-> new, ok |-> TRUE, over |-> long]
      \/ c = [q |-> q, ok |-> FALSE, over |-> FALSE]
  BY DEF CloneOutcomes, Cloned, Outcome, l, long
<1> HIDE DEF new
<1>6. ListOK(new)
  BY <1>1, <1>4 DEF ListOK, Stands, PlaylistRec
<1>7. CASE c = [q |-> new, ok |-> TRUE, over |-> long]
  <2>1. c.q = new /\ c.ok = TRUE /\ c.over = long
    BY <1>7
  <2> QED
    BY <1>1, <1>2, <1>4, <1>6, <2>1
<1>8. CASE c = [q |-> q, ok |-> FALSE, over |-> FALSE]
  <2>1. c.ok = FALSE /\ c.over = FALSE
    BY <1>8
  <2> QED
    BY <2>1
<1> QED
  BY <1>5, <1>7, <1>8

LEMMA OpensIsSong ==
  ASSUME NEW d
  PROVE  /\ IsDir(d) => d \in Song /\ ~Opens(d)
         /\ Opens(d) => d \in Song /\ ~IsDir(d)
  BY DEF IsDir, Opens

\* open_song_not_found: a song of the list that opens, or a failure that leaves
\* the audio file as it was or with a directory in it.
LEMMA NotFound ==
  ASSUME NEW q, ListOK(q), NEW backup \in PlaylistRec, NEW direction \in {next, prev},
         NEW old \in Song \cup {Fake},
         NEW o \in OpenSongNotFound(q, backup, direction, old)
  PROVE  /\ o.ok \in BOOLEAN /\ o.over \in BOOLEAN /\ o.q \in PlaylistRec
         /\ o.over => q.cnt # 0 /\ backup.len > q.sz
         /\ o.file \in Song \cup {Fake}
         /\ o.ok => /\ ListOK(o.q) /\ o.q.fd = q.fd /\ o.q.cnt = q.cnt
                    /\ q.cnt = 0 => o.q = q /\ o.file = old
                    /\ q.cnt # 0 => o.file = <<o.q.fd, o.q.pos>> /\ ~IsDir(o.file)
         /\ ~o.ok => o.file = old \/ IsDir(o.file)
<1> DEFINE At(j)   == Stepped(q, direction, j)
           Left(j) == {old} \cup {d \in {At(i).of : i \in 0 .. j - 1} : IsDir(d)}
           End(r, file, ok, over) ==
             [q |-> r, file |-> file, ok |-> ok, over |-> over]
<1>1. CASE q.cnt = 0
  <2>1. o = End(q, old, TRUE, FALSE)
    BY <1>1 DEF OpenSongNotFound
  <2>2. o.q = q /\ o.file = old /\ o.ok = TRUE /\ o.over = FALSE
    BY <2>1
  <2> QED
    BY <1>1, <2>2 DEF ListOK
<1>2. CASE q.cnt # 0
  <2>1. \A j \in Nat : /\ ListOK(At(j)) /\ At(j).fd = q.fd /\ At(j).cnt = q.cnt
                       /\ At(j).sz >= q.sz
    BY <1>2, SteppedOK
  <2>2. q.cnt \in Nat /\ q.sz \in Nat /\ backup.len \in Nat
    BY DEF ListOK, PlaylistRec
  <2>3. \A j : \A file \in Left(j) :
          file \in Song \cup {Fake} /\ (file = old \/ IsDir(file))
    BY OpensIsSong
  <2> HIDE DEF At, Left
  <2>4. \/ \E j \in {i \in 0 .. q.cnt - 1 : Opens(At(i).of)} :
             o = End(At(j), At(j).of, TRUE, FALSE)
        \/ \E file \in Left(q.cnt) : o = End(At(q.cnt), file, FALSE, FALSE)
        \/ \E j \in 1 .. q.cnt :
             \E f \in StepFailures(At(j - 1), direction, backup), file \in Left(j) :
               o = End(f.q, file, FALSE, f.over)
    BY <1>2 DEF OpenSongNotFound, At, Left
  <2>5. ASSUME NEW j \in {i \in 0 .. q.cnt - 1 : Opens(At(i).of)},
               o = End(At(j), At(j).of, TRUE, FALSE)
        PROVE  o.q = At(j) /\ o.file = At(j).of /\ o.ok = TRUE /\ o.over = FALSE
               /\ ListOK(At(j)) /\ At(j).of = <<At(j).fd, At(j).pos>>
    <3>1. j \in Nat
      BY <2>2, <2>5
    <3> QED
      BY <1>2, <2>1, <2>5, <3>1 DEF ListOK, Stands
  <2>6. ASSUME NEW j \in {i \in 0 .. q.cnt - 1 : Opens(At(i).of)},
               o = End(At(j), At(j).of, TRUE, FALSE)
        PROVE  /\ o.ok = TRUE /\ o.over = FALSE /\ ListOK(o.q)
               /\ o.q.fd = q.fd /\ o.q.cnt = q.cnt
               /\ o.file = <<o.q.fd, o.q.pos>> /\ o.file \in Song /\ ~IsDir(o.file)
    <3>1. j \in Nat /\ Opens(At(j).of)
      BY <2>2, <2>6
    <3> QED
      BY <2>1, <2>5, <2>6, <3>1, OpensIsSong
  <2>7. ASSUME NEW file \in Left(q.cnt), o = End(At(q.cnt), file, FALSE, FALSE)
        PROVE  o.ok = FALSE /\ o.over = FALSE /\ o.file = file /\ o.q \in PlaylistRec
    BY <2>1, <2>2, <2>7 DEF ListOK
  <2>8. ASSUME NEW j \in 1 .. q.cnt,
               NEW f \in StepFailures(At(j - 1), direction, backup),
               NEW file \in Left(j), o = End(f.q, file, FALSE, f.over)
        PROVE  /\ o.ok = FALSE /\ o.over \in BOOLEAN /\ o.file = file
               /\ o.q \in PlaylistRec /\ (o.over => backup.len > q.sz)
    <3> DEFINE r == At(j - 1)
               p == PosAfter(r, direction, 1)
    <3>1. ListOK(r) /\ r.cnt # 0 /\ r.sz \in Nat /\ r.sz >= q.sz
      <4>1. j - 1 \in Nat
        BY <2>2
      <4> QED
        BY <1>2, <2>1, <4>1 DEF ListOK, PlaylistRec
    <3>2. f \in SeekFailures(r, p, backup)
      BY DEF StepFailures
    <3> HIDE DEF r, p
    <3>3. path_len[r.fd][PosAfter(r, direction, 1)] \in Nat
      BY <3>1, PosInList
    <3>4. Failed(f, r, backup)
      BY <3>1, <3>2, <3>3, SeekFails DEF ListOK, p
    <3>5. o.ok = FALSE /\ o.over = f.over /\ o.file = file /\ o.q = f.q
      BY <2>8
    <3> QED
      BY <2>2, <3>1, <3>4, <3>5 DEF Failed
  <2>9. CASE \E j \in {i \in 0 .. q.cnt - 1 : Opens(At(i).of)} :
               o = End(At(j), At(j).of, TRUE, FALSE)
    BY <1>2, <2>6, <2>9 DEF ListOK
  <2>10. CASE \E file \in Left(q.cnt) : o = End(At(q.cnt), file, FALSE, FALSE)
    BY <2>3, <2>7, <2>10
  <2>11. CASE \E j \in 1 .. q.cnt :
                \E f \in StepFailures(At(j - 1), direction, backup), file \in Left(j) :
                  o = End(f.q, file, FALSE, f.over)
    <3>1. PICK j \in 1 .. q.cnt :
            \E f \in StepFailures(At(j - 1), direction, backup), file \in Left(j) :
              o = End(f.q, file, FALSE, f.over)
      BY <2>11
    <3>2. PICK f \in StepFailures(At(j - 1), direction, backup), file \in Left(j) :
            o = End(f.q, file, FALSE, f.over)
      BY <3>1
    <3>3. /\ o.ok = FALSE /\ o.over \in BOOLEAN /\ o.file = file
          /\ o.q \in PlaylistRec /\ (o.over => backup.len > q.sz)
      BY <2>8, <3>2
    <3> QED
      BY <1>2, <2>3, <3>2, <3>3
  <2> QED
    BY <2>4, <2>9, <2>10, <2>11
<1> QED
  BY <1>1, <1>2

(***************************************************************************)
(* Changing the song                                                       *)
(***************************************************************************)
LEMMA MakeFakeIs ==
  ASSUME NEW q \in PlaylistRec
  PROVE  /\ MakeFake(q) \in PlaylistRec /\ MakeFake(q).fd = Fake /\ MakeFake(q).cnt = 0
         /\ MakeFake(q).pos = 0 /\ MakeFake(q).sz = q.sz
<1>1. 0 \in 0 .. view_cnt /\ 0 \in 0 .. view_cnt - 1
  BY DEF view_cnt
<1> QED
  BY <1>1 DEF MakeFake, PlaylistRec

LEMMA ResetOK ==
  ASSUME NEW p \in PlayingRec
  PROVE  /\ ResetPlaying(p) \in PlayingRec /\ IsFake(ResetPlaying(p))
         /\ Stands(ResetPlaying(p).value) /\ Indexed(ResetPlaying(p))
<1> DEFINE v == MakeFake(p.value)
<1>1. v \in PlaylistRec /\ v.fd = Fake /\ v.cnt = 0 /\ v.pos = 0
  BY MakeFakeIs DEF PlayingRec
<1> HIDE DEF v
<1>2. ResetPlaying(p) = [index |-> max_plb_files, value |-> v]
  BY DEF ResetPlaying, v
<1> QED
  BY <1>1, <1>2 DEF PlayingRec, IsFake, Stands, Indexed

LEMMA BackupRec ==
  ASSUME NEW s \in PlayerRec
  PROVE  Backup(s) \in PlaylistRec
  BY DEF Backup, NullPlaylist, PlayerRec, PlaylistRec, view_cnt

\* The parts of a player.
LEMMA PlayerHas ==
  ASSUME NEW s, ListsOK(s)
  PROVE  /\ s \in PlayerRec
         /\ s.pl \in PlayingRec /\ s.next_playlist \in PlayingRec
         /\ s.jmp_index \in PlayingRec /\ s.repeat_counter \in 0 .. repeat_max
         /\ s.backup_sz \in Nat /\ s.audio_file \in Song \cup {Fake}
         /\ ListOK(s.pl.value) /\ ListOK(s.next_playlist.value)
         /\ ListOK(s.jmp_index.value)
  BY DEF ListsOK, PlayerRec, PlayingRec, ListOK

\* What moving in the playing list leaves: the queue, and the list itself.
InList(s, r) ==
  /\ r.overrun = s.overrun
  /\ r.next_playlist = s.next_playlist
  /\ r.jmp_index = s.jmp_index
  /\ r.repeat_counter = s.repeat_counter
  /\ r.pl.index = s.pl.index
  /\ r.pl.value.fd = s.pl.value.fd

LEMMA InListOK ==
  ASSUME NEW s, ListsOK(s), NEW r \in PlayerRec, InList(s, r),
         ListOK(r.pl.value), Decodes(r)
  PROVE  PlayerOK(r)
  BY DEF PlayerOK, ListsOK, InList, ListOK, Counted, Indexed, IsFake

\* The list moves: to a song that was opened, or back.
Opened(s, r) ==
  r.pl.value.cnt # 0 /\ ~SameSong(r.pl.value, s.pl.value) =>
    r.audio_file = <<r.pl.value.fd, r.pl.value.pos>> /\ ~IsDir(r.audio_file)

MovedWell(s, r) == PlayerOK(r) /\ InList(s, r) /\ Opened(s, r)

LEMMA MovedTo ==
  ASSUME NEW s, PlayerOK(s), NEW r \in PlayerRec, InList(s, r), ListOK(r.pl.value),
         r.pl.value.cnt # 0 => \/ r.audio_file = <<r.pl.value.fd, r.pl.value.pos>>
                               \/ IsDir(r.audio_file),
         r.pl.value.cnt # 0 /\ ~SameSong(r.pl.value, s.pl.value) =>
           r.audio_file = <<r.pl.value.fd, r.pl.value.pos>> /\ ~IsDir(r.audio_file)
  PROVE  MovedWell(s, r)
  BY InListOK DEF MovedWell, Opened, Decodes, PlayerOK

\* The fields after the playing list is replaced.
Moves(s, r, q, file) ==
  r \in PlayerRec /\ InList(s, r) /\ r.pl.value = q /\ r.audio_file = file

LEMMA MoveFields ==
  ASSUME NEW s \in PlayerRec, NEW q \in PlaylistRec, q.fd = s.pl.value.fd
  PROVE  Moves(s, [s EXCEPT !.pl.value = q], q, s.audio_file)
<1>1. /\ [s.pl EXCEPT !.value = q] \in PlayingRec /\ [s.pl EXCEPT !.value = q].value = q
      /\ [s.pl EXCEPT !.value = q].index = s.pl.index
  BY DEF PlayerRec, PlayingRec
<1> QED
  BY <1>1 DEF PlayerRec, InList, Moves

LEMMA MoveAndOpenFields ==
  ASSUME NEW s \in PlayerRec, NEW q \in PlaylistRec, q.fd = s.pl.value.fd,
         NEW file \in Song \cup {Fake}
  PROVE  Moves(s, [s EXCEPT !.pl.value = q, !.audio_file = file], q, file)
<1>1. /\ [s.pl EXCEPT !.value = q] \in PlayingRec /\ [s.pl EXCEPT !.value = q].value = q
      /\ [s.pl EXCEPT !.value = q].index = s.pl.index
  BY DEF PlayerRec, PlayingRec
<1> QED
  BY <1>1 DEF PlayerRec, InList, Moves

LEMMA MoveBackFields ==
  ASSUME NEW s \in PlayerRec, NEW q \in PlaylistRec, q.fd = s.pl.value.fd,
         NEW file \in Song \cup {Fake}, NEW n \in Nat
  PROVE  Moves(s, [s EXCEPT !.pl.value = q, !.audio_file = file, !.backup_sz = n], q, file)
<1>1. /\ [s.pl EXCEPT !.value = q] \in PlayingRec /\ [s.pl EXCEPT !.value = q].value = q
      /\ [s.pl EXCEPT !.value = q].index = s.pl.index
  BY DEF PlayerRec, PlayingRec
<1> QED
  BY <1>1 DEF PlayerRec, InList, Moves

LEMMA BackupFields ==
  ASSUME NEW s \in PlayerRec, NEW n \in Nat, NEW r, r = [s EXCEPT !.backup_sz = n]
  PROVE  r \in PlayerRec /\ InList(s, r) /\ r.pl = s.pl /\ r.audio_file = s.audio_file
  BY DEF PlayerRec, InList

\* A step in a list, with a backup of the same position.
LEMMA StepOK ==
  ASSUME NEW q, ListOK(q), NEW b, ListOK(b), NEW direction \in {next, prev},
         b.fd = q.fd, b.cnt = q.cnt, b.pos = q.pos, b.len = q.len, b.of = q.of,
         NEW n \in StepOutcomes(q, direction, b)
  PROVE  /\ n.ok \in BOOLEAN /\ n.over = FALSE /\ ListOK(n.q)
         /\ n.q.fd = q.fd /\ n.q.cnt = q.cnt /\ n.q.sz >= q.sz
         /\ ~n.ok => n.q.pos = q.pos
<1>0. q.sz \in Nat /\ q.len \in Nat
  BY DEF ListOK, PlaylistRec
<1>1. CASE n = [q |-> q, ok |-> TRUE, over |-> FALSE]
  BY <1>0, <1>1
<1>2. CASE q.cnt # 0 /\ n = [q |-> Stepped(q, direction, 1), ok |-> TRUE, over |-> FALSE]
  <2>1. n.q = Stepped(q, direction, 1) /\ n.ok = TRUE /\ n.over = FALSE
    BY <1>2
  <2> QED
    BY <1>2, <2>1, SteppedOK
<1>3. CASE q.cnt # 0 /\ n \in StepFailures(q, direction, b)
  <2>1. path_len[q.fd][PosAfter(q, direction, 1)] \in Nat
    BY <1>3, PosInList
  <2>2. /\ n.ok = FALSE /\ n.over \in BOOLEAN /\ n.q \in PlaylistRec
        /\ n.q.fd = q.fd /\ n.q.cnt = q.cnt /\ n.q.pos = q.pos /\ n.q.len = q.len
        /\ n.q.sz >= q.sz /\ n.q.of = q.of /\ (n.over => q.len > q.sz)
    <3> DEFINE p == PosAfter(q, direction, 1)
    <3>1. n \in SeekFailures(q, p, b) /\ path_len[q.fd][p] \in Nat
      BY <1>3, <2>1 DEF StepFailures
    <3> HIDE DEF p
    <3>2. q \in PlaylistRec /\ b \in PlaylistRec
      BY DEF ListOK
    <3>3. Failed(n, q, b)
      BY <3>1, <3>2, SeekFails
    <3> QED
      BY <3>3 DEF Failed
  <2>3. q.len <= q.sz
    BY <1>3 DEF ListOK, Stands
  <2>4. n.over = FALSE /\ n.q.len <= n.q.sz
    BY <1>0, <2>2, <2>3 DEF PlaylistRec
  <2> QED
    BY <2>2, <2>4 DEF ListOK, Stands
<1> QED
  BY <1>1, <1>2, <1>3 DEF StepOutcomes, Outcome

LEMMA MovedOnOK ==
  ASSUME NEW s, PlayerOK(s), NEW b, ListOK(b), NEW direction \in {next, prev},
         b.fd = s.pl.value.fd, b.cnt = s.pl.value.cnt, b.pos = s.pl.value.pos,
         b.len = s.pl.value.len, b.of = s.pl.value.of,
         NEW n \in StepOutcomes(s.pl.value, direction, b),
         NEW r \in MovedOn(s, direction, b, n)
  PROVE  MovedWell(s, r)
<1> DEFINE q == s.pl.value
<1>1. /\ ListOK(q) /\ s \in PlayerRec /\ s.audio_file \in Song \cup {Fake}
      /\ (q.cnt # 0 => s.audio_file = <<q.fd, q.pos>> \/ IsDir(s.audio_file))
  BY PlayerHas DEF PlayerOK, ListsOK, Decodes
<1>2. /\ n.ok \in BOOLEAN /\ n.over = FALSE /\ ListOK(n.q)
      /\ n.q.fd = q.fd /\ n.q.cnt = q.cnt /\ n.q.sz >= q.sz
      /\ ~n.ok => n.q.pos = q.pos
  BY <1>1, StepOK, ZenonT(60)
<1>3. CASE ~n.ok
  <2>1. r = [s EXCEPT !.pl.value = n.q]
    BY <1>2, <1>3 DEF MovedOn
  <2>2. /\ r \in PlayerRec /\ InList(s, r) /\ r.pl.value = n.q
        /\ r.audio_file = s.audio_file
    BY <1>1, <1>2, <2>1, MoveFields DEF ListOK, Moves
  <2> QED
    BY <1>1, <1>2, <1>3, <2>2, MovedTo DEF SameSong
<1>4. CASE n.ok
  <2>1. PICK o \in OpenSongNotFound(n.q, b, direction, s.audio_file) :
          r = IF o.over THEN Overrun(s, "step")
              ELSE IF o.ok
                THEN [s EXCEPT !.pl.value = o.q, !.audio_file = o.file]
                ELSE [s EXCEPT !.pl.value = b, !.audio_file = o.file, !.backup_sz = 0]
    BY <1>2, <1>4 DEF MovedOn
  <2>2. /\ o.ok \in BOOLEAN /\ o.over \in BOOLEAN /\ o.q \in PlaylistRec
        /\ o.over => n.q.cnt # 0 /\ b.len > n.q.sz
        /\ o.file \in Song \cup {Fake}
        /\ o.ok => /\ ListOK(o.q) /\ o.q.fd = n.q.fd /\ o.q.cnt = n.q.cnt
                   /\ n.q.cnt = 0 => o.q = n.q /\ o.file = s.audio_file
                   /\ n.q.cnt # 0 => o.file = <<o.q.fd, o.q.pos>> /\ ~IsDir(o.file)
        /\ ~o.ok => o.file = s.audio_file \/ IsDir(o.file)
    BY <1>1, <1>2, NotFound DEF ListOK
  <2>3. ~o.over
    BY <1>1, <1>2, <2>2 DEF ListOK, Stands, PlaylistRec
  <2>4. CASE o.ok
    <3>1. r = [s EXCEPT !.pl.value = o.q, !.audio_file = o.file]
      BY <2>1, <2>3, <2>4
    <3>2. /\ r \in PlayerRec /\ InList(s, r) /\ r.pl.value = o.q
          /\ r.audio_file = o.file
      <4>1. /\ o.q \in PlaylistRec /\ o.q.fd = s.pl.value.fd
            /\ o.file \in Song \cup {Fake}
        BY <1>2, <2>2, <2>4
      <4>2. Moves(s, [s EXCEPT !.pl.value = o.q, !.audio_file = o.file], o.q, o.file)
        BY <1>1, <4>1, MoveAndOpenFields
      <4> QED
        BY <3>1, <4>2 DEF Moves
    <3> QED
      BY <1>2, <2>2, <2>4, <3>2, MovedTo
  <2>5. CASE ~o.ok
    <3>1. r = [s EXCEPT !.pl.value = b, !.audio_file = o.file, !.backup_sz = 0]
      BY <2>1, <2>3, <2>5
    <3>2. /\ r \in PlayerRec /\ InList(s, r) /\ r.pl.value = b
          /\ r.audio_file = o.file
      <4>1. b \in PlaylistRec /\ 0 \in Nat /\ o.file \in Song \cup {Fake}
        BY <2>2 DEF ListOK
      <4>2. Moves(s, [s EXCEPT !.pl.value = b, !.audio_file = o.file, !.backup_sz = 0],
                  b, o.file)
        BY <1>1, <4>1, MoveBackFields
      <4> QED
        BY <3>1, <4>2 DEF Moves
    <3> QED
      BY <1>1, <2>2, <2>5, <3>2, MovedTo DEF SameSong
  <2> QED
    BY <2>2, <2>4, <2>5
<1> QED
  BY <1>2, <1>3, <1>4

\* next_song and prev_song inside the playing list.
LEMMA ChangeInListOK ==
  ASSUME NEW s, PlayerOK(s), NEW direction \in {next, prev},
         NEW r \in ChangeInList(s, direction)
  PROVE  r.overrun = "clone" \/ MovedWell(s, r)
<1>1. PICK c \in CloneOutcomes(Backup(s), s.pl.value) :
        r \in IF ~c.ok THEN {s}
              ELSE IF c.over THEN {Overrun(s, "clone")}
              ELSE LET s1 == [s EXCEPT !.backup_sz = c.q.sz]
                   IN UNION {MovedOn(s1, direction, c.q, n) :
                               n \in StepOutcomes(s.pl.value, direction, c.q)}
  BY DEF ChangeInList
<1>2. s \in PlayerRec /\ ListOK(s.pl.value) /\ Backup(s) \in PlaylistRec
  BY PlayerHas, BackupRec DEF PlayerOK
<1>3. /\ c.ok \in BOOLEAN /\ c.over \in BOOLEAN
      /\ c.ok => /\ ListOK(c.q) /\ c.q.fd = s.pl.value.fd /\ c.q.cnt = s.pl.value.cnt
                 /\ c.q.pos = s.pl.value.pos /\ c.q.len = s.pl.value.len
                 /\ c.q.of = s.pl.value.of
  BY <1>2, CloneOK
<1>4. CASE ~c.ok
  BY <1>1, <1>4 DEF MovedWell, InList, Opened, SameSong
<1>5. CASE c.ok /\ c.over
  <2>1. r = [s EXCEPT !.overrun = "clone"]
    BY <1>1, <1>5 DEF Overrun
  <2> QED
    BY <1>2, <2>1 DEF PlayerRec
<1>6. CASE c.ok /\ ~c.over
  <2> DEFINE s1 == [s EXCEPT !.backup_sz = c.q.sz]
  <2>1. PICK n \in StepOutcomes(s.pl.value, direction, c.q) :
          r \in MovedOn(s1, direction, c.q, n)
    BY <1>1, <1>6
  <2>2. c.q.sz \in Nat /\ s.pl.value \in PlaylistRec
    BY <1>2, <1>3, <1>6 DEF ListOK, PlaylistRec
  <2>3. /\ s1 \in PlayerRec /\ InList(s, s1) /\ s1.pl.value = s.pl.value
        /\ s1.audio_file = s.audio_file
    BY <1>2, <2>2, BackupFields
  <2> HIDE DEF s1
  <2>4. Decodes(s1)
    BY <2>3 DEF PlayerOK, ListsOK, Decodes
  <2>5. PlayerOK(s1)
    BY <1>2, <2>3, <2>4, InListOK DEF PlayerOK
  <2>6. MovedWell(s1, r)
    BY <1>3, <1>6, <2>1, <2>3, <2>5, MovedOnOK
  <2> QED
    BY <2>3, <2>6 DEF MovedWell, InList, Opened
<1> QED
  BY <1>3, <1>4, <1>5, <1>6

(***************************************************************************)
(* The queue is taken or dropped                                           *)
(***************************************************************************)
QueueGone(r) == IsFake(r.next_playlist) /\ IsFake(r.jmp_index)

Taken(s, r) ==
  /\ r.overrun = s.overrun
  /\ r.pl.value.fd = s.next_playlist.value.fd
  /\ IF s.repeat_counter = 1
       THEN QueueGone(r)
       ELSE /\ r.repeat_counter = s.repeat_counter - 1
            /\ SameSong(r.next_playlist.value, s.next_playlist.value)
            /\ r.jmp_index = s.jmp_index
  /\ r.pl.value.cnt # 0 =>
       r.audio_file = <<r.pl.value.fd, r.pl.value.pos>> /\ ~IsDir(r.audio_file)

Dropped(s, r) ==
  /\ r.overrun = s.overrun
  /\ r.pl.value.fd = s.pl.value.fd
  /\ QueueGone(r)
  /\ Opened(s, r)

LEMMA AudioFields ==
  ASSUME NEW s \in PlayerRec, NEW file \in Song \cup {Fake},
         NEW r, r = [s EXCEPT !.audio_file = file]
  PROVE  /\ r \in PlayerRec /\ r.audio_file = file /\ r.pl = s.pl
         /\ r.next_playlist = s.next_playlist /\ r.jmp_index = s.jmp_index
         /\ r.repeat_counter = s.repeat_counter /\ r.overrun = s.overrun
         /\ r.backup_sz = s.backup_sz
  BY DEF PlayerRec

\* The queue is played for the last time: it and the mark are gone.
TookLast(s, r, p) ==
  /\ r \in PlayerRec /\ r.pl = p /\ r.audio_file = s.audio_file
  /\ r.overrun = s.overrun
  /\ r.next_playlist = ResetPlaying(s.pl)
  /\ r.jmp_index = ResetPlaying(s.jmp_index)
  /\ r.repeat_counter = 0

LEMMA LastTaken ==
  ASSUME NEW s \in PlayerRec, s.repeat_counter = 1,
         NEW backup \in PlaylistRec, NEW p \in PlayingRec
  PROVE  TookLast(s, [QueueTaken(s, backup) EXCEPT !.pl = p], p)
<1> DEFINE no   == ResetPlaying(s.pl)
           none == ResetPlaying(s.jmp_index)
<1>1. no \in PlayingRec /\ none \in PlayingRec /\ backup.sz \in Nat /\ 0 \in 0 .. repeat_max
  BY ResetOK, BoundsAssumption DEF PlayerRec, PlaylistRec
<1> HIDE DEF no, none
<1>2. QueueTaken(s, backup) = [s EXCEPT !.repeat_counter = 0, !.next_playlist = no,
                                        !.jmp_index = none, !.backup_sz = backup.sz]
  BY DEF QueueTaken, no, none
<1> QED
  BY <1>1, <1>2 DEF PlayerRec, no, none, TookLast

\* It is to be played again: it stays as it was, once less.
TookOne(s, r, p, backup) ==
  /\ r \in PlayerRec /\ r.pl = p /\ r.audio_file = s.audio_file
  /\ r.overrun = s.overrun
  /\ r.next_playlist.index = s.next_playlist.index
  /\ r.next_playlist.value = backup
  /\ r.jmp_index = s.jmp_index
  /\ r.repeat_counter = s.repeat_counter - 1
  /\ r.repeat_counter # 0

LEMMA TakenAgain ==
  ASSUME NEW s \in PlayerRec, s.repeat_counter \notin {0, 1},
         NEW backup \in PlaylistRec, NEW p \in PlayingRec
  PROVE  TookOne(s, [QueueTaken(s, backup) EXCEPT !.pl = p], p, backup)
<1> DEFINE less == s.repeat_counter - 1
           kept == [s.next_playlist EXCEPT !.value = backup]
<1>1. /\ less \in 0 .. repeat_max /\ less # 0
      /\ less = Decremented(s.repeat_counter)
      /\ s.pl.value.sz \in Nat
  BY BoundsAssumption DEF PlayerRec, PlayingRec, PlaylistRec, Decremented
<1>2. kept \in PlayingRec /\ kept.index = s.next_playlist.index /\ kept.value = backup
  BY DEF PlayerRec, PlayingRec
<1> HIDE DEF less, kept
<1>3. QueueTaken(s, backup) = [s EXCEPT !.repeat_counter = less, !.next_playlist = kept,
                                        !.backup_sz = s.pl.value.sz]
  BY <1>1 DEF QueueTaken, kept
<1> QED
  BY <1>1, <1>2, <1>3 DEF PlayerRec, less, TookOne

LEMMA TakenOK ==
  ASSUME NEW s, ListsOK(s), ~IsFake(s.next_playlist),
         NEW backup, ListOK(backup), SameSong(backup, s.next_playlist.value),
         NEW q, ListOK(q), q.fd = s.next_playlist.value.fd,
         q.cnt # 0 => s.audio_file = <<q.fd, q.pos>> /\ ~IsDir(s.audio_file),
         NEW r, r = [QueueTaken(s, backup) EXCEPT
                       !.pl = [index |-> s.next_playlist.index, value |-> q]]
  PROVE  PlayerOK(r) /\ Taken(s, r)
<1> DEFINE p == [index |-> s.next_playlist.index, value |-> q]
<1>1. /\ s \in PlayerRec /\ s.pl \in PlayingRec /\ s.next_playlist \in PlayingRec
      /\ s.jmp_index \in PlayingRec
      /\ s.repeat_counter # 0 /\ backup \in PlaylistRec
      /\ Indexed(s.next_playlist) /\ Indexed(s.jmp_index) /\ Stands(s.jmp_index.value)
  BY PlayerHas DEF PlayerOK, ListsOK, Counted, ListOK
<1>2. p \in PlayingRec /\ p.value = q /\ p.index = s.next_playlist.index
  BY <1>1 DEF PlayingRec, ListOK
<1> HIDE DEF p
<1>3. Indexed(p) /\ Stands(p.value)
  BY <1>1, <1>2 DEF Indexed, IsFake, ListOK
<1>4. r = [QueueTaken(s, backup) EXCEPT !.pl = p]
  BY DEF p
<1>5. CASE s.repeat_counter = 1
  <2>1. TookLast(s, r, p)
    BY <1>1, <1>2, <1>4, <1>5, LastTaken
  <2>2. /\ IsFake(r.next_playlist) /\ Stands(r.next_playlist.value)
        /\ Indexed(r.next_playlist)
        /\ IsFake(r.jmp_index) /\ Stands(r.jmp_index.value) /\ Indexed(r.jmp_index)
    BY <1>1, <2>1, ResetOK DEF TookLast
  <2> QED
    BY <1>2, <1>3, <1>5, <2>1, <2>2
       DEF TookLast, PlayerOK, ListsOK, Taken, QueueGone, Counted, Decodes
<1>6. CASE s.repeat_counter # 1
  <2>1. TookOne(s, r, p, backup)
    BY <1>1, <1>2, <1>4, <1>6, TakenAgain
  <2>2. Indexed(r.next_playlist) /\ Stands(r.next_playlist.value)
    BY <1>1, <2>1 DEF TookOne, Indexed, IsFake, ListOK, SameSong
  <2> QED
    BY <1>1, <1>2, <1>3, <1>6, <2>1, <2>2
       DEF TookOne, PlayerOK, ListsOK, Taken, Counted, Decodes, SameSong
<1> QED
  BY <1>5, <1>6

\* None of its songs opens: the queue is emptied, the playing list is as it was.
LEMMA DroppedFields ==
  ASSUME NEW s \in PlayerRec, NEW q \in PlaylistRec
  PROVE  /\ QueueDropped(s, q) \in PlayerRec
         /\ QueueDropped(s, q).pl = s.pl
         /\ QueueDropped(s, q).audio_file = s.audio_file
         /\ QueueDropped(s, q).overrun = s.overrun
         /\ QueueDropped(s, q).next_playlist
              = ResetPlaying([s.next_playlist EXCEPT !.value = q])
         /\ QueueDropped(s, q).jmp_index = ResetPlaying(s.jmp_index)
<1> DEFINE no   == ResetPlaying([s.next_playlist EXCEPT !.value = q])
           none == ResetPlaying(s.jmp_index)
<1>1. [s.next_playlist EXCEPT !.value = q] \in PlayingRec /\ s.jmp_index \in PlayingRec
  BY DEF PlayerRec, PlayingRec
<1>2. no \in PlayingRec /\ none \in PlayingRec /\ 0 \in 0 .. repeat_max
  BY <1>1, ResetOK, BoundsAssumption
<1> HIDE DEF no, none
<1>3. QueueDropped(s, q) = [s EXCEPT !.repeat_counter = 0, !.next_playlist = no,
                                     !.jmp_index = none]
  BY DEF QueueDropped, no, none
<1> QED
  BY <1>2, <1>3 DEF PlayerRec, no, none

LEMMA DroppedOK ==
  ASSUME NEW s, PlayerOK(s), NEW q \in PlaylistRec
  PROVE  PlayerOK(QueueDropped(s, q)) /\ QueueGone(QueueDropped(s, q))
<1> DEFINE d == QueueDropped(s, q)
           n == [s.next_playlist EXCEPT !.value = q]
<1>1. s \in PlayerRec /\ n \in PlayingRec /\ s.jmp_index \in PlayingRec
  BY PlayerHas DEF PlayerOK, PlayingRec
<1>2. /\ d \in PlayerRec /\ d.pl = s.pl /\ d.audio_file = s.audio_file
      /\ d.next_playlist = ResetPlaying(n) /\ d.jmp_index = ResetPlaying(s.jmp_index)
  BY <1>1, DroppedFields
<1> HIDE DEF d, n
<1>3. /\ IsFake(d.next_playlist) /\ Stands(d.next_playlist.value)
      /\ Indexed(d.next_playlist)
      /\ IsFake(d.jmp_index) /\ Stands(d.jmp_index.value) /\ Indexed(d.jmp_index)
  BY <1>1, <1>2, ResetOK
<1>4. PlayerOK(d) /\ QueueGone(d)
  BY <1>2, <1>3 DEF PlayerOK, ListsOK, QueueGone, Counted, Decodes
<1> QED
  BY <1>4 DEF d

\* What a change of song may do.
Changed(s, direction, r) ==
  \/ r.overrun = "clone"
  \/ MovedWell(s, r)
  \/ PlayerOK(r) /\ UsesNext(s, direction) /\ (Taken(s, r) \/ Dropped(s, r))

LEMMA ChangeToNextOK ==
  ASSUME NEW s, PlayerOK(s), NEW direction \in {next, prev}, UsesNext(s, direction),
         NEW r \in ChangeToNext(s)
  PROVE  Changed(s, direction, r)
<1> DEFINE queued == s.next_playlist
<1>1. PICK c \in CloneOutcomes(Backup(s), queued.value) :
        r \in IF ~c.ok THEN {s}
              ELSE IF c.over THEN {Overrun(s, "clone")}
              ELSE LET s1 == [s EXCEPT !.backup_sz = c.q.sz]
                   IN UNION {IF o.over THEN {Overrun(s1, "step")}
                             ELSE LET s2 == [s1 EXCEPT !.audio_file = o.file] IN
                                  IF o.ok
                                    THEN {[QueueTaken(s2, c.q) EXCEPT
                                             !.pl = [index |-> queued.index,
                                                     value |-> o.q]]}
                                    ELSE ChangeInList(QueueDropped(s2, o.q), next)
                             : o \in OpenSongNotFound(queued.value, c.q, next,
                                                      s.audio_file)}
  BY DEF ChangeToNext
<1>2. /\ s \in PlayerRec /\ ListOK(queued.value) /\ Backup(s) \in PlaylistRec
      /\ s.audio_file \in Song \cup {Fake}
      /\ (s.pl.value.cnt # 0 => \/ s.audio_file = <<s.pl.value.fd, s.pl.value.pos>>
                                \/ IsDir(s.audio_file))
  BY PlayerHas, BackupRec DEF PlayerOK, Decodes
<1>3. /\ c.ok \in BOOLEAN /\ c.over \in BOOLEAN
      /\ c.ok => /\ ListOK(c.q) /\ c.q.fd = queued.value.fd
                 /\ c.q.cnt = queued.value.cnt
                 /\ c.q.pos = queued.value.pos /\ c.q.len = queued.value.len
  BY <1>2, CloneOK
<1>4. CASE ~c.ok
  BY <1>1, <1>4 DEF Changed, MovedWell, InList, Opened, SameSong
<1>5. CASE c.ok /\ c.over
  <2>1. r = [s EXCEPT !.overrun = "clone"]
    BY <1>1, <1>5 DEF Overrun
  <2> QED
    BY <1>2, <2>1 DEF PlayerRec, Changed
<1>6. CASE c.ok /\ ~c.over
  <2> DEFINE s1 == [s EXCEPT !.backup_sz = c.q.sz]
             S2(file) == [s1 EXCEPT !.audio_file = file]
  <2>1. PICK o \in OpenSongNotFound(queued.value, c.q, next, s.audio_file) :
          r \in IF o.over THEN {Overrun(s1, "step")}
                ELSE IF o.ok
                  THEN {[QueueTaken(S2(o.file), c.q) EXCEPT
                           !.pl = [index |-> queued.index, value |-> o.q]]}
                  ELSE ChangeInList(QueueDropped(S2(o.file), o.q), next)
    BY <1>1, <1>6
  <2>2. /\ c.q \in PlaylistRec /\ c.q.sz \in Nat
        /\ (queued.value.cnt # 0 => c.q.len <= queued.value.sz)
        /\ c.q.len \in Nat /\ queued.value.sz \in Nat
    BY <1>2, <1>3, <1>6 DEF ListOK, Stands, PlaylistRec
  <2>3. /\ o.ok \in BOOLEAN /\ o.over \in BOOLEAN /\ o.q \in PlaylistRec
        /\ o.over => queued.value.cnt # 0 /\ c.q.len > queued.value.sz
        /\ o.file \in Song \cup {Fake}
        /\ o.ok => /\ ListOK(o.q) /\ o.q.fd = queued.value.fd
                   /\ o.q.cnt = queued.value.cnt
                   /\ queued.value.cnt = 0 => o.q = queued.value /\ o.file = s.audio_file
                   /\ queued.value.cnt # 0 =>
                        o.file = <<o.q.fd, o.q.pos>> /\ ~IsDir(o.file)
        /\ ~o.ok => o.file = s.audio_file \/ IsDir(o.file)
    BY <1>2, <2>2, NotFound
  <2>4. ~o.over
    BY <2>2, <2>3
  <2>5. /\ s1 \in PlayerRec /\ InList(s, s1) /\ s1.pl = s.pl
        /\ s1.audio_file = s.audio_file
    BY <1>2, <2>2, BackupFields
  <2> HIDE DEF s1
  <2> DEFINE s2 == S2(o.file)
  <2>6. /\ s2 \in PlayerRec /\ s2.audio_file = o.file /\ s2.pl = s.pl
        /\ s2.next_playlist = s.next_playlist /\ s2.jmp_index = s.jmp_index
        /\ s2.repeat_counter = s.repeat_counter /\ s2.overrun = s.overrun
    BY <2>3, <2>5, AudioFields DEF InList
  <2>7. CASE ~o.ok
    <3>1. r \in ChangeInList(QueueDropped(s2, o.q), next)
      BY <2>1, <2>4, <2>7
    <3> HIDE DEF s2
    <3>2. Decodes(s2)
      BY <1>2, <2>3, <2>6, <2>7 DEF Decodes
    <3>3. PlayerOK(s2)
      BY <2>6, <3>2 DEF PlayerOK, ListsOK, Counted
    <3> DEFINE d == QueueDropped(s2, o.q)
    <3>4. PlayerOK(d) /\ QueueGone(d) /\ d.pl = s2.pl /\ d.overrun = s2.overrun
      BY <2>3, <2>6, <3>3, DroppedOK, DroppedFields
    <3> HIDE DEF d
    <3>5. r.overrun = "clone" \/ MovedWell(d, r)
      BY <3>1, <3>4, ChangeInListOK DEF d
    <3> QED
      BY <2>6, <3>4, <3>5 DEF Changed, MovedWell, InList, Opened, Dropped, QueueGone
  <2>8. CASE o.ok
    <3>1. r = [QueueTaken(s2, c.q) EXCEPT
                 !.pl = [index |-> s2.next_playlist.index, value |-> o.q]]
      BY <2>1, <2>4, <2>6, <2>8
    <3> HIDE DEF s2
    <3>2. ListsOK(s2)
      BY <2>6 DEF PlayerOK, ListsOK, Counted
    <3>3. ~IsFake(s2.next_playlist) /\ SameSong(c.q, s2.next_playlist.value)
      BY <1>3, <1>6, <2>6 DEF UsesNext, SameSong
    <3>4. /\ ListOK(o.q) /\ o.q.fd = s2.next_playlist.value.fd
          /\ (o.q.cnt # 0 => s2.audio_file = <<o.q.fd, o.q.pos>> /\ ~IsDir(s2.audio_file))
      BY <2>3, <2>6, <2>8
    <3> DEFINE q == o.q
               b == c.q
    <3>5. /\ ListOK(b) /\ SameSong(b, s2.next_playlist.value)
          /\ ListOK(q) /\ q.fd = s2.next_playlist.value.fd
          /\ (q.cnt # 0 => s2.audio_file = <<q.fd, q.pos>> /\ ~IsDir(s2.audio_file))
          /\ r = [QueueTaken(s2, b) EXCEPT
                    !.pl = [index |-> s2.next_playlist.index, value |-> q]]
      BY <1>3, <1>6, <3>1, <3>3, <3>4
    <3> HIDE DEF q, b
    <3>6. PlayerOK(r) /\ Taken(s2, r)
      BY <3>2, <3>3, <3>5, TakenOK
    <3>7. Taken(s, r)
      BY <2>6, <3>6 DEF Taken
    <3> QED
      BY <3>6, <3>7 DEF Changed
  <2> QED
    BY <2>3, <2>7, <2>8
<1> QED
  BY <1>3, <1>4, <1>5, <1>6

LEMMA ChangeSongOK ==
  ASSUME NEW s, PlayerOK(s), NEW direction \in {next, prev},
         NEW r \in ChangeSong(s, direction)
  PROVE  Changed(s, direction, r)
  BY ChangeToNextOK, ChangeInListOK DEF ChangeSong, Changed

(***************************************************************************)
(* What is looked at is chosen                                             *)
(***************************************************************************)
\* The list looked at is opened, or the position of the backup comes back; its
\* path too, if the buffer is long enough.
Chose(o, backup) ==
  /\ o.ok \in BOOLEAN /\ o.over \in BOOLEAN
  /\ o.ok => ~o.over
  /\ o.ok => ListOK(o.q) /\ o.q.fd = plv.fd /\ (o.q.pos = plv.pos \/ plv.cnt = 0)
  /\ ~o.ok /\ ~o.over => ListOK(o.q) /\ SameSong(o.q, backup) /\ o.q.cnt = backup.cnt

LEMMA SoughtOK ==
  ASSUME NEW q \in PlaylistRec, NEW p, <<q.fd, p>> \in Song, q.cnt = cnt_songs[q.fd]
  PROVE  /\ ListOK(SoughtTo(q, p)) /\ SoughtTo(q, p).fd = q.fd
         /\ SoughtTo(q, p).cnt = q.cnt /\ SoughtTo(q, p).pos = p
<1> DEFINE g == Grown(q, p)
<1>1. /\ q.fd \in Lists /\ p \in 0 .. q.cnt - 1 /\ path_len[q.fd][p] \in Nat
      /\ q.fd # Fake /\ p \in 0 .. view_cnt - 1 /\ p < q.cnt
  BY SongIs, Sizes
<1>2. q.sz \in Nat /\ g \in Nat /\ g >= path_len[q.fd][p]
  BY <1>1, LongerIsLonger DEF Grown, PlaylistRec
<1> HIDE DEF g
<1> DEFINE t == SoughtTo(q, p)
<1>3. t = [q EXCEPT !.pos = p, !.len = path_len[q.fd][p], !.sz = g, !.of = <<q.fd, p>>]
  BY DEF SoughtTo, g
<1>4. /\ t \in PlaylistRec /\ t.fd = q.fd /\ t.cnt = q.cnt /\ t.pos = p
      /\ t.len = path_len[q.fd][p] /\ t.sz = g /\ t.of = <<q.fd, p>>
  BY <1>1, <1>2, <1>3 DEF PlaylistRec
<1> HIDE DEF t
<1>5. ListOK(t)
  BY <1>1, <1>2, <1>4 DEF ListOK, Stands
<1> QED
  BY <1>4, <1>5 DEF t

LEMMA PathBackOK ==
  ASSUME NEW q \in PlaylistRec, NEW backup, ListOK(backup), NEW f, Failed(f, q, backup)
  PROVE  LET o == PathBack(f, backup)
         IN o.ok = FALSE /\ Chose(o, backup)
<1> DEFINE o == PathBack(f, backup)
<1>1. CASE backup.cnt = 0
  <2>1. o = f
    BY <1>1 DEF PathBack
  <2> QED
    BY <1>1, <2>1 DEF Failed, Chose, ListOK, Stands, SameSong
<1>2. CASE backup.cnt # 0
  <2> DEFINE long == backup.len > f.q.sz
             new  == [f.q EXCEPT !.of = backup.of]
  <2>1. /\ f.q \in PlaylistRec /\ backup \in PlaylistRec
        /\ backup.of \in Song \cup {NoPath}
    BY DEF Failed, ListOK, PlaylistRec
  <2>2. /\ new \in PlaylistRec /\ new.fd = f.q.fd /\ new.cnt = f.q.cnt
        /\ new.pos = f.q.pos /\ new.len = f.q.len /\ new.sz = f.q.sz
        /\ new.of = backup.of
    BY <2>1 DEF PlaylistRec
  <2>3. long \in BOOLEAN /\ f.over \in BOOLEAN
        /\ (~long => f.q.len <= f.q.sz)
    BY <2>1 DEF Failed, PlaylistRec
  <2>4. o = [q |-> new, ok |-> FALSE, over |-> f.over \/ long]
    BY <1>2 DEF PathBack, Outcome
  <2> HIDE DEF long, new, o
  <2>5. o.q = new /\ o.ok = FALSE /\ o.over = (f.over \/ long)
    BY <2>4
  <2>6. ~long => ListOK(new) /\ SameSong(new, backup) /\ new.cnt = backup.cnt
    BY <2>2, <2>3 DEF Failed, ListOK, Stands, SameSong
  <2>7. Chose(o, backup)
    BY <2>3, <2>5, <2>6 DEF Chose
  <2> QED
    BY <2>5, <2>7 DEF o
<1> QED
  BY <1>1, <1>2

LEMMA PlayOK ==
  ASSUME PagesOK, NEW backup, ListOK(backup), NEW o \in Play(MovedFrom(backup), backup)
  PROVE  Chose(o, backup)
<1> DEFINE q  == MovedFrom(backup)
           q1 == WithLpl(q, PlvLpl)
           p  == plv.pos % PlvLpl.cnt
<1>1. q \in PlaylistRec
  BY MakeFakeIs DEF MovedFrom, ListOK, PlaylistRec
<1>2. /\ plv.fd \in Lists \cup {Fake} /\ plv.cnt \in 0 .. view_cnt
      /\ plv.pos \in 0 .. view_cnt - 1 /\ plv.len \in Nat
      /\ 0 \in 0 .. view_cnt - 1
      /\ plv.cnt # 0 => plv.cnt = cnt_songs[plv.fd] /\ plv.pos < plv.cnt /\ plv.fd # Fake
  BY DEF PagesOK, PlvOK, view_cnt
<1>3. /\ PlvLpl.fd = plv.fd /\ PlvLpl.cnt = plv.cnt /\ PlvLpl.pos = 0
      /\ PlvLpl.len = plv.len
  BY DEF PlvLpl
<1>4. /\ q1 \in PlaylistRec /\ q1.fd = plv.fd /\ q1.cnt = plv.cnt /\ q1.pos = 0
  BY <1>1, <1>2, <1>3, WithLplIs
<1>5. o \in IF plv.cnt = 0
              THEN {Outcome(q1, TRUE, FALSE)}
              ELSE {Outcome(SoughtTo(q1, p), TRUE, FALSE)}
                   \cup {PathBack(f, backup) : f \in SeekFailures(q1, p, backup)}
  BY <1>3 DEF Play, OpenOutcomes
<1> HIDE DEF q, q1
<1>6. CASE plv.cnt = 0
  <2>1. o = [q |-> q1, ok |-> TRUE, over |-> FALSE]
    BY <1>5, <1>6 DEF Outcome
  <2>2. o.q = q1 /\ o.ok = TRUE /\ o.over = FALSE
    BY <2>1
  <2> QED
    BY <1>4, <1>6, <2>2 DEF Chose, ListOK, Stands
<1>7. CASE plv.cnt # 0
  <2>1. p = plv.pos
    BY <1>2, <1>3, <1>7
  <2> HIDE DEF p
  <2>2. <<q1.fd, p>> \in Song /\ path_len[q1.fd][p] \in Nat /\ q1.cnt = cnt_songs[q1.fd]
    BY <1>2, <1>4, <1>7, <2>1, SongIs, Sizes
  <2>3. CASE o = [q |-> SoughtTo(q1, p), ok |-> TRUE, over |-> FALSE]
    <3>1. o.q = SoughtTo(q1, p) /\ o.ok = TRUE /\ o.over = FALSE
      BY <2>3
    <3>2. /\ ListOK(SoughtTo(q1, p)) /\ SoughtTo(q1, p).fd = q1.fd
          /\ SoughtTo(q1, p).cnt = q1.cnt /\ SoughtTo(q1, p).pos = p
      BY <1>4, <2>2, SoughtOK
    <3> QED
      BY <1>4, <2>1, <3>1, <3>2 DEF Chose
  <2>4. ASSUME NEW f \in SeekFailures(q1, p, backup), o = PathBack(f, backup)
        PROVE  Chose(o, backup)
    <3>1. Failed(f, q1, backup)
      BY <1>4, <2>2, SeekFails DEF ListOK
    <3> QED
      BY <1>4, <2>4, <3>1, PathBackOK
  <2> QED
    BY <1>5, <1>7, <2>3, <2>4 DEF Outcome
<1> QED
  BY <1>6, <1>7

StartedAt(s, r) ==
  /\ PlayerOK(r) /\ r.overrun = s.overrun /\ Opened(s, r)
  /\ \/ InList(s, r) /\ SameSong(r.pl.value, s.pl.value)
     \/ r.pl.value.fd = plv.fd /\ QueueGone(r)

\* What is looked at does not play after all: the playing list is put back.
LEMMA PutBackFields ==
  ASSUME NEW s \in PlayerRec, NEW file \in Song \cup {Fake},
         NEW q \in PlaylistRec, q.fd = s.pl.value.fd
  PROVE  Moves(s, [s EXCEPT !.audio_file = file, !.pl.value = q], q, file)
<1>1. /\ [s.pl EXCEPT !.value = q] \in PlayingRec /\ [s.pl EXCEPT !.value = q].value = q
      /\ [s.pl EXCEPT !.value = q].index = s.pl.index
  BY DEF PlayerRec, PlayingRec
<1> QED
  BY <1>1 DEF PlayerRec, InList, Moves

\* It plays: the queue is empty.
StartsWith(s, r, p, file) ==
  /\ r \in PlayerRec /\ r.pl = p /\ r.audio_file = file /\ r.overrun = s.overrun
  /\ r.next_playlist = ResetPlaying(s.next_playlist)
  /\ r.jmp_index = ResetPlaying(s.jmp_index)

LEMMA StartFields ==
  ASSUME NEW s \in PlayerRec, NEW file \in Song \cup {Fake}, NEW p \in PlayingRec
  PROVE  StartsWith(s, [QueueEmpty(s) EXCEPT !.audio_file = file, !.pl = p], p, file)
<1> DEFINE no   == ResetPlaying(s.next_playlist)
           none == ResetPlaying(s.jmp_index)
<1>1. no \in PlayingRec /\ none \in PlayingRec /\ 0 \in 0 .. repeat_max
  BY ResetOK, BoundsAssumption DEF PlayerRec
<1>2. QueueEmpty(s) = [s EXCEPT !.next_playlist = no, !.jmp_index = none,
                                !.repeat_counter = 0]
  BY DEF QueueEmpty
<1> HIDE DEF no, none
<1> QED
  BY <1>1, <1>2 DEF PlayerRec, no, none, StartsWith

LEMMA PlayNewPlaylistOK ==
  ASSUME NEW s, PlayerOK(s), PagesOK, NEW r \in PlayNewPlaylist(s)
  PROVE  r.overrun = "open" \/ StartedAt(s, r)
<1> DEFINE old == s.pl.value
<1>1. PICK o \in Play(MovedFrom(old), old) :
        r \in IF o.over THEN {Overrun(s, "open")}
              ELSE IF ~o.ok THEN {[s EXCEPT !.pl.value = o.q]}
              ELSE {Started(s, old, e) :
                      e \in OpenSongNotFound(o.q, old, next, s.audio_file)}
  BY DEF PlayNewPlaylist
<1>2. /\ s \in PlayerRec /\ ListOK(old) /\ s.audio_file \in Song \cup {Fake}
      /\ old \in PlaylistRec
      /\ (old.cnt # 0 => s.audio_file = <<old.fd, old.pos>> \/ IsDir(s.audio_file))
  BY PlayerHas DEF PlayerOK, Decodes, ListOK
<1>3. Overrun(s, "open").overrun = "open"
  BY <1>2 DEF Overrun, PlayerRec
<1>4. Chose(o, old)
  BY <1>2, PlayOK
<1>5. CASE o.over
  BY <1>1, <1>3, <1>5
<1>6. CASE ~o.over /\ ~o.ok
  <2>1. r = [s EXCEPT !.pl.value = o.q]
    BY <1>1, <1>6
  <2>2. /\ ListOK(o.q) /\ SameSong(o.q, old) /\ o.q.cnt = old.cnt
        /\ o.q \in PlaylistRec /\ o.q.fd = s.pl.value.fd
    BY <1>4, <1>6 DEF Chose, SameSong, ListOK
  <2>3. Moves(s, [s EXCEPT !.pl.value = o.q], o.q, s.audio_file)
    BY <1>2, <2>2, MoveFields
  <2>4. r \in PlayerRec /\ InList(s, r) /\ r.pl.value = o.q /\ r.audio_file = s.audio_file
    BY <2>1, <2>3 DEF Moves
  <2>5. MovedWell(s, r)
    BY <1>2, <2>2, <2>4, MovedTo DEF SameSong
  <2> QED
    BY <2>2, <2>4, <2>5 DEF StartedAt, MovedWell, InList
<1>7. CASE ~o.over /\ o.ok
  <2>1. PICK e \in OpenSongNotFound(o.q, old, next, s.audio_file) :
          r = Started(s, old, e)
    BY <1>1, <1>7
  <2>2. ListOK(o.q) /\ o.q.fd = plv.fd
    BY <1>4, <1>7 DEF Chose
  <2>3. /\ e.ok \in BOOLEAN /\ e.over \in BOOLEAN /\ e.q \in PlaylistRec
        /\ e.file \in Song \cup {Fake}
        /\ e.ok => /\ ListOK(e.q) /\ e.q.fd = o.q.fd
                   /\ o.q.cnt = 0 => e.q = o.q /\ e.file = s.audio_file
                   /\ o.q.cnt # 0 => e.file = <<e.q.fd, e.q.pos>> /\ ~IsDir(e.file)
                   /\ e.q.cnt = o.q.cnt
        /\ ~e.ok => e.file = s.audio_file \/ IsDir(e.file)
    BY <1>2, <2>1, <2>2, NotFound
  <2>4. CASE e.over
    BY <1>3, <2>1, <2>4 DEF Started
  <2>5. CASE ~e.over /\ ~e.ok
    <3>1. r = [s EXCEPT !.audio_file = e.file, !.pl.value = old]
      BY <2>1, <2>5 DEF Started
    <3> HIDE DEF old
    <3>2. old.fd = s.pl.value.fd /\ SameSong(old, s.pl.value)
      BY DEF old, SameSong
    <3>3. Moves(s, [s EXCEPT !.audio_file = e.file, !.pl.value = old], old, e.file)
      BY <1>2, <2>3, <3>2, PutBackFields
    <3>4. r \in PlayerRec /\ InList(s, r) /\ r.pl.value = old /\ r.audio_file = e.file
      BY <3>1, <3>3 DEF Moves
    <3>5. MovedWell(s, r)
      BY <1>2, <2>3, <2>5, <3>2, <3>4, MovedTo
    <3> QED
      BY <3>2, <3>4, <3>5 DEF StartedAt, MovedWell, InList
  <2>6. CASE ~e.over /\ e.ok
    <3> DEFINE p == [index |-> plv.index, value |-> e.q]
    <3>1. r = [QueueEmpty(s) EXCEPT !.audio_file = e.file, !.pl = p]
      BY <2>1, <2>6 DEF Started
    <3>2. /\ p \in PlayingRec /\ p.value = e.q /\ p.index = plv.index
      BY <2>3 DEF PlayingRec, PagesOK, PlvOK
    <3> HIDE DEF p
    <3>3. Indexed(p) /\ Stands(p.value)
      BY <2>2, <2>3, <2>6, <3>2 DEF Indexed, IsFake, PagesOK, PlvOK, ListOK
    <3>4. StartsWith(s, r, p, e.file)
      BY <1>2, <2>3, <3>1, <3>2, StartFields
    <3>5. s.next_playlist \in PlayingRec /\ s.jmp_index \in PlayingRec
      BY PlayerHas DEF PlayerOK
    <3>6. /\ IsFake(r.next_playlist) /\ Stands(r.next_playlist.value)
          /\ Indexed(r.next_playlist)
          /\ IsFake(r.jmp_index) /\ Stands(r.jmp_index.value) /\ Indexed(r.jmp_index)
      BY <3>4, <3>5, ResetOK DEF StartsWith
    <3>7. PlayerOK(r) /\ QueueGone(r)
      BY <2>3, <2>6, <3>2, <3>3, <3>4, <3>6
         DEF StartsWith, PlayerOK, ListsOK, QueueGone, Counted, Decodes
    <3> QED
      BY <2>2, <2>3, <2>6, <3>2, <3>4, <3>7 DEF StartedAt, StartsWith, Opened
  <2> QED
    BY <2>3, <2>4, <2>5, <2>6
<1> QED
  BY <1>4, <1>5, <1>6, <1>7 DEF Chose

(***************************************************************************)
(* The pages                                                               *)
(***************************************************************************)
LEMMA SeekPlvOK ==
  ASSUME NEW v, PlvOK(v), NEW p \in Int
  PROVE  PlvOK(SeekPlv(v, p)) /\ SeekPlv(v, p).fd = v.fd
<1>1. CASE v.cnt = 0
  BY <1>1 DEF SeekPlv
<1>2. CASE v.cnt # 0
  <2> DEFINE m == p % v.cnt
  <2>1. v.cnt \in Nat \ {0} /\ v.cnt <= view_cnt /\ view_cnt = 7
    BY <1>2, Sizes DEF PlvOK
  <2>2. m \in 0 .. v.cnt - 1
    BY <2>1, ModRange
  <2> HIDE DEF m
  <2>3. SeekPlv(v, p) = [v EXCEPT !.pos = m]
    BY <1>2 DEF SeekPlv, m
  <2>4. m \in 0 .. view_cnt - 1 /\ m < v.cnt
    BY <2>1, <2>2
  <2> QED
    BY <1>2, <2>3, <2>4 DEF PlvOK
<1> QED
  BY <1>1, <1>2

LEMMA SeekPllOK ==
  ASSUME PllOK(pll), NEW p \in Int
  PROVE  PllOK(SeekPll(p))
<1>1. CASE pll.cnt = 0
  BY <1>1 DEF SeekPll
<1>2. CASE pll.cnt # 0
  <2> DEFINE m == p % pll.cnt
  <2>1. pll.cnt \in Nat \ {0} /\ pll.cnt <= view_cnt /\ view_cnt = 7
    <3>1. pll.cnt \in 0 .. view_cnt
      BY BoundsAssumption DEF PllOK
    <3> QED
      BY <1>2, <3>1, Sizes
  <2>2. m \in 0 .. pll.cnt - 1
    BY <2>1, ModRange
  <2> HIDE DEF m
  <2>3. SeekPll(p) = [pll EXCEPT !.pos = m]
    BY <1>2 DEF SeekPll, m
  <2>4. m \in 0 .. view_cnt /\ m < pll.cnt
    BY <2>1, <2>2
  <2> QED
    BY <2>3, <2>4 DEF PllOK
<1> QED
  BY <1>1, <1>2

\* A list that is looked at is numbered as its file.
LEMMA LookedAtOK ==
  ASSUME PlvOK(plv), NEW f \in Lists
  PROVE  PlvOK([LookedAt(f) EXCEPT !.index = f]) /\ [LookedAt(f) EXCEPT !.index = f].fd = f
<1> DEFINE l == IF cnt_songs[f] = 0 THEN plv.len ELSE path_len[f][cnt_songs[f] - 1]
           v == [LookedAt(f) EXCEPT !.index = f]
<1>1. /\ cnt_songs[f] \in 0 .. view_cnt /\ 0 \in 0 .. view_cnt - 1 /\ f # Fake
      /\ cnt_songs[f] # 0 => 0 < cnt_songs[f] /\ path_len[f][cnt_songs[f] - 1] \in Nat
  BY Sizes
<1>2. l \in Nat
  BY <1>1 DEF PlvOK
<1>3. LookedAt(f) = [plv EXCEPT !.fd = f, !.cnt = cnt_songs[f], !.pos = 0, !.len = l]
  BY DEF LookedAt
<1> HIDE DEF l
<1>4. /\ v \in [fd : Lists \cup {Fake}, cnt : 0 .. view_cnt, pos : 0 .. view_cnt - 1,
                len : Nat, index : Lists \cup {max_plb_files}]
      /\ v.fd = f /\ v.cnt = cnt_songs[f] /\ v.pos = 0 /\ v.index = f
  BY <1>1, <1>2, <1>3 DEF PlvOK
<1> HIDE DEF v
<1>5. PlvOK(v) /\ v.fd = f
  BY <1>1, <1>4 DEF PlvOK
<1> QED
  BY <1>5 DEF v

LEMMA NotLookedAtOK ==
  ASSUME PlvOK(plv), NEW v \in NotLookedAt
  PROVE  PlvOK(v) /\ v.fd = plv.fd
<1>1. CASE v = plv
  BY <1>1
<1>2. CASE v = [plv EXCEPT !.cnt = 0]
  <2>1. 0 \in 0 .. view_cnt
    BY DEF view_cnt
  <2> QED
    BY <1>2, <2>1 DEF PlvOK
<1> QED
  BY <1>1, <1>2 DEF NotLookedAt

LEMMA OpenIndexOK ==
  ASSUME PlvOK(plv), NEW i \in Lists, NEW o \in OpenIndex(i)
  PROVE  o.ok \in BOOLEAN /\ PlvOK(o.plv) /\ (o.plv.fd = Fake => plv.fd = Fake)
<1> DEFINE v == [LookedAt(i) EXCEPT !.index = i]
<1>1. PlvOK(v) /\ v.fd = i /\ i # Fake
  BY LookedAtOK, Sizes
<1>2. \/ o = [plv |-> plv, ok |-> TRUE]
      \/ o = [plv |-> v, ok |-> TRUE]
      \/ \E u \in NotLookedAt : o = [plv |-> u, ok |-> FALSE]
  BY DEF OpenIndex
<1> HIDE DEF v
<1>3. CASE o = [plv |-> plv, ok |-> TRUE]
  BY <1>3
<1>4. CASE o = [plv |-> v, ok |-> TRUE]
  BY <1>1, <1>4
<1>5. CASE \E u \in NotLookedAt : o = [plv |-> u, ok |-> FALSE]
  <2>1. PICK u \in NotLookedAt : o = [plv |-> u, ok |-> FALSE]
    BY <1>5
  <2>2. o.plv = u /\ o.ok = FALSE
    BY <2>1
  <2> QED
    BY <2>2, NotLookedAtOK
<1> QED
  BY <1>2, <1>3, <1>4, <1>5

(***************************************************************************)
(* The state after a handler                                               *)
(***************************************************************************)
LEMMA PlayerIs ==
  /\ Player.pl = pl /\ Player.next_playlist = next_playlist
  /\ Player.jmp_index = jmp_index /\ Player.repeat_counter = repeat_counter
  /\ Player.backup_sz = backup_sz /\ Player.audio_file = audio_file
  /\ Player.overrun = "no"
  BY DEF Player

LEMMA PlayerIsNext ==
  /\ Player'.pl = pl' /\ Player'.next_playlist = next_playlist'
  /\ Player'.jmp_index = jmp_index' /\ Player'.repeat_counter = repeat_counter'
  /\ Player'.backup_sz = backup_sz' /\ Player'.audio_file = audio_file'
  /\ Player'.overrun = "no"
  BY DEF Player

LEMMA ListsStay ==
  ASSUME UNCHANGED lists
  PROVE  Player' = Player
  BY DEF lists, Player

LEMMA BecomesIs ==
  ASSUME NEW r \in PlayerRec, r.overrun = "no", Becomes(r)
  PROVE  Player' = r /\ overrun' = "no"
<1>1. Player' = [pl |-> r.pl, next_playlist |-> r.next_playlist, jmp_index |-> r.jmp_index,
                 repeat_counter |-> r.repeat_counter, backup_sz |-> r.backup_sz,
                 audio_file |-> r.audio_file, overrun |-> r.overrun]
  BY DEF Becomes, Player
<1>2. r = [pl |-> r.pl, next_playlist |-> r.next_playlist, jmp_index |-> r.jmp_index,
           repeat_counter |-> r.repeat_counter, backup_sz |-> r.backup_sz,
           audio_file |-> r.audio_file, overrun |-> r.overrun]
  BY DEF PlayerRec
<1> QED
  BY <1>1, <1>2 DEF Becomes

LEMMA BecomesNot ==
  ASSUME NEW r, r.overrun # "no", Becomes(r)
  PROVE  Player' = Player /\ overrun' = r.overrun
  BY ListsStay DEF Becomes

\* The lists after a handler: as before, or well moved, and no overrun of a step.
Stayed == Player' = Player

LEMMA ChangeSongStep ==
  ASSUME IInv, NEW direction \in {next, prev},
         NEW r \in ChangeSong(Player, direction), Becomes(r)
  PROVE  /\ PlayerOK(Player')
         /\ \/ Stayed /\ overrun' = "clone"
            \/ overrun' = "no" /\ Changed(Player, direction, Player')
<1>1. PlayerOK(Player)
  BY DEF IInv
<1>2. Changed(Player, direction, r)
  BY <1>1, ChangeSongOK
<1>3. CASE r.overrun = "clone"
  BY <1>1, <1>3, BecomesNot DEF Stayed
<1>4. CASE r.overrun # "clone"
  <2>1. PlayerOK(r) /\ r \in PlayerRec /\ r.overrun = "no"
    BY <1>2, <1>4, PlayerIs
       DEF Changed, MovedWell, InList, Taken, Dropped, PlayerOK, ListsOK
  <2>2. Player' = r /\ overrun' = "no"
    BY <2>1, BecomesIs
  <2> QED
    BY <1>2, <2>1, <2>2
<1> QED
  BY <1>3, <1>4

LEMMA PlayNewPlaylistStep ==
  ASSUME IInv, NEW r \in PlayNewPlaylist(Player), Becomes(r)
  PROVE  /\ PlayerOK(Player')
         /\ \/ Stayed /\ overrun' = "open"
            \/ overrun' = "no" /\ StartedAt(Player, Player')
<1>1. PlayerOK(Player) /\ PagesOK
  BY DEF IInv
<1>2. r.overrun = "open" \/ StartedAt(Player, r)
  BY <1>1, PlayNewPlaylistOK
<1>3. CASE r.overrun = "open"
  BY <1>1, <1>3, BecomesNot DEF Stayed
<1>4. CASE r.overrun # "open"
  <2>1. PlayerOK(r) /\ r \in PlayerRec /\ r.overrun = "no"
    BY <1>2, <1>4, PlayerIs DEF StartedAt, PlayerOK, ListsOK
  <2>2. Player' = r /\ overrun' = "no"
    BY <2>1, BecomesIs
  <2> QED
    BY <1>2, <1>4, <2>1, <2>2
<1> QED
  BY <1>3, <1>4

\* set_next_song and set_jmp_pos: the list looked at, or what was chosen before.
ChosenOK(p, c) ==
  /\ c.over \in BOOLEAN
  /\ ~c.over => /\ c.to \in PlayingRec /\ Stands(c.to.value) /\ Indexed(c.to)
                /\ \/ /\ c.to.value.fd = plv.fd
                      /\ c.to.value.pos = plv.pos \/ plv.cnt = 0
                   \/ SameSong(c.to.value, p.value)

LEMMA ChosenIs ==
  ASSUME PagesOK, NEW p \in PlayingRec, Stands(p.value), Indexed(p), NEW c \in Chosen(p)
  PROVE  ChosenOK(p, c)
<1>1. PICK o \in Play(MovedFrom(p.value), p.value) :
        c = [to |-> IF o.ok THEN [index |-> plv.index, value |-> o.q]
                            ELSE [p EXCEPT !.value = o.q],
             over |-> o.over]
  BY DEF Chosen
<1>2. ListOK(p.value)
  BY DEF ListOK, PlayingRec
<1>3. Chose(o, p.value)
  BY <1>1, <1>2, PlayOK
<1>4. c.over = o.over
  BY <1>1
<1>5. CASE o.over
  BY <1>3, <1>4, <1>5 DEF Chose, ChosenOK
<1>6. CASE ~o.over /\ o.ok
  <2>1. c.to = [index |-> plv.index, value |-> o.q]
    BY <1>1, <1>6
  <2>2. ListOK(o.q) /\ o.q.fd = plv.fd /\ (o.q.pos = plv.pos \/ plv.cnt = 0)
    BY <1>3, <1>6 DEF Chose
  <2>3. c.to.value = o.q /\ c.to.index = plv.index /\ c.to \in PlayingRec
    BY <2>1, <2>2 DEF PlayingRec, PagesOK, PlvOK, ListOK
  <2>4. Indexed(c.to) /\ Stands(c.to.value)
    BY <2>2, <2>3 DEF Indexed, IsFake, PagesOK, PlvOK, ListOK
  <2> QED
    BY <1>3, <1>4, <2>2, <2>3, <2>4 DEF ChosenOK, Chose
<1>7. CASE ~o.over /\ ~o.ok
  <2>1. c.to = [p EXCEPT !.value = o.q]
    BY <1>1, <1>7
  <2>2. ListOK(o.q) /\ SameSong(o.q, p.value)
    BY <1>3, <1>7 DEF Chose
  <2>3. c.to.value = o.q /\ c.to.index = p.index /\ c.to \in PlayingRec
    BY <2>1, <2>2 DEF PlayingRec, ListOK
  <2>4. Indexed(c.to) /\ Stands(c.to.value)
    BY <2>2, <2>3 DEF Indexed, IsFake, SameSong, ListOK
  <2> QED
    BY <1>3, <1>4, <2>2, <2>3, <2>4 DEF ChosenOK, Chose
<1> QED
  BY <1>3, <1>5, <1>6, <1>7 DEF Chose

\* set_next_song: counted once more, or what is looked at is queued once; if that
\* fails what was queued stays, once.
NextSet(s, r) ==
  /\ r.pl = s.pl /\ r.jmp_index = s.jmp_index
  /\ \/ /\ r.next_playlist = s.next_playlist
        /\ r.repeat_counter = CountedAgain(s.repeat_counter)
     \/ /\ r.repeat_counter = 1 /\ plv.fd # Fake
        /\ \/ SameSong(r.next_playlist.value, s.next_playlist.value)
           \/ ~IsFake(r.next_playlist)

\* set_jmp_pos: what is looked at is marked, or what was marked stays.
MarkSet(s, r) ==
  /\ r.pl = s.pl /\ r.next_playlist = s.next_playlist
  /\ r.repeat_counter = s.repeat_counter
  /\ plv.fd # Fake
  /\ \/ SameSong(r.jmp_index.value, s.jmp_index.value)
     \/ ~IsFake(r.jmp_index)

\* Before a list has been looked at there is nothing else to choose.
LEMMA NothingToChoose ==
  ASSUME IInv, NEW p \in {next_playlist, jmp_index}, ~SameAsPlv(p.value)
  PROVE  plv.fd # Fake
<1> SUFFICES ASSUME plv.fd = Fake
             PROVE  FALSE
  OBVIOUS
<1>1. IsFake(p) /\ Stands(p.value) /\ plv.pos = 0
  BY PlayerIs DEF IInv, PagesOK, PlvOK, AllFake, PlayerOK, ListsOK
<1> QED
  BY <1>1 DEF SameAsPlv, IsFake, Stands

LEMMA SetNextStep ==
  ASSUME IInv, set_next_song
  PROVE  /\ PlayerOK(Player')
         /\ \/ Stayed /\ overrun' = "open"
            \/ overrun' = "no" /\ NextSet(Player, Player')
<1> DEFINE s == Player
<1>1. /\ PlayerOK(s) /\ PagesOK /\ s \in PlayerRec /\ s.overrun = "no"
      /\ s.next_playlist = next_playlist /\ s.next_playlist \in PlayingRec
      /\ s.repeat_counter \in 0 .. repeat_max
      /\ Stands(s.next_playlist.value) /\ Indexed(s.next_playlist)
  BY PlayerIs, PlayerHas DEF IInv, PlayerOK, ListsOK
<1> HIDE DEF s
<1>2. CASE SameAsPlv(next_playlist.value)
  <2> DEFINE r == [s EXCEPT !.repeat_counter = CountedAgain(s.repeat_counter)]
  <2>1. Becomes(r)
    BY <1>2 DEF set_next_song, s
  <2>2. CountedAgain(s.repeat_counter) \in 0 .. repeat_max
        /\ (s.repeat_counter # 0 => CountedAgain(s.repeat_counter) # 0)
    BY <1>1, BoundsAssumption DEF CountedAgain
  <2>3. /\ r \in PlayerRec /\ r.pl = s.pl /\ r.next_playlist = s.next_playlist
        /\ r.jmp_index = s.jmp_index
        /\ r.repeat_counter = CountedAgain(s.repeat_counter)
        /\ r.audio_file = s.audio_file /\ r.overrun = s.overrun
    BY <1>1, <2>2 DEF PlayerRec
  <2> HIDE DEF r
  <2>4. PlayerOK(r) /\ NextSet(s, r)
    BY <1>1, <2>2, <2>3 DEF PlayerOK, ListsOK, Counted, Decodes, NextSet
  <2> QED
    BY <1>1, <2>1, <2>3, <2>4, BecomesIs DEF s
<1>3. CASE ~SameAsPlv(next_playlist.value)
  <2>1. PICK c \in Chosen(next_playlist) :
          Becomes(IF c.over THEN Overrun(s, "open")
                  ELSE [s EXCEPT !.next_playlist = c.to, !.repeat_counter = 1])
    BY <1>3 DEF set_next_song, s
  <2>2. ChosenOK(next_playlist, c)
    BY <1>1, ChosenIs
  <2>3. plv.fd # Fake
    BY <1>3, NothingToChoose
  <2>4. CASE c.over
    <3>1. Becomes([s EXCEPT !.overrun = "open"])
      BY <2>1, <2>4 DEF Overrun
    <3>2. [s EXCEPT !.overrun = "open"].overrun = "open"
      BY <1>1 DEF PlayerRec
    <3> QED
      BY <1>1, <3>1, <3>2, BecomesNot DEF Stayed, s
  <2>5. CASE ~c.over
    <3> DEFINE p == c.to
               r == [s EXCEPT !.next_playlist = p, !.repeat_counter = 1]
    <3>1. Becomes(r)
      BY <2>1, <2>5
    <3>2. /\ p \in PlayingRec /\ Stands(p.value) /\ Indexed(p)
          /\ (p.value.fd = plv.fd \/ SameSong(p.value, next_playlist.value))
      BY <2>2, <2>5 DEF ChosenOK
    <3> HIDE DEF p
    <3>3. 1 \in 0 .. repeat_max
      BY BoundsAssumption
    <3>4. /\ r \in PlayerRec /\ r.pl = s.pl /\ r.next_playlist = p
          /\ r.jmp_index = s.jmp_index /\ r.repeat_counter = 1
          /\ r.audio_file = s.audio_file /\ r.overrun = s.overrun
      BY <1>1, <3>2, <3>3 DEF PlayerRec
    <3> HIDE DEF r
    <3>5. PlayerOK(r) /\ NextSet(s, r)
      BY <1>1, <2>3, <3>2, <3>4
         DEF PlayerOK, ListsOK, Counted, Decodes, NextSet, IsFake
    <3> QED
      BY <1>1, <3>1, <3>4, <3>5, BecomesIs DEF s
  <2> QED
    BY <2>2, <2>4, <2>5 DEF ChosenOK
<1> QED
  BY <1>2, <1>3

LEMMA SetJmpStep ==
  ASSUME IInv, set_jmp_pos
  PROVE  /\ PlayerOK(Player')
         /\ \/ Stayed /\ overrun' = "open"
            \/ overrun' = "no" /\ MarkSet(Player, Player')
<1> DEFINE s == Player
<1>1. /\ PlayerOK(s) /\ PagesOK /\ s \in PlayerRec /\ s.overrun = "no"
      /\ s.jmp_index = jmp_index /\ s.jmp_index \in PlayingRec
      /\ Stands(s.jmp_index.value) /\ Indexed(s.jmp_index)
  BY PlayerIs, PlayerHas DEF IInv, PlayerOK, ListsOK
<1> HIDE DEF s
<1>2. PICK c \in Chosen(jmp_index) :
        Becomes(IF c.over THEN Overrun(s, "open") ELSE [s EXCEPT !.jmp_index = c.to])
  BY DEF set_jmp_pos, s
<1>3. ChosenOK(jmp_index, c)
  BY <1>1, ChosenIs
<1>4. plv.fd # Fake
  BY NothingToChoose DEF set_jmp_pos
<1>5. CASE c.over
  <2>1. Becomes([s EXCEPT !.overrun = "open"])
    BY <1>2, <1>5 DEF Overrun
  <2>2. [s EXCEPT !.overrun = "open"].overrun = "open"
    BY <1>1 DEF PlayerRec
  <2> QED
    BY <1>1, <2>1, <2>2, BecomesNot DEF Stayed, s
<1>6. CASE ~c.over
  <2> DEFINE p == c.to
             r == [s EXCEPT !.jmp_index = p]
  <2>1. Becomes(r)
    BY <1>2, <1>6
  <2>2. /\ p \in PlayingRec /\ Stands(p.value) /\ Indexed(p)
        /\ (p.value.fd = plv.fd \/ SameSong(p.value, jmp_index.value))
    BY <1>3, <1>6 DEF ChosenOK
  <2> HIDE DEF p
  <2>3. /\ r \in PlayerRec /\ r.pl = s.pl /\ r.next_playlist = s.next_playlist
        /\ r.jmp_index = p /\ r.repeat_counter = s.repeat_counter
        /\ r.audio_file = s.audio_file /\ r.overrun = s.overrun
    BY <1>1, <2>2 DEF PlayerRec
  <2> HIDE DEF r
  <2>4. PlayerOK(r) /\ MarkSet(s, r)
    BY <1>1, <1>4, <2>2, <2>3
       DEF PlayerOK, ListsOK, Counted, Decodes, MarkSet, IsFake
  <2> QED
    BY <1>1, <2>1, <2>3, <2>4, BecomesIs DEF s
<1> QED
  BY <1>3, <1>5, <1>6 DEF ChosenOK

(***************************************************************************)
(* Type correctness, and the invariant                                     *)
(***************************************************************************)
LEMMA InsertedOK ==
  \A n \in CardSizes : PllOK([cnt |-> n, pos |-> 0])
<1> TAKE n \in CardSizes
<1>1. n \in 0 .. view_cnt /\ 0 \in 0 .. view_cnt /\ (0 < n \/ n = 0)
  BY BoundsAssumption DEF view_cnt
<1> QED
  BY <1>1 DEF PllOK

LEMMA InitOK ==
  ASSUME Init
  PROVE  IInv
<1>1. /\ 0 \in 0 .. view_cnt /\ 0 \in 0 .. view_cnt - 1 /\ 0 \in 0 .. repeat_max
      /\ volume_start \in 0 .. volume_max
  BY BoundsAssumption DEF view_cnt
<1>2. /\ NullPlaylist \in PlaylistRec /\ NullPlaylist.fd = Fake
      /\ NullPlaylist.cnt = 0 /\ NullPlaylist.pos = 0
  BY <1>1 DEF NullPlaylist, PlaylistRec
<1>3. /\ NullPlaying \in PlayingRec /\ NullPlaying.value = NullPlaylist
      /\ NullPlaying.index = max_plb_files
  BY <1>2 DEF NullPlaying, PlayingRec
<1>4. IsFake(NullPlaying) /\ Stands(NullPlaying.value) /\ Indexed(NullPlaying)
  BY <1>2, <1>3 DEF IsFake, Stands, Indexed
<1>5. Player = [pl |-> NullPlaying, next_playlist |-> NullPlaying,
                jmp_index |-> NullPlaying, repeat_counter |-> 0, backup_sz |-> 0,
                audio_file |-> Fake, overrun |-> "no"]
  BY DEF Init, Player
<1>6. PlayerOK(Player) /\ AllFake(Player)
  BY <1>1, <1>2, <1>3, <1>4, <1>5
     DEF PlayerOK, ListsOK, PlayerRec, Counted, Decodes, AllFake
<1>7. PllOK(pll)
  BY InsertedOK DEF Init
<1>8. PlvOK(plv)
  BY <1>1 DEF Init, PlvOK
<1>9. AudioOK
  BY <1>1 DEF Init, AudioOK
<1> QED
  BY <1>6, <1>7, <1>8, <1>9 DEF IInv, PagesOK

\* The handlers that do not touch the lists that play.
PagesStep ==
  /\ UNCHANGED lists
  /\ PllOK(pll') /\ PlvOK(plv') /\ (plv'.fd = Fake => plv.fd = Fake)

LEMMA PagesStepOK ==
  ASSUME IInv, PagesStep, AudioOK'
  PROVE  IInv'
<1>1. Player' = Player
  BY ListsStay DEF PagesStep
<1>2. PlayerOK(Player') /\ (plv'.fd = Fake => AllFake(Player'))
  BY <1>1 DEF IInv, PagesOK, PagesStep
<1> QED
  BY <1>2 DEF IInv, PagesOK, PagesStep

\* The handlers that change the lists that play, and nothing else but the sound.
ListsStep ==
  /\ UNCHANGED pages
  /\ PlayerOK(Player') /\ (plv.fd = Fake => AllFake(Player'))

LEMMA ListsStepOK ==
  ASSUME IInv, ListsStep, AudioOK'
  PROVE  IInv'
  BY DEF IInv, PagesOK, ListsStep, pages

LEMMA ChangedFromFake ==
  ASSUME IInv, NEW direction, Changed(Player, direction, Player'), plv.fd = Fake
  PROVE  AllFake(Player')
<1>1. AllFake(Player)
  BY DEF IInv, PagesOK
<1>2. MovedWell(Player, Player')
  BY <1>1, PlayerIsNext DEF Changed, UsesNext, AllFake
<1> QED
  BY <1>1, <1>2 DEF MovedWell, InList, AllFake, IsFake

LEMMA ChangeSongLists ==
  ASSUME IInv, NEW direction \in {next, prev},
         NEW r \in ChangeSong(Player, direction), Becomes(r)
  PROVE  /\ PlayerOK(Player') /\ (plv.fd = Fake => AllFake(Player'))
         /\ overrun' \in {"no", "clone"}
<1>1. /\ PlayerOK(Player')
      /\ \/ Stayed /\ overrun' = "clone"
         \/ overrun' = "no" /\ Changed(Player, direction, Player')
  BY ChangeSongStep
<1> QED
  BY <1>1, ChangedFromFake DEF Stayed, IInv, PagesOK

LEMMA change_songOK ==
  ASSUME IInv, NEW direction \in {next, prev}, change_song(direction)
  PROVE  IInv'
<1>1. PICK r \in ChangeSong(Player, direction) : Becomes(r)
  BY DEF change_song
<1>2. /\ PlayerOK(Player') /\ (plv.fd = Fake => AllFake(Player'))
      /\ overrun' \in {"no", "clone"}
  BY <1>1, ChangeSongLists
<1>3. ListsStep
  BY <1>2 DEF ListsStep, change_song
<1>4. AudioOK'
  BY <1>2 DEF change_song, IInv, AudioOK, pages, audio
<1> QED
  BY <1>3, <1>4, ListsStepOK

LEMMA song_endOK ==
  ASSUME IInv, song_end, overrun = "no"
  PROVE  IInv'
<1>1. /\ PlayerOK(Player') /\ (plv.fd = Fake => AllFake(Player'))
      /\ overrun' \in {"no", "clone"}
  <2>1. CASE repeat_mode
    <3>1. Player' = Player /\ overrun' = "no"
      BY <2>1, ListsStay DEF song_end
    <3> QED
      BY <3>1 DEF IInv, PagesOK
  <2>2. CASE ~repeat_mode
    <3>1. PICK r \in ChangeSong(Player, next) : Becomes(r)
      BY <2>2 DEF song_end
    <3> QED
      BY <3>1, ChangeSongLists
  <2> QED
    BY <2>1, <2>2
<1>2. ListsStep
  BY <1>1 DEF ListsStep, song_end
<1>3. AudioOK'
  BY <1>1 DEF song_end, IInv, AudioOK, pages
<1> QED
  BY <1>2, <1>3, ListsStepOK

LEMMA set_next_songOK ==
  ASSUME IInv, set_next_song
  PROVE  IInv'
<1>1. /\ PlayerOK(Player')
      /\ \/ Stayed /\ overrun' = "open"
         \/ overrun' = "no" /\ NextSet(Player, Player')
  BY SetNextStep
<1>2. plv.fd = Fake => AllFake(Player')
  BY <1>1 DEF Stayed, NextSet, AllFake, IInv, PagesOK
<1>3. ListsStep
  BY <1>1, <1>2 DEF ListsStep, set_next_song
<1>4. AudioOK'
  BY <1>1 DEF set_next_song, IInv, AudioOK, pages, audio
<1> QED
  BY <1>3, <1>4, ListsStepOK

LEMMA set_jmp_posOK ==
  ASSUME IInv, set_jmp_pos
  PROVE  IInv'
<1>1. /\ PlayerOK(Player')
      /\ \/ Stayed /\ overrun' = "open"
         \/ overrun' = "no" /\ MarkSet(Player, Player')
  BY SetJmpStep
<1>2. plv.fd = Fake => AllFake(Player')
  BY <1>1 DEF Stayed, MarkSet, AllFake, IInv, PagesOK
<1>3. ListsStep
  BY <1>1, <1>2 DEF ListsStep, set_jmp_pos
<1>4. AudioOK'
  BY <1>1 DEF set_jmp_pos, IInv, AudioOK, pages, audio
<1> QED
  BY <1>3, <1>4, ListsStepOK

\* change_volume, toggle_repeat, play_pause, to_end_and_pause.
LEMMA SoundOK ==
  ASSUME IInv, UNCHANGED <<lists, pages, overrun>>,
         repeat_mode' \in BOOLEAN, pause_status' \in {"play", "pause", "soft_pause"},
         volume' \in 0 .. volume_max
  PROVE  IInv'
<1>1. PagesStep
  BY DEF PagesStep, pages, IInv, PagesOK
<1>2. AudioOK'
  BY DEF AudioOK, IInv, pages
<1> QED
  BY <1>1, <1>2, PagesStepOK

LEMMA change_volumeOK ==
  ASSUME IInv, NEW v \in {1, -1}, change_volume(v)
  PROVE  IInv'
<1>1. VolumeAfter(v) \in 0 .. volume_max
  BY BoundsAssumption DEF VolumeAfter, IInv, AudioOK
<1>2. /\ UNCHANGED <<lists, pages, overrun>>
      /\ repeat_mode' \in BOOLEAN /\ pause_status' \in {"play", "pause", "soft_pause"}
      /\ volume' \in 0 .. volume_max
  BY <1>1 DEF change_volume, IInv, AudioOK
<1> QED
  BY <1>2, SoundOK

LEMMA SoundActionsOK ==
  ASSUME IInv, toggle_repeat \/ play_pause \/ to_end_and_pause
  PROVE  IInv'
<1>1. /\ UNCHANGED <<lists, pages, overrun>>
      /\ repeat_mode' \in BOOLEAN /\ pause_status' \in {"play", "pause", "soft_pause"}
      /\ volume' \in 0 .. volume_max
  BY DEF toggle_repeat, play_pause, to_end_and_pause, IInv, AudioOK
<1> QED
  BY <1>1, SoundOK

LEMMA process_next_prevOK ==
  ASSUME IInv, overrun = "no", NEW direction \in {next, prev},
         process_next_prev(direction)
  PROVE  IInv'
<1>1. direction \in {1, -1} /\ -direction \in {1, -1}
  BY DEF next, prev
<1>2. PllOK(pll) /\ PlvOK(plv) /\ pll.pos \in Int /\ plv.pos \in Int
  BY DEF IInv, PagesOK, PllOK, PlvOK
<1>3. CASE /\ state = "pl_list"
           /\ pll' = SeekPll(pll.pos + direction)
           /\ UNCHANGED <<lists, state, state_song_view, plv, audio, overrun>>
  <2>1. pll.pos + direction \in Int
    BY <1>1, <1>2
  <2>2. PagesStep
    BY <1>2, <1>3, <2>1, SeekPllOK DEF PagesStep
  <2>3. AudioOK'
    BY <1>3 DEF AudioOK, IInv, audio
  <2> QED
    BY <2>2, <2>3, PagesStepOK
<1>4. CASE /\ state = "playlist"
           /\ plv' = SeekPlv(plv, plv.pos + direction)
           /\ UNCHANGED <<lists, state, state_song_view, pll, audio, overrun>>
  <2>1. plv.pos + direction \in Int
    BY <1>1, <1>2
  <2>2. PagesStep
    BY <1>2, <1>4, <2>1, SeekPlvOK DEF PagesStep
  <2>3. AudioOK'
    BY <1>4 DEF AudioOK, IInv, audio
  <2> QED
    BY <2>2, <2>3, PagesStepOK
<1>5. CASE change_volume(-direction)
  BY <1>1, <1>5, change_volumeOK
<1>6. CASE change_song(direction)
  BY <1>6, change_songOK
<1> QED
  BY <1>3, <1>4, <1>5, <1>6 DEF process_next_prev

LEMMA process_leftOK ==
  ASSUME IInv, process_left
  PROVE  IInv'
<1>1. PagesStep
  BY DEF process_left, PagesStep, IInv, PagesOK
<1>2. AudioOK'
  BY DEF process_left, AudioOK, IInv, audio
<1> QED
  BY <1>1, <1>2, PagesStepOK

\* The cursor of the list of playlists is at a playlist file.
LEMMA CursorInCard ==
  ASSUME PllOK(pll), NEW i \in 0 .. view_cnt, i < pll.cnt
  PROVE  i \in Lists
<1>1. pll.cnt \in CardSizes /\ i \in 0 .. pll.cnt - 1
  <2>1. pll.cnt \in CardSizes
    BY DEF PllOK
  <2>2. pll.cnt \in 0 .. view_cnt
    BY <2>1, BoundsAssumption
  <2> QED
    BY <2>1, <2>2, Sizes
<1> QED
  BY <1>1, BoundsAssumption

LEMMA process_rightOK ==
  ASSUME IInv, overrun = "no", process_right
  PROVE  IInv'
<1>1. PllOK(pll) /\ PlvOK(plv)
  BY DEF IInv, PagesOK
<1>2. CASE /\ state = "pl_list"
           /\ state' = "playlist"
           /\ \E o \in OpenIndex(pll.pos) : plv' = o.plv
           /\ UNCHANGED <<lists, state_song_view, pll, audio, overrun>>
  <2>1. PICK o \in OpenIndex(pll.pos) : plv' = o.plv
    BY <1>2
  <2>2. PlvOK(o.plv) /\ (o.plv.fd = Fake => plv.fd = Fake)
    <3>1. CASE pll.cnt = 0
      <4>1. o = [plv |-> plv, ok |-> TRUE]
        BY <3>1 DEF OpenIndex
      <4> QED
        BY <1>1, <4>1
    <3>2. CASE pll.cnt # 0
      <4>1. pll.pos \in 0 .. view_cnt /\ pll.pos < pll.cnt
        BY <1>1, <3>2 DEF PllOK
      <4>2. pll.pos \in Lists
        BY <1>1, <4>1, CursorInCard
      <4> QED
        BY <1>1, <4>2, OpenIndexOK
    <3> QED
      BY <3>1, <3>2
  <2>3. PagesStep
    BY <1>1, <1>2, <2>1, <2>2 DEF PagesStep
  <2>4. AudioOK'
    BY <1>2 DEF AudioOK, IInv, audio
  <2> QED
    BY <2>3, <2>4, PagesStepOK
<1>3. CASE /\ state = "playlist"
           /\ \E s \in PlayNewPlaylist(Player) : Becomes(s)
           /\ UNCHANGED <<pages, audio>>
  <2>1. PICK r \in PlayNewPlaylist(Player) : Becomes(r)
    BY <1>3
  <2>2. /\ PlayerOK(Player')
        /\ \/ Stayed /\ overrun' = "open"
           \/ overrun' = "no" /\ StartedAt(Player, Player')
    BY <2>1, PlayNewPlaylistStep
  <2>3. plv.fd = Fake => AllFake(Player')
    BY <2>2 DEF Stayed, StartedAt, InList, QueueGone, AllFake, IsFake, IInv, PagesOK
  <2>4. ListsStep
    BY <1>3, <2>2, <2>3 DEF ListsStep
  <2>5. AudioOK'
    BY <1>3, <2>2 DEF AudioOK, IInv, pages, audio
  <2> QED
    BY <2>4, <2>5, ListsStepOK
<1>4. CASE /\ state = "song"
           /\ state_song_view' = Rolled
           /\ UNCHANGED <<lists, state, pll, plv, audio, overrun>>
  <2>1. PagesStep
    BY <1>1, <1>4 DEF PagesStep
  <2>2. Rolled \in {"volume", "seek", "next_prev"}
    BY DEF Rolled, IInv, AudioOK
  <2>3. AudioOK'
    BY <1>4, <2>2 DEF AudioOK, IInv, audio
  <2> QED
    BY <2>1, <2>3, PagesStepOK
<1> QED
  BY <1>2, <1>3, <1>4 DEF process_right

LEMMA CenterPlListOK ==
  ASSUME IInv, CenterPlList
  PROVE  IInv'
<1>1. PllOK(pll) /\ PlvOK(plv) /\ pl.index \in Lists \cup {max_plb_files}
  BY PlayerIs, PlayerHas DEF IInv, PagesOK, PlayerOK, PlayingRec
<1>2. CASE /\ NearPll(pl.index)
           /\ \E o \in OpenIndex(pl.index) :
                plv' = o.plv /\ state' = IF o.ok THEN "playlist" ELSE state
           /\ UNCHANGED pll
  <2>1. PICK o \in OpenIndex(pl.index) :
          plv' = o.plv /\ state' = IF o.ok THEN "playlist" ELSE state
    BY <1>2
  <2>2. pl.index \in Lists
    <3>1. pll.cnt \in 0 .. view_cnt /\ pl.index < pll.cnt
      BY <1>1, <1>2, BoundsAssumption DEF NearPll, PllOK
    <3>2. pl.index # max_plb_files
      BY <3>1 DEF max_plb_files, view_cnt
    <3> QED
      BY <1>1, <3>2
  <2>3. o.ok \in BOOLEAN /\ PlvOK(o.plv) /\ (o.plv.fd = Fake => plv.fd = Fake)
    BY <1>1, <2>2, OpenIndexOK
  <2>4. PagesStep
    BY <1>1, <1>2, <2>1, <2>3 DEF PagesStep, CenterPlList
  <2>5. AudioOK'
    BY <2>1, <2>3 DEF CenterPlList, AudioOK, IInv, audio
  <2> QED
    BY <2>4, <2>5, PagesStepOK
<1>3. CASE /\ plv.index # max_plb_files
           /\ pll' = SeekPll(plv.index)
           /\ state' = "playlist"
           /\ UNCHANGED plv
  <2>1. plv.index \in Int
    BY <1>1, <1>3, Sizes DEF PlvOK
  <2>2. PagesStep
    BY <1>1, <1>3, <2>1, SeekPllOK DEF PagesStep, CenterPlList
  <2>3. AudioOK'
    BY <1>3 DEF CenterPlList, AudioOK, IInv, audio
  <2> QED
    BY <2>2, <2>3, PagesStepOK
<1> QED
  BY <1>2, <1>3 DEF CenterPlList

LEMMA CenterPlaylistOK ==
  ASSUME IInv, CenterPlaylist
  PROVE  IInv'
<1>1. /\ PllOK(pll) /\ PlvOK(plv) /\ ListOK(pl.value) /\ Indexed(pl)
      /\ pl.index \in Lists \cup {max_plb_files} /\ max_plb_files \in Nat
  BY PlayerIs, PlayerHas
     DEF IInv, PagesOK, PlayerOK, ListsOK, PlayingRec, max_plb_files
<1>2. CASE state' = "song" /\ UNCHANGED <<pll, plv>>
  <2>1. PagesStep
    BY <1>1, <1>2 DEF PagesStep, CenterPlaylist
  <2>2. AudioOK'
    BY <1>2 DEF CenterPlaylist, AudioOK, IInv, audio
  <2> QED
    BY <2>1, <2>2, PagesStepOK
<1>3. CASE pl.value.cnt # 0 /\ to_playing_pos /\ UNCHANGED state
  <2>1. pl.value.fd \in Lists /\ pl.index = pl.value.fd /\ pl.value.pos \in Int
    BY <1>1, <1>3 DEF ListOK, Stands, PlaylistRec, Indexed, IsFake
  <2>2. PllOK(pll') /\ PlvOK(plv') /\ (plv'.fd = Fake => plv.fd = Fake)
    <3>1. CASE /\ plv' = SeekPlv([LookedAt(pl.value.fd) EXCEPT !.index = pl.index],
                                 pl.value.pos)
               /\ pll' = SeekPll(pl.index)
      <4> DEFINE f == pl.value.fd
                 v == [LookedAt(f) EXCEPT !.index = f]
      <4>1. PlvOK(v) /\ v.fd = f /\ f # Fake
        BY <1>1, <2>1, LookedAtOK, Sizes
      <4>2. plv' = SeekPlv(v, pl.value.pos)
        BY <2>1, <3>1
      <4> HIDE DEF v
      <4>3. PlvOK(plv') /\ plv'.fd = f
        BY <2>1, <4>1, <4>2, SeekPlvOK
      <4>4. pl.index \in Int
        BY <1>1, Sizes
      <4>5. PllOK(pll')
        BY <1>1, <3>1, <4>4, SeekPllOK
      <4> QED
        BY <4>1, <4>3, <4>5
    <3>2. CASE plv' \in NotLookedAt /\ UNCHANGED pll
      BY <1>1, <3>2, NotLookedAtOK
    <3> QED
      BY <1>3, <3>1, <3>2 DEF to_playing_pos
  <2>3. PagesStep
    BY <2>2 DEF PagesStep, CenterPlaylist
  <2>4. AudioOK'
    BY <1>3 DEF CenterPlaylist, AudioOK, IInv, audio
  <2> QED
    BY <2>3, <2>4, PagesStepOK
<1> QED
  BY <1>2, <1>3 DEF CenterPlaylist

LEMMA jmpOK ==
  ASSUME IInv, NEW p \in Int, jmp(p)
  PROVE  IInv'
<1>1. PllOK(pll) /\ PlvOK(plv)
  BY DEF IInv, PagesOK
<1>2. PllOK(pll')
  BY <1>1, SeekPllOK DEF jmp
<1>3. PlvOK(plv') /\ plv'.fd = plv.fd
  BY <1>1, SeekPlvOK DEF jmp
<1>4. PagesStep
  BY <1>2, <1>3 DEF PagesStep, jmp
<1>5. AudioOK'
  BY DEF jmp, AudioOK, IInv, audio
<1> QED
  BY <1>4, <1>5, PagesStepOK

LEMMA findOK ==
  ASSUME IInv, find
  PROVE  IInv'
<1>1. PllOK(pll) /\ PlvOK(plv)
  BY DEF IInv, PagesOK
<1>2. PICK p \in 0 .. plv.cnt - 1 : plv' = SeekPlv(plv, p)
  BY DEF find
<1>3. p \in Int
  BY <1>1 DEF PlvOK
<1>4. PlvOK(plv') /\ plv'.fd = plv.fd
  BY <1>1, <1>2, <1>3, SeekPlvOK
<1>5. PagesStep
  BY <1>1, <1>4 DEF PagesStep, find
<1>6. AudioOK'
  BY DEF find, AudioOK, IInv, audio
<1> QED
  BY <1>5, <1>6, PagesStepOK

LEMMA change_cardOK ==
  ASSUME IInv, change_card
  PROVE  IInv'
<1>1. /\ pl \in PlayingRec /\ next_playlist \in PlayingRec /\ jmp_index \in PlayingRec
      /\ backup_sz \in Nat
  BY PlayerIs, PlayerHas DEF IInv, PlayerOK
<1>2. \A p \in {pl', next_playlist', jmp_index'} :
        p \in PlayingRec /\ IsFake(p) /\ Stands(p.value) /\ Indexed(p) /\ p.value.cnt = 0
  BY <1>1, ResetOK DEF change_card, Stands, IsFake
<1>3. 0 \in 0 .. repeat_max /\ 0 \in 0 .. view_cnt /\ 0 \in 0 .. view_cnt - 1
  BY BoundsAssumption DEF view_cnt
<1>4. Player' \in PlayerRec
  BY <1>1, <1>2, <1>3 DEF change_card, Player, PlayerRec
<1>5. PlayerOK(Player') /\ AllFake(Player')
  BY <1>2, <1>4, PlayerIsNext DEF PlayerOK, ListsOK, Counted, Decodes, AllFake
<1>6. PllOK(pll')
  BY InsertedOK DEF change_card
<1>7. PlvOK(plv')
  BY <1>3 DEF change_card, IInv, PagesOK, PlvOK
<1>8. AudioOK'
  BY DEF change_card, IInv, AudioOK, audio
<1> QED
  BY <1>5, <1>6, <1>7, <1>8 DEF IInv, PagesOK

LEMMA NextOK ==
  ASSUME IInv, [Next]_vars
  PROVE  IInv'
<1>1. CASE UNCHANGED vars
  <2>1. PagesStep /\ AudioOK'
    BY <1>1 DEF vars, pages, audio, PagesStep, IInv, PagesOK, AudioOK
  <2> QED
    BY <2>1, PagesStepOK
<1>2. CASE overrun = "no" /\ process_next_prev(prev)
  BY <1>2, process_next_prevOK
<1>3. CASE overrun = "no" /\ process_next_prev(next)
  BY <1>3, process_next_prevOK
<1>4. CASE process_left
  BY <1>4, process_leftOK
<1>5. CASE overrun = "no" /\ process_right
  BY <1>5, process_rightOK
<1>6. CASE process_center
  BY <1>6, CenterPlListOK, CenterPlaylistOK, SoundActionsOK DEF process_center
<1>7. CASE change_song(next) \/ change_song(prev)
  BY <1>7, change_songOK
<1>8. CASE change_volume(1) \/ change_volume(-1)
  BY <1>8, change_volumeOK
<1>9. CASE toggle_repeat \/ play_pause \/ to_end_and_pause
  BY <1>9, SoundActionsOK
<1>10. CASE set_next_song
  BY <1>10, set_next_songOK
<1>11. CASE set_jmp_pos
  BY <1>11, set_jmp_posOK
<1>12. CASE find
  BY <1>12, findOK
<1>13. CASE \E p \in 0 .. view_cnt - 1 : jmp(p)
  <2>1. PICK p \in 0 .. view_cnt - 1 : jmp(p)
    BY <1>13
  <2>2. p \in Int
    OBVIOUS
  <2> QED
    BY <2>1, <2>2, jmpOK
<1>14. CASE change_card
  BY <1>14, change_cardOK
<1>15. CASE overrun = "no" /\ song_end
  BY <1>15, song_endOK
<1>16. CASE AfterOverrun
  BY <1>1, <1>16 DEF AfterOverrun
<1> QED
  BY <1>1, <1>2, <1>3, <1>4, <1>5, <1>6, <1>7, <1>8, <1>9, <1>10, <1>11, <1>12, <1>13,
     <1>14, <1>15, <1>16 DEF Next, May

\* The inductive invariant: the lists that play, the pages, the sound.
THEOREM Invariance == Spec => []IInv
<1>1. Init => IInv
  BY InitOK
<1>2. IInv /\ [Next]_vars => IInv'
  BY NextOK
<1> QED
  BY <1>1, <1>2, PTL DEF Spec

LEMMA IInvTypes ==
  ASSUME IInv
  PROVE  TypeOK
<1>1. /\ PlayerOK(Player) /\ PllOK(pll) /\ PlvOK(plv)
      /\ 0 .. view_cnt - 1 \subseteq Nat /\ 0 .. view_cnt \subseteq Nat
  BY DEF IInv, PagesOK
<1>2. \A p \in {pl, next_playlist, jmp_index} :
        PlaylistType(p.value) /\ p.index \in Lists \cup {max_plb_files}
  <2>1. \A p \in {pl, next_playlist, jmp_index} : p \in PlayingRec
    BY <1>1, PlayerIs, PlayerHas DEF PlayerOK
  <2>2. PlaylistRec \subseteq [fd : Lists \cup {Fake}, cnt : 0 .. view_cnt, pos : Nat,
                               len : Nat, sz : Nat, of : Song \cup {NoPath}]
    BY <1>1 DEF PlaylistRec
  <2> QED
    BY <2>1, <2>2 DEF PlayingRec, PlaylistType
<1>3. /\ repeat_counter \in 0 .. repeat_max /\ backup_sz \in Nat
      /\ audio_file \in Song \cup {Fake}
  BY <1>1, PlayerIs, PlayerHas DEF PlayerOK
<1>4. /\ pll \in [cnt : CardSizes, pos : Nat]
      /\ pll.pos < pll.cnt \/ pll = [cnt |-> 0, pos |-> 0]
  BY <1>1 DEF PllOK
<1>5. /\ plv.fd \in Lists \cup {Fake} /\ plv.cnt \in 0 .. view_cnt
      /\ plv.pos \in Nat /\ plv.len \in Nat
  BY <1>1 DEF PlvOK
<1> QED
  BY <1>2, <1>3, <1>4, <1>5 DEF TypeOK, IInv, AudioOK

\* The types of the variables of the player core.
THEOREM TypeCorrect == Spec => []TypeOK
  BY Invariance, IInvTypes, PTL

\* A list that has songs holds in its buffer the path of the song it stands at
\* (view.h, playlist.h), after every move, swap, clone, queueing and failed access
\* to the card, for every card.
THEOREM PathsMatch == Spec => []PathMatches
<1>1. IInv => PathMatches
  BY PlayerIs DEF IInv, PlayerOK, ListsOK, Stands, PathMatches
<1> QED
  BY <1>1, Invariance, PTL

\* What is decoded is the song the playing list stands at, or a directory found in
\* place of a song: a list that is taken back after a failure is taken back to it.
THEOREM NowPlayingIsRight == Spec => []NowPlaying
<1>1. IInv => NowPlaying
  BY PlayerIs DEF IInv, PlayerOK, Decodes, NowPlaying
<1> QED
  BY <1>1, Invariance, PTL

\* The number shown beside each list is the file its songs are read from, although
\* the number and the list are swapped, cloned and moved apart (view.cpp).
THEOREM IndexesMatch == Spec => []IndexMatches
<1>1. IInv => IndexMatches
  BY PlayerIs DEF IInv, PlayerOK, ListsOK, Indexed, PagesOK, PlvOK, IndexMatches
<1> QED
  BY <1>1, Invariance, PTL

\* Moving in a list never copies a path past its buffer, whatever the lengths of
\* the paths on the card (seek, playlist.cpp).
THEOREM StepsAlwaysFit == Spec => []StepsFit
<1>1. IInv => StepsFit
  BY DEF IInv, AudioOK, StepsFit
<1> QED
  BY <1>1, Invariance, PTL

(***************************************************************************)
(* What any step does to the lists that play                               *)
(***************************************************************************)
ListsChange(s, r) ==
  \/ r = s
  \/ \E direction \in {next, prev} : Changed(s, direction, r)
  \/ StartedAt(s, r)
  \/ NextSet(s, r)
  \/ MarkSet(s, r)
  \/ AllFake(r)

LEMMA StepIs ==
  ASSUME IInv, [Next]_vars
  PROVE  ListsChange(Player, Player')
<1>1. CASE UNCHANGED lists
  BY <1>1, ListsStay DEF ListsChange
<1>2. CASE \E direction \in {next, prev} : change_song(direction)
  <2>1. PICK direction \in {next, prev} : change_song(direction)
    BY <1>2
  <2>2. PICK r \in ChangeSong(Player, direction) : Becomes(r)
    BY <2>1 DEF change_song
  <2> QED
    BY <2>2, ChangeSongStep DEF ListsChange, Stayed
<1>3. CASE song_end
  <2>1. CASE repeat_mode
    BY <1>1, <1>3, <2>1 DEF song_end
  <2>2. CASE ~repeat_mode
    <3>1. PICK r \in ChangeSong(Player, next) : Becomes(r)
      BY <1>3, <2>2 DEF song_end
    <3> QED
      BY <3>1, ChangeSongStep DEF ListsChange, Stayed
  <2> QED
    BY <2>1, <2>2
<1>4. CASE \E r \in PlayNewPlaylist(Player) : Becomes(r)
  BY <1>4, PlayNewPlaylistStep DEF ListsChange, Stayed
<1>5. CASE set_next_song
  BY <1>5, SetNextStep DEF ListsChange, Stayed
<1>6. CASE set_jmp_pos
  BY <1>6, SetJmpStep DEF ListsChange, Stayed
<1>7. CASE change_card
  <2>1. pl \in PlayingRec /\ next_playlist \in PlayingRec /\ jmp_index \in PlayingRec
    BY PlayerIs, PlayerHas DEF IInv, PlayerOK
  <2>2. AllFake(Player')
    BY <1>7, <2>1, ResetOK, PlayerIsNext DEF change_card, AllFake
  <2> QED
    BY <2>2 DEF ListsChange
<1>8. CASE \E direction \in {next, prev} : process_next_prev(direction)
  BY <1>1, <1>2, <1>8 DEF process_next_prev, change_volume
<1>9. CASE process_left \/ process_right \/ process_center
  BY <1>1, <1>4, <1>9 DEF process_left, process_right, process_center, CenterPlList,
                          CenterPlaylist, toggle_repeat
<1>10. CASE \E v \in {1, -1} : change_volume(v)
  BY <1>1, <1>10 DEF change_volume
<1>11. CASE toggle_repeat \/ play_pause \/ to_end_and_pause \/ find
            \/ \E p \in 0 .. view_cnt - 1 : jmp(p)
  BY <1>1, <1>11 DEF toggle_repeat, play_pause, to_end_and_pause, find, jmp
<1>12. CASE UNCHANGED vars \/ AfterOverrun
  BY <1>1, <1>12 DEF vars, AfterOverrun
<1> QED
  BY <1>2, <1>3, <1>5, <1>6, <1>7, <1>8, <1>9, <1>10, <1>11, <1>12 DEF Next, May

LEMMA StepOpens ==
  ASSUME IInv, [Next]_vars
  PROVE  Opened(Player, Player')
<1>1. ListsChange(Player, Player')
  BY StepIs
<1>2. PlayerOK(Player')
  BY NextOK DEF IInv
<1>3. CASE AllFake(Player')
  BY <1>2, <1>3 DEF AllFake, IsFake, PlayerOK, ListsOK, Stands, Opened
<1>4. CASE \E direction \in {next, prev} : Changed(Player, direction, Player')
  BY <1>4, PlayerIsNext DEF Changed, MovedWell, Taken, Dropped, Opened
<1>5. CASE Player'.pl = Player.pl
  BY <1>5 DEF Opened, SameSong
<1> QED
  BY <1>1, <1>3, <1>4, <1>5 DEF ListsChange, StartedAt, NextSet, MarkSet

\* The playing list moves only to a song that has been opened, whichever of the
\* songs on the way open and whichever accesses to the card fail (change_song and
\* play_new_playlist, view.cpp).
THEOREM MovesToOpenedSongs == Spec => OnlyOpenedSongs
<1> DEFINE ToOpened == pl'.value.cnt # 0 /\ ~SameSong(pl'.value, pl.value) =>
                       /\ audio_file' = <<pl'.value.fd, pl'.value.pos>>
                       /\ ~IsDir(audio_file')
<1>1. IInv /\ [Next]_vars => [ToOpened]_vars
  BY StepOpens, PlayerIs, PlayerIsNext DEF Opened
<1> QED
  BY <1>1, Invariance, PTL DEF Spec, OnlyOpenedSongs

(***************************************************************************)
(* The player core implements PlayQueue                                    *)
(***************************************************************************)
Entries == Lists \X (0 .. view_cnt - 1)

Times(s) == IF IsFake(s.next_playlist) THEN 0 ELSE s.repeat_counter

LEMMA EntryIs ==
  ASSUME NEW p \in PlayingRec
  PROVE  /\ IsFake(p) => Entry(p) = Fake
         /\ ~IsFake(p) => /\ Entry(p) \in Entries /\ Entry(p) # Fake
                          /\ Entry(p)[1] = p.value.fd
<1>1. CASE IsFake(p)
  BY <1>1 DEF Entry
<1>2. CASE ~IsFake(p)
  <2>1. p.value.fd \in Lists /\ p.value.pos \in 0 .. view_cnt - 1
        /\ 0 .. view_cnt - 1 \subseteq Nat
    BY <1>2 DEF PlayingRec, PlaylistRec, IsFake, view_cnt
  <2>2. Entry(p) = <<p.value.fd, p.value.pos>>
    BY <1>2 DEF Entry
  <2>3. Entry(p) \in Lists \X Nat
    BY <2>1, <2>2
  <2> QED
    BY <1>2, <2>1, <2>2, <2>3, FakeAssumption DEF Entries
<1> QED
  BY <1>1, <1>2

LEMMA SameEntry ==
  ASSUME NEW p \in PlayingRec, NEW q \in PlayingRec
  PROVE  /\ SameSong(p.value, q.value) => Entry(p) = Entry(q) /\ (IsFake(p) <=> IsFake(q))
         /\ ~IsFake(p) /\ Entry(p) = Entry(q) => SameSong(p.value, q.value)
<1>1. SameSong(p.value, q.value) => Entry(p) = Entry(q) /\ (IsFake(p) <=> IsFake(q))
  BY DEF SameSong, Entry, IsFake
<1>2. ASSUME ~IsFake(p), Entry(p) = Entry(q)
      PROVE  SameSong(p.value, q.value)
  <2>1. ~IsFake(q)
    BY <1>2, EntryIs
  <2> QED
    BY <1>2, <2>1 DEF Entry, SameSong
<1> QED
  BY <1>1, <1>2

\* The variables of PlayQueue in a player.
LEMMA Abstract ==
  ASSUME NEW s, ListsOK(s)
  PROVE  /\ s.pl \in PlayingRec /\ s.next_playlist \in PlayingRec
         /\ s.jmp_index \in PlayingRec
         /\ s.repeat_counter \in 0 .. repeat_max
         /\ Times(s) \in 0 .. repeat_max
         /\ ~IsFake(s.next_playlist) => Times(s) = s.repeat_counter /\ Times(s) # 0
         /\ IsFake(s.next_playlist) => Times(s) = 0
  BY PlayerHas, BoundsAssumption DEF ListsOK, Counted, Times

LEMMA GoneIsEmptied ==
  ASSUME PlayerOK(Player'), QueueGone(Player')
  PROVE  Queue!Emptied
<1>1. next_playlist' \in PlayingRec /\ jmp_index' \in PlayingRec
      /\ IsFake(next_playlist') /\ IsFake(jmp_index')
  BY Abstract, PlayerIsNext DEF PlayerOK, QueueGone
<1>2. Entry(next_playlist') = Fake /\ Entry(jmp_index') = Fake
  BY <1>1, EntryIs
<1> QED
  BY <1>1, <1>2 DEF Queue!Emptied

\* The parts of both players, as the variables of View.
Both ==
  /\ pl \in PlayingRec /\ next_playlist \in PlayingRec /\ jmp_index \in PlayingRec
  /\ pl' \in PlayingRec /\ next_playlist' \in PlayingRec /\ jmp_index' \in PlayingRec
  /\ repeat_counter \in 0 .. repeat_max /\ repeat_counter' \in 0 .. repeat_max
  /\ ~IsFake(next_playlist) => repeat_counter # 0
  /\ ~IsFake(next_playlist') => repeat_counter' # 0

LEMMA BothAre ==
  ASSUME PlayerOK(Player), PlayerOK(Player')
  PROVE  Both
  BY PlayerHas, PlayerIs, PlayerIsNext DEF PlayerOK, ListsOK, Counted, Both

LEMMA InListMoves ==
  ASSUME Both, InList(Player, Player')
  PROVE  Queue!MoveInList \/ UNCHANGED Queue!vars
<1>1. /\ next_playlist' = next_playlist /\ jmp_index' = jmp_index
      /\ repeat_counter' = repeat_counter /\ pl'.value.fd = pl.value.fd
  BY PlayerIs, PlayerIsNext DEF InList
<1>2. CASE IsFake(pl)
  <2>1. Entry(pl') = Entry(pl)
    BY <1>1, <1>2 DEF Entry, IsFake
  <2> QED
    BY <1>1, <2>1 DEF Queue!vars
<1>3. CASE ~IsFake(pl)
  <2>1. /\ Entry(pl) # Fake /\ Entry(pl') \in Entries /\ Entry(pl') # Fake
        /\ Entry(pl)[1] = Entry(pl')[1]
    BY <1>1, <1>3, EntryIs DEF Both, IsFake
  <2> QED
    BY <1>1, <2>1 DEF Queue!MoveInList, Queue!SameList, Entries
<1> QED
  BY <1>2, <1>3

LEMMA QueueIsOpen ==
  ASSUME Both, UsesNext(Player, next)
  PROVE  Queue!QueueOpen /\ ~IsFake(next_playlist)
<1>1. /\ ~IsFake(next_playlist)
      /\ IsFake(jmp_index) \/ SameSong(jmp_index.value, pl.value)
  BY PlayerIs DEF UsesNext
<1>2. Entry(next_playlist) # Fake
  BY <1>1, EntryIs DEF Both
<1>3. Entry(jmp_index) \in {Fake, Entry(pl)}
  BY <1>1, EntryIs, SameEntry DEF Both
<1> QED
  BY <1>1, <1>2, <1>3 DEF Queue!QueueOpen

LEMMA TakenTakes ==
  ASSUME Both, PlayerOK(Player'), UsesNext(Player, next), Taken(Player, Player')
  PROVE  Queue!TakeQueued
<1>1. Queue!QueueOpen /\ ~IsFake(next_playlist) /\ repeat_counter \in Nat \ {0}
  BY QueueIsOpen DEF Both
<1>2. pl'.value.fd = next_playlist.value.fd
  BY PlayerIs, PlayerIsNext DEF Taken
<1>3. /\ Entry(next_playlist) # Fake /\ Entry(pl') \in Entries /\ Entry(pl') # Fake
      /\ Entry(next_playlist)[1] = Entry(pl')[1]
  BY <1>1, <1>2, EntryIs DEF Both, IsFake
<1>4. CASE repeat_counter = 1
  <2>1. Queue!Emptied
    BY <1>4, PlayerIs, GoneIsEmptied DEF Taken
  <2> QED
    BY <1>1, <1>3, <1>4, <2>1 DEF Queue!TakeQueued, Queue!SameList, Entries
<1>5. CASE repeat_counter # 1
  <2>1. /\ repeat_counter' = repeat_counter - 1 /\ jmp_index' = jmp_index
        /\ SameSong(next_playlist'.value, next_playlist.value)
    BY <1>5, PlayerIs, PlayerIsNext DEF Taken
  <2>2. Entry(next_playlist') = Entry(next_playlist) /\ ~IsFake(next_playlist')
    BY <1>1, <2>1, SameEntry DEF Both
  <2> QED
    BY <1>1, <1>3, <1>5, <2>1, <2>2 DEF Queue!TakeQueued, Queue!SameList, Entries
<1> QED
  BY <1>4, <1>5

LEMMA DroppedDrops ==
  ASSUME Both, PlayerOK(Player'), UsesNext(Player, next), Dropped(Player, Player')
  PROVE  Queue!DropQueued
<1>1. Queue!QueueOpen
  BY QueueIsOpen
<1>2. Queue!Emptied
  BY GoneIsEmptied DEF Dropped
<1>3. pl'.value.fd = pl.value.fd
  BY PlayerIs, PlayerIsNext DEF Dropped
<1>4. CASE IsFake(pl)
  <2>1. Entry(pl') = Entry(pl)
    BY <1>3, <1>4 DEF Entry, IsFake
  <2> QED
    BY <1>1, <1>2, <2>1 DEF Queue!DropQueued
<1>5. CASE ~IsFake(pl)
  <2>1. /\ Entry(pl) # Fake /\ Entry(pl') \in Entries /\ Entry(pl') # Fake
        /\ Entry(pl)[1] = Entry(pl')[1]
    BY <1>3, <1>5, EntryIs DEF Both, IsFake
  <2> QED
    BY <1>1, <1>2, <2>1 DEF Queue!DropQueued, Queue!SameList, Entries
<1> QED
  BY <1>4, <1>5

LEMMA StartedPlays ==
  ASSUME Both, StartedAt(Player, Player')
  PROVE  Queue!PlayEntry \/ Queue!Eject \/ UNCHANGED Queue!vars
<1>1. CASE InList(Player, Player') /\ SameSong(Player'.pl.value, Player.pl.value)
  <2>1. /\ next_playlist' = next_playlist /\ jmp_index' = jmp_index
        /\ repeat_counter' = repeat_counter /\ SameSong(pl'.value, pl.value)
    BY <1>1, PlayerIs, PlayerIsNext DEF InList
  <2>2. Entry(pl') = Entry(pl)
    BY <2>1, SameEntry DEF Both
  <2> QED
    BY <2>1, <2>2 DEF Queue!vars
<1>2. CASE QueueGone(Player')
  <2>1. Queue!Emptied
    BY <1>2, GoneIsEmptied DEF StartedAt
  <2>2. Entry(pl') = Fake \/ Entry(pl') \in Entries
    BY EntryIs DEF Both
  <2> QED
    BY <2>1, <2>2 DEF Queue!PlayEntry, Queue!Eject, Entries
<1> QED
  BY <1>1, <1>2 DEF StartedAt

LEMMA NextSetEnqueues ==
  ASSUME Both, NextSet(Player, Player')
  PROVE  Queue!Enqueue \/ Queue!EnqueueFails \/ UNCHANGED Queue!vars
<1>1. pl' = pl /\ jmp_index' = jmp_index
  BY PlayerIs, PlayerIsNext DEF NextSet
<1>2. CASE next_playlist' = next_playlist /\ repeat_counter' = CountedAgain(repeat_counter)
  <2>1. CASE IsFake(next_playlist) \/ ~(repeat_counter < repeat_max)
    BY <1>1, <1>2, <2>1 DEF Queue!vars, CountedAgain
  <2>2. CASE ~IsFake(next_playlist) /\ repeat_counter < repeat_max
    <3>1. repeat_counter' = repeat_counter + 1
      BY <1>2, <2>2 DEF CountedAgain
    <3>2. Entry(next_playlist) \in Entries
      BY <2>2, EntryIs DEF Both
    <3> QED
      BY <1>1, <1>2, <2>2, <3>1, <3>2 DEF Queue!Enqueue, Entries
  <2> QED
    BY <2>1, <2>2
<1>3. CASE /\ repeat_counter' = 1
           /\ SameSong(next_playlist'.value, next_playlist.value)
  <2>1. /\ Entry(next_playlist') = Entry(next_playlist)
        /\ IsFake(next_playlist') <=> IsFake(next_playlist)
    BY <1>3, SameEntry DEF Both
  <2>2. CASE IsFake(next_playlist)
    BY <1>1, <2>1, <2>2 DEF Queue!vars
  <2>3. CASE ~IsFake(next_playlist)
    <3>1. Entry(next_playlist) # Fake
      BY <2>3, EntryIs DEF Both
    <3> QED
      BY <1>1, <1>3, <2>1, <2>3, <3>1 DEF Queue!EnqueueFails
  <2> QED
    BY <2>2, <2>3
<1>4. CASE /\ repeat_counter' = 1 /\ ~IsFake(next_playlist')
           /\ ~SameSong(next_playlist'.value, next_playlist.value)
  <2>1. Entry(next_playlist') \in Entries /\ Entry(next_playlist') # Entry(next_playlist)
    BY <1>4, EntryIs, SameEntry DEF Both
  <2> QED
    BY <1>1, <1>4, <2>1 DEF Queue!Enqueue, Entries
<1> QED
  BY <1>2, <1>3, <1>4, PlayerIs, PlayerIsNext DEF NextSet

LEMMA MarkSetMarks ==
  ASSUME Both, MarkSet(Player, Player')
  PROVE  Queue!PlaceMark \/ UNCHANGED Queue!vars
<1>1. /\ pl' = pl /\ next_playlist' = next_playlist /\ repeat_counter' = repeat_counter
      /\ SameSong(jmp_index'.value, jmp_index.value) \/ ~IsFake(jmp_index')
  BY PlayerIs, PlayerIsNext DEF MarkSet
<1>2. Entry(jmp_index') = Entry(jmp_index) \/ Entry(jmp_index') \in Entries
  BY <1>1, EntryIs, SameEntry DEF Both
<1> QED
  BY <1>1, <1>2 DEF Queue!PlaceMark, Queue!vars, Entries

LEMMA FakeEjects ==
  ASSUME Both, PlayerOK(Player'), AllFake(Player')
  PROVE  Queue!Eject
<1>1. Queue!Emptied
  BY GoneIsEmptied DEF AllFake, QueueGone
<1>2. Entry(pl') = Fake
  BY EntryIs, PlayerIsNext DEF AllFake, Both
<1> QED
  BY <1>1, <1>2 DEF Queue!Eject

LEMMA QueueSteps ==
  ASSUME IInv, [Next]_vars
  PROVE  [Queue!Next]_(Queue!vars)
<1>1. PlayerOK(Player) /\ PlayerOK(Player')
  BY NextOK DEF IInv
<1>2. Both
  BY <1>1, BothAre
<1>3. ListsChange(Player, Player')
  BY StepIs
<1>4. CASE Player' = Player
  <2>1. /\ pl' = pl /\ next_playlist' = next_playlist /\ jmp_index' = jmp_index
        /\ repeat_counter' = repeat_counter
    BY <1>4, PlayerIs, PlayerIsNext
  <2> QED
    BY <2>1 DEF Queue!vars
<1>5. CASE \E direction \in {next, prev} : Changed(Player, direction, Player')
  <2>1. PICK direction \in {next, prev} : Changed(Player, direction, Player')
    BY <1>5
  <2>2. CASE MovedWell(Player, Player')
    BY <1>2, <2>2, InListMoves DEF MovedWell, Queue!Next
  <2>3. CASE /\ UsesNext(Player, direction)
             /\ Taken(Player, Player') \/ Dropped(Player, Player')
    <3>1. UsesNext(Player, next)
      BY <2>3 DEF UsesNext
    <3> QED
      BY <1>1, <1>2, <2>3, <3>1, TakenTakes, DroppedDrops DEF Queue!Next
  <2> QED
    BY <2>1, <2>2, <2>3, PlayerIsNext DEF Changed
<1>6. CASE StartedAt(Player, Player')
  BY <1>2, <1>6, StartedPlays DEF Queue!Next
<1>7. CASE NextSet(Player, Player')
  BY <1>2, <1>7, NextSetEnqueues DEF Queue!Next
<1>8. CASE MarkSet(Player, Player')
  BY <1>2, <1>8, MarkSetMarks DEF Queue!Next
<1>9. CASE AllFake(Player')
  BY <1>1, <1>2, <1>9, FakeEjects DEF Queue!Next
<1> QED
  BY <1>3, <1>4, <1>5, <1>6, <1>7, <1>8, <1>9 DEF ListsChange

\* Every handler does to the playing, the queued and the marked list one step of
\* the queue of PlayQueue, or none: whatever swaps, clones and moves it makes,
\* whichever songs open and whichever accesses to the card fail.
THEOREM PlaysAsQueue == Spec => ImplementsQueue
<1>1. Init => Queue!Init
  <2> SUFFICES ASSUME Init
               PROVE  Queue!Init
    OBVIOUS
  <2>1. IsFake(pl) /\ IsFake(next_playlist) /\ IsFake(jmp_index)
    BY DEF Init, NullPlaying, NullPlaylist, IsFake
  <2> QED
    BY <2>1 DEF Queue!Init, Entry
<1>2. IInv /\ [Next]_vars => [Queue!Next]_(Queue!vars)
  BY QueueSteps
<1> QED
  BY <1>1, <1>2, Invariance, PTL DEF Spec, ImplementsQueue, Queue!Spec
=============================================================================

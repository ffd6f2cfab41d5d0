------------------------------ MODULE Playlist ------------------------------
(***************************************************************************)
(* The data of playlist.{h,cpp} and light_playlist.{h,cpp}: a playlist     *)
(* file opened at one of its songs, with a heap buffer for that song's     *)
(* path.  Operators only; module View has the variables.                   *)
(*                                                                         *)
(* The playlist files of a card are numbered in directory order; a file    *)
(* descriptor is the number of its file.  A song is the pair of its file   *)
(* and its position, and its path is named by the song.                    *)
(*                                                                         *)
(* Every access to the card can fail.  An operation that can fail is the   *)
(* set of its outcomes.  An outcome with over = TRUE has copied a path     *)
(* into a buffer that is too short for it (or that is null): in C++ the    *)
(* behaviour is undefined from there on.                                   *)
(***************************************************************************)
EXTENDS Integers, FiniteSets

CONSTANTS
  Lists,                \* the playlist files, 0 .. n - 1
  cnt_songs,            \* cnt_songs[l]: the songs of l, in its header
  path_len,             \* path_len[l][p]: the length of the path of song p
  is_dir,               \* is_dir[l][p]: the path of song p names a directory
  Fake,                 \* the descriptor that init_fake makes
  NoPath                \* the content of a buffer that holds no path

view_cnt == 7

ASSUME ListsAssumption ==
  /\ Lists \subseteq Nat
  /\ cnt_songs \in [Lists -> 0 .. view_cnt]
  /\ \A l \in Lists : /\ path_len[l] \in [0 .. cnt_songs[l] - 1 -> Nat \ {0}]
                      /\ is_dir[l] \in [0 .. cnt_songs[l] - 1 -> BOOLEAN]

\* Neither a playlist file nor a position in one.
ASSUME FakeAssumption == Fake \notin Lists /\ Fake \notin Lists \X Nat

Song == UNION {{l} \X (0 .. cnt_songs[l] - 1) : l \in Lists}

ASSUME NoPathAssumption == NoPath \notin Song

LongerOf(a, b) == IF a < b THEN b ELSE a

\* lpl: fd, cnt, pos and the path_len of the song it read last (make_fake and
\* open_file keep a stale one); sz and of: the path buffer and its content.
NullPlaylist ==
  [fd |-> Fake, cnt |-> 0, pos |-> 0, len |-> 0, sz |-> 0, of |-> NoPath]

WithLpl(q, lpl) ==
  [q EXCEPT !.fd = lpl.fd, !.cnt = lpl.cnt, !.pos = lpl.pos, !.len = lpl.len]

\* The buffer stays, but what is in it does not matter any more.
MakeFake(q) == [q EXCEPT !.fd = Fake, !.cnt = 0, !.pos = 0, !.of = NoPath]

\* What std::move leaves behind.
MovedFrom(q) == [MakeFake(q) EXCEPT !.sz = 0]

SameSong(a, b) == a.fd = b.fd /\ a.pos = b.pos

Outcome(q, ok, over) == [q |-> q, ok |-> ok, over |-> over]

(***************************************************************************)
(* clone: the buffer grows to other's size, then as many characters are    *)
(* copied as other's song has, whatever other's buffer holds.              *)
(***************************************************************************)
Cloned(q, other) ==
  [WithLpl(q, other) EXCEPT !.sz = LongerOf(q.sz, other.sz), !.of = other.of]

CloneOutcomes(q, other) ==
  {Outcome(Cloned(q, other), TRUE, other.len > LongerOf(q.sz, other.sz))}
  \cup IF q.sz < other.sz THEN {Outcome(q, FALSE, FALSE)} ELSE {}

(***************************************************************************)
(* seek, at position p of a playlist that has songs.  It fails reading the *)
(* song's header or growing the buffer, positioning on the path, or        *)
(* reading it; in the last case the buffer is spoilt, and the path of      *)
(* backup is copied back.                                                  *)
(***************************************************************************)
GrownToFit(q, p) == path_len[q.fd][p]  \* mutant: realloc without "if larger"

Grown(q, p) == LongerOf(q.sz, path_len[q.fd][p])

SoughtTo(q, p) == [q EXCEPT !.pos = p, !.len = path_len[q.fd][p],
                            !.sz = Grown(q, p), !.of = <<q.fd, p>>]

\* mutant: the spoilt path is left in the buffer
SeekFailuresSpoilt(q, p, backup) ==
  LET old == WithLpl(q, backup) IN
  {Outcome(old, FALSE, FALSE),
   Outcome([old EXCEPT !.sz = Grown(q, p)], FALSE, FALSE),
   Outcome([old EXCEPT !.sz = Grown(q, p), !.of = NoPath], FALSE, FALSE)}

SeekFailures(q, p, backup) ==
  LET old == WithLpl(q, backup) IN
  {Outcome(old, FALSE, FALSE),
   Outcome([old EXCEPT !.sz = Grown(q, p)], FALSE, FALSE),
   Outcome([old EXCEPT !.sz = Grown(q, p), !.of = backup.of],
           FALSE, backup.len > Grown(q, p))}

(***************************************************************************)
(* open: q takes the descriptor of lpl and seeks to pos_selected; after a  *)
(* failure the path of backup is copied back once more.                    *)
(***************************************************************************)
PathBack(o, backup) ==
  IF backup.cnt = 0 THEN o
  ELSE Outcome([o.q EXCEPT !.of = backup.of], FALSE,
               o.over \/ backup.len > o.q.sz)

OpenOutcomes(q, lpl, pos_selected, backup) ==
  LET q1 == WithLpl(q, lpl)
      p  == pos_selected % lpl.cnt
  IN IF lpl.cnt = 0
       THEN {Outcome(q1, TRUE, FALSE)}
       ELSE {Outcome(SoughtTo(q1, p), TRUE, FALSE)}
            \cup {PathBack(o, backup) : o \in SeekFailures(q1, p, backup)}

(***************************************************************************)
(* next and prev, j times.                                                 *)
(***************************************************************************)
next == 1
prev == -1

PosAfter(q, direction, j) == (q.pos + direction * j) % q.cnt

Stepped(q, direction, j) ==
  LET At(i) == PosAfter(q, direction, i)
      sizes == {q.sz} \cup {path_len[q.fd][At(i)] : i \in 1 .. j}
  IN IF j = 0 THEN q
     ELSE [SoughtTo(q, At(j)) EXCEPT
             !.sz = CHOOSE s \in sizes : \A t \in sizes : t <= s]

StepFailures(q, direction, backup) ==
  SeekFailures(q, PosAfter(q, direction, 1), backup)

StepOutcomes(q, direction, backup) ==
  IF q.cnt = 0 THEN {Outcome(q, TRUE, FALSE)}
  ELSE {Outcome(Stepped(q, direction, 1), TRUE, FALSE)}
       \cup StepFailures(q, direction, backup)
=============================================================================

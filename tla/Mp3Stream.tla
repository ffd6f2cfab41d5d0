------------------------------ MODULE Mp3Stream ------------------------------
(***************************************************************************)
(* How the decoder gets its frames: the input buffer of get_pcm_sound      *)
(* (audio/mp3.cpp), the search for headers (audio/mp3/frame.c, stream.c)   *)
(* and the reservoir of mad_layer_III (audio/mp3/layer3.c).  The sound of  *)
(* a frame lies in bytes that may begin before the frame's own: "begin"    *)
(* bytes back, headers not counted, and it ends where the next frame's     *)
(* begins.  main_data carries these bytes from frame to frame, while the   *)
(* input buffer is moved and refilled between any two frames.              *)
(*                                                                         *)
(* A cell of a file stands for bytes: the header up to main_data_begin is  *)
(* one, with the rest of the side information the first head_len cells of  *)
(* a frame.  A byte among the data that looks like a header is one, too.   *)
(* What lies in a buffer are the numbers of the file's cells, 0 for bytes  *)
(* that were zeroed.  All frames are layer III's, none is of free format,  *)
(* memory is never short, and a checksum is not wrong where all else is    *)
(* right.  AudioOutput has the player's side: halves, pauses, songs.       *)
(***************************************************************************)
EXTENDS Integers, Sequences, FiniteSets, FiniteSetsExt

CONSTANTS
  Files,                  \* bound: the files
  mp3_input_buffer_size,  \* 3072
  mp3_frame_size,         \* 1152
  MAD_BUFFER_GUARD,       \* 8
  MAD_BUFFER_MDLEN,       \* 511 + 2048 + 8
  head_len,               \* header and side information
  max_tries               \* 5

\* frame: the number of the frame that the cell is the header of, or 0.
\* size is 0 in what looks like a header and is found not to be one.
Cell == [sync : BOOLEAN, size : Nat, begin : Nat, frame : Nat]

ZeroByte == [sync |-> FALSE, size |-> 0, begin |-> 0, frame |-> 0]

Frames(f) == {f[p].frame : p \in DOMAIN f} \ {0}
Header(f, k) == CHOOSE p \in DOMAIN f : f[p].frame = k

\* The frames of a file follow each other and refer only to bytes that are there.
WellMade(f) ==
  /\ f \in Seq(Cell) /\ f # <<>> /\ f[1].frame = 1
  /\ Frames(f) = 1 .. Cardinality(Frames(f))
  /\ \A k \in Frames(f) :
       LET p == Header(f, k)
           space == f[p].size - head_len
       IN /\ \A q \in DOMAIN f : f[q].frame = k => q = p
          /\ f[p].sync /\ space >= 0
          /\ p + f[p].size = IF k + 1 \in Frames(f) THEN Header(f, k + 1) ELSE Len(f) + 1
          /\ f[p].size + MAD_BUFFER_GUARD < mp3_input_buffer_size
          /\ f[p].begin <= MAD_BUFFER_MDLEN
          /\ k = 1 => f[p].begin = 0
          /\ k + 1 \in Frames(f) => f[Header(f, k + 1)].begin <= f[p].begin + space

Mp3StreamAssumption ==
  /\ MAD_BUFFER_GUARD \in Nat /\ MAD_BUFFER_GUARD > 1
  /\ mp3_frame_size \in 1 .. mp3_input_buffer_size
  /\ head_len \in Nat \ {0} /\ max_tries \in Nat \ {0}
  /\ \A f \in Files : WellMade(f)

VARIABLES
  file, pos,              \* the song, how many of its cells have been read
  seeked,
  input, next_frame, sync,  \* mad_stream: buffer to bufend, an offset in it
  main_data,              \* main_data[0 .. md_len - 1]
  rb, tries, pc,          \* get_pcm_sound's
  row,                    \* history: the last frames that the decoder had one
                          \* after the other, since a byte of the file was lost
                          \* or zeros came in its midst
  fresh,                  \* history: it has had nothing else since reuse_mad
  out                     \* what mad_frame_decode gave last

reader == <<pos, seeked, rb>>
stream == <<input, next_frame, sync>>
vars   == <<file, reader, stream, main_data, tries, pc, row, fresh, out>>

(***************************************************************************)
(* mad_header_decode, from the offset "from"                               *)
(***************************************************************************)
CellAt(i) == IF input[i + 1] = 0 THEN ZeroByte ELSE file[input[i + 1]]
bufend == Len(input)

NoFrame(error, next) == [error |-> error, this |-> next, next |-> next]

Whole(i) == CellAt(i).size + MAD_BUFFER_GUARD <= bufend - i

\* What begins at i, where there is a syncword.
ReadHeader(i) ==
  IF CellAt(i).size = 0 THEN NoFrame("bad header", i + 1)
  ELSE IF ~Whole(i) THEN NoFrame("buflen", i)
  ELSE [error |-> "none", this |-> i, next |-> i + CellAt(i).size]

\* Searching, a frame is not taken for one if no syncword follows it.
FollowedByNone(i) ==
  /\ CellAt(i).size # 0 /\ Whole(i)
  /\ ~CellAt(i + CellAt(i).size).sync

SearchStops(i) == i >= bufend - 1 \/ (CellAt(i).sync /\ ~FollowedByNone(i))

SearchFrom(from) ==
  LET found == Min({i \in from .. bufend : SearchStops(i)}) IN
  IF bufend - found < MAD_BUFFER_GUARD
    THEN NoFrame("buflen", Max({from, bufend - MAD_BUFFER_GUARD}))
    ELSE ReadHeader(found)

ExpectedAt(from) ==
  IF bufend - from < MAD_BUFFER_GUARD THEN NoFrame("buflen", from)
  ELSE IF ~CellAt(from).sync THEN NoFrame("lostsync", from + 1)
  ELSE ReadHeader(from)

HeaderDecode(from) == IF sync THEN ExpectedAt(from) ELSE SearchFrom(from)

(***************************************************************************)
(* mad_layer_III, for the frame in input from this to next                 *)
(***************************************************************************)
Cells(from, to) == SubSeq(input, from + 1, to)      \* offsets from .. to - 1
FirstOf(s, n) == SubSeq(s, 1, n)
LastOf(s, n) == SubSeq(s, Len(s) - n + 1, Len(s))

Smaller(a, b) == IF a < b THEN a ELSE b

\* What the header at next refers to, if that is one and can be right.
NextMdBegin(begin, space, next) ==
  LET c == CellAt(next) IN
  IF c.sync /\ c.begin <= begin + space THEN c.begin ELSE 0

\* The frame's bytes of sound; used of its own are among them.
NoMainData == [error |-> "bad dataptr", data |-> <<>>, used |-> 0, main |-> main_data]

MainData(own, begin, md_len) ==
  IF begin = 0
    THEN [error |-> "none", data |-> FirstOf(own, md_len), used |-> md_len, main |-> <<>>]
  ELSE IF begin > Len(main_data) THEN NoMainData
  ELSE LET used == IF md_len > begin THEN md_len - begin ELSE 0
           main == main_data \o FirstOf(own, used)
       IN [error |-> "none", used |-> used, main |-> main,
           data |-> SubSeq(main, (Len(main_data) - begin) + 1,
                                 (Len(main_data) - begin) + md_len)]

\* What main_data keeps for the next frames.
Preload(own, begin, md_len, next_md_begin, got) ==
  LET free  == Len(own) - got.used
      extra == Smaller(begin - md_len, next_md_begin - free)
      older == IF md_len >= begin THEN <<>>
               ELSE IF extra < Len(got.main) THEN LastOf(got.main, extra) ELSE got.main
  IN IF free >= next_md_begin THEN LastOf(own, next_md_begin)
     ELSE older \o LastOf(own, free)

LayerIII(this, next) ==
  LET begin == CellAt(this).begin
      own   == Cells(this + head_len, next)
      nmd   == NextMdBegin(begin, Len(own), next)
      md_len == (begin + Len(own)) - nmd
      got   == MainData(own, begin, md_len)
  IN IF next - this < head_len
       THEN [error |-> "bad framelen", data |-> <<>>, main |-> <<>>, top |-> 0]
       ELSE [error |-> got.error, data |-> got.data,
             main |-> Preload(own, begin, md_len, nmd, got),
             top |-> Len(got.main)]

(***************************************************************************)
(* mad_frame_decode                                                        *)
(***************************************************************************)
FrameOf(i) == CellAt(i).frame

\* A read that failed has put zeros where the file goes on.
Torn == \E i \in 1 .. bufend :
          input[i] = 0 /\ (pos < Len(file) \/ \E j \in i .. bufend : input[j] # 0)

\* The frames in a row, when the decoder has had what begins at i.
RowWith(i) ==
  IF FrameOf(i) = 0 \/ Torn THEN <<>>
  ELSE IF row # <<>> /\ FrameOf(i) # row[Len(row)] + 1 THEN <<FrameOf(i)>>
  ELSE Append(row, FrameOf(i))

Break == row' = <<>> /\ fresh' = (fresh /\ row = <<>>)

\* top is how far main_data was filled in between.
Output(frame, ok, data, top) == [frame |-> frame, ok |-> ok, data |-> data, top |-> top]
Nothing == Output(0, FALSE, <<>>, 0)

Right(got) == got.error = "none"

\* The sound of what is not a frame, or of wrong bytes, may be refused as well.
Sounds(frame, got) == IF Right(got) THEN {TRUE} \cup (IF frame = 0 THEN {FALSE} ELSE {}) ELSE {FALSE}

Decode ==
  LET h == HeaderDecode(next_frame)
      got == LayerIII(h.this, h.next)
  IN
  /\ pc = "decode" /\ tries < max_tries
  /\ next_frame' = h.next
  /\ sync' = (h.error = "none")
  /\ \/ /\ h.error = "none"
        /\ main_data' = got.main
        /\ row' = RowWith(h.this)
        /\ fresh' = (fresh /\ row' # <<>>)
        /\ \E ok \in Sounds(FrameOf(h.this), got) :
             /\ out' = Output(FrameOf(h.this), ok, got.data, got.top)
             /\ tries' = IF ok THEN tries ELSE tries + 1
             /\ pc' \in IF ok THEN {"decode", "idle"} ELSE {"decode"}
     \/ /\ h.error \in {"bad header", "lostsync"}
        /\ tries' = tries + 1
        /\ Break /\ out' = Nothing
        /\ UNCHANGED <<main_data, pc>>
     \/ /\ h.error = "buflen"
        /\ pc' = IF rb = 0 THEN "idle" ELSE "refill"
        /\ out' = Nothing
        /\ UNCHANGED <<main_data, row, fresh, tries>>
  /\ UNCHANGED <<file, reader, input>>

GiveUp ==
  /\ pc = "decode" /\ tries = max_tries
  /\ pc' = IF rb = 0 THEN "idle" ELSE "refill"
  /\ UNCHANGED <<file, reader, stream, main_data, tries, row, fresh, out>>

(***************************************************************************)
(* get_pcm_sound: what is left of the input buffer, and more of the file   *)
(***************************************************************************)
\* mutant: what is shorter than the guard is not kept
SavedIfLong == IF seeked \/ bufend - next_frame <= MAD_BUFFER_GUARD THEN 0
               ELSE bufend - next_frame
Saved ==
  IF seeked THEN 0
  ELSE IF bufend - next_frame = mp3_input_buffer_size
    THEN mp3_input_buffer_size - mp3_frame_size
  ELSE bufend - next_frame

Refill ==
  LET want == mp3_input_buffer_size - Saved IN
  /\ pc = "refill"
  /\ \E got \in {Smaller(want, Len(file) - pos), 0} :
       /\ rb' = got /\ pos' = pos + got
       /\ input' = LastOf(input, Saved) \o [i \in 1 .. got |-> pos + i]
                     \o [i \in 1 .. Smaller(MAD_BUFFER_GUARD, want - got) |-> 0]
  /\ IF Saved = bufend - next_frame THEN UNCHANGED <<row, fresh>> ELSE Break
  /\ next_frame' = 0 /\ sync' = TRUE /\ seeked' = FALSE
  /\ tries' = 0 /\ pc' = "decode"
  /\ UNCHANGED <<file, main_data, out>>

GetPcmSound ==
  /\ pc = "idle" /\ pos < Len(file)
  /\ pc' = "refill"
  /\ UNCHANGED <<file, reader, stream, main_data, tries, row, fresh, out>>

(***************************************************************************)
(* reuse_mad, after the file was positioned elsewhere: by a key, or at its *)
(* end in repeat mode.  A seek that fails leaves the decoder as it is.     *)
(***************************************************************************)
Reused == <<>>

Reuse ==
  /\ input' = <<>> /\ next_frame' = 0 /\ sync' = FALSE
  /\ main_data' = Reused
  /\ row' = <<>> /\ fresh' = TRUE

Seek ==
  /\ pc = "idle"
  /\ \/ pos' \in 0 .. Len(file) /\ Reuse
     \/ UNCHANGED <<pos, stream, main_data, row, fresh>>
  /\ seeked' = TRUE
  /\ out' = Nothing
  /\ UNCHANGED <<file, rb, tries, pc>>

Init ==
  /\ file \in Files
  /\ pos = 0 /\ seeked = TRUE
  /\ input = <<>> /\ next_frame = 0 /\ sync = FALSE
  /\ main_data = <<>>
  /\ rb = 0 /\ tries = 0 /\ pc = "idle"
  /\ row = <<>> /\ fresh = TRUE /\ out = Nothing

Next == Decode \/ GiveUp \/ Refill \/ GetPcmSound \/ Seek

Spec == Init /\ [][Next]_vars

(***************************************************************************)
(* Properties.                                                             *)
(***************************************************************************)
Own(k) == LET p == Header(file, k) IN
          [i \in 1 .. file[p].size - head_len |-> (p + head_len - 1) + i]

Begin(k) == IF k \in Frames(file) THEN file[Header(file, k)].begin ELSE 0

\* The types of the variables; main_data keeps within what the next frame can
\* refer to, and neither it nor the input buffer is ever overrun.
TypeOK ==
  /\ file \in Files /\ pos \in 0 .. Len(file) /\ rb \in 0 .. mp3_input_buffer_size
  /\ seeked \in BOOLEAN /\ sync \in BOOLEAN
  /\ input \in Seq(0 .. Len(file)) /\ bufend <= mp3_input_buffer_size
  /\ next_frame \in 0 .. bufend
  /\ main_data \in Seq(0 .. Len(file))
  /\ Len(main_data) <= Max({c.begin : c \in {file[p] : p \in DOMAIN file}})
  /\ out.top <= MAD_BUFFER_MDLEN
  /\ tries \in 0 .. max_tries /\ pc \in {"idle", "refill", "decode"}

\* The sound of all frames up to k, and that of frame k in it.
RECURSIVE SoundUpTo(_)
SoundUpTo(k) == IF k = 0 THEN <<>> ELSE SoundUpTo(k - 1) \o Own(k)

SoundOf(k) ==
  SubSeq(SoundUpTo(k), (Len(SoundUpTo(k - 1)) - Begin(k)) + 1,
         Len(SoundUpTo(k)) - Begin(k + 1))

\* The frames before the last in row hold all that it refers to.
Covered ==
  row # <<>> /\ Begin(row[Len(row)]) <= Len(SoundUpTo(row[Len(row)] - 1))
                                          - Len(SoundUpTo(row[1] - 1))

\* A frame sounds from its own bytes as soon as the decoder has had the frames in
\* which they lie in a row, however the input buffer was moved in between; and
\* after a seek it does not sound before that: what the place before has left in
\* the reservoir, or what only looks like a frame, is never played for it.
SoundsOfItsOwn ==
  out.frame # 0 /\ row # <<>> =>
    /\ Covered => out.ok
    /\ out.ok /\ (Covered \/ fresh) => out.data = SoundOf(out.frame)

\* A row of frames ends at the end of the file, with a seek or a read that fails:
\* no refill and no half that is full makes the decoder lose one.
RowGoesOn ==
  row # <<>> /\ row' = <<>> =>
    \/ seeked \/ seeked' \/ Torn
    \/ row[Len(row)] + 1 \notin Frames(file)

\* What module AudioOutput takes mad_frame_decode to do: it moves on, or wants
\* more and leaves no more than it has to, and never leaves the buffer.
MovesAsAudioOutputSays ==
  Decode =>
    \/ next_frame' \in next_frame + 1 .. (bufend - MAD_BUFFER_GUARD) + 1
    \/ /\ pc' # "decode"
       /\ next_frame' = next_frame \/ next_frame' <= bufend - MAD_BUFFER_GUARD

\* The decoder gets every frame, and each from the bytes that are its own.
DecodesTheSong ==
  /\ []SoundsOfItsOwn
  /\ [][RowGoesOn]_vars
  /\ [][MovesAsAudioOutputSays]_vars
=============================================================================

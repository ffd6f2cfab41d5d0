---------------------------- MODULE AudioOutput -----------------------------
(***************************************************************************)
(* The audio output: audio/audio.{h,cpp} and get_pcm_sound of              *)
(* audio/mp3.cpp, with the handlers of view/process_view.cpp that move in  *)
(* the file that plays.                                                    *)
(*                                                                         *)
(* The DMA plays a buffer of two halves round and round and interrupts at  *)
(* the end of each; state names the half that ended last until the main    *)
(* loop has filled it.  The main loop reads state three times before it    *)
(* decodes (next_pcm_part), and the interrupt comes between any two of its *)
(* steps.  When a call is slower than a half, halves are lost: late and    *)
(* torn say that this call is one of them.                                 *)
(*                                                                         *)
(* A file is a sequence of units; the decoder takes a frame of EncodedLen  *)
(* of them from the input buffer and makes pcm[s] units of sound.  libmad  *)
(* is outside: what it does to the stream are all the steps it may make.   *)
(***************************************************************************)
EXTENDS Integers, Sequences, FiniteSets

CONSTANTS
  Songs,                \* the files
  size, offset,         \* their size, and where the sound begins in them
  pcm,                  \* the bytes of sound of a frame of the file
  Fake,                 \* the file that init_fake makes
  Dir,                  \* a directory in place of a song
  Zero,                 \* what the input buffer is filled up with
  mp3_input_buffer_size, mp3_frame_size, MAD_BUFFER_GUARD,
  half_size,            \* audio_buffer_size / 2
  EncodedLen,           \* the length of a frame of the file in it
  seek_value

ASSUME FilesAssumption ==
  /\ size \in [Songs -> Nat] /\ offset \in [Songs -> Nat]
  /\ \A s \in Songs : offset[s] < size[s]
  /\ Fake \notin Songs /\ Dir \notin Songs /\ Fake # Dir
  /\ Zero \notin Songs \X Nat

\* The frames of a file are of one length, and a half is a whole number of
\* frames: 9216 bytes are two of 1152 samples, four of 576 or six of 384.
ASSUME FramesAssumption ==
  /\ half_size \in Nat \ {0}
  /\ pcm \in [Songs -> 1 .. half_size]
  /\ \A s \in Songs : \E n \in 1 .. half_size : half_size = n * pcm[s]

ASSUME BuffersAssumption ==
  /\ mp3_input_buffer_size \in Nat /\ MAD_BUFFER_GUARD \in Nat \ {0}
  /\ EncodedLen \in [Songs -> Nat \ {0}] /\ seek_value \in Nat
  /\ mp3_frame_size \in 1 .. mp3_input_buffer_size

VARIABLES
  state,                \* volatile: "none", or the half that has ended
  played, running,      \* the half the DMA plays, and whether it runs
  pc,                   \* what the main loop does next
  buffer,               \* next_pcm_part's: a half, or "wild"
  frames, total_read, rb, tries,  \* get_pcm_sound's
  audio_file, pos,
  seeked, pause_status, repeat_mode,
  input, next_frame,    \* mad_data.stream: buffer to bufend, and next_frame
  torn, late,           \* an interrupt came between the reads of state, or
                        \* after them, in this call of next_pcm_part
  failed                \* the last read of the file failed

dma   == <<played, running>>
call  == <<buffer, frames, total_read, rb, tries>>
file  == <<audio_file, pos, seeked>>
modes == <<pause_status, repeat_mode>>
mad   == <<input, next_frame>>
ghost == <<torn, late, failed>>
vars  == <<state, dma, pc, call, file, modes, mad, ghost>>

Halves == {"lower", "upper"}
OtherHalf(h) == IF h = "lower" THEN "upper" ELSE "lower"

Files == Songs \cup {Fake, Dir}
Size(f) == IF f \in Songs THEN size[f] ELSE 0
Offset(f) == IF f \in Songs THEN offset[f] ELSE 0

Smaller(a, b) == IF a < b THEN a ELSE b

AtEnd == pos >= Size(audio_file)

Unit == (Songs \X Nat) \cup {Zero}

----------------------------------------------------------------------------
(***************************************************************************)
(* The DMA interrupt.                                                      *)
(***************************************************************************)
Interrupt ==
  /\ running
  /\ state' = played
  /\ played' = OtherHalf(played)
  /\ torn' = (torn \/ pc \in {"read2", "read3"})
  /\ late' = (late \/ pc \in {"get", "refill", "decode", "fake", "store"})
  /\ UNCHANGED <<running, pc, call, file, modes, mad, failed>>

----------------------------------------------------------------------------
(***************************************************************************)
(* The file that plays.  Opening another one (open_song_impl, over the     *)
(* songs of a list) fails before anything has changed, at a directory, or  *)
(* when the new file is positioned; a list without songs opens nothing.    *)
(***************************************************************************)
Opened ==
  \E s \in Songs :
    /\ audio_file' = s /\ pos' = offset[s] /\ seeked' = TRUE

NotOpened(was) ==
  \/ UNCHANGED <<audio_file, pos>> /\ seeked' \in {was, TRUE}
  \/ audio_file' = Dir /\ pos' = 0 /\ seeked' \in {was, TRUE}

NothingToOpen(was) == UNCHANGED <<audio_file, pos>> /\ seeked' = was

Reused == input' = <<>> /\ next_frame' = 0

Stopping == pause_status = "soft_pause"

\* new_song_or_repeat, at the end of the file or while nothing plays.
NewSongOrRepeat ==
  LET was == seeked \/ audio_file # Fake IN
  /\ Reused \* when nothing plays, it has nothing to drop
  /\ IF Stopping THEN pause_status' = "pause" /\ running' = FALSE
                 ELSE UNCHANGED <<pause_status, running>>
  /\ \/ /\ repeat_mode
        /\ \/ UNCHANGED audio_file /\ pos' = Offset(audio_file) /\ pc' = "read1"
           \/ UNCHANGED <<audio_file, pos>> /\ pc' = "idle"
        /\ seeked' = was
     \/ /\ ~repeat_mode
        /\ \/ Opened /\ pc' = "read1"
           \/ NothingToOpen(was) /\ pc' = "read1"
           \/ NotOpened(was) /\ pc' = "idle"
  /\ UNCHANGED repeat_mode

\* audio_process, up to its call of next_pcm_part.
audio_process ==
  /\ pc = "idle"
  /\ \/ /\ AtEnd
        /\ NewSongOrRepeat
     \/ /\ ~AtEnd \/ audio_file = Fake  \* and no list is queued
        /\ pc' = "read1"
        /\ UNCHANGED <<file, modes, mad, running>>
  /\ torn' = FALSE /\ late' = FALSE
  /\ UNCHANGED <<state, played, call, failed>>

----------------------------------------------------------------------------
(***************************************************************************)
(* next_pcm_part.  A pointer that is not set is what the register held, or *)
(* one of the halves, as the compiler may take it to be set.               *)
(***************************************************************************)
HalfOfSwapped(s) == OtherHalf(s)  \* mutant: the halves are confused

HalfOf(s) == s

Read(from, half, to) ==
  /\ pc = from
  /\ buffer' = IF state = half THEN HalfOf(half) ELSE buffer
  /\ pc' = to
  /\ UNCHANGED <<state, dma, frames, total_read, rb, tries, file, modes, mad, ghost>>

CallNextPcmPart ==
  /\ pc = "read1"
  /\ \E unset \in Halves \cup {"wild"} :
       buffer' = IF state = "lower" THEN HalfOf("lower") ELSE unset
  /\ pc' = "read2"
  /\ UNCHANGED <<state, dma, frames, total_read, rb, tries, file, modes, mad, ghost>>

ReadFull == Read("read2", "upper", "read3")

ReadNone ==
  /\ pc = "read3"
  /\ pc' = IF state = "none" THEN "idle" ELSE "get"
  /\ UNCHANGED <<state, dma, call, file, modes, mad, ghost>>

Paused == pause_status = "pause"

\* get_pcm_sound, up to its loop.
GetPcmSound ==
  /\ pc = "get"
  /\ frames' = 0 /\ total_read' = 0
  /\ pc' = IF audio_file = Fake THEN "fake"
           ELSE IF Paused THEN "idle" ELSE "refill"
  /\ UNCHANGED <<state, dma, buffer, rb, tries, file, modes, mad, ghost>>

\* A half of silence.
FillSilence ==
  /\ pc = "fake"
  /\ pc' = "store"
  /\ UNCHANGED <<state, dma, call, file, modes, mad, ghost>>

SavedAll ==  \* mutant: a buffer the decoder took nothing from is kept whole
  IF seeked THEN 0 ELSE Len(input) - next_frame

\* amount_safe_from_buffer.
Saved ==
  LET all == Len(input) - next_frame IN
  IF seeked THEN 0
  ELSE IF all = mp3_input_buffer_size THEN mp3_input_buffer_size - mp3_frame_size
  ELSE all

KeptFromStart(n) == SubSeq(input, 1, n)  \* mutant: copied from where the buffer begins

Kept(n) == SubSeq(input, Len(input) - n + 1, Len(input))

TailSize(room) == Smaller(MAD_BUFFER_GUARD, room)

\* The outer loop: what is left of the input buffer and what the file has next.
Refill ==
  LET n    == Saved
      want == mp3_input_buffer_size - n
  IN
  /\ pc = "refill"
  /\ \E got \in {Smaller(want, Size(audio_file) - pos), 0} :
       /\ got >= 0
       /\ rb' = got /\ total_read' = total_read + got
       /\ pos' = pos + got
       /\ input' = Kept(n)
                   \o [i \in 1 .. got |-> <<audio_file, pos + i - 1>>]
                   \o [i \in 1 .. TailSize(want - got) |-> Zero]
       /\ failed' = (got = 0 /\ want # 0 /\ ~AtEnd)
  /\ next_frame' = 0
  /\ seeked' = FALSE
  /\ tries' = 0
  /\ pc' = "decode"
  /\ UNCHANGED <<state, dma, buffer, frames, audio_file, modes, torn, late>>

MoreToDecode == frames < half_size /\ tries < 5

FilledOneChannel(len) == Smaller(len, 4 * (half_size - frames)) \div 2  \* mutant: a
    \* sample is returned as one channel of two bytes

\* fill_buffer: whole samples, as many as the frame has.
Filled(len) == Smaller(len, 4 * (half_size - frames))

\* mad_frame_decode made a frame, perhaps after it searched for its header.
DecodeFrame ==
  /\ pc = "decode" /\ MoreToDecode
  /\ audio_file \in Songs
  /\ \E n \in next_frame + EncodedLen[audio_file] .. Len(input) - MAD_BUFFER_GUARD :
       next_frame' = n
  /\ frames' = frames + Filled(pcm[audio_file])
  /\ UNCHANGED <<state, dma, pc, buffer, total_read, rb, tries, file, modes, input, ghost>>

DecodeRecoverable ==
  /\ pc = "decode" /\ MoreToDecode
  /\ \E n \in next_frame + 1 .. Len(input) - MAD_BUFFER_GUARD + 1 :
       next_frame' = n
  /\ tries' = tries + 1
  /\ UNCHANGED <<state, dma, pc, buffer, frames, total_read, rb, file, modes, input, ghost>>

AfterCall == IF total_read > 0 THEN "store" ELSE "idle"

AfterTurn == IF rb = 0 \/ frames >= half_size THEN AfterCall ELSE "refill"

\* What no song's file holds, the decoder finds no frame in.
FrameLen == IF audio_file \in Songs THEN EncodedLen[audio_file] ELSE Len(input)

\* From where the search for a header ended, no whole frame is left.
DecodeBufLen ==
  /\ pc = "decode" /\ MoreToDecode
  /\ \E n \in next_frame .. Len(input) :
       /\ n = next_frame \/ n <= Len(input) - MAD_BUFFER_GUARD
       /\ Len(input) - n < FrameLen + MAD_BUFFER_GUARD
       /\ next_frame' = n
  /\ pc' = AfterTurn
  /\ UNCHANGED <<state, dma, call, file, modes, input, ghost>>

DecodeFails ==
  /\ pc = "decode" /\ MoreToDecode
  /\ Reused /\ seeked' = TRUE
  /\ pc' = AfterCall
  /\ UNCHANGED <<state, dma, call, audio_file, pos, modes, ghost>>

DecodeEnds ==
  /\ pc = "decode" /\ ~MoreToDecode
  /\ pc' = AfterTurn
  /\ UNCHANGED <<state, dma, call, file, modes, mad, ghost>>

StoreNone ==
  /\ pc = "store"
  /\ state' = "none"
  /\ pc' = "idle"
  /\ UNCHANGED <<dma, call, file, modes, mad, ghost>>

----------------------------------------------------------------------------
(***************************************************************************)
(* What else the main loop does, between two calls of audio_process.       *)
(***************************************************************************)
AddInBound(p) == Smaller(p + seek_value, Size(audio_file))

SubInBound(p) ==
  IF p < seek_value \/ p - seek_value < Offset(audio_file)
    THEN Offset(audio_file) ELSE p - seek_value

seek ==
  /\ pc = "idle" /\ audio_file \in Songs
  /\ seeked' = TRUE
  /\ \/ pos' \in {AddInBound(pos), SubInBound(pos)} /\ Reused
     \/ UNCHANGED <<pos, mad>>
  /\ UNCHANGED <<state, dma, pc, call, audio_file, modes, ghost>>

\* A key or a command chooses a song: change_song, or play_new_playlist.
change_song ==
  /\ pc = "idle"
  /\ Reused
  /\ Opened \/ NothingToOpen(seeked) \/ NotOpened(seeked)
  /\ UNCHANGED <<state, dma, pc, call, modes, ghost>>

play_pause ==
  /\ pc = "idle"
  /\ running' = (pause_status = "pause")
  /\ pause_status' = IF pause_status = "pause" THEN "play" ELSE "pause"
  /\ UNCHANGED <<state, played, pc, call, file, repeat_mode, mad, ghost>>

ToEndAgain(s) == IF s = "play" THEN "soft_pause" ELSE "play" \* mutant: leaves a pause

ToEnd(s) == CASE s = "play" -> "soft_pause" [] s = "pause" -> "pause" [] s = "soft_pause" -> "play"

to_end_and_pause ==
  /\ pc = "idle"
  /\ pause_status' = ToEnd(pause_status)
  /\ UNCHANGED <<state, dma, pc, call, file, repeat_mode, mad, ghost>>

toggle_repeat ==
  /\ pc = "idle"
  /\ repeat_mode' = ~repeat_mode
  /\ UNCHANGED <<state, dma, pc, call, file, pause_status, mad, ghost>>

\* The card is gone and another one is in: audio_destruct and audio_init.
change_card ==
  /\ pc = "idle"
  /\ audio_file' = Fake /\ pos' = 0
  /\ Reused
  /\ played' = "lower" /\ running' = TRUE
  /\ pc' = "read1" \* main_player calls audio_process first
  /\ torn' = FALSE /\ late' = FALSE
  /\ UNCHANGED <<state, call, seeked, modes, failed>>

Init ==
  /\ state = "none" /\ played = "lower" /\ running = TRUE
  /\ pc = "idle"
  /\ buffer = "lower" /\ frames = 0 /\ total_read = 0 /\ rb = 0 /\ tries = 0
  /\ audio_file = Fake /\ pos = 0 /\ seeked = FALSE
  /\ pause_status = "play" /\ repeat_mode = FALSE
  /\ input = <<>> /\ next_frame = 0
  /\ torn = FALSE /\ late = FALSE /\ failed = FALSE

Decode == DecodeFrame \/ DecodeRecoverable \/ DecodeBufLen \/ DecodeFails \/ DecodeEnds

Playing ==
  \/ audio_process \/ CallNextPcmPart \/ ReadFull \/ ReadNone
  \/ GetPcmSound \/ FillSilence \/ Refill \/ Decode \/ StoreNone

Handling ==
  \/ seek \/ change_song \/ play_pause \/ to_end_and_pause \/ toggle_repeat
  \/ change_card

Next == Interrupt \/ Playing \/ Handling

Spec == Init /\ [][Next]_vars

\* The main loop calls audio_process again and again, and it returns.
FairSpec == Spec /\ WF_vars(Playing)

----------------------------------------------------------------------------
(***************************************************************************)
(* Properties.                                                             *)
(***************************************************************************)
Filling == {"fake", "refill", "decode", "store"}

\* The types of the variables; the input buffer is never longer than its array.
TypeOK ==
  /\ state \in Halves \cup {"none"}
  /\ played \in Halves /\ running \in BOOLEAN
  /\ pc \in {"idle", "read1", "read2", "read3", "get"} \cup Filling
  /\ buffer \in Halves \cup {"wild"}
  /\ frames \in Nat /\ total_read \in Nat /\ rb \in Nat /\ tries \in 0 .. 5
  /\ audio_file \in Files /\ pos \in 0 .. Size(audio_file)
  /\ seeked \in BOOLEAN /\ repeat_mode \in BOOLEAN
  /\ pause_status \in {"play", "pause", "soft_pause"}
  /\ input \in Seq(Unit) /\ Len(input) <= mp3_input_buffer_size
  /\ next_frame \in 0 .. Len(input)
  /\ torn \in BOOLEAN /\ late \in BOOLEAN /\ failed \in BOOLEAN

\* A song is decoded into the half that is not played, unless an interrupt came
\* while state was read or after it: also when state was kept over a pause, a
\* song that could not be read or the change of the card.
WritesQuietHalf ==
  pc \in Filling /\ ~torn /\ ~late /\ audio_file # Fake => buffer = OtherHalf(played)

\* What fill_buffer is given has room for a frame of sound (mp3.cpp:65), when
\* there is anything left to decode into.
RoomForFrame ==
  pc = "decode" /\ MoreToDecode /\ audio_file \in Songs =>
    buffer \in Halves /\ frames + pcm[audio_file] <= half_size

\* The same, for a call in which no interrupt came between the reads of state.
RoomUnlessTorn == ~torn => RoomForFrame

\* The places of the input buffer that have what the decoder has not taken yet.
Undecoded == {i \in next_frame + 1 .. Len(input) : input[i] # Zero}

FromPlace(i) == {j \in Undecoded : j >= i}

\* The decoder gets the file as it is: what it has not taken is the piece of the
\* playing file directly before the file's position, after songs were changed,
\* positions moved and reads failed.
StreamContiguous ==
  pc = "decode" =>
    \A i \in Undecoded : input[i] = <<audio_file, pos - Cardinality(FromPlace(i))>>

\* A player that is not paused has its output running, whatever the buttons did
\* in which order, also when the end of the song paused it and after a change of
\* the card: a stopped DMA ends no half, and nothing would start it again.
PlayRuns == pause_status # "pause" => running

\* The half that ended is filled, unless the output is paused, the file is at
\* its end or could not be read.
Serves ==
  state # "none" ~> (state = "none" \/ pause_status = "pause" \/ AtEnd \/ failed)
=============================================================================

------------------------- MODULE AudioOutputProofs --------------------------
(***************************************************************************)
(* Proofs about AudioOutput: for every set of files, every size of the     *)
(* buffers and of the frames, and the interrupt anywhere.                  *)
(***************************************************************************)
EXTENDS AudioOutput, SequenceTheorems, FiniteSetTheorems, FunctionTheorems, TLAPS

\* What state names is the half that is not played.  After a change of the card
\* it may name the other one, but then the call that follows plays silence into
\* it and forgets it, before a song can be opened.
StateInv ==
  \/ state \in {"none", OtherHalf(played)}
  \/ audio_file = Fake /\ pc \in {"read1", "read2", "read3", "get", "fake", "store"}

\* What the reads of state have made of buffer, unless state changed in between.
BufferInv ==
  ~torn =>
    /\ pc = "read2" /\ state = "lower" => buffer = "lower"
    /\ pc = "read3" /\ state # "none" => buffer = state
    /\ pc = "get" \/ pc \in Filling => buffer \in Halves
    /\ (pc = "get" \/ pc \in Filling) /\ ~late => buffer = state

\* A half is filled with whole frames.
FramesInv ==
  pc \in {"refill", "decode"} /\ audio_file \in Songs =>
    \E k \in Nat : frames = k * pcm[audio_file]

IInv == TypeOK /\ StateInv /\ BufferInv /\ FramesInv /\ PlayRuns

----------------------------------------------------------------------------
\* A half is a whole number of frames, so that there is room for one where there
\* is room at all.
LEMMA RoomForOne ==
  ASSUME NEW p \in Nat \ {0}, NEW n \in Nat, NEW k \in Nat, k * p < n * p
  PROVE  k * p + p <= n * p
<1>1. k < n
  <2>1. CASE n <= k
    <3>1. PICK d \in Nat : k = n + d
      BY <2>1, k - n \in Nat, k = n + (k - n)
    <3>2. k * p = n * p + d * p
      BY <3>1
    <3>3. d * p >= 0
      OBVIOUS
    <3> QED BY <3>2, <3>3
  <2>2. CASE ~(n <= k)
    BY <2>2
  <2> QED BY <2>1, <2>2
<1>2. PICK d \in Nat : n = k + 1 + d
  BY <1>1, n - k - 1 \in Nat, n = k + 1 + (n - (k + 1)), n - (k + 1) \in Nat
<1>3. n * p = k * p + p + d * p
  BY <1>2
<1>4. d * p >= 0 /\ k * p \in Int
  OBVIOUS
<1> QED BY <1>3, <1>4

----------------------------------------------------------------------------
USE DEF Halves, OtherHalf, Files, Smaller, Filling

\* A place in a file is between its begin and its end.
LEMMA FileFacts ==
  ASSUME NEW f \in Files
  PROVE  /\ Size(f) \in Nat /\ Offset(f) \in 0 .. Size(f)
         /\ f \notin Songs => Size(f) = 0
         /\ \A s \in Songs : s # Fake /\ s # Dir /\ Size(s) = size[s] /\ Offset(s) = offset[s]
  BY FilesAssumption DEF Size, Offset

LEMMA TypeInit == Init => TypeOK
<1> SUFFICES ASSUME Init PROVE TypeOK
  OBVIOUS
<1>1. input \in Seq(Unit) /\ Len(input) = 0
  BY DEF Init
<1>2. audio_file \in Files /\ pos \in 0 .. Size(audio_file)
  BY FilesAssumption DEF Init, Size
<1>3. /\ running \in BOOLEAN /\ seeked \in BOOLEAN /\ repeat_mode \in BOOLEAN
      /\ torn \in BOOLEAN /\ late \in BOOLEAN /\ failed \in BOOLEAN
  BY DEF Init
<1>4. /\ frames \in Nat /\ total_read \in Nat /\ rb \in Nat /\ tries \in 0 .. 5
      /\ next_frame \in 0 .. Len(input) /\ Len(input) <= mp3_input_buffer_size
  BY <1>1, BuffersAssumption DEF Init
<1> QED BY <1>1, <1>2, <1>3, <1>4 DEF Init, TypeOK

\* What opening a song leaves, however it ends.
LEMMA FileTyped ==
  ASSUME TypeOK, NEW was \in BOOLEAN,
         Opened \/ NothingToOpen(was) \/ NotOpened(was)
  PROVE  audio_file' \in Files /\ pos' \in 0 .. Size(audio_file)' /\ seeked' \in BOOLEAN
<1>1. CASE Opened
  BY <1>1, FileFacts, FilesAssumption DEF Opened, TypeOK, Size
<1>2. CASE NothingToOpen(was)
  BY <1>2 DEF NothingToOpen, TypeOK, Size
<1>3. CASE NotOpened(was)
  <2>1. CASE UNCHANGED <<audio_file, pos>> /\ seeked' \in {was, TRUE}
    BY <2>1 DEF TypeOK, Size
  <2>2. CASE audio_file' = Dir /\ pos' = 0 /\ seeked' \in {was, TRUE}
    <3>1. audio_file' \in Files /\ pos' \in 0 .. Size(audio_file)'
      BY <2>2, FilesAssumption DEF Size
    <3> QED BY <3>1, <2>2
  <2> QED BY <1>3, <2>1, <2>2 DEF NotOpened
<1> QED BY <1>1, <1>2, <1>3

\* An empty input buffer is one.
LEMMA ReusedTyped ==
  ASSUME Reused
  PROVE  /\ input' \in Seq(Unit) /\ Len(input') <= mp3_input_buffer_size
         /\ next_frame' \in 0 .. Len(input')
  BY BuffersAssumption DEF Reused

\* What is kept of the input buffer fits it and is a piece of it.
LEMMA SavedTyped ==
  ASSUME TypeOK
  PROVE  /\ Saved \in 0 .. mp3_input_buffer_size /\ Saved <= Len(input)
         /\ Kept(Saved) \in Seq(Unit) /\ Len(Kept(Saved)) = Saved
<1>1. Saved \in 0 .. mp3_input_buffer_size /\ Saved <= Len(input)
  BY BuffersAssumption DEF TypeOK, Saved
<1>2. ASSUME NEW n \in Nat, n <= Len(input)
      PROVE  Kept(n) \in Seq(Unit) /\ Len(Kept(n)) = n
  <2>1. Len(input) \in Nat /\ input \in Seq(Unit)
    BY DEF TypeOK
  <2>2. \A i \in Len(input) - n + 1 .. Len(input) : input[i] \in Unit
    BY <2>1, <1>2, ElementOfSeq
  <2> QED BY <2>1, <2>2, <1>2, SubSeqProperties DEF Kept
<1> QED BY <1>1, <1>2

\* What the file has next is read behind what is kept, and the room is not less
\* than what is written.
LEMMA RefillTyped ==
  ASSUME TypeOK, Refill
  PROVE  /\ input' \in Seq(Unit) /\ Len(input') <= mp3_input_buffer_size
         /\ pos' \in 0 .. Size(audio_file)
         /\ rb' \in Nat /\ total_read' \in Nat
<1> DEFINE n == Saved
           want == mp3_input_buffer_size - n
           left == Size(audio_file) - pos
           Fresh(got) == [i \in 1 .. got |-> <<audio_file, pos + i - 1>>]
           Guard(got) == [i \in 1 .. TailSize(want - got) |-> Zero]
<1>1. PICK got \in {Smaller(want, left), 0} :
        /\ got >= 0 /\ rb' = got /\ total_read' = total_read + got /\ pos' = pos + got
        /\ input' = Kept(n) \o Fresh(got) \o Guard(got)
  BY DEF Refill
<1>2. /\ pos \in Nat /\ left \in Nat /\ want \in Nat /\ total_read \in Nat
      /\ Size(audio_file) \in Nat /\ audio_file \in Files
  BY SavedTyped, FileFacts, BuffersAssumption DEF TypeOK
<1>3. got \in Nat /\ got <= left /\ got <= want
  BY <1>1, <1>2
<1>4. pos' \in 0 .. Size(audio_file) /\ rb' \in Nat /\ total_read' \in Nat
  BY <1>1, <1>2, <1>3
<1>5. Fresh(got) \in Seq(Unit) /\ Len(Fresh(got)) = got
  <2>1. \A i \in 1 .. got : <<audio_file, pos + i - 1>> \in Unit
    BY <1>2, <1>3, FileFacts DEF Unit
  <2>2. Fresh(got) \in [1 .. got -> Unit]
    BY <2>1
  <2> QED BY <2>2, <1>3
<1>6. TailSize(want - got) \in Nat /\ TailSize(want - got) <= want - got
  BY <1>2, <1>3, BuffersAssumption DEF TailSize
<1>7. Guard(got) \in Seq(Unit) /\ Len(Guard(got)) <= want - got
  <2>1. Guard(got) \in [1 .. TailSize(want - got) -> Unit]
    BY DEF Unit
  <2> QED BY <2>1, <1>6
<1>8. Kept(n) \in Seq(Unit) /\ Len(Kept(n)) = n
  BY SavedTyped
<1> HIDE DEF Fresh, Guard
<1>9. /\ Kept(n) \o Fresh(got) \in Seq(Unit)
      /\ Len(Kept(n) \o Fresh(got)) = n + got
  BY <1>5, <1>8, ConcatProperties
<1>10. /\ input' \in Seq(Unit) /\ Len(input') = n + got + Len(Guard(got))
  BY <1>1, <1>9, <1>7, ConcatProperties
<1>11. Len(input') <= mp3_input_buffer_size
  BY <1>10, <1>7, <1>3, SavedTyped, BuffersAssumption
<1> QED BY <1>4, <1>10, <1>11

LEMMA TypeStep == TypeOK /\ [Next]_vars => TypeOK'
<1> SUFFICES ASSUME TypeOK, [Next]_vars PROVE TypeOK'
  OBVIOUS
<1> USE DEF TypeOK
<1>1. CASE Interrupt
  BY <1>1 DEF Interrupt, call, file, modes, mad, Size
<1>2. CASE audio_process
  <2>1. CASE NewSongOrRepeat /\ UNCHANGED <<state, played, call, failed>> /\ torn' = FALSE /\ late' = FALSE
    <3>1. /\ input' \in Seq(Unit) /\ Len(input') <= mp3_input_buffer_size
          /\ next_frame' \in 0 .. Len(input')
      BY <2>1, ReusedTyped DEF NewSongOrRepeat
    <3>2. audio_file' \in Files /\ pos' \in 0 .. Size(audio_file)' /\ seeked' \in BOOLEAN
      <4>1. (seeked \/ audio_file # Fake) \in BOOLEAN
        OBVIOUS
      <4>2. CASE repeat_mode
        BY <2>1, <4>2, FileFacts DEF NewSongOrRepeat, Size
      <4>3. CASE ~repeat_mode
        BY <2>1, <4>1, <4>3, FileTyped DEF NewSongOrRepeat
      <4> QED BY <4>2, <4>3
    <3>3. /\ pc' \in {"read1", "idle"} /\ repeat_mode' \in BOOLEAN /\ running' \in BOOLEAN
          /\ pause_status' \in {"play", "pause", "soft_pause"}
      BY <2>1 DEF NewSongOrRepeat
    <3> QED BY <2>1, <3>1, <3>2, <3>3 DEF call
  <2>2. CASE UNCHANGED <<file, modes, mad, running, state, played, call, failed>>
             /\ pc' = "read1" /\ torn' = FALSE /\ late' = FALSE
    BY <2>2, ZenonT(60) DEF file, modes, mad, call, Size
  <2> QED BY <1>2, <2>1, <2>2 DEF audio_process
<1>3. CASE CallNextPcmPart \/ ReadFull \/ ReadNone
  BY <1>3 DEF CallNextPcmPart, ReadFull, Read, ReadNone, HalfOf, dma, call, file, modes, mad, ghost, Size
<1>4. CASE GetPcmSound \/ FillSilence \/ StoreNone
  BY <1>4 DEF GetPcmSound, FillSilence, StoreNone, dma, call, file, modes, mad, ghost, Size
<1>5. CASE Refill
  <2>1. /\ input' \in Seq(Unit) /\ Len(input') <= mp3_input_buffer_size
        /\ pos' \in 0 .. Size(audio_file) /\ rb' \in Nat /\ total_read' \in Nat
    BY <1>5, RefillTyped
  <2>2. failed' \in BOOLEAN /\ seeked' \in BOOLEAN
    BY <1>5 DEF Refill
  <2>3. next_frame' \in 0 .. Len(input') /\ tries' \in 0 .. 5
    <3>1. Len(input') \in Nat /\ next_frame' = 0 /\ tries' = 0
      BY <1>5, <2>1, LenProperties DEF Refill
    <3> QED BY <3>1
  <2> QED BY <1>5, <2>1, <2>2, <2>3, ZenonT(60) DEF Refill, dma, modes, Size
<1>6. CASE DecodeFrame
  <2>1. next_frame' \in 0 .. Len(input)
    BY <1>6, BuffersAssumption DEF DecodeFrame
  <2>2. frames' \in Nat
    BY <1>6, FramesAssumption DEF DecodeFrame, Filled, MoreToDecode
  <2>3. UNCHANGED <<state, dma, pc, buffer, total_read, rb, tries, file, modes, input, ghost>>
    BY <1>6 DEF DecodeFrame
  <2> QED BY <2>1, <2>2, <2>3 DEF dma, file, modes, ghost, Size
<1>7. CASE DecodeRecoverable
  <2>1. next_frame' \in 0 .. Len(input) /\ tries' \in 0 .. 5
    BY <1>7, BuffersAssumption DEF DecodeRecoverable, MoreToDecode
  <2> QED BY <1>7, <2>1 DEF DecodeRecoverable, dma, modes, file, ghost, Size
<1>8. CASE DecodeBufLen
  <2>1. next_frame' \in 0 .. Len(input)
    BY <1>8 DEF DecodeBufLen
  <2> QED BY <1>8, <2>1 DEF DecodeBufLen, AfterTurn, AfterCall, dma, call, file, modes, ghost, Size
<1>9. CASE DecodeFails
  BY <1>9, ReusedTyped DEF DecodeFails, AfterCall, dma, call, modes, ghost, Size
<1>10. CASE DecodeEnds
  BY <1>10 DEF DecodeEnds, AfterTurn, AfterCall, dma, call, file, modes, mad, ghost, Size
<1>11. CASE seek
  <2>1. pos' \in 0 .. Size(audio_file)'
    BY <1>11, FileFacts, BuffersAssumption DEF seek, AddInBound, SubInBound, Size
  <2>2. /\ input' \in Seq(Unit) /\ Len(input') <= mp3_input_buffer_size
        /\ next_frame' \in 0 .. Len(input')
    BY <1>11, ReusedTyped DEF seek, mad
  <2> QED BY <1>11, <2>1, <2>2 DEF seek, dma, call, modes, ghost
<1>12. CASE change_song
  <2>1. audio_file' \in Files /\ pos' \in 0 .. Size(audio_file)' /\ seeked' \in BOOLEAN
    BY <1>12, FileTyped DEF change_song
  <2> QED BY <1>12, <2>1, ReusedTyped DEF change_song, dma, call, modes, ghost
<1>13. CASE play_pause \/ to_end_and_pause \/ toggle_repeat
  <2>1. running' \in BOOLEAN /\ repeat_mode' \in BOOLEAN
    BY <1>13 DEF play_pause, to_end_and_pause, toggle_repeat, dma
  <2>2. pause_status' \in {"play", "pause", "soft_pause"}
    BY <1>13 DEF play_pause, to_end_and_pause, ToEnd, toggle_repeat
  <2>3. UNCHANGED <<state, played, pc, call, file, mad, ghost>>
    BY <1>13 DEF play_pause, to_end_and_pause, toggle_repeat, dma
  <2> QED BY <2>1, <2>2, <2>3 DEF call, file, mad, ghost, Size
<1>14. CASE change_card
  <2>1. audio_file' \in Files /\ pos' \in 0 .. Size(audio_file)'
    BY <1>14, FilesAssumption DEF change_card, Size
  <2> QED BY <1>14, <2>1, ReusedTyped DEF change_card, call, modes
<1>15. CASE UNCHANGED vars
  BY <1>15 DEF vars, dma, call, file, modes, mad, ghost, Size
<1> QED BY <1>1, <1>2, <1>3, <1>4, <1>5, <1>6, <1>7, <1>8, <1>9, <1>10, <1>11, <1>12,
           <1>13, <1>14, <1>15 DEF Next, Playing, Decode, Handling

\* Every file, buffer and frame size: the types, and the input buffer's end.
THEOREM TypeCorrect == Spec => []TypeOK
BY TypeInit, TypeStep, PTL DEF Spec

----------------------------------------------------------------------------
LEMMA HalfInit == Init => StateInv /\ BufferInv /\ FramesInv /\ PlayRuns
  BY FilesAssumption DEF Init, StateInv, BufferInv, FramesInv, PlayRuns

\* A frame keeps the half a whole number of frames, and it had room.
LEMMA FrameFills ==
  ASSUME TypeOK, NEW k \in Nat, frames = k * pcm[audio_file],
         audio_file \in Songs, frames < half_size
  PROVE  /\ frames + pcm[audio_file] <= half_size
         /\ frames + Filled(pcm[audio_file]) = (k + 1) * pcm[audio_file]
<1> DEFINE p == pcm[audio_file]
<1>1. p \in Nat \ {0} /\ half_size \in Nat
  BY FramesAssumption
<1>2. PICK n \in 1 .. half_size : half_size = n * p
  BY FramesAssumption
<1> HIDE DEF p
<1>3. frames + p <= half_size
  BY <1>1, <1>2, RoomForOne DEF p
<1>4. frames \in Nat
  BY DEF TypeOK
<1>5. Filled(p) = p
  BY <1>1, <1>3, <1>4 DEF Filled
<1>6. (k + 1) * p = k * p + p
  BY <1>1
<1>7. frames + Filled(p) = (k + 1) * p
  BY <1>5, <1>6 DEF p
<1> QED BY <1>3, <1>7 DEF p

LEMMA StateStep ==
  ASSUME TypeOK, StateInv, [Next]_vars
  PROVE  StateInv'
<1> USE DEF StateInv, TypeOK
<1>1. CASE Interrupt
  BY <1>1 DEF Interrupt
<1>2. CASE audio_process
  BY <1>2 DEF audio_process
<1>3. CASE CallNextPcmPart \/ ReadFull \/ ReadNone
  BY <1>3 DEF CallNextPcmPart, ReadFull, Read, ReadNone, dma, file
<1>4. CASE GetPcmSound \/ FillSilence \/ StoreNone
  BY <1>4 DEF GetPcmSound, FillSilence, StoreNone, dma, file
<1>5. CASE Refill
  BY <1>5 DEF Refill, dma
<1>6. CASE Decode
  BY <1>6 DEF Decode, DecodeFrame, DecodeRecoverable, DecodeBufLen, DecodeFails, DecodeEnds, dma
<1>7. CASE Handling
  BY <1>7 DEF Handling, seek, change_song, play_pause, to_end_and_pause, toggle_repeat,
              change_card, dma
<1>8. CASE UNCHANGED vars
  BY <1>8 DEF vars, dma, file
<1> QED BY <1>1, <1>2, <1>3, <1>4, <1>5, <1>6, <1>7, <1>8 DEF Next, Playing

LEMMA BufferStep ==
  ASSUME TypeOK, BufferInv, [Next]_vars
  PROVE  BufferInv'
<1> USE DEF BufferInv, TypeOK
<1>1. CASE Interrupt
  BY <1>1 DEF Interrupt, call
<1>2. CASE audio_process
  <2>1. pc' \in {"read1", "idle"}
    BY <1>2 DEF audio_process, NewSongOrRepeat
  <2> QED BY <2>1
<1>3. CASE CallNextPcmPart \/ ReadFull \/ ReadNone
  BY <1>3 DEF CallNextPcmPart, ReadFull, Read, ReadNone, HalfOf, call, ghost
<1>4. CASE GetPcmSound \/ FillSilence \/ StoreNone
  BY <1>4 DEF GetPcmSound, FillSilence, StoreNone, call, ghost
<1>5. CASE Refill
  BY <1>5 DEF Refill
<1>6. CASE Decode
  BY <1>6 DEF Decode, DecodeFrame, DecodeRecoverable, DecodeBufLen, DecodeFails, DecodeEnds,
              AfterTurn, AfterCall, call, ghost
<1>7. CASE Handling
  <2>1. pc' \in {"idle", "read1"}
    BY <1>7 DEF Handling, seek, change_song, play_pause, to_end_and_pause, toggle_repeat,
                change_card
  <2> QED BY <2>1
<1>8. CASE UNCHANGED vars
  BY <1>8 DEF vars, call, ghost
<1> QED BY <1>1, <1>2, <1>3, <1>4, <1>5, <1>6, <1>7, <1>8 DEF Next, Playing

LEMMA FramesStep ==
  ASSUME TypeOK, FramesInv, [Next]_vars
  PROVE  FramesInv'
<1> USE DEF FramesInv
<1>1. CASE UNCHANGED <<pc, frames, audio_file>>
  BY <1>1
<1>2. CASE pc' \notin {"refill", "decode"}
  BY <1>2
<1>3. CASE GetPcmSound
  <2>1. frames' = 0 /\ audio_file' = audio_file
    BY <1>3 DEF GetPcmSound, file
  <2>2. audio_file \in Songs => frames' = 0 * pcm[audio_file]
    BY <2>1, FramesAssumption
  <2> QED BY <2>1, <2>2
<1>4. CASE DecodeFrame
  <2>1. pc = "decode" /\ audio_file \in Songs /\ frames < half_size
    BY <1>4 DEF DecodeFrame, MoreToDecode
  <2>2. PICK k \in Nat : frames = k * pcm[audio_file]
    BY <2>1
  <2>3. frames' = (k + 1) * pcm[audio_file] /\ audio_file' = audio_file
    BY <1>4, <2>1, <2>2, FrameFills DEF DecodeFrame, file
  <2> QED BY <2>3
<1>5. CASE Refill \/ DecodeRecoverable \/ DecodeBufLen \/ DecodeFails \/ DecodeEnds
  <2>1. pc \in {"refill", "decode"} /\ UNCHANGED <<frames, audio_file>>
    BY <1>5 DEF Refill, DecodeRecoverable, DecodeBufLen, DecodeFails, DecodeEnds, call, file
  <2> QED BY <2>1
<1>6. CASE Interrupt \/ UNCHANGED vars
  BY <1>6, <1>1 DEF Interrupt, vars, call, file
<1>7. CASE \/ audio_process \/ CallNextPcmPart \/ ReadFull \/ ReadNone \/ FillSilence \/ StoreNone
           \/ Handling
  BY <1>7, <1>2 DEF audio_process, NewSongOrRepeat, CallNextPcmPart, ReadFull, Read, ReadNone,
                    FillSilence, StoreNone, Handling, seek, change_song, play_pause,
                    to_end_and_pause, toggle_repeat, change_card
<1> QED BY <1>3, <1>4, <1>5, <1>6, <1>7 DEF Next, Playing, Decode

LEMMA RunsStep ==
  ASSUME TypeOK, PlayRuns, [Next]_vars
  PROVE  PlayRuns'
<1> USE DEF PlayRuns, TypeOK
<1>1. CASE audio_process
  BY <1>1 DEF audio_process, NewSongOrRepeat, Stopping, modes
<1>2. CASE play_pause \/ to_end_and_pause \/ change_card
  BY <1>2 DEF play_pause, to_end_and_pause, ToEnd, change_card, dma, modes
<1>3. CASE UNCHANGED <<pause_status, running>>
  BY <1>3
<1>4. CASE \/ Interrupt \/ CallNextPcmPart \/ ReadFull \/ ReadNone \/ GetPcmSound \/ FillSilence
           \/ Refill \/ Decode \/ StoreNone \/ seek \/ change_song \/ toggle_repeat
           \/ UNCHANGED vars
  BY <1>4, <1>3 DEF Interrupt, CallNextPcmPart, ReadFull, Read, ReadNone, GetPcmSound, FillSilence,
                    Refill, Decode, DecodeFrame, DecodeRecoverable, DecodeBufLen, DecodeFails,
                    DecodeEnds, StoreNone, seek, change_song, toggle_repeat, vars, dma, modes
<1> QED BY <1>1, <1>2, <1>4 DEF Next, Playing, Handling

THEOREM Inductive == Spec => []IInv
<1>1. Init => IInv
  BY TypeInit, HalfInit DEF IInv
<1>2. IInv /\ [Next]_vars => IInv'
  BY TypeStep, StateStep, BufferStep, FramesStep, RunsStep DEF IInv
<1> QED BY <1>1, <1>2, PTL DEF Spec

\* Sound is written into the half that is not played, unless an interrupt came
\* during the call: the theorem behind the two halves of audio_ctl_t::buff.
THEOREM AlwaysQuietHalf == Spec => []WritesQuietHalf
<1>1. IInv => WritesQuietHalf
  BY DEF IInv, StateInv, BufferInv, TypeOK, WritesQuietHalf
<1> QED BY <1>1, Inductive, PTL

\* fill_buffer never writes behind the half it is given, and is given one, unless
\* the interrupt came between next_pcm_part's reads of state.
THEOREM AlwaysRoom == Spec => []RoomUnlessTorn
<1>1. ASSUME IInv, ~torn, pc = "decode", MoreToDecode, audio_file \in Songs
      PROVE  buffer \in Halves /\ frames + pcm[audio_file] <= half_size
  <2>1. buffer \in Halves
    BY <1>1 DEF IInv, BufferInv
  <2>2. PICK k \in Nat : frames = k * pcm[audio_file]
    BY <1>1 DEF IInv, FramesInv
  <2> QED BY <1>1, <2>1, <2>2, FrameFills DEF IInv, MoreToDecode
<1>2. IInv => RoomUnlessTorn
  BY <1>1 DEF RoomUnlessTorn, RoomForFrame
<1> QED BY <1>2, Inductive, PTL

\* The output runs whenever the player is not paused: play_pause, the soft pause
\* and the change of the card agree on it.
THEOREM AlwaysRuns == Spec => []PlayRuns
<1>1. IInv => PlayRuns
  BY DEF IInv
<1> QED BY <1>1, Inductive, PTL

----------------------------------------------------------------------------
(***************************************************************************)
(* The decoder gets the file as it is.  This holds between the calls too:  *)
(* whoever moves in the file drops the input buffer, or says by seeked     *)
(* that nothing of it is to be kept.                                       *)
(***************************************************************************)
\* What the stream s has behind place k, and of that from place i on.
Behind(s, k) == {i \in k + 1 .. Len(s) : s[i] # Zero}
From(s, k, i) == {j \in Behind(s, k) : j >= i}

\* That is the piece of the file f directly before p.
EndsAt(s, k, f, p) == \A i \in Behind(s, k) : s[i] = <<f, p - Cardinality(From(s, k, i))>>

Contiguous == EndsAt(input, next_frame, audio_file, pos)

\* t has the last n of s, then got units of the file f from p on, then zeros.
Refills(t, s, n, got, f, p) ==
  /\ n + got <= Len(t) /\ (got # 0 => f \in Songs)
  /\ \A i \in 1 .. n : t[i] = s[Len(s) - n + i]
  /\ \A i \in n + 1 .. n + got : t[i] = <<f, p + (i - n) - 1>>
  /\ \A i \in n + got + 1 .. Len(t) : t[i] = Zero

LEMMA Shifted ==
  ASSUME NEW S, S \subseteq Int, IsFiniteSet(S), NEW T, NEW d \in Int,
         T = {x + d : x \in S}
  PROVE  IsFiniteSet(T) /\ Cardinality(T) = Cardinality(S)
<1> DEFINE f == [x \in S |-> x + d]
<1>1. f \in Bijection(S, T)
  <2>1. f \in [S -> T] /\ \A y \in T : \E x \in S : f[x] = y
    OBVIOUS
  <2>2. \A x, y \in S : f[x] = f[y] => x = y
    OBVIOUS
  <2> QED
    BY <2>1, <2>2, Fun_IsBij
<1> QED
  BY <1>1, FS_Bijection DEF ExistsBijection

LEMMA FiniteFrom ==
  ASSUME NEW s, Len(s) \in Nat, NEW k \in Nat, NEW i
  PROVE  IsFiniteSet(From(s, k, i)) /\ Cardinality(From(s, k, i)) \in Nat
<1>1. IsFiniteSet(k + 1 .. Len(s))
  BY FS_Interval
<1>2. From(s, k, i) \in SUBSET (k + 1 .. Len(s))
  BY DEF From, Behind
<1> QED
  BY <1>1, <1>2, FS_Subset, FS_CardinalityType

\* What is kept, then got units of the file, then zeros only: where the kept part
\* was contiguous, all of it is.
LEMMA RefillContiguous ==
  ASSUME NEW s \in Seq(Unit), NEW k \in 0 .. Len(s), NEW n \in Nat, n <= Len(s) - k,
         NEW t \in Seq(Unit), NEW got \in Nat, NEW f, NEW p \in Nat,
         NEW q \in Nat, q = p + got, Refills(t, s, n, got, f, p), EndsAt(s, k, f, p)
  PROVE  EndsAt(t, 0, f, q)
<1> SUFFICES ASSUME NEW i \in Behind(t, 0)
             PROVE  t[i] = <<f, q - Cardinality(From(t, 0, i))>>
  BY DEF EndsAt
<1>0. /\ n + got <= Len(t) /\ (got # 0 => f \in Songs)
      /\ \A j \in 1 .. n : t[j] = s[Len(s) - n + j]
      /\ \A j \in n + 1 .. n + got : t[j] = <<f, p + (j - n) - 1>>
      /\ \A j \in n + got + 1 .. Len(t) : t[j] = Zero
      /\ \A j \in Behind(s, k) : s[j] = <<f, p - Cardinality(From(s, k, j))>>
  BY DEF Refills, EndsAt
<1> DEFINE new == n + 1 .. n + got
<1>1. /\ Len(s) \in Nat /\ Len(t) \in Nat /\ k \in Nat
      /\ i \in 1 .. Len(t) /\ t[i] # Zero
  BY LenProperties DEF Behind
<1>2. ASSUME NEW j \in new
      PROVE  t[j] # Zero
  <2> DEFINE m == p + (j - n) - 1
  <2>1. f \in Songs /\ m \in Nat /\ t[j] = <<f, m>>
    BY <1>0, <1>1
  <2> HIDE DEF m
  <2>2. t[j] \in Songs \X Nat
    BY <2>1
  <2> QED
    BY <2>2, FilesAssumption
<1>3. CASE i > n
  <2>1. i \in new
    BY <1>0, <1>1, <1>3, SMTT(60)
  <2>2. From(t, 0, i) = i .. n + got
    BY <1>0, <1>1, <1>2, <2>1 DEF From, Behind
  <2>3. Cardinality(From(t, 0, i)) = n + got - i + 1
    BY <1>1, <2>1, <2>2, FS_Interval
  <2>4. p + (i - n) - 1 = q - (n + got - i + 1)
    BY <1>1
  <2> QED
    BY <1>0, <2>1, <2>3, <2>4
<1>4. CASE i <= n
  <2> DEFINE d   == Len(s) - n
             old == From(s, k, i + d)
             mid == {j \in 1 .. n : j >= i /\ t[j] # Zero}
  <2>1. i + d \in Behind(s, k) /\ t[i] = s[i + d]
    BY <1>0, <1>1, <1>4 DEF Behind
  <2>2. t[i] = <<f, p - Cardinality(old)>>
    BY <1>0, <2>1
  <2>3. old = {x + d : x \in mid}
    <3>1. ASSUME NEW y \in old
          PROVE  \E x \in mid : y = x + d
      <4>1. y \in k + 1 .. Len(s) /\ s[y] # Zero /\ y >= i + d
        BY DEF From, Behind
      <4>2. y - d \in 1 .. n /\ y - d >= i /\ t[y - d] = s[y]
        BY <1>0, <1>1, <4>1
      <4> QED
        BY <1>1, <4>1, <4>2
    <3>2. ASSUME NEW x \in mid
          PROVE  x + d \in old
      <4>1. x \in 1 .. n /\ x >= i /\ t[x] # Zero /\ t[x] = s[d + x]
        BY <1>0
      <4>2. x + d \in k + 1 .. Len(s) /\ x + d >= i + d /\ s[x + d] # Zero
        BY <1>0, <1>1, <4>1
      <4> QED
        BY <4>2 DEF From, Behind
    <3> QED
      BY <3>1, <3>2
  <2>4. /\ IsFiniteSet(mid) /\ mid \subseteq Int /\ d \in Int
        /\ IsFiniteSet(new) /\ Cardinality(new) = got
    <3>1. IsFiniteSet(1 .. n) /\ mid \in SUBSET (1 .. n)
      <4>1. IsFiniteSet(1 .. n)
        BY FS_Interval
      <4> QED
        BY <4>1
    <3>2. IsFiniteSet(new) /\ Cardinality(new) = got
      <4> DEFINE a == n + 1
                 b == n + got
      <4>1. a \in Int /\ b \in Int /\ (a > b => got = 0) /\ (~(a > b) => b - a + 1 = got)
        OBVIOUS
      <4> HIDE DEF a, b
      <4>2. IsFiniteSet(a .. b) /\ Cardinality(a .. b) = IF a > b THEN 0 ELSE b - a + 1
        BY <4>1, FS_Interval
      <4> QED
        BY <4>1, <4>2 DEF a, b
    <3>3. mid \subseteq Int /\ d \in Int
      BY <1>1
    <3> HIDE DEF new
    <3> QED
      BY <3>1, <3>2, <3>3, FS_Subset
  <2>5. Cardinality(old) = Cardinality(mid)
    <3> HIDE DEF old, mid, d
    <3> QED
      BY <2>3, <2>4, Shifted
  <2>6. From(t, 0, i) = mid \cup new /\ mid \cap new = {}
    <3>1. ASSUME NEW j \in From(t, 0, i)
          PROVE  j \in mid \cup new
      BY <1>0, <1>1 DEF From, Behind
    <3>2. ASSUME NEW j \in mid \cup new
          PROVE  j \in From(t, 0, i)
      BY <1>0, <1>1, <1>2, <1>4 DEF From, Behind
    <3> QED
      BY <3>1, <3>2
  <2>7. Cardinality(From(t, 0, i)) = Cardinality(mid) + got
    <3> HIDE DEF mid, new
    <3>1. Cardinality(mid \cup new) = Cardinality(mid) + Cardinality(new) - Cardinality({})
      BY <2>4, <2>6, FS_Union
    <3>2. Cardinality({}) = 0 /\ Cardinality(mid) \in Nat
      BY <2>4, FS_EmptySet, FS_CardinalityType
    <3>3. Cardinality(new) = got
      BY <2>4
    <3>4. Cardinality(mid) + got - 0 = Cardinality(mid) + got
      BY <3>2
    <3> QED
      BY <2>6, <3>1, <3>2, <3>3, <3>4
  <2>8. Cardinality(mid) \in Nat
    BY <2>4, FS_CardinalityType
  <2> HIDE DEF mid, old
  <2> QED
    BY <2>2, <2>5, <2>7, <2>8
<1> QED
  BY <1>1, <1>3, <1>4

LEMMA ContiguousAfterRefill ==
  ASSUME TypeOK, Contiguous, Refill
  PROVE  Contiguous'
<1> DEFINE n == Saved
           want == mp3_input_buffer_size - n
           left == Size(audio_file) - pos
           Fresh(got) == [i \in 1 .. got |-> <<audio_file, pos + i - 1>>]
           Guard(got) == [i \in 1 .. TailSize(want - got) |-> Zero]
<1>1. PICK got \in {Smaller(want, left), 0} :
        /\ got >= 0 /\ pos' = pos + got
        /\ input' = Kept(n) \o Fresh(got) \o Guard(got)
  BY DEF Refill
<1>2. /\ pos \in Nat /\ left \in Nat /\ want \in Nat /\ audio_file \in Files
      /\ got \in Nat /\ (got # 0 => audio_file \in Songs)
      /\ n \in Nat /\ n <= Len(input) - next_frame
  <2>1. n \in Nat /\ n <= Len(input) - next_frame
    BY BuffersAssumption DEF TypeOK, Saved
  <2> QED
    BY <1>1, <2>1, SavedTyped, FileFacts, BuffersAssumption DEF TypeOK
<1>3. /\ Len(Kept(n)) = n /\ Len(Fresh(got)) = got
      /\ Fresh(got) \in Seq(Unit) /\ Kept(n) \in Seq(Unit)
  <2>1. \A i \in 1 .. got : <<audio_file, pos + i - 1>> \in Unit
    BY <1>2, FileFacts DEF Unit
  <2>2. Fresh(got) \in [1 .. got -> Unit]
    BY <2>1
  <2>3. Fresh(got) \in Seq(Unit) /\ Len(Fresh(got)) = got
    <3> DEFINE b == Fresh(got)
    <3>1. b \in [1 .. got -> Unit] /\ got \in Nat
      BY <1>2, <2>2
    <3> HIDE DEF b
    <3>2. b \in Seq(Unit) /\ Len(b) = got
      BY <3>1
    <3> QED
      BY <3>2 DEF b
  <2> QED
    BY <2>3, SavedTyped
<1>4. /\ TailSize(want - got) \in Nat
      /\ Guard(got) \in Seq(Unit) /\ Len(Guard(got)) = TailSize(want - got)
  <2>1. TailSize(want - got) \in Nat
    BY <1>1, <1>2, BuffersAssumption DEF TailSize
  <2>2. Guard(got) \in [1 .. TailSize(want - got) -> Unit]
    BY DEF Unit
  <2> QED
    BY <2>1, <2>2
<1>5. /\ input' \in Seq(Unit) /\ Len(input') = n + got + TailSize(want - got)
      /\ \A i \in 1 .. n : input'[i] = Kept(n)[i]
      /\ \A i \in n + 1 .. n + got : input'[i] = Fresh(got)[i - n]
      /\ \A i \in n + got + 1 .. Len(input') : input'[i] = Guard(got)[i - n - got]
  <2> DEFINE a == Kept(n)
             b == Fresh(got)
             c == Guard(got)
             g == TailSize(want - got)
  <2>1. /\ a \in Seq(Unit) /\ b \in Seq(Unit) /\ c \in Seq(Unit) /\ g \in Nat
        /\ Len(a) = n /\ Len(b) = got /\ Len(c) = g /\ input' = a \o b \o c
        /\ n \in Nat /\ got \in Nat
    BY <1>1, <1>2, <1>3, <1>4
  <2> HIDE DEF a, b, c, g, n
  <2>2. /\ a \o b \in Seq(Unit) /\ Len(a \o b) = n + got
        /\ \A i \in 1 .. n + got : (a \o b)[i] = IF i <= n THEN a[i] ELSE b[i - n]
    BY <2>1, ConcatProperties
  <2>3. /\ input' \in Seq(Unit) /\ Len(input') = n + got + g
        /\ \A i \in 1 .. n + got + g :
             input'[i] = IF i <= n + got THEN (a \o b)[i] ELSE c[i - (n + got)]
    BY <2>1, <2>2, ConcatProperties
  <2>4. ASSUME NEW i \in 1 .. n
        PROVE  input'[i] = a[i]
    BY <2>1, <2>2, <2>3
  <2>5. ASSUME NEW i \in n + 1 .. n + got
        PROVE  input'[i] = b[i - n]
    BY <2>1, <2>2, <2>3
  <2>6. ASSUME NEW i \in n + got + 1 .. Len(input')
        PROVE  input'[i] = c[i - n - got]
    <3>1. i - n - got = i - (n + got)
      BY <2>1
    <3> QED
      BY <2>1, <2>3, <3>1
  <2> QED
    BY <2>1, <2>3, <2>4, <2>5, <2>6 DEF a, b, c, g
<1>6. \A i \in 1 .. n : input'[i] = input[Len(input) - n + i]
  BY <1>2, <1>5 DEF Kept, TypeOK
<1>7. ASSUME NEW i \in n + 1 .. n + got
      PROVE  input'[i] = <<audio_file, pos + (i - n) - 1>>
  <2>1. input'[i] = Fresh(got)[i - n]
    BY <1>5
  <2>2. i - n \in 1 .. got
    <3> HIDE DEF n
    <3> QED
      BY <1>2
  <2> DEFINE k == i - n
  <2> HIDE DEF k, n
  <2>3. k \in 1 .. got /\ input'[i] = Fresh(got)[k]
    BY <2>1, <2>2 DEF k
  <2>4. input'[i] = <<audio_file, pos + k - 1>>
    BY <2>3
  <2> QED
    BY <2>4 DEF k
<1>8. \A i \in n + got + 1 .. Len(input') : input'[i] = Zero
  <2> HIDE DEF n, want
  <2> QED
    BY <1>2, <1>4, <1>5
<1>10. n + got <= Len(input')
  BY <1>2, <1>4, <1>5
<1> DEFINE t == input'
           p == pos
<1>11. /\ input \in Seq(Unit) /\ next_frame \in 0 .. Len(input)
       /\ t \in Seq(Unit) /\ p \in Nat
  BY <1>2, <1>5 DEF TypeOK
<1>12. Refills(t, input, n, got, audio_file, p)
  BY <1>2, <1>6, <1>7, <1>8, <1>10 DEF Refills
<1>13. EndsAt(input, next_frame, audio_file, p)
  BY DEF Contiguous
<1> HIDE DEF n, t, p
<1>14. EndsAt(t, 0, audio_file, p + got)
  BY <1>2, <1>11, <1>12, <1>13, RefillContiguous
<1>15. next_frame' = 0 /\ audio_file' = audio_file
  BY DEF Refill
<1> QED
  BY <1>1, <1>14, <1>15 DEF Contiguous, t, p

\* What moves on in the input buffer leaves the rest of the same piece; an empty
\* one is contiguous with anything.
LEMMA TakenContiguous ==
  ASSUME NEW s, NEW k \in Nat, NEW m \in Nat, k <= m, Len(s) \in Nat, NEW f, NEW p,
         EndsAt(s, k, f, p)
  PROVE  EndsAt(s, m, f, p)
<1> SUFFICES ASSUME NEW i \in Behind(s, m)
             PROVE  s[i] = <<f, p - Cardinality(From(s, m, i))>>
  BY DEF EndsAt
<1>1. i \in Behind(s, k)
  BY DEF Behind
<1>2. From(s, m, i) = From(s, k, i)
  BY DEF From, Behind
<1> QED
  BY <1>1, <1>2 DEF EndsAt

LEMMA NothingContiguous ==
  ASSUME NEW f, NEW p
  PROVE  EndsAt(<<>>, 0, f, p)
  BY DEF EndsAt, Behind

LEMMA ContiguousStep ==
  ASSUME TypeOK, Contiguous, [Next]_vars
  PROVE  Contiguous'
<1>0. Len(input) \in Nat /\ next_frame \in Nat
  BY DEF TypeOK
<1>1. CASE UNCHANGED <<input, next_frame, audio_file, pos>>
  BY <1>1 DEF Contiguous
<1>2. CASE Reused
  BY <1>2, NothingContiguous DEF Reused, Contiguous
<1>3. CASE Refill
  BY <1>3, ContiguousAfterRefill
<1>4. CASE DecodeFrame \/ DecodeRecoverable \/ DecodeBufLen
  <2>1. next_frame' \in Nat /\ next_frame <= next_frame' /\ UNCHANGED <<input, file>>
    BY <1>0, <1>4, BuffersAssumption DEF DecodeFrame, DecodeRecoverable, DecodeBufLen
  <2> QED
    BY <1>0, <2>1, TakenContiguous DEF Contiguous, file
<1>5. CASE audio_process \/ DecodeFails \/ Handling
  BY <1>1, <1>2, <1>5 DEF audio_process, NewSongOrRepeat, DecodeFails, Handling, seek, change_song,
    play_pause, to_end_and_pause, toggle_repeat, change_card, file, mad
<1>6. CASE \/ Interrupt \/ CallNextPcmPart \/ ReadFull \/ ReadNone \/ GetPcmSound \/ FillSilence
           \/ DecodeEnds \/ StoreNone \/ UNCHANGED vars
  BY <1>1, <1>6 DEF Interrupt, CallNextPcmPart, ReadFull, Read, ReadNone, GetPcmSound,
    FillSilence, DecodeEnds, StoreNone, vars, file, mad
<1> QED
  BY <1>3, <1>4, <1>5, <1>6 DEF Next, Playing, Decode

\* The decoder gets the file as it is, whichever files there are, however the
\* input buffer is moved and refilled (get_pcm_sound and amount_safe_from_buffer),
\* and whatever moves in the file between two calls.
THEOREM AlwaysContiguous == Spec => []StreamContiguous
<1>1. Init => Contiguous
  BY NothingContiguous DEF Init, Contiguous
<1>2. TypeOK /\ Contiguous /\ [Next]_vars => Contiguous'
  BY ContiguousStep
<1>3. Contiguous => StreamContiguous
  BY DEF Contiguous, StreamContiguous, EndsAt, Undecoded, FromPlace, Behind, From
<1> QED
  BY <1>1, <1>2, <1>3, TypeCorrect, PTL DEF Spec

=============================================================================

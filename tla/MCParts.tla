------------------------------- MODULE MCParts -------------------------------
(***************************************************************************)
(* The player's small parts for TLC.  They share no state, so a behaviour  *)
(* is one of one part, chosen at the start: the number of states is the    *)
(* sum of the parts', not their product.                                   *)
(***************************************************************************)
EXTENDS Integers, SequencesExt, TLC

CONSTANTS
  cost_2,
  offset, soft_offset, limit, limit_speed, min_speed_cnt, max_speed_cnt,
  max_ticks, speed,
  Sizes, buffer_size, MaxAnswers,
  Char, MaxSize, text_size,
  List

\* Two of the keys: what is said of the order is said of a first and a last.
TwoKeys == <<"up", "down">>

\* In the middle; within offset of it; away from it, above, below and to either
\* side; and in a direction that is neither.
Places == {<<3, 3>>, <<3, 4>>, <<4, 3>>, <<3, 0>>, <<3, 7>>, <<0, 3>>, <<7, 3>>,
           <<5, 5>>}

TwoBlanks == <<3, 2>>

ThreeOneNone == 0 :> 3 @@ 1 :> 1 @@ 2 :> 0

\* Lines of four bytes: whatever stands in the first of two, so that the codes
\* are of all lengths, and second ones that are even, rare or full.
TwoLines == {a \o b : a \in [1 .. 4 -> 0 .. 3],
                      b \in {<<0, 0, 0, 1>>, <<3, 2, 1, 0>>, <<0, 0, 0, 0>>, <<2, 0, 0, 2>>}}

\* A byte in each n is set.
Periodic(size, n) == [b \in 1 .. size |-> IF b % n = 0 THEN 1 ELSE 0]

\* With a window of one line of five pixels, ten bytes: one line as wide as the
\* screen and three with any period up to more than a line; and narrower ones, with
\* lines that begin in one window and end in the next.
Lines ==
  5 :> ([1 .. 10 -> 0 .. 1] \cup {Periodic(30, n) : n \in 2 .. 13})
  @@ 2 :> ([1 .. 12 -> 0 .. 1] \cup {Periodic(24, n) : n \in 2 .. 9})
  @@ 3 :> {Periodic(24, n) : n \in 2 .. 9}
  @@ 4 :> {Periodic(24, n) : n \in 2 .. 9}

FrameCells(k, space, begin) ==
  LET byte == [sync |-> FALSE, size |-> 0, begin |-> 0, frame |-> 0] IN
  << [sync |-> TRUE, size |-> 2 + space, begin |-> begin, frame |-> k] >>
  \o [i \in 1 .. space + 1 |-> byte]

\* A song of frames with so much space, beginning so far back.
Song(frames) ==
  FoldLeft(LAMBDA f, k : f \o FrameCells(k, frames[k][1], frames[k][2]), <<>>,
           [k \in DOMAIN frames |-> k])

Like(size, begin) == [sync |-> TRUE, size |-> size, begin |-> begin, frame |-> 0]

\* Songs whose frames refer to the frame before, to two frames before, or to
\* nothing; and one in which bytes look like headers, also of a frame that ends
\* where a frame begins.
Songs ==
  {Song(<< <<2, 0>>, <<1, b>>, <<1, c>>, <<2, 1>>, <<1, 0>> >>) :
     b \in 0 .. 2, c \in 0 .. 1}
  \cup {Song(<< <<2, 0>>, <<1, 2>>, <<1, 3>>, <<0, 3>>, <<3, 2>> >>)}
  \cup {[Song(<< <<4, 0>>, <<3, 2>>, <<2, 1>>, <<1, 3>> >>)
           EXCEPT ![4] = Like(n, 1), ![10] = Like(2, 2)] : n \in {0, 1, 3, 6}}

\* Songs that are there, in their directories, and one that is not.
Here == {<<"a">>, <<"d", "b">>, <<"d", "e", "c">>}
None == <<"none">>

\* Two playlists: one with no song, one around a song that is left out, and three
\* songs; next to one song.
TwoLists ==
  {<<text_1, << <<"d", "b">> >> >> :
     text_1 \in {<<None>>, << <<"d", "b">>, None, <<"a">> >>,
                 << <<"d", "e", "c">>, <<"d", "b">>, <<"a">> >>}}

\* The commands in the order of int_commands; those left out are like the third.
Up == <<"e", "[", "A">>
Down == <<"e", "[", "B">>
Commands == <<Up, Down, <<"n">>, <<"s">>, <<"/">>, <<"g", "g">> >>
Typed == {Down, <<"n">>, <<"/">>, <<"g">>, <<"1">>, <<"d">>}

\* Bytes in which frames begin or seem to, behind a tag or in the place of one.
Begins ==
  {[bytes |-> [k \in 0 .. n - 1 |-> IF k < 2 /\ m # "none" THEN "00" ELSE b[k]],
    marker |-> m, length |-> 1] :
     n \in {1, 3, 5}, b \in [0 .. 4 -> {"ff", "e0", "00"}], m \in {"none", "TAG", "ID3"}}

\* Words of up to four letters; the commands differ from some in each way.
TypedWords == UNION {[1 .. n -> {"a", "b", "c"}] : n \in 0 .. 4}
KnownWords == << <<"a", "b", "c">>, <<"b", "a", "a", "c">>, <<"c", "b">> >>

(***************************************************************************)
(* The decoder's frames                                                    *)
(***************************************************************************)
SaysOf(n, big, tables, r0, r1, q) ==
  [bits |-> n, big_values |-> big, table_select |-> tables, region0_count |-> r0,
   region1_count |-> r1, count1table_select |-> q]

\* Too few bits, none, some that end within a code, enough; tables with long
\* codes, with linbits and one that there is not; windows that are switched.
Coded ==
  {SaysOf(n, 6, t, 0, 0, 0) : n \in {-1, 0, 5, 30}, t \in {<<1, 13, 23>>, <<16, 31, 4>>}}
  \cup {SaysOf(n, 3, <<13, 23>>, 1, 36, q) : n \in {7, 20}, q \in 0 .. 1}
  \cup {SaysOf(9, 2, <<14, 2>>, 1, 36, 0)}

Octets == {<<165, 60, 255, 0, 129, 90, 7>>, <<0, 1, 2, 254, 200, 17, 33>>}

Shaped(switched, type, mix, c) ==
  [switched |-> switched, block_type |-> type, mixed |-> mix, scalefac_compress |-> c,
   many |-> FALSE]
Shapes(C) ==
  UNION {{Shaped(FALSE, 0, FALSE, c), Shaped(TRUE, 1, TRUE, c), Shaped(TRUE, 2, FALSE, c),
          Shaped(TRUE, 2, TRUE, c)} : c \in C}
Refused(c) == {Shaped(TRUE, 0, FALSE, c), [Shaped(FALSE, 0, FALSE, c) EXCEPT !.many = TRUE]}

InfoOf(rate, n, m, s, sh) ==
  [samplerate |-> rate, nch |-> n, joint |-> n = 2, mode_extension |-> m, scfsi |-> s,
   shape |-> sh]

\* One and two channels, of two granules and of one; the compressions of LSF are
\* of each of the six ways that these are read.
Infos ==
  {InfoOf(44100, 1, {}, <<s>>, << <<a>>, <<b>> >>) :
     s \in {{}, {0, 2}, 0 .. 3}, a \in Shapes({4, 15}) \cup Refused(1), b \in Shapes({4, 15})}
  \cup {InfoOf(32000, 2, m, <<s, {}>>, << <<a, b>>, <<c, b>> >>) :
          m \in {{}, {"ms"}, {"i"}}, s \in {{}, {3}}, a \in Shapes({15}), b \in Shapes({15}),
          c \in Shapes({8})}
  \cup {[InfoOf(rate, 2, m, << {}, {} >>, << <<a, b>> >>) EXCEPT !.joint = m # {"ms", "i"}] :
          rate \in {24000, 8000}, m \in {{"i"}, {"ms", "i"}}, a \in Shapes({399, 450, 511}),
          b \in Shapes({100, 399, 450, 511})}
  \cup {InfoOf(22050, 1, {}, << {} >>, << <<a>> >>) :
          a \in Shapes({100, 399, 450, 511}) \cup Refused(1)}

HeardIn(rate, k, i, m, heard, illegal) ==
  [samplerate |-> rate, kind |-> k, i_stereo |-> i, ms_stereo |-> m, heard |-> heard,
   illegal |-> illegal]
Kinds == {"long", "short", "mixed"}

\* The last bands that are heard in two windows, at every place that differs.
Heard ==
  {HeardIn(32000, k, TRUE, m, {a, b}, x) :
     k \in Kinds, a, b \in {1, 3, 7, 8, 9, 10, 11, 21, 22}, m \in BOOLEAN, x \in {{}, {20}}}
  \cup {HeardIn(rate, k, i, TRUE, {a}, {}) :
          rate \in {48000, 22050, 8000}, k \in Kinds, i \in BOOLEAN,
          a \in {1, 3, 6, 8, 9, 10, 19, 22}}
  \cup {HeardIn(rate, k, i, TRUE, {}, {1, 21}) :
          rate \in {44100, 12000}, k \in Kinds, i \in BOOLEAN}

BlockOf(rate, type, mix) == [samplerate |-> rate, block_type |-> type, mixed |-> mix]

Blocks ==
  {BlockOf(rate, 2, mix) :
     rate \in {44100, 24000, 8000}, mix \in BOOLEAN}
  \cup {BlockOf(44100, type, mix) : type \in {0, 1, 3}, mix \in BOOLEAN}

VARIABLES
  part,
  pin, pressed, button_state, time, at, ans, calm, calls,
  press, moved, start, old, dolg, tick_counter, direction_mask, coasting, cnt,
  last, row, away, sideways, lines,
  buffer, pos, UserTxBuffer, todo, sent, host,
  substr, text, pf, phase, i, pf_pos, found,
  matching, open, cursor, searching, playlist, place, turns,
  h_picture, tree, digits, ptr, state, in_line, h_shown, h_ended,
  z_width, z_picture, blocks, buff, position, rest, old_line, tail, z_shown, z_ended,
  song, m_pos, seeked, input, next_frame, sync, main_data, rb, tries, m_pc,
  m_row, fresh, out,
  f_text, files, window, finder, ready, playing, path,
  typed, unread, slow, chars, number, status, need_continue, pattern,
  to_write, polled, taken,
  t_file, t_pos, t_pc, total_read, id3_size, value, t_offset, error,
  command, c_i, c_row, prev, prev_2, best_v, best_i, written,
  q_channel, q_phase, q_error, cachesz, bits_left, spare, q_line, q_band, sfbound,
  region, rcount, big_values, code, inside,
  data, b_byte, b_cache, b_left, passed, b_last, b_value,
  frame, i_pc, gr, ch, i_passed, result, scalefac,
  granule, j_pc, modes, done,
  channel, s_pc, xr, s_l, band, w, sbw, sw, tmp, s_limit, reduced, subband

K == INSTANCE Joystick WITH buttons <- TwoKeys
T == INSTANCE Touch WITH Points <- Places
U == INSTANCE UsbSend WITH EmptyAnswers <- TwoBlanks
F == INSTANCE FindSong WITH pos <- pf_pos
N == INSTANCE FindNext WITH cnt_songs <- ThreeOneNone
H == INSTANCE HuffmanPicture WITH symbol_cnt <- 4, branches <- 2, line_size <- 4,
       Pictures <- TwoLines, picture <- h_picture, shown <- h_shown, ended <- h_ended
Z == INSTANCE Lz4Picture WITH Symbol <- 0 .. 1, max_size <- 5, max_repeat <- 3,
       pixel_size <- 2, full_width <- 5, parts <- 1, slack <- 8, Pictures <- Lines,
       width <- z_width, picture <- z_picture, shown <- z_shown, ended <- z_ended
M == INSTANCE Mp3Stream WITH Files <- Songs, mp3_input_buffer_size <- 9,
       mp3_frame_size <- 4, MAD_BUFFER_GUARD <- 2, MAD_BUFFER_MDLEN <- 8,
       head_len <- 2, max_tries <- 2,
       file <- song, pos <- m_pos, pc <- m_pc, row <- m_row
L == INSTANCE PlaylistFile WITH Texts <- TwoLists, Found <- Here, Files <- 1 .. 2,
       sizeof_header <- 3, sizeof_song <- 2, sizeof_name <- 1, Garbage <- <<>>,
       text <- f_text
I == INSTANCE Keyboard WITH int_commands <- Commands, find_set <- 5, jmp <- 6,
       Digit <- {"1"}, DigitValue <- [c \in {"1"} |-> 1], mod <- 10,
       Esc <- "e", Bracket <- "[", EndOfEscape <- {"A", "B", "s", "g", "["},
       Newline <- "n", Backspace <- "d", Keys <- Typed, name_size <- 1,
       max_keys <- 5, max_fast <- 3, keys <- typed
D == INSTANCE Id3 WITH Files <- Begins, marker_size <- 2, v1_size <- 3, v2_size <- 2,
       mp3_header_size <- 3, file <- t_file, pos <- t_pos, pc <- t_pc, offset <- t_offset
E == INSTANCE CheckString WITH Words <- TypedWords, str_commands <- KnownWords,
       cost_add <- 1, cost_replace <- 3, cost_delete <- 3, cost_swap <- 2,
       diff_sz_limit <- 3, activation_porog <- 4, i <- c_i, row <- c_row
C == INSTANCE Huffdecode WITH Channels <- Coded, Lefts <- {0, 8}, lines <- 12,
       sfbwidth <- <<4, 2, 2, 4>>, MAD_BUFFER_GUARD <- 8,
       channel <- q_channel, phase <- q_phase, error <- q_error, line <- q_line,
       band <- q_band
B == INSTANCE BitPtr WITH Data <- Octets, Lengths <- {0, 1, 3, 7, 8, 9, 16, 20},
       byte <- b_byte, cache <- b_cache, left <- b_left, last <- b_last, value <- b_value
S == INSTANCE SideInfo WITH Frames <- Infos, pc <- i_pc, passed <- i_passed
J == INSTANCE Stereo WITH Granules <- Heard, pc <- j_pc
G == INSTANCE Subbands WITH Channels <- Blocks,
       Limits <- {36, 37, 54, 55, 300, 558, 559, 576}, pc <- s_pc, l <- s_l, limit <- s_limit

ASSUME PartsAssumption ==
  /\ K!JoystickAssumption
  /\ T!TouchAssumption
  /\ U!UsbSendAssumption
  /\ F!FindSongAssumption
  /\ N!FindNextAssumption
  /\ H!HuffmanAssumption
  /\ Z!Lz4Assumption
  /\ M!Mp3StreamAssumption
  /\ L!PlaylistFileAssumption
  /\ I!KeyboardAssumption
  /\ D!Id3Assumption
  /\ E!CheckStringAssumption
  /\ C!HuffdecodeAssumption
  /\ B!BitPtrAssumption
  /\ S!SideInfoAssumption
  /\ J!StereoAssumption
  /\ G!SubbandsAssumption
  /\ S!BandsAreTheLines

keys    == <<pin, pressed, button_state, time, at, ans, calm, calls>>
touch   == <<press, moved, start, old, dolg, tick_counter, direction_mask,
             coasting, cnt, last, row, away, sideways, lines>>
answers == <<buffer, pos, UserTxBuffer, todo, sent, host>>
name    == <<substr, text, pf, phase, i, pf_pos, found>>
list    == <<matching, open, cursor, searching, playlist, place, turns>>
huffman == <<h_picture, tree, digits, ptr, state, in_line, h_shown, h_ended>>
lz4     == <<z_width, z_picture, blocks, buff, position, rest, old_line, tail, z_shown, z_ended>>
mp3     == <<song, m_pos, seeked, input, next_frame, sync, main_data, rb, tries,
             m_pc, m_row, fresh, out>>
file    == <<f_text, files, window, finder, ready, playing, path>>
typist  == <<typed, unread, slow, chars, number, status, need_continue, pattern,
             to_write, polled, taken>>
tag     == <<t_file, t_pos, t_pc, total_read, id3_size, value, t_offset, error>>
word    == <<command, c_i, c_row, prev, prev_2, best_v, best_i, written>>
player  == <<keys, touch, answers, name, list, huffman, lz4, mp3, file, typist, tag, word>>

codes    == <<q_channel, q_phase, q_error, cachesz, bits_left, spare, q_line, q_band,
              sfbound, region, rcount, big_values, code, inside>>
bits     == <<data, b_byte, b_cache, b_left, passed, b_last, b_value>>
info     == <<frame, i_pc, gr, ch, i_passed, result, scalefac>>
joint    == <<granule, j_pc, modes, done>>
subbands == <<channel, s_pc, xr, s_l, band, w, sbw, sw, tmp, s_limit, reduced, subband>>
decoder  == <<codes, bits, info, joint, subbands>>

vars == <<part, player, decoder>>

\* The decoder's parts are large: where one does not run it has no state.
NoCodes ==
  /\ q_channel = 0 /\ q_phase = 0 /\ q_error = 0 /\ cachesz = 0 /\ bits_left = 0
  /\ spare = 0 /\ q_line = 0 /\ q_band = 0 /\ sfbound = 0 /\ region = 0 /\ rcount = 0
  /\ big_values = 0 /\ code = 0 /\ inside = 0
NoBits ==
  /\ data = 0 /\ b_byte = 0 /\ b_cache = 0 /\ b_left = 0 /\ passed = 0 /\ b_last = 0
  /\ b_value = 0
NoInfo ==
  /\ frame = 0 /\ i_pc = 0 /\ gr = 0 /\ ch = 0 /\ i_passed = 0 /\ result = 0 /\ scalefac = 0
NoJoint ==
  granule = 0 /\ j_pc = 0 /\ modes = 0 /\ done = 0
NoSubbands ==
  /\ channel = 0 /\ s_pc = 0 /\ xr = 0 /\ s_l = 0 /\ band = 0 /\ w = 0 /\ sbw = 0 /\ sw = 0
  /\ tmp = 0 /\ s_limit = 0 /\ reduced = 0 /\ subband = 0

Init ==
  /\ part \in {"keys", "touch", "answers", "name", "list", "huffman", "lz4", "mp3",
              "file", "typist", "tag", "word", "codes", "bits", "info", "joint", "subbands"}
  /\ K!Init
  /\ T!Init
  /\ U!Init
  /\ \/ part = "name"
     \/ part # "name" /\ substr = <<>> /\ text \in [1 .. text_size -> {CHOOSE c \in Char : TRUE}]
  /\ F!Init
  /\ \/ part = "list"
     \/ part # "list" /\ matching = [l \in List |-> {}] /\ open = 0 /\ playlist = 0
  /\ N!Init
  /\ part = "huffman" \/ h_picture = [b \in 1 .. 8 |-> 0]
  /\ H!Init
  /\ part = "lz4" \/ (z_width = 5 /\ z_picture = [b \in 1 .. 10 |-> 0])
  /\ Z!Init
  /\ part = "mp3" \/ song = CHOOSE s \in Songs : TRUE
  /\ M!Init
  /\ \/ part = "file"
     \/ /\ part # "file" /\ f_text = CHOOSE t \in TwoLists : TRUE
        /\ window = L!Empty(1) /\ finder = L!Empty(1) /\ playing = L!Empty(1)
  /\ L!Init
  /\ I!Init
  /\ part = "tag" \/ t_file = CHOOSE f \in Begins : TRUE
  /\ D!Init
  /\ part = "word" \/ command = <<>>
  /\ E!Init
  /\ IF part = "codes" THEN C!Init ELSE NoCodes
  /\ IF part = "bits" THEN B!Init ELSE NoBits
  /\ IF part = "info" THEN S!Init ELSE NoInfo
  /\ IF part = "joint" THEN J!Init ELSE NoJoint
  /\ IF part = "subbands" THEN G!Init ELSE NoSubbands

Next ==
  \/ part = "keys" /\ K!Next /\ UNCHANGED <<part, touch, answers, name, list, huffman, lz4, mp3, file, typist, tag, word, decoder>>
  \/ part = "touch" /\ T!Next /\ UNCHANGED <<part, keys, answers, name, list, huffman, lz4, mp3, file, typist, tag, word, decoder>>
  \/ part = "answers" /\ U!Next /\ UNCHANGED <<part, keys, touch, name, list, huffman, lz4, mp3, file, typist, tag, word, decoder>>
  \/ part = "name" /\ F!Next /\ UNCHANGED <<part, keys, touch, answers, list, huffman, lz4, mp3, file, typist, tag, word, decoder>>
  \/ part = "list" /\ N!Next /\ UNCHANGED <<part, keys, touch, answers, name, huffman, lz4, mp3, file, typist, tag, word, decoder>>
  \/ part = "huffman" /\ H!Next /\ UNCHANGED <<part, keys, touch, answers, name, list, lz4, mp3, file, typist, tag, word, decoder>>
  \/ part = "lz4" /\ Z!Next /\ UNCHANGED <<part, keys, touch, answers, name, list, huffman, mp3, file, typist, tag, word, decoder>>
  \/ part = "mp3" /\ M!Next /\ UNCHANGED <<part, keys, touch, answers, name, list, huffman, lz4, file, typist, tag, word, decoder>>
  \/ part = "file" /\ L!Next /\ UNCHANGED <<part, keys, touch, answers, name, list, huffman, lz4, mp3, typist, tag, word, decoder>>
  \/ part = "typist" /\ I!Next /\ UNCHANGED <<part, keys, touch, answers, name, list, huffman, lz4, mp3, file, tag, word, decoder>>
  \/ part = "tag" /\ D!get_length /\ UNCHANGED <<part, keys, touch, answers, name, list, huffman, lz4, mp3, file, typist, word, decoder>>
  \/ part = "word" /\ E!send /\ UNCHANGED <<part, keys, touch, answers, name, list, huffman, lz4, mp3, file, typist, tag, decoder>>
  \/ part = "codes" /\ C!Next /\ UNCHANGED <<part, player, bits, info, joint, subbands>>
  \/ part = "bits" /\ B!Next /\ UNCHANGED <<part, player, codes, info, joint, subbands>>
  \/ part = "info" /\ S!Next /\ UNCHANGED <<part, player, codes, bits, joint, subbands>>
  \/ part = "joint" /\ J!Next /\ UNCHANGED <<part, player, codes, bits, info, subbands>>
  \/ part = "subbands" /\ G!Next /\ UNCHANGED <<part, player, codes, bits, info, joint>>

\* Each part's fairness, where the part runs at all.
Fairness ==
  /\ WF_keys(part = "keys" /\ K!on_timer)
  /\ WF_keys(part = "keys" /\ K!check_buttons)
  /\ WF_keys(part = "keys" /\ K!Compare)
  /\ WF_keys(part = "keys" /\ \E failed \in BOOLEAN : K!Called(failed))
  /\ WF_answers(part = "answers" /\ U!SendNextEmpty)
  /\ WF_answers(part = "answers" /\ U!flush)
  /\ WF_answers(part = "answers" /\ U!TransmitCplt)

Spec == Init /\ [][Next]_vars /\ Fairness

(***************************************************************************)
(* The parts' properties.                                                  *)
(***************************************************************************)

\* The state of every part has its types and ranges.
TypeOK ==
  /\ K!TypeOK /\ T!TypeOK /\ U!TypeOK
  /\ F!TypeOK /\ N!TypeOK /\ H!TypeOK /\ Z!TypeOK /\ M!TypeOK
  /\ L!TypeOK /\ I!TypeOK /\ D!TypeOK /\ E!TypeOK
  /\ part = "codes" => C!TypeOK
  /\ part = "bits" => B!TypeOK
  /\ part = "info" => S!TypeOK
  /\ part = "joint" => J!TypeOK
  /\ part = "subbands" => G!TypeOK

\* A held key repeats at its pace, not faster, and every held key does.
KeysRepeat == K!RepeatsSlowly /\ K!HeldIsRepeated

\* A touch is one of a tap, a page and a drag, and what a drag moves the list by is
\* what the finger went.
OneMeaningPerTouch == T!OneMeaningPerTouch /\ []T!ListFollows

\* The host gets the answers in order, each whole, and always the newest.
AnswersArrive == U!ImplementsStream /\ U!NewestArrives

\* A name is found if and only if the pattern occurs in it, and the search through
\* a list stops at the next song that matches.
SearchFinds == []F!FoundIffOccurs /\ N!FindsNextMatch

\* The screen shows the picture that was encoded, if it is as wide as the screen;
\* of a narrower one, the lines that lie within a window.
PictureShown == H!PictureShown /\ Z!PictureShown

\* A song is played from its first frame, and every frame sounds from its own bytes.
DecodesTheSong == []D!BeginsAtSound /\ M!DecodesTheSong

\* What a frame's bits say is what its channels are decoded with: the bits that are
\* looked at are those of the channel; each scalefactor was read, for such a band;
\* each band is shared out or not, once; and each line gets to its own subband.
FrameDecoded ==
  /\ part = "codes" =>
       /\ C!BitsSuffice /\ C!WithinGuard /\ C!TablesAreSet /\ C!LinesFromOwnBits
       /\ q_phase = "start" => C!TablesAreCodes
  /\ part = "bits" => B!ReadsTheBits /\ B!CrcIsDivision
  /\ part = "info" => S!InfoFillsItsBytes /\ S!ScaledByOwn /\ S!PositionsInTable
  /\ part = "joint" => J!ShareEachBandOnce
  /\ part = "subbands" => G!LinesKept /\ G!SubbandsOnce /\ G!LongNeighbours

\* The song that is read for a place is the one that was written there.
ReadsWhatWasWritten == L!ReadsWhatWasWritten

\* The commands that are sent are those that the keys mean, or the one that is
\* nearest to the word.
SentAsTyped == I!SentAsTyped /\ E!NearestIsSent
=============================================================================

# Verification of stm32f412g_player

The firmware plays the MP3 files that the playlists on an SD card name, on an STM32F412G board; programs under
`src/utilities` prepare the card and control the player over USB.  This directory keeps TLA+ models of its parts beside
the code, the TLC runs that check them on small instances, and TLAPS proofs of the properties that matter most, for all
instances.

    tlc -config ViewQueue.cfg MCView.tla        one run; PROJECT.json lists all of them
    tlapm UsbProofs.tla                         the proofs of one module

`PROJECT.json` says for each definition which lines of the source it stands for (`map`), for each run what it shows, for
each property one plausible bug in the code that violates it (`mutants`), and where the code is hard to test (`hazards`).

## 1. The system

### 1.1 Parts, their state, and how they meet

| part | state | operations | who calls it |
|---|---|---|---|
| USB command ring, `usb/usb_command_process.*` | `buffer`, `start`, `end`, `end_buf`, `need_skip`, `need_rd`, `has_interrupted` | `receive_callback`; `usb_process`, `clear` | the USB interrupt; the main loop |
| player core, `view/*` | page, three playing lists (`pl`, `next_playlist`, `jmp_index`), `repeat_counter`, window `plv`, list `pll`, audio file, repeat mode, pause, volume | one handler per key, gesture or command | main loop, from keys, touch, commands and the end of a song |
| playlists, `playlist/playlist.*`, `light_playlist.*` | file descriptor, header, position, path buffer on the heap | `open`, `seek`, `next`, `prev`, `clone`, move, `make_fake` | player core |
| window on a playlist, `playlist/playlist_view.*` | ring of seven names and where it starts, cursor, what is left to draw | `next`, `prev`, `seek`, `open_playlist`, `reset`, `print` | player core, display |
| list of playlists, `pl_list/*` | the names of at most 25 files and a cursor | `init`, `next`, `prev`, `open_index` | player core |
| search, `playlist/find_song.*`, `view/view.cpp` | the pattern and its prefix function, a copy of the list searched last | `find`, `find_next` | USB commands, through the player core |
| audio output, `audio/audio.*`, `audio/mp3.*` | double buffer, `state` set by the DMA interrupt, decoder, position in the file | half and complete callbacks; `audio_process`, seek, pause | DMA interrupt; main loop |
| joystick, `joystick/*`; touch screen, `touch/*` | per key a state and a time; a gesture | timer interrupt; `process` | timer interrupt; main loop |
| MP3 decoder, `audio/mp3/*` (libmad, changed for this player) | the stream's place in the input buffer, the reservoir `main_data`; per frame: a bit pointer, `sideinfo`, the lines of two granules | `mad_frame_decode`, `reuse`; within them `III_sideinfo`, `III_scalefactors`, `III_huffdecode`, `III_stereo`, `III_reorder`, the subbands | audio output |
| tags, `audio/id3.*` | none across calls | `get_length` | player core, when a song is opened |
| pictures, `pictures/*` | none across calls | `display_picture_huffman`, `display_picture_lz4` | display code |
| USB answers, `usb/usb_send.*` | a buffer of answers, what was sent last | `send`, `process` | display code, main loop |
| main loop, `main/*`, `sd_card/*` | whether a card is in and mounted | initialise, play until the card is gone, start again | reset |
| history ring, `utilities/ring_buffer` | cells, where the queue begins, its size, the number of its first byte | `add`, `erase`, `write`, `[]` | multiplexing server |
| multiplexing server, `utilities/multiplex_server` | history ring, an offset per client, queue of commands, clients that still owe a password | one `epoll` loop | host |
| command senders, `utilities/command_sender*` | what was typed and not yet used, commands not yet written, the login; parser of answers, terminal | `poll` loop | host |
| converters, `utilities/convert_*`, `huffman_encode`, `characters` | none across calls | sequential: playlist files, pictures, fonts | host, off line |

The firmware has one main loop.  It takes commands from the ring, reads the keys and the touch screen, decodes into the
half of the audio buffer that is not being played, draws what changed, and starts again from nothing when the card goes.
The handlers of the player core run to their end in it.  Interrupts (USB, the audio DMA, a timer) preempt it anywhere and
share a handful of variables with it: those are the places where interleavings matter.  Everywhere else the difficulty is
failure: any access to the card can fail, in the middle of an operation that has already moved buffers, descriptors and
positions, and the code puts the old state back by hand.

### 1.2 What makes each part correct

- **Command ring.** The main loop takes whole commands with their own argument, each once and in order, whatever packets
  come while it reads; a command that does not fit is dropped to its end; `clear` leaves an empty ring; the ring drains.
- **Player core and playlists.** Swaps, clones and moves between the three lists implement a play queue; the path in a
  buffer is that of the song the position names; no path is copied past a buffer; the number beside a list is that of the
  file its songs come from; what is decoded is what the playing list says.
- **Window.** A line shows the name of the song whose number stands on it; the marks stand on the lines of their songs;
  a redraw of one or two lines leaves no stale line.
- **Audio output.** The half that is written is never the half that is played; no half is skipped; a pause fades once.
- **Decoder.** Every frame sounds from its own bytes, wherever the input buffer was moved or refilled; a seek takes nothing
  along; a song starts with its first frame, behind its tags.  Within a frame, a channel's lines are those whose codes lie in
  its bits; each is scaled by a factor that was read for it; a band is shared out once; a line gets to its own subband.
- **Search.** A song is found if and only if the pattern occurs in it, and the next one after the cursor is.
- **Playlist file.** What the player reads for a place is what the converter wrote there.
- **Pictures.** The screen shows the picture that was encoded.
- **Answers.** The host gets whole answers, in order, and always the newest.
- **Keys and touch.** A held key repeats at its pace; a touch is one of a tap, a page and a drag; a drag moves the list by
  what the finger went.
- **Main loop.** After a card is gone nothing of it is used; a new card starts clean.
- **Multiplexing server.** Every client reads a contiguous piece of the player's stream from a structure's start; commands
  reach the player whole; memory stays bounded; no event is delivered to a descriptor's next owner; only those who proved
  themselves are clients; a reader of frames stays in step with their writer as long as both read the lengths alike.
- **Command senders.** What is sent is what was typed, or the command nearest to it.

### 1.3 What is hard

Interrupts between two accesses; failures between two steps; a cursor moved for long through a ring; counters at their
limits; sequences of calls that are each legal.  The list, each at its line, is `hazards` in `PROJECT.json`.

## 2. The modules

| module | models | with |
|---|---|---|
| `UsbCommand` | the command ring, one action per turn of a loop | proofs in `UsbProofs` |
| `Playlist` | operators on the playing lists: every outcome of every operation | used by `View` |
| `View` | the player core, one action per handler | `MCView`, proofs in `ViewProofs` |
| `PlayQueue` | abstract: what plays, what is queued how often, what holds the queue back | instantiated in `View`, proofs in `ViewProofs` |
| `PlaylistView` | the window on a playlist | `MCPlaylistView`, proofs in `PlaylistViewProofs` |
| `AudioOutput` | the audio double buffer, the decoder's input buffer, the position in the file | `MCAudioOutput`, proofs in `AudioOutputProofs` |
| `RingBuffer` | operators on the ring of `utilities/ring_buffer` | used by `ClientsWrapper` and `CommandPath`, lemmas in `RingBufferProofs` |
| `ClientsWrapper` | the multiplexing server's way from the player to the clients | `ClientsWrapper`, proofs in `ClientsWrapperProofs` |
| `Broadcast` | abstract: what each client has still to get | instantiated in `ClientsWrapper`, proofs in `ClientsWrapperProofs` |
| `Joystick`, `Touch` | keys and gestures between the timer interrupt and the main loop | `MCParts` |
| `UsbSend` | the buffer of answers and the transfer that the USB interrupt ends | `MCParts`, proofs in `UsbProofs` |
| `AnswerStream` | abstract: answers come whole and in order, and the newest is kept | instantiated in `UsbSend` |
| `FindSong`, `FindNext` | the search in one name; the search through a list | `MCParts`, proofs in `FindSongProofs` |
| `Mp3Stream` | the search for frames, the reservoir, and the input buffer around them | `MCParts` |
| `BitPtr` | reading bits, and the checksum | `MCParts` |
| `Huffdecode` | the tables of codes, and a channel's lines from its codes | `MCParts` |
| `Bands` | the bands of a granule's lines, for all rates | used by `SideInfo`, `Stereo`, `Subbands` |
| `SideInfo` | side information and scalefactors of a frame | `MCParts` |
| `Stereo` | which bands of joint stereo are shared out, and how | `MCParts` |
| `Subbands` | the order of the lines, and what is done with each subband | `MCParts` |
| `Id3` | where a song's sound begins | `MCParts` |
| `PlaylistFile` | a playlist's file from the converter to the readers of it | `MCParts` |
| `HuffmanPicture`, `Lz4Picture` | a picture from the host's encoder to the screen | `MCParts` |
| `Keyboard`, `CheckString` | the interactive sender's keys; the other sender's command nearest to a word | `MCParts` |
| `Server` | the multiplexing server's loop and the containers that own its connections | `MCServer`, proofs in `ServerProofs` |
| `CommandPath` | commands from the clients to the player | `MCServer`, proofs in `ServerProofs` |
| `CommandStream` | abstract: the player gets whole commands, each client's in order | instantiated in `CommandPath`, proofs in `ServerProofs` |
| `WebSocket` | frames, sent and received in pieces | `MCServer` |
| `Login` | the packets of a login over TCP, on both sides | `MCServer` |

### 2.1 UsbCommand

`receive_callback` is Receive, then one SkipByte or StoreByte per byte, then Overflow and SpillByte per byte that is left,
then ReturnFromInterrupt.  While `isr` is not "none" only the interrupt moves, so that it is atomic for the main loop, as
on the processor; it can begin between any two accesses of the main loop.  `usb_process` is CallUsbProcess, Test, Fetch,
CopyByte (one per byte of the argument, as `memcpy` can be interrupted), Execute and Advance.  `clear` is one ClearStore
per field and ClearTest.  What a command does is in `View`.

A byte is one of a set: plain commands and the two with an argument.  Each cell carries three labels the code does not
have, for the properties: its command, its index in it, and the number of the command among the accepted ones.  `lost`
becomes true when the ring takes or skips bytes of one command as those of another, and when a clear begins; a clear that ends
between two commands of the host resets it.  A ring that overflows does not set it, also not in the middle of a command: the rest
of that command is skipped and the properties go on (`ResyncsAtBoundary`).  What sets it is the count the overflow leaves
behind: `need_rd` keeps its value when the rest has been skipped (`usb_command_process.cpp:119-123`), and the first byte that
is stored later counts on from it (`:101`), or the next overflow makes it `need_skip` (`:122`).  Where that count is by chance
the right one, all stays in step.  `Framed`, `TakesInOrder` and `ArgumentsIntact` speak of the ring until then, and
`LostByStaleCount` says that it is lost in no other way.

### 2.2 Playlist and View

A descriptor is the number of its file in directory order; a song is the pair of its file and its position, and names its
path.  A playing list is a record of `fd`, `cnt`, `pos`, `len` (the `path_len` of the song header it read last), `sz` (the
size of the path buffer) and `of` (whose path is in it).  An operation that reads the card is the set of its outcomes: the
success, and one for each place at which it can fail.  An outcome that has copied a path into a shorter or null buffer has
`over = TRUE`; the behaviour of the program is undefined from there, so the model's ends there, with `overrun` naming the
place.

Each handler of `process_view.cpp` is an action with all its calls: `process_up/down/left/right/center`, `next_song`,
`prev_song`, `change_volume`, `toggle_repeat`, `play_pause`, `to_end_and_pause`, `set_next_song`, `set_jmp_pos`, `find`,
`jmp`, the end of a song, and the change of a card (`reset` and `init` of `main`).  `change_song` is split by the code's own
structure into operators: ChangeToNext, QueueTaken, QueueDropped, ChangeInList, MovedOn, OpenSongNotFound.  `backup_sz`
is the one field of `change_song`'s static backup that outlives a call before it is set.

Left out: the position in the audio file and the decoder, the codec, the pattern of find (here it finds some song; which
one is `FindSong` and `FindNext`), drawing.
`find` calls `audio_process` between two songs; a song that ends there is a `song_end` step before or after, since `find`
changes only the cursor and `song_end` does not read it.  Two descriptors that are both fake compare equal, as their
fields after `init_fake` are the same.  Lists in `View` fit the window; longer ones are the subject of `PlaylistView`.

### 2.3 PlaylistView

The constants are the code's: a border of 3, a window of 7.  `names` is the content of `name_group` and `name_song`;
`next` and `prev` have a disjunct for each path of the code: empty list, short list, round the end (`jump_over`, which
refills the window), near an end (only the cursor moves), in the middle (one song is read and Shifted in).  A read that
fails leaves what the code leaves.  `playing` is the descriptor and the position of a list that plays, moved by the player
core; `drawn` remembers what the screen shows and is the reference for what may be left undrawn.

### 2.4 AudioOutput

`Interrupt` is either DMA callback; it comes between any two steps of the main loop, also between the three reads of
`state` in `next_pcm_part` (CallNextPcmPart, ReadFull, ReadNone).  A pointer that is not set has any value: `buffer` may then
be a half, or "wild".  `get_pcm_sound` is GetPcmSound, Refill (one turn of the outer loop) and the outcomes of
`mad_frame_decode` (DecodeFrame, DecodeRecoverable, DecodeBufLen, DecodeFails), each allowed whenever the input buffer makes it
possible.  A file is a sequence of units, and the input buffer holds the units themselves, so that the properties can say
which piece of which file the decoder gets.  `new_song_or_repeat`, `seek`, `change_song`, `play_pause`,
`to_end_and_pause`, `toggle_repeat` and the change of a card are steps of the main loop between two calls; which song is
opened is chosen freely here and determined in `View`.  `torn` and `late` record that an interrupt came between the reads,
or after them, in the current call; `failed` that the last read of the file failed.

The frames of a file have one size (the assumption FramesAssumption): 9216 bytes, a half, are two frames of 1152 samples,
four of 576 or six of 384.  A file that mixes them is outside the model.

### 2.5 RingBuffer, ClientsWrapper and Broadcast

A ring is a record with the fields of `ring_buffer`; its operations are operators that return the new ring, since a ring
is a member of the server's classes and has no process of its own.  A cell outside the queue holds `junk`, which no
property accepts in the place of a byte: it stands for fresh memory, and for an erased byte, whose value the code does not
use either.  The largest `size_t` is `2 * HistoryMax`; `add` starts the numbers again as the code does, at half of it.

In `ClientsWrapper`, `pointers`, `less_size` and `not_registred` are the members of `clients_wrapper_t`, `polled` is the
set of clients that are registered for `EPOLLOUT`.  `reg`, `unreg`, `write` and `append` are the code's functions with
the `shrink_to_fit` they end in; `Forget` is what `unreg` does, with its calls.  The loop of `remove_too_big` is taken step
by step: remove_too_big, DropFirst for each client that goes, DropEnds.  `turn` is where the server's loop is: a batch
of events holds at most one event of the player's descriptor, so that `append` comes at most once between two calls of
`remove_too_big`, which `MemoryBounded` depends on.  A client can come at any time in the batch, and go for an error, a
failed read or a failed write.  The socket takes any part of what it is given: nothing when a signal came or while a web
socket's header goes out, all of it in the end.  `StructSize` is `inc_struct_ptr`.  When registering with `epoll` fails in
`append` the program ends; that is left out.

`Broadcast` knows nothing of rings and numbers: `left` is what each client has still to get, `tail` what has come of the
structure the player is in.  In the refinement, `left` is the history from the client's place on, `tail` the history
from `last_full_struct_ptr` on.

### 2.6 Keys, touch and answers

`Joystick`: `check_buttons` reads the pins; `joystick_check` goes through the keys one by one, Compare reads a key's state and
time, Called is the handler that follows and the reset of the time.  The timer interrupt `on_timer` comes between any two of
them.  `Touch`: each turn of the main loop takes one sample, pressed or unpressed, with the arithmetic of directions, speeds
and what is left over (`dolg`, `old`, `direction_mask`); `do_move` is what a drag or the run after it moves the list by.
The handlers of the player core may fail here; what they do is `View`.

`UsbSend`: an answer is a number with a size; `send`, `send_empty`, `flush` and TransmitCplt are the functions of `usb_send.cpp`
and the interrupt's callback.  `CDC_Transmit_FS` copies the buffer, or refuses while a transfer goes on.  In the refinement of
`AnswerStream`, what is underway is the transfer's copy and the buffer.

### 2.7 Search

`FindSong` makes a step of every turn of the two while loops, so that what they read can be checked (the places in
`TypeOK`) as well as what they find.  `FindNext` takes the songs that match as a set and follows the finder's copy of the list
round its end, with reads that fail, and with the cursor moved or another list opened between two searches.

### 2.8 Decoder and tags

`Mp3Stream` has `get_pcm_sound`'s buffer with real moves and refills, `mad_header_decode` with the search for a syncword and the
check of the next one, `mad_layer_III`'s reservoir with what is copied to `main_data` before the bits are read (Preload), the
recoverable errors, seeks and failed reads.  A cell of a file stands for bytes; the arithmetic that makes samples of them is
left out.  `row` and `fresh` are history: the frames that the decoder had one after the other, and whether it has had
anything else since a seek.  `Id3` is `get_length` with reads that give any part of what they are asked for.

The inside of a frame is a chain of parts, each with what the one before leaves as its input:

- `BitPtr` is `mad_bit_skip` and `mad_bit_read` on real bytes, with the 16 bits of `left`, and `mad_bit_crc`, which is
  compared with the division that a checksum is defined by.
- `Huffdecode` has the tables of `huffman.c` as data, a pair `<<offset, bits>>` for a PTR and a value with its length for a V, and
  `Codes`, which goes through them as the lookup does.  A step takes a code at a time, any of the table: how long it is,
  how many bits are looked at to find it, and whether its values are zero, fifteen or neither decide what is read next.
  `cachesz` and `bits_left` are those of the code; `spare` and `inside` are history: the bits that the last look left over, and the
  lines whose codes lie within the channel.
- `Bands` has the tables of widths as they are.  `SideInfo` counts the bits of the side information and follows each
  scalefactor by what it was read for (a band of a long, short or mixed block, or the flags of the illegal positions) and its
  number of bits, in the `sideinfo` that is never cleared.
- `Stereo` takes the right channel's silent bands and illegal positions as sets, and does with them what the loops over the lines do.
- `Subbands` moves the numbers of the lines through `III_reorder`, and notes of each subband where its lines began, with
  which window it was transformed, how often it was overlapped and inverted.  What a transform computes is left out.

### 2.9 Playlist files and pictures

`PlaylistFile` has `convert_playlist` write a file, and `light_playlist` and `playlist::seek` read it where the descriptor stands; the
descriptor is moved by failures, copies and restores, as in the code.  `HuffmanPicture` builds the tree as
`huffman_encode.cpp` does and reads the codes as `display_picture_huffman.cpp` does, whole bytes with the table of two
steps; `Lz4Picture` finds the shortest sequence of blocks as `lz4_encode.cpp` does, and copies them in pieces that are longer than
they are, as `display_picture_lz4.cpp` does.  It draws what a full window holds by pixels; a line that begins in one window
and ends in the next is put together in `old_line` with the code's numbers: of pixels, where `memcpy` takes bytes (see 4).

### 2.10 Senders of commands

`Keyboard` is `escape_buffer`: a read ends anywhere, and what may be the beginning of a command waits in `chars`.  A pass
over what has been read is one step, as nothing comes between (the functions `put`, `match` and `search_input` are recursive, as
the loops of the code are).  `CheckString` calculates the distance row by row from two rows, as `diff_string` does; the property
compares it with the distance by its definition.

### 2.11 The server's loop, commands, frames and logins

`Server`: a turn is Wait, then an event at a time, then the errors of the batch once more, then those who are ready or late.
Descriptors are numbers and `accept` gives the lowest closed one, so that a number comes back within a batch.  `connection`
tells who has it and `registered`, `interest` what `epoll` knows.  What a checker waits for is a state (`send`, `recv`, `key`,
`answer`, and the ends `yes`, `no`, `too big`).  `CommandPath` has `clients_wrapper_t::read`, which passes on whole commands and keeps
the rest, and `com_wrapper_t`, whose ring is a `RingBuffer`; its bytes are labelled with the command they begin, which the code does
not look at, so that what arrives can be told apart.  `WebSocket` has both sides of a frame and the browser's, which are
masked and may be empty; every call of the socket takes or gives a part, and a write may fail.  A byte of a length has the number that
the other side reads in it: the code copies longer lengths in the host's order of bytes, in both directions (`web_socket.cpp:46-57`, `:122-131`), and
a browser has the network's, so that from `short` on it is `other_order` of the length.  `agreed` says that so far each announced
length was the same to both sides and that no write failed amid the data; then the reader is where the sender thinks it is
(InStep).  Otherwise it takes bytes of one part for those of another sooner or later (`in_step`); the numbers, masks and lengths it reads in
them depend on the bytes' values, and may be any of `Misread`.  `Login` has both sides of a login, `pass_checker` and
`client_socket_t`, with the packets' length and value in parts.

`MCParts` and `MCServer` put parts together that share no state: a behaviour is one of one part, chosen at the start, and the
others keep their initial state.  The number of states is the sum, and each part's fairness is asked where the part runs.

## 3. The runs

| run | shows | instance |
|---|---|---|
| `usb_command` | Framed, TakesInOrder, ArgumentsIntact, ClearIsAtomic; Drains under FairSpec | ring of 4, arguments of 2 and 1, packets to 3, 5 bytes in all |
| `view_queue` | TypeOK, PathMatches, ImplementsQueue | two lists of 2 and 1 songs, one of them a directory; choosing, queueing, marking |
| `view_browse` | StepsFit, NowPlaying, IndexMatches, OnlyOpenedSongs | all keys but the queue's, find, jmp, other cards, paths of two lengths, an empty list |
| `view_open` | OpenFits is violated | as `view_browse` |
| `playlist_view` | WindowNames, RedrawSound | lists of 0, 1, 7, 9, 14 and 16 songs |
| `playlist_view_eight` | SelectedShown is violated | a list of 8 songs |
| `audio_output` | WritesQuietHalf, RoomUnlessTorn, StreamContiguous, PlayRuns; Serves under FairSpec | a file of 4 units with two frames to a half, one of 5 with frames longer than the input buffer of 3 |
| `audio_room` | RoomForFrame is violated | as `audio_output` |
| `clients_wrapper` | MemoryBounded, ImplementsBroadcast; Delivers under FairSpec | two clients, structures of 1 and 3 bytes, a history of at most 4 bytes and a read of 2, numbers that start again at 7 |
| `parts` | TypeOK, SearchFinds, FrameDecoded, PictureShown, ReadsWhatWasWritten, SentAsTyped, DecodesTheSong, OneMeaningPerTouch; KeysRepeat and AnswersArrive under Fairness | see below |
| `server` | TypesOK, OwnedAndPolled, OnlyAdmitted, EventsMeetTheirOwn, InOrder, ImplementsCommands; GoneAreClosed and AllArrives under Fairness | see below |
| `server_reuse` | ErrorsCloseTheirOwn is violated | as `server` |

**Why the bounds are enough.**  *Ring:* its size only matters relative to the longest command; with 4 cells and commands of
1, 2 and 3 bytes the ring wraps inside an argument, fills in the middle of a command and between commands, and overflows
with a packet that holds the end of one command and the start of the next.  Five bytes go round it; `MaxSame = 1` makes the
third equal command in a row the one that is skipped.  The proofs remove the bounds.  *View:* two lists are what the swap
of `pl` and `next_playlist` needs, and a third list could only be `jmp_index`, which is never swapped; two songs give a list
a next one and an end to go round; a directory in place of a song makes the search for one that opens go on or fail.
`repeat_max = 2` reaches the limit and the countdown; `UINT32_MAX = 9` lets a wrong decrement wrap where TypeOK sees it.
Sets of inputs keep the runs small: the handlers of one set do not read what those of another change, except through
state that both sets reach (the window's cursor).  *Window:* 3 and 7 are the real constants.  The lengths are the code's
cases: empty, shorter than the window, as long, at least twice as long, in between; 16 songs let the ring go round
in one walk through the middle.  The proofs cover all lengths.
*Audio:* files longer than the input buffer, one of them behind a tag; one whose frames fill a half in two, and one in which the
decoder finds none, so that a full input buffer must give up a part of it.  The proofs cover all sizes.
*History:* an allocation has one cell to spare, so that the ring goes round, grows and is given back within a few bytes; a
structure of three bytes is longer than a read, so that a client joins in the middle of one; with half of the bound of 4 a
client is dropped while the other stays; the numbers start again after 7 bytes, with clients at different places.
*Keys:* a first and a last key stand for the order; three ticks to wait are more than one and less than a
behaviour.  *Touch:* eight places: a middle, within the offset, beyond it on each side, and in a direction that is neither; all the
times and speeds are scaled so that each limit is met and passed.  *Answers:* three sizes in a buffer of eight, so that the
buffer is half full, full, and refused; seven answers go round it more than once.  *Search:* every pattern of up to five
characters and every name of six, of two characters: a pattern has borders within borders from four on.  Lists of 3, 1 and 0
songs, of which any match.  *Pictures:* four symbols in a tree of two branches give codes of one to three digits, two lines of
four bytes give codes that end at, before and after a byte; for blocks, a window of one line of five pixels, ten
bytes, blocks of at most 5 with at most 3 repeats, pictures of one and three lines as wide as the window, and of three to six
narrower lines that begin in one window and end in the next.  *Decoder:* songs of
four or five frames that refer to none, one or two frames before, a frame without bytes of its own, and bytes that look like headers
of frames that end where others begin, with an input buffer of 9 cells that holds two or three frames.
*Bits:* seven bytes, read and skipped by 0 to 20 at once: within a byte, to its end, over one and over two; and two checksums' data.
*Codes:* twelve lines in bands of 4, 2, 2 and 4, so that a pair and a quad begin, cross and end at a band's border; channels with
too few bits, none, some that end in a code, and enough; tables with codes of up to 19 bits, with 13 linbits, and one that there is
not; the cache is the real one, of 32 bits.  *Side information:* one and two channels, one and two granules, all kinds of blocks, copied
groups or none, and LSF compressions of each of the six ways that they are read.  *Joint stereo:* the real bands of seven rates, with
the last ones heard in any two windows.  *Subbands:* the real bands of three rates, and limits at a subband's
border, next to it on both sides, and far away.  *Playlist files:* two
files; a song that is left out stands between two that are not, and paths have one to three names.  *Keyboard:* five keys
of six kinds, or three when characters of several are read at once: a key of an escape sequence, one that is a command, the
search, half of the jump, a digit, and one that means deletion.  *Tags:* files of one, three and five bytes, each byte one of the three that
matter, behind either tag or none.  *Words:* all of up to four letters against three commands of two to four.
*Server's loop:* two descriptors and three connections, so that a number comes back within a batch; one
place with each checker and among the clients, so that both are full.  *Commands:* two clients with commands of one to three
bytes, read up to three at once, in a ring whose numbers start again at 5.  *Frames:* sizes 0 to 6 meet all three
encodings of a length (0 and 1; 2 to 4; from 5 on), the reader takes three bytes at once, six bytes in all.  The bytes of a
length have three values each, so that 4 and 6 are the same in both orders, and 2, 3 and 5 become 6, 1 and 21: a frame
that is longer, or shorter, to who hears it.  A reader out of step finds an empty frame, one with a longer length, or a mask
(`Misread` is 0, 2 and 7), and a browser sends no more to one that has taken more for data than was sent.
*Login:* lengths of three cells and values of two and four, passwords of none to three characters, where one is the most that is encrypted.

**Fairness.**  FairSpec of `UsbCommand` asks that an interrupt that has begun goes on (weak fairness: nothing preempts it)
and that the main loop runs between interrupts (strong fairness: an interrupt disables its actions for a while, but packets
come far apart for the processor).  `Drains` also assumes that framing is not lost for good and that the card is not
changed for ever.  FairSpec of `AudioOutput` asks that the main loop calls `audio_process` again and again and that the call goes on:
the loop of `main_player` has no other wait.  `Serves` excludes pauses, the end of a file and failed reads.
FairSpec of `ClientsWrapper` asks that a client that stays and is polled is written to: `epoll` is level-triggered and
reports it in each turn until it has been.  This assumes that clients read; the sockets block, and one that never reads would
stop the loop: an accepted socket is never made non-blocking (`simple_socket.h:20`), and how long a write blocks is outside the
model, in which a write takes any part of what it is given.  `Delivers` is about a player that is silent from some time on, as the history of a client
that is too slow is given up on purpose.
In `MCParts`, the timer fires and the main loop goes on with the keys; the main loop goes on with `send_empty` and `flush`,
and the USB interrupt ends a transfer it has begun.  In `MCServer`, the loop goes on (`GoneAreClosed`); the player's device
takes bytes while it is polled, and so do the sockets of both ends of a frame; both sides of a login go on, and the
user types what he is asked for.  All of these are weak: what they ask for stays possible until it happens.

**Deadlock** is checked in the runs of the components that never stop, where idle steps exist because the code's loops never
end.  It is not in `parts`, `server` and `server_reuse` (CHECK_DEADLOCK FALSE): a search, a picture, a tag, a word and a login
end; keys, answers, connections, commands and frames come in a bounded number, and when the last has been served nothing is left
to do.  What must come before such an end is said by SearchFinds, FrameDecoded, AnswersArrive, GoneAreClosed and AllArrives.

## 4. Findings

1. `view_open`: `playlist.h:66` says of `playlist::open` that `backup.lpl.song.path_len <= song.path_len`.
   `play_new_playlist` and `set_playing` pass as backup the list they have just moved from, so that the open starts with a
   null buffer: a first read that fails copies the old path to it.
2. `playlist_view_eight`: in a list of 8 to 13 songs `pn_common` takes a place of the ring modulo the number of songs
   before it takes it modulo 7, and puts the name that enters on the wrong line.  `WindowNames` therefore excludes these
   lengths, and is proved for all others.
3. `audio_room`: the DMA interrupt between the second and the third read of `state` makes `next_pcm_part` pass a pointer that
   was never set to the decoder (`mp3.cpp:65` says what it points to).
4. `server_reuse`: a descriptor that the first pass over a batch closes may be given to a new connection in the same batch, and
   the second pass closes that one (`server.cpp:104`).

Each is what the code does, with the line of the repository that says otherwise, in `findings`.

Other things the models had to follow, about which the repository says nothing, and which no property asks for:

- *Window and lists.*  After an open that failed the window is empty but has the descriptor of the old list;
  `check_near` accepts any position in an empty list, and `print` marks a line beyond the last (`playlist_view.cpp:227`).
  `process_right` that fails after it has changed the state, `set_playing` that fails with `inc_value = 1`, a queue that is
  dropped while nothing plays and a search that fails return without a redraw; the list of lists always redraws all of it.
- *Audio.*  A song ends, and a soft pause begins, when the file has been read; up to an input buffer of it has not been played
  then and is dropped (`audio.cpp:112`).  With `repeat_mode` on, a song is repeated also when nothing plays
  (`process_view.cpp:417`).
- *Decoder.*  A failed read puts eight zero bytes into the stream, which costs a frame or more.  After a refill the
  search takes the next syncword without looking at the one that follows (`sync` is 1).  With `NDEBUG` the assertion on
  `MAD_BUFFER_MDLEN` is gone; the bound holds.  `mad_stream_reuse` clears `*main_data` (`stream.c:83`), which is allocated
  with the first frame: the first song is decoded from a stream that has none, with a null pointer.  The model begins with an
  empty reservoir in both cases.
- *Tags.*  `get_length` looks for the tag of the first version at the begin of a file.
- *Keyboard.*  When one read has two commands of which the second stands before the first in `int_commands`, the second loses
  its first character ("ggs" loses the s, "gg/" the search, so that its text acts as commands); digits behind a command
  lose the first.  `SentAsTyped` therefore speaks of keys that are read before the next is typed.
- *Pictures.*  The branches of `display_picture_lz4.cpp` for pictures narrower than the screen copy a line that is cut by the
  end of the buffer with its number of pixels as the number of bytes (`:131-132`, `:146-147`): the second half of either part
  is not copied, and what stood in `old_line`, uninitialised at first, is drawn.  No caller has such a picture: `start_image` and
  `song_image` pass a width of 240 (`display_picture.cpp:32-53`), and nothing in the repository says what the branches
  are for.  `PictureShown` says of a cut line that the first halves of its parts are right, and of every other line that all of it is.
- *Touch.*  `touchscreen.h` speaks of a distance of 20 where the code has 5.
- *Frames.*  Lengths from 126 on are in the host's order of bytes on both sides (`web_socket.cpp:46-57`, `:122-131`), a browser's
  in the network's.  Such a frame is therefore of another length to who hears it, unless its bytes read the same in both
  orders, and the reader loses step with the frames.  A write that fails amid the data returns -1, which is taken off
  what is announced (`:152-153`): with EINTR or EPIPE, which `ring_buffer::write` lets pass, one byte more follows than the header
  says.  And `mask[i % 4]` counts from the begin of a read (`:97`), so that all bytes of a masked frame which a read gives that
  did not begin at a multiple of 4 are unmasked wrongly.  Nothing in the repository says what frames should be; `InOrder`
  and `AllArrives` speak of the time before the first two, and of the third `InOrder` says exactly which bytes are spoilt.
- *Server.*  A hang-up with more than one read's worth
  of commands unread loses the rest.  The late are closed in the turn after the next event, since `epoll_wait` has no timeout.
- *Ring.*  After an overflow in the middle of a command that one is skipped to its end, but `need_rd` still has the count
  that was left of it.  The next command that finds room goes by it: of another length than the count, it is cut or joined with what
  follows, and so on until the ring is cleared.

## 5. The proofs

`UsbProofs` proves of the command ring, for every ring, every length of the two arguments and every packet: the type invariant,
Framed, TakesInOrder, ArgumentsIntact, ResyncsAtBoundary, LostByStaleCount, CommittedUntouched and ClearIsAtomic.  It assumes
`SizesAssumption` (sizes are positive, the ring is at least two bytes longer than an argument; the code has 20) and
`BytesAssumption` (the command bytes differ).  None of the invariants is inductive: that the ring holds whole commands
does not say what lies between `end` and `end_buf`, nor what `need_rd` counts.  The inductive invariant `IInv` adds the
pending command's bytes (`PendingInv`: it is stored to its end, or given up and skipped to its end), the numbers of the commands (`NumberInv`), what the interrupt's locals are
(`IsrInv`) and where the main loop stands relative to the command it is taking (`MainInv`), all of it until framing is lost;
and `ClearInv`, which says that a field clear has reset stays so unless `has_interrupted` is set.  A lemma for each
action that moves an end of the ring (StoreFraming, SkipFraming, OverflowFraming, AdvanceFraming) works on distances from
`start`, so that the modulus appears only in the lemmas about Wrap and Dist.

`PlaylistViewProofs` proves, for all lists, the type invariant, WindowNames, MarkExact and RedrawSound, assuming only
`ListsAssumption`.  WindowNames is inductive together with TypeOK: NamesByPlace turns "line i shows song First + i" into what
each place of the ring holds, and ShiftedDown and ShiftedUp show that the one name a move overwrites is the one that leaves
the screen.  The length matters in one lemma only, ReducedIsRound: for lists outside 8 to 13 pn_common's two remainders are
one.  MarkExact follows from TypeOK by the definition of the window.  RedrawSound is inductive given both.

`ViewProofs` proves, for every card - up to seven playlist files, any number of songs that fits the window, paths of every
length, directories in place of songs, any access failing - and every sequence of keys and commands: the type invariant, PathMatches,
NowPlaying, IndexMatches, StepsFit, OnlyOpenedSongs, and that `View` implements `PlayQueue`.  None of the invariants is inductive
alone.  The inductive invariant `IInv`, which Invariance proves, is of these parts:

- ListOK of each of the three lists: a list that has songs stands at one of them, with the path of that song in a buffer which is at
  least as long as it (Stands).  StepsFit rests on it: `seek` restores the backup's path only into a buffer that has held it,
  because moving in a list never makes the buffer shorter (SteppedOK).  PathMatches is a part of it.
- Counted: what is queued is to be played at least once more.  Without it `--repeat_counter` would go round, and a step of
  the queue would not be one of `PlayQueue`.
- Decodes (NowPlaying), Indexed (IndexMatches), and the same for the window and for the list of lists (PlvOK, PllOK).
- PagesOK: nothing plays before a list has been looked at.  A choice that fails before would otherwise leave a queue without a
  playing list.

IInv was itself model-checked, as an invariant of the states of `view_queue` and `view_browse`, before it was proved.  The proof
goes up the calls: what the outcomes of a seek and of an open are
(SeekFails, CloneOK), what a walk along a list to the next song that opens does (StepOK, MovedOnOK, NotFound), what change_song
does to the queue (LastTaken, TakenAgain, DroppedOK), choosing a song with what is put back when that fails
(PlayOK, PlayNewPlaylistOK), and then each handler.  The only argument that is not a case analysis is LongestExists: the model takes the
length of a buffer after several moves as the greatest of the lengths it has met, and that there is one is shown by the least number
of moves without.

StepIs then says what any step may do to the three lists: nothing, a change of song (Changed: a move in the list, the queue
taken, or the queue dropped), a start (StartedAt), a new queue (NextSet), a mark (MarkSet), or an empty player (AllFake).
OnlyOpenedSongs and ImplementsQueue are proved from this classification: MoveInList, Take, Drop, Start, Enqueue, Mark and
Eject of `PlayQueue` are one lemma each (InListMoves, TakenTakes, DroppedDrops, StartedPlays, NextSetEnqueues, MarkSetMarks,
FakeEjects).

It assumes `ListsAssumption` (a list has at most the seven songs of the window, as a longer one is the subject of
`PlaylistView`; a path has at least one character), `BoundsAssumption` (a card of n lists has the files 0 to n - 1, and n is at most
`view_cnt`, so that every list is in the window on them; the code has up to 25, and its branch for a playing list
outside the window, `process_view.cpp:370-371`, is not modelled; the counters are smaller than the largest `uint32_t`) and that the values which stand for "no file" and "no path" are no files, songs or
paths (`FakeAssumption`, `NoPathAssumption`).  It says nothing of OpenFits, which the code violates (finding 1): the model's behaviour ends
where the program's is undefined, so every theorem is about the steps up to there.

`AudioOutputProofs` proves, for all files, buffer and frame sizes, the type invariant with the bound of the input buffer,
WritesQuietHalf, RoomUnlessTorn and PlayRuns.  The inductive invariant adds StateInv (what `state` names is not played, but for
the call after a change of the card, which plays silence), BufferInv (what each read of `state` has made of `buffer`) and
FramesInv (a half holds whole frames; the only arithmetic is RoomForOne, about multiples of a frame).

StreamContiguous rests on Contiguous, which holds at all times: what the decoder has still to get from `input_buffer` are
the units of the file from a place on, once each, as whoever moves in the file also empties the buffer or sets `seeked`.  The step
with an idea in it is `Refills` (RefillContiguous): the tail of the buffer moves to its front and the file is read behind it, so what is
behind a place is counted by a bijection (Shifted).  FilesAssumption says that the zeros behind the end of a file are none of its
units.

`RingBufferProofs` proves what `add` and `erase` do for every ring: EraseKeeps and AddKeeps say that the bytes that stay keep
their values under their numbers, through growth, a new start of the numbers, the way round and the return of memory.  The
arithmetic of the way round is in one lemma, Circle, about any four naturals.

`ClientsWrapperProofs` proves with it, for every ring, structure length, bound and set of clients, the type invariant,
LessSizeMatches, WokenWhenBehind, MemoryBounded and GivesNext.  MemoryBounded is not inductive: why the history is short again
after `remove_too_big` depends on the last structure, of which less than its length has come (PartIncomplete), on the turn
(SizeByTurn), and on every operation that frees memory ending in `shrink_to_fit` (CapacityFollows).  That append's search
ends at such a structure is by the least counterexample: lemma Least takes the least member of a set of naturals from
NatLessThanWellFounded and WFMin, and so does SearchDefined, which shows that the recursive function exists.  It needs
`ClientsAssumption`: a structure is at least one byte and at most `max_capacity` long, and the history fits under
`HistoryMax`.

Its last part proves ImplementsBroadcast: Init maps to Init, `reg` to Join, `unreg` and DropFirst to Leave, `write` to
Deliver or a stutter, `append` to Send, the others to stutters.  The two steps with an idea in them are that nothing freed is
needed (ShrinkInvisible), and TailFound: the code looks for structures by jumps in the ring, the abstract specification
follows them byte by byte, and both end at the same place.

`ServerProofs` proves, for every set of descriptors, all limits and any number of connections, the type invariant with the limits of
the containers, OwnedAndPolled, ClientsAdmitted and EventsMeetTheirOwn, and with them OnlyAdmitted, of the loop and of a login.  The argument is in two halves.  `Move` says what one step of a container does, whichever it is: one
descriptor is freed, heard or in one of the three others with what it waits for, and nothing else changes.  Every handler is
shown to be such a step (AcceptMoves, DoesAuth, ErrorMoves, CheckWebInitMoves, ...), and the invariant is kept by any (MoveOwned,
MoveTypes, MovePassed, MoveLimits).  EventsMeetTheirOwn needs two facts of the batch more (Batch, Pending): it has one event of each
descriptor, of a connection that was open, so that neither the work for another event nor `accept`, which takes a
closed descriptor, can be in its way; and while events are left there is a closed descriptor for each listener among them.
The same argument breaks in the second pass over the batch, which is finding `server_reuse`: an event that has been handled
is not protected by Pending any more.  `ServerAssumption` says that there are finitely many descriptors, and that the three listeners
are others.

For a login the invariant (`LoginInv`) says where the bytes are: what the client has got of the key and what is on the wire behind
it are a beginning of the key (KeyGoesDown); what the server has got of the packet, what it has heard behind that and what is on the
wire behind both are a beginning of the packet and the command that follows it (PasswordGoesUp), and there is more than the packet
only when the client has gone on.  `Holds` says so by positions, so that every read and write of a part is one application of Cut and
Joined.  The step with an idea in it is that the checker never asks for more than the packet has (Asked): its length is
what the packet begins with, and is not used before all of it is there.  `LoginAssumption` says that the lengths are not zero and that
the longest password fits the buffer.

For the frames of web sockets the theorems are InOrder, and that the reader stays in step with the writer, both as long as the
two sides agree on the lengths; `other_order` is any function from the lengths to numbers, the order of bytes of the host
included.  The invariant (`FrameInv`) has two parts: the types (`Framed`), which are kept by whatever a reader out of step does,
and `Exact`, which holds while `agreed` does.  It compares the reader with one who takes the bytes one by one: such a reader, beginning where the code's reader is (`Now`) and taking all that
is on the line and the header that is still to be written, finds every byte to be of the kind it waits for, and comes to where the
sender is (`Ending`): to the next header, or to as much data as are still announced.  `Runs` says so of any number of bytes within one
part of a frame, so that a piece, whatever its length, is one step of the argument: what is written is appended to the
run (RunFurther), what is read is taken from its begin (RunFrom).  A byte of a masked frame is spoilt if and only if its read began elsewhere than at a multiple
of `mask_size` (SameKey, OtherKey).  `WebSocketAssumption` says that the sizes are not zero, that the two marks for longer lengths differ, and
that a length is a number in the other order too.

For the way of commands the theorem is ImplementsCommands: each `read` is a Pass of `CommandStream` or a stutter, each `write` and `unreg`
a stutter, as what the device takes leaves the ring and joins what the player has.  The invariant (`CommandInv`) counts: of each
client's commands the first `got[f]` have been passed on (`PassedOn`), and while the client is connected what has been read of the next and what it has
still to send are the bytes of the others (`Comes`).  The step with an idea in it is EndsWhole: `inc_command_ptr` looks only
at lengths, and ends behind a command because it begins at one; as the function goes upwards, the induction goes down from the last
command (Upwards).  Grouped, MovedOver and SplitTheSame say that strings may be cut and joined elsewhere, and the
lemmas about the ring are those of `RingBufferProofs`, for this ring.  `CommandPathAssumption` says that a command is as long as
`calc_need_rd` makes it from its first byte, which is what the clients and the player agree on (`usb_commands.h`), and that
a first byte, with its label, tells a command from the others.  Without the last, `Passed` of the abstract specification
could not tell by the bytes what has come.

With these invariants, and those of the loop, the frames and the login, AllTyped proves TypesOK.

`UsbProofs` also proves, for every size of the answers' buffer and of the answers and every moment at which a transfer ends, the type
invariant, NewestInv and that each step is one of `AnswerStream` or a stutter.  Both follow from one description of what
`add_to_buff` does (`Adds`): of the answers that are underway, in the transfer or behind it, a beginning stays, and the new one
comes behind it.  A full buffer never gives up a part of an answer, because `add_to_buff` starts again with the new
one, which fits by `UsbSendAssumption` (an answer is shorter than the buffer).

`FindSongProofs` proves, for every pattern and every name, that the loops read within their arrays (TypeOK) and that the
pattern is found if and only if it occurs (FoundIffOccurs, the first half of SearchFinds).  The invariant says that the table has, as far as it is filled, the
longest border of each beginning of the pattern, that what is matched stands at the end of what is read, and that nothing longer
can go on with the next character (NoLonger).  `Ends` is about the name or the pattern itself, so that both loops rest on the
same two lemmas: BackStep, that going back to the longest border gives up nothing, and NextStep, that going on gives the
longest there is.  As the model takes the loops turn by turn no induction over the pattern is needed.  `FindSongAssumption`
says only that the sizes are natural numbers.

TypeOK of the modules with a run of their own but `View`, NewestInv, MarkExact, CommittedUntouched, ResyncsAtBoundary, LostByStaleCount, GivesNext, LessSizeMatches and
WokenWhenBehind, and InStep of `WebSocket`, are proved for all instances, and no run checks them; the TypeOK of `MCServer`'s parts and ClientsAdmitted of `Server` are checked
as parts of TypesOK and OnlyAdmitted.

Only model-checked: liveness (`Drains`, `Serves`, `Delivers`, KeysRepeat, AnswersArrive, GoneAreClosed, AllArrives), as
the prover has no rule for fairness; and the other parts of
`MCParts`, with all of FrameDecoded, of which several compare the code with a recursive definition, which the prover cannot unfold.

## 6. Not modelled

- *The player:* the sample arithmetic of libmad (requantisation with `III_exponents`, the transforms of `III_imdct_*`, `synth.c`):
  numbers without control flow of their own, for which TLC has neither the width nor the fractions; its layers I and II and free
  bit rates; the length of a song in
  `get_length`; drawing, which reads the state and changes none of it; the board's initialisation and the loop of `main`
  around the handlers, which keeps no state but whether a card is in (the change of a card is in `View`,
  `UsbCommand` and `AudioOutput`); the USB device's descriptors and configuration, and the FAT, HAL, BSP and display libraries,
  which are not in the repository.
- *The host:* the parser of the player's answers and what the terminal shows of them, cryptography and the text of the web
  handshake, failures of `accept` and `epoll_ctl`, the converters of fonts, characters and names.

- *`playlist::clone` of an empty list:* it copies `path_len` characters (`playlist.h:61`), and an empty list keeps the
  `path_len` of the list before it, while its buffer may be null.  `View` records such a call (`overrun = "clone"`) and ends
  the behaviour there, as nothing in the repository says what should happen.

What could be proved next: of `PlaylistFile` that the offsets of the converter are those the readers
seek to.

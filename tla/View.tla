-------------------------------- MODULE View --------------------------------
(***************************************************************************)
(* The player core: struct view (view/view.{h,cpp}, view/process_view.cpp) *)
(* with the three "playing" playlists it owns (pl, next_playlist and       *)
(* jmp_index), the playlist and the list of playlists that are looked at   *)
(* (plv, pll) and the audio file that is decoded.                          *)
(*                                                                         *)
(* Every handler runs to its end in the main loop, so it is one action.    *)
(* Every access to the card in it can fail.  The handlers' return codes    *)
(* are not kept: main_player drops them.                                   *)
(*                                                                         *)
(* Not in this module: the position in the audio file (seek_forward,       *)
(* seek_backward), the decoder and the codec, the pattern of find, what is *)
(* drawn.  Lists are at most view_cnt long, so that the window of plv      *)
(* holds the whole list and moving in it reads nothing from the card.      *)
(***************************************************************************)
EXTENDS Playlist

CONSTANTS
  CardSizes,            \* bound: how many playlist files a card may have
  repeat_max,           \* 999
  volume_max,           \* 100
  volume_start,         \* 70
  UINT32_MAX,
  Inputs                \* bound: what the user does in a behaviour

ASSUME BoundsAssumption ==
  /\ CardSizes \subseteq 0 .. view_cnt
  /\ \A n \in CardSizes : 0 .. n - 1 \subseteq Lists
  /\ repeat_max \in Nat \ {0}
  /\ volume_max \in Nat /\ volume_start \in 0 .. volume_max
  /\ UINT32_MAX \in Nat /\ repeat_max < UINT32_MAX

max_plb_files == 25

VARIABLES
  state, state_song_view,
  pll,                  \* cnt, pos: the list of playlists and its cursor
  plv,                  \* fd, cnt, pos, len, index: the playlist looked at
  pl, next_playlist, jmp_index,  \* index, value
  repeat_counter,
  backup_sz,            \* path_sz of the static backup of change_song; clone
                        \* sets the rest of it before it is read
  audio_file,           \* Fake, or the song or directory that was opened
  repeat_mode, pause_status, volume,
  overrun               \* where a path was copied past its buffer

lists == <<pl, next_playlist, jmp_index, repeat_counter, backup_sz, audio_file>>
pages == <<state, state_song_view, pll, plv>>
audio == <<repeat_mode, pause_status, volume>>
vars  == <<lists, pages, audio, overrun>>

----------------------------------------------------------------------------
NullPlaying == [index |-> max_plb_files, value |-> NullPlaylist]

ResetPlaying(p) == [index |-> max_plb_files, value |-> MakeFake(p.value)]

IsFake(p) == p.value.fd = Fake

\* The part of the state that changing the song works on.
Player == [pl |-> pl, next_playlist |-> next_playlist, jmp_index |-> jmp_index,
           repeat_counter |-> repeat_counter, backup_sz |-> backup_sz,
           audio_file |-> audio_file, overrun |-> "no"]

Overrun(s, where) == [s EXCEPT !.overrun = where]

\* Nothing is known of the state after an overrun: the behaviour ends there.
Becomes(s) ==
  /\ overrun' = s.overrun
  /\ IF s.overrun # "no"
       THEN UNCHANGED lists
       ELSE /\ pl' = s.pl
            /\ next_playlist' = s.next_playlist
            /\ jmp_index' = s.jmp_index
            /\ repeat_counter' = s.repeat_counter
            /\ backup_sz' = s.backup_sz
            /\ audio_file' = s.audio_file

----------------------------------------------------------------------------
IsDir(song) == song \in Song /\ is_dir[song[1]][song[2]]

OpensAnything(song) == song \in Song  \* mutant: is_dir is not looked at

Opens(song) == song \in Song /\ ~IsDir(song)

(***************************************************************************)
(* open_song_not_found: the first song from q on that opens, at most once  *)
(* round the list.  A song whose path names a directory is not played, but *)
(* its descriptor stays in audio_file.                                     *)
(***************************************************************************)
OpenSongNotFound(q, backup, direction, old) ==
  LET At(j)     == Stepped(q, direction, j)
      Left(j)   == {old} \cup {d \in {At(i).of : i \in 0 .. j - 1} : IsDir(d)}
      End(r, file, ok, over) ==
        [q |-> r, file |-> file, ok |-> ok, over |-> over]
  IN IF q.cnt = 0 THEN {End(q, old, TRUE, FALSE)}
     ELSE {End(At(j), At(j).of, TRUE, FALSE) :
             j \in {i \in 0 .. q.cnt - 1 : Opens(At(i).of)}}
          \cup {End(At(q.cnt), file, FALSE, FALSE) : file \in Left(q.cnt)}
          \cup UNION {{End(o.q, file, FALSE, o.over) :
                         o \in StepFailures(At(j - 1), direction, backup),
                         file \in Left(j)} : j \in 1 .. q.cnt}

Backup(s) == [NullPlaylist EXCEPT !.sz = s.backup_sz]

(***************************************************************************)
(* change_song inside the playing list.                                    *)
(***************************************************************************)
\* mutant: the list is not taken back when none of its songs opens
MovedOnAnyway(s, direction, backup, n) ==
  IF n.over THEN {Overrun(s, "step")}
  ELSE IF ~n.ok THEN {[s EXCEPT !.pl.value = n.q]}
  ELSE {[s EXCEPT !.pl.value = o.q, !.audio_file = o.file]
        : o \in OpenSongNotFound(n.q, backup, direction, s.audio_file)}

MovedOn(s, direction, backup, n) ==
  IF n.over THEN {Overrun(s, "step")}
  ELSE IF ~n.ok THEN {[s EXCEPT !.pl.value = n.q]}
  ELSE {IF o.over THEN Overrun(s, "step")
        ELSE IF o.ok
          THEN [s EXCEPT !.pl.value = o.q, !.audio_file = o.file]
          ELSE [s EXCEPT !.pl.value = backup, !.audio_file = o.file,
                         !.backup_sz = 0]
        : o \in OpenSongNotFound(n.q, backup, direction, s.audio_file)}

ChangeInList(s, direction) ==
  UNION {IF ~c.ok THEN {s}
         ELSE IF c.over THEN {Overrun(s, "clone")}
         ELSE LET s1 == [s EXCEPT !.backup_sz = c.q.sz]
              IN UNION {MovedOn(s1, direction, c.q, n) :
                          n \in StepOutcomes(s.pl.value, direction, c.q)}
         : c \in CloneOutcomes(Backup(s), s.pl.value)}

(***************************************************************************)
(* change_song into the queued list.                                       *)
(***************************************************************************)
UsesNext(s, direction) ==
  /\ ~IsFake(s.next_playlist)
  /\ direction = next
  /\ IsFake(s.jmp_index) \/ SameSong(s.jmp_index.value, s.pl.value)

Decremented(n) == IF n = 0 THEN UINT32_MAX ELSE n - 1

\* Once the queued list plays: backup is the queue's entry as it was.
QueueTaken(s, backup) ==
  IF s.repeat_counter = 1
    THEN [s EXCEPT !.repeat_counter = 0,
                   !.next_playlist = ResetPlaying(s.pl),
                   !.jmp_index = ResetPlaying(s.jmp_index),
                   !.backup_sz = backup.sz]
    ELSE [s EXCEPT !.repeat_counter = Decremented(s.repeat_counter),
                   !.next_playlist.value = backup,
                   !.backup_sz = s.pl.value.sz]

QueueDroppedMarked(s, q) ==  \* mutant: jmp_index is not reset
  [s EXCEPT !.repeat_counter = 0,
            !.next_playlist = ResetPlaying([s.next_playlist EXCEPT !.value = q])]

QueueDropped(s, q) ==
  [s EXCEPT !.repeat_counter = 0,
            !.next_playlist = ResetPlaying([s.next_playlist EXCEPT !.value = q]),
            !.jmp_index = ResetPlaying(s.jmp_index)]

ChangeToNext(s) ==
  LET queued == s.next_playlist
      Try(s1, backup) ==
        UNION {IF o.over THEN {Overrun(s1, "step")}
               ELSE LET s2 == [s1 EXCEPT !.audio_file = o.file] IN
                    IF o.ok
                      THEN {[QueueTaken(s2, backup) EXCEPT
                               !.pl = [index |-> queued.index, value |-> o.q]]}
                      ELSE ChangeInList(QueueDropped(s2, o.q), next)
               : o \in OpenSongNotFound(queued.value, backup, next, s.audio_file)}
  IN UNION {IF ~c.ok THEN {s}
            ELSE IF c.over THEN {Overrun(s, "clone")}
            ELSE Try([s EXCEPT !.backup_sz = c.q.sz], c.q)
            : c \in CloneOutcomes(Backup(s), queued.value)}

ChangeSong(s, direction) ==
  IF UsesNext(s, direction) THEN ChangeToNext(s) ELSE ChangeInList(s, direction)

----------------------------------------------------------------------------
\* plv: the list read into the window ends at its last song.
LookedAt(f) ==
  [plv EXCEPT !.fd = f, !.cnt = cnt_songs[f], !.pos = 0,
              !.len = IF cnt_songs[f] = 0 THEN @
                      ELSE path_len[f][cnt_songs[f] - 1]]

\* The file does not open, or a song of it cannot be read (first value), or
\* its header or first song cannot: the descriptor comes back, cnt does not.
NotLookedAt == {plv, [plv EXCEPT !.cnt = 0]}

SeekPlv(v, p) == IF v.cnt = 0 THEN v ELSE [v EXCEPT !.pos = p % v.cnt]

SeekPll(p) == IF pll.cnt = 0 THEN pll ELSE [pll EXCEPT !.pos = p % pll.cnt]

\* play: plv.lpl is copied; its own position is that of the window.
PlvLpl == [fd |-> plv.fd, cnt |-> plv.cnt, pos |-> 0, len |-> plv.len]

Play(value, backup) == OpenOutcomes(value, PlvLpl, plv.pos, backup)

OpenIndexEarly(i) ==  \* mutant: selected_pl is set before the list is opened
  {[plv |-> [LookedAt(i) EXCEPT !.index = i], ok |-> TRUE]}
  \cup {[plv |-> [v EXCEPT !.index = i], ok |-> FALSE] : v \in NotLookedAt}

\* open_index: the values plv may have afterwards, and whether it succeeded.
OpenIndex(i) ==
  IF pll.cnt = 0 \/ plv.index = i
    THEN {[plv |-> plv, ok |-> TRUE]}
    ELSE {[plv |-> [LookedAt(i) EXCEPT !.index = i], ok |-> TRUE]}
         \cup {[plv |-> v, ok |-> FALSE] : v \in NotLookedAt}

\* check_near, which in a list no longer than the window is always true.
NearPll(i) == i < pll.cnt
NearPlv == plv.fd = pl.value.fd

----------------------------------------------------------------------------
(***************************************************************************)
(* set_playing: what is looked at becomes value; asking for it again only  *)
(* counts.                                                                 *)
(***************************************************************************)
SameAsPlv(value) == plv.fd = value.fd /\ plv.pos = value.pos

Chosen(playing) ==
  {[to |-> IF o.ok THEN [index |-> plv.index, value |-> o.q]
                   ELSE [playing EXCEPT !.value = o.q],
    over |-> o.over] : o \in Play(MovedFrom(playing.value), playing.value)}

CountedOnceMore(n) == n + 1  \* mutant: no limit

CountedAgain(n) == IF n < repeat_max THEN n + 1 ELSE n

set_next_song ==
  /\ state # "pl_list"
  /\ IF SameAsPlv(next_playlist.value)
       THEN Becomes([Player EXCEPT !.repeat_counter = CountedAgain(@)])
       ELSE \E c \in Chosen(next_playlist) :
              Becomes(IF c.over THEN Overrun(Player, "open")
                      ELSE [Player EXCEPT !.next_playlist = c.to,
                                          !.repeat_counter = 1])
  /\ UNCHANGED <<pages, audio>>

set_jmp_pos ==
  /\ state # "pl_list"
  /\ ~SameAsPlv(jmp_index.value)
  /\ \E c \in Chosen(jmp_index) :
       Becomes(IF c.over THEN Overrun(Player, "open")
               ELSE [Player EXCEPT !.jmp_index = c.to])
  /\ UNCHANGED <<pages, audio>>

(***************************************************************************)
(* play_new_playlist: what is looked at is played, and the queue is empty. *)
(***************************************************************************)
QueueEmpty(s) ==
  [s EXCEPT !.next_playlist = ResetPlaying(@), !.jmp_index = ResetPlaying(@),
            !.repeat_counter = 0]

Started(s, old, o) ==
  IF o.over THEN Overrun(s, "open")
  ELSE IF o.ok
    THEN [QueueEmpty(s) EXCEPT !.audio_file = o.file,
                               !.pl = [index |-> plv.index, value |-> o.q]]
    ELSE [s EXCEPT !.audio_file = o.file, !.pl.value = old]

PlayNewPlaylist(s) ==
  LET old == s.pl.value IN
  UNION {IF o.over THEN {Overrun(s, "open")}
         ELSE IF ~o.ok THEN {[s EXCEPT !.pl.value = o.q]}
         ELSE {Started(s, old, r) :
                 r \in OpenSongNotFound(o.q, old, next, s.audio_file)}
         : o \in Play(MovedFrom(old), old)}

----------------------------------------------------------------------------
(***************************************************************************)
(* The handlers the joystick, the touch screen and the USB commands call.  *)
(***************************************************************************)
change_song(direction) ==
  /\ \E s \in ChangeSong(Player, direction) : Becomes(s)
  /\ UNCHANGED <<pages, audio>>

VolumeAfter(v) ==
  IF volume + v > volume_max THEN volume_max
  ELSE IF volume < -v THEN 0 ELSE volume + v

change_volume(v) ==
  /\ volume' = VolumeAfter(v)
  /\ UNCHANGED <<lists, pages, repeat_mode, pause_status, overrun>>

\* Up is prev, down is next.  In the seek view only the position in the audio
\* file moves, which this module does not have.
process_next_prev(direction) ==
  \/ /\ state = "pl_list"
     /\ pll' = SeekPll(pll.pos + direction)
     /\ UNCHANGED <<lists, state, state_song_view, plv, audio, overrun>>
  \/ /\ state = "playlist"
     /\ plv' = SeekPlv(plv, plv.pos + direction)
     /\ UNCHANGED <<lists, state, state_song_view, pll, audio, overrun>>
  \/ /\ state = "song" /\ state_song_view = "volume"
     /\ change_volume(-direction)
  \/ /\ state = "song" /\ state_song_view = "next_prev"
     /\ change_song(direction)

process_left ==
  /\ state # "pl_list"
  /\ state' = IF state = "song" THEN "playlist" ELSE "pl_list"
  /\ UNCHANGED <<lists, state_song_view, pll, plv, audio, overrun>>

Rolled == CASE state_song_view = "volume"    -> "seek"
            [] state_song_view = "seek"      -> "next_prev"
            [] state_song_view = "next_prev" -> "volume"

\* The page changes before the list is opened, and stays if that fails.
process_right ==
  \/ /\ state = "pl_list"
     /\ state' = "playlist"
     /\ \E o \in OpenIndex(pll.pos) : plv' = o.plv
     /\ UNCHANGED <<lists, state_song_view, pll, audio, overrun>>
  \/ /\ state = "playlist"
     /\ \E s \in PlayNewPlaylist(Player) : Becomes(s)
     /\ UNCHANGED <<pages, audio>>
  \/ /\ state = "song"
     /\ state_song_view' = Rolled
     /\ UNCHANGED <<lists, state, pll, plv, audio, overrun>>

toggle_repeat ==
  /\ repeat_mode' = ~repeat_mode
  /\ UNCHANGED <<lists, pages, pause_status, volume, overrun>>

\* center on the list of playlists: the playing list, or the one looked at.
CenterPlList ==
  /\ state = "pl_list"
  /\ \/ /\ NearPll(pl.index)
        /\ \E o \in OpenIndex(pl.index) :
             /\ plv' = o.plv
             /\ state' = IF o.ok THEN "playlist" ELSE state
        /\ UNCHANGED pll
     \/ /\ ~NearPll(pl.index)
        /\ pl.index = max_plb_files /\ plv.index # max_plb_files
        /\ pll' = SeekPll(plv.index)
        /\ state' = "playlist"
        /\ UNCHANGED plv
  /\ UNCHANGED <<lists, state_song_view, audio, overrun>>

\* to_playing_pos, for the list that plays and is not looked at.
to_playing_pos ==
  \/ /\ plv' = SeekPlv([LookedAt(pl.value.fd) EXCEPT !.index = pl.index],
                       pl.value.pos)
     /\ pll' = SeekPll(pl.index)
  \/ plv' \in NotLookedAt /\ UNCHANGED pll

CenterPlaylist ==
  /\ state = "playlist"
  /\ \/ NearPlv /\ state' = "song" /\ UNCHANGED <<pll, plv>>
     \/ ~NearPlv /\ pl.value.cnt # 0 /\ to_playing_pos /\ UNCHANGED state
  /\ UNCHANGED <<lists, state_song_view, audio, overrun>>

process_center ==
  \/ CenterPlList
  \/ CenterPlaylist
  \/ state = "song" /\ toggle_repeat

play_pause ==
  /\ pause_status' = IF pause_status = "pause" THEN "play" ELSE "pause"
  /\ UNCHANGED <<lists, pages, repeat_mode, volume, overrun>>

to_end_and_pause ==
  /\ pause_status # "pause"
  /\ pause_status' = IF pause_status = "play" THEN "soft_pause" ELSE "play"
  /\ UNCHANGED <<lists, pages, repeat_mode, volume, overrun>>

\* jmp: any position arrives over USB; only its remainder matters.
jmp(p) ==
  /\ IF state = "pl_list" THEN pll' = SeekPll(p) ELSE UNCHANGED pll
  /\ IF state = "playlist" THEN plv' = SeekPlv(plv, p) ELSE UNCHANGED plv
  /\ UNCHANGED <<lists, state, state_song_view, audio, overrun>>

\* find and find_next: the cursor goes to a song that matches, if any does.
\* The audio_process calls of the search are steps of song_end.
find ==
  /\ \E p \in 0 .. plv.cnt - 1 : plv' = SeekPlv(plv, p)
  /\ UNCHANGED <<lists, state, state_song_view, pll, audio, overrun>>

(***************************************************************************)
(* new_song_or_repeat, from audio_process at the end of the audio file.    *)
(* The descriptor init_fake makes, and a directory's, are always at their  *)
(* end.                                                                    *)
(***************************************************************************)
song_end ==
  /\ audio_file # Fake \/ ~IsFake(next_playlist)
  /\ pause_status' = IF pause_status = "soft_pause" THEN "pause"
                                                    ELSE pause_status
  /\ IF repeat_mode THEN UNCHANGED <<lists, overrun>>
     ELSE \E s \in ChangeSong(Player, next) : Becomes(s)
  /\ UNCHANGED <<pages, repeat_mode, volume>>

(***************************************************************************)
(* The card is pulled and one is inserted: main_player ends, view::reset,  *)
(* pl_list::init, audio_init.  The path buffers and the audio settings     *)
(* stay.                                                                   *)
(***************************************************************************)
change_card ==
  /\ \E n \in CardSizes : pll' = [cnt |-> n, pos |-> 0]
  /\ state' = "pl_list"
  /\ state_song_view' = "volume"
  /\ plv' = [plv EXCEPT !.fd = Fake, !.cnt = 0, !.pos = 0,
                        !.index = max_plb_files]
  /\ pl' = ResetPlaying(pl)
  /\ next_playlist' = ResetPlaying(next_playlist)
  /\ jmp_index' = ResetPlaying(jmp_index)
  /\ repeat_counter' = 0
  /\ audio_file' = Fake
  /\ UNCHANGED <<backup_sz, audio, overrun>>

Init ==
  /\ state = "pl_list"
  /\ state_song_view = "volume"
  /\ \E n \in CardSizes : pll = [cnt |-> n, pos |-> 0]
  /\ plv = [fd |-> Fake, cnt |-> 0, pos |-> 0, len |-> 0,
            index |-> max_plb_files]
  /\ pl = NullPlaying
  /\ next_playlist = NullPlaying
  /\ jmp_index = NullPlaying
  /\ repeat_counter = 0
  /\ backup_sz = 0
  /\ audio_file = Fake
  /\ repeat_mode = FALSE
  /\ pause_status = "play"
  /\ volume = volume_start
  /\ overrun = "no"

AfterOverrun == overrun # "no" /\ UNCHANGED vars

\* What the user may do in a behaviour of the run.
May(input) == overrun = "no" /\ input \in Inputs

\* The user's keys, gestures, commands over USB and cards; the end of a song.
Next ==
  \/ May("up")               /\ process_next_prev(prev)
  \/ May("down")             /\ process_next_prev(next)
  \/ May("left")             /\ process_left
  \/ May("right")            /\ process_right
  \/ May("center")           /\ process_center
  \/ May("next_song")        /\ change_song(next)
  \/ May("prev_song")        /\ change_song(prev)
  \/ May("inc_volume")       /\ change_volume(1)
  \/ May("dec_volume")       /\ change_volume(-1)
  \/ May("toggle_repeat")    /\ toggle_repeat
  \/ May("play_pause")       /\ play_pause
  \/ May("to_end_and_pause") /\ to_end_and_pause
  \/ May("set_next_song")    /\ set_next_song
  \/ May("set_jmp_pos")      /\ set_jmp_pos
  \/ May("find")             /\ find
  \/ May("jmp")              /\ \E p \in 0 .. view_cnt - 1 : jmp(p)
  \/ May("change_card")      /\ change_card
  \/ overrun = "no"          /\ song_end
  \/ AfterOverrun

Spec == Init /\ [][Next]_vars

----------------------------------------------------------------------------
(***************************************************************************)
(* Properties.                                                             *)
(***************************************************************************)
PlaylistType(q) ==
  q \in [fd : Lists \cup {Fake}, cnt : 0 .. view_cnt, pos : Nat, len : Nat, sz : Nat,
         of : Song \cup {NoPath}]

\* The types of the variables.
TypeOK ==
  /\ state \in {"pl_list", "playlist", "song"}
  /\ state_song_view \in {"volume", "seek", "next_prev"}
  /\ pll \in [cnt : CardSizes, pos : Nat]
  /\ pll.pos < pll.cnt \/ pll = [cnt |-> 0, pos |-> 0]
  /\ plv.fd \in Lists \cup {Fake} /\ plv.cnt \in 0 .. view_cnt
  /\ plv.pos \in Nat /\ plv.len \in Nat
  /\ \A p \in {pl, next_playlist, jmp_index} :
       PlaylistType(p.value) /\ p.index \in Lists \cup {max_plb_files}
  /\ repeat_counter \in 0 .. repeat_max
  /\ backup_sz \in Nat
  /\ audio_file \in Song \cup {Fake}
  /\ repeat_mode \in BOOLEAN
  /\ pause_status \in {"play", "pause", "soft_pause"}
  /\ volume \in 0 .. volume_max
  /\ overrun \in {"no", "open", "clone", "step"}

\* A list that has songs has in its buffer the path of its own song: what the
\* next open of the audio file reads is what the position says.
PathMatches ==
  \A p \in {pl, next_playlist, jmp_index} :
    p.value.cnt # 0 => /\ p.value.of = <<p.value.fd, p.value.pos>>
                      /\ p.value.len <= p.value.sz

\* What is decoded is the song the playing list stands at, or a directory
\* found in place of a song.
NowPlaying ==
  pl.value.cnt # 0 =>
    audio_file = <<pl.value.fd, pl.value.pos>> \/ IsDir(audio_file)

\* The number shown beside a list is the file its songs are read from.
IndexMatches ==
  /\ \A p \in {pl, next_playlist, jmp_index} :
       IF IsFake(p) THEN p.index = max_plb_files ELSE p.index = p.value.fd
  /\ IF plv.fd = Fake THEN plv.index = max_plb_files ELSE plv.index = plv.fd

\* The playing list moves only to a song that has been opened.
OnlyOpenedSongs ==
  [][pl'.value.cnt # 0 /\ ~SameSong(pl'.value, pl.value) =>
       /\ audio_file' = <<pl'.value.fd, pl'.value.pos>>
       /\ ~IsDir(audio_file')]_vars

\* Moving in a list never copies a path past a buffer: seek copies the backup's
\* path back only into a buffer that has held a path as long.
StepsFit == overrun # "step"

\* Choosing a song never copies a path past a buffer, as the comment at
\* playlist.h:66 says: the backup that open gets is no longer than its buffer.
OpenFits == overrun # "open"

\* The swaps, clones and moves of change_song, set_playing and
\* play_new_playlist implement the queue of module PlayQueue.
Entry(p) == IF IsFake(p) THEN Fake ELSE <<p.value.fd, p.value.pos>>

Queue == INSTANCE PlayQueue WITH
  Entries <- Lists \X (0 .. view_cnt - 1), None <- Fake, MaxTimes <- repeat_max,
  now <- Entry(pl), queued <- Entry(next_playlist), mark <- Entry(jmp_index),
  times <- IF IsFake(next_playlist) THEN 0 ELSE repeat_counter

ImplementsQueue == Queue!Spec
=============================================================================

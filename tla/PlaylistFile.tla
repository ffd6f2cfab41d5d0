----------------------------- MODULE PlaylistFile -----------------------------
(***************************************************************************)
(* A playlist file from the program that writes it                         *)
(* (utilities/convert_playlist) to the readers of it in the player         *)
(* (playlist/light_playlist.{h,cpp}, playlist::seek in playlist.cpp): the  *)
(* header, the headers of the songs, each with the place of its path, and  *)
(* the names that the paths are made of.  Modules Playlist, PlaylistView   *)
(* and FindNext take a song's header and its path to be read by the        *)
(* number of the song; here they are read where a descriptor stands.       *)
(*                                                                         *)
(* A file is what begins at each of its offsets.  What is read elsewhere   *)
(* is Garbage.  What a header says of a song's names is its path.          *)
(***************************************************************************)
EXTENDS Integers, SequencesExt

CONSTANTS
  Texts,              \* the lists given to convert_playlist: tuples of paths
  Found,              \* the paths that are on the card, tuples of names
  Files,              \* the playlist files of the card
  sizeof_header, sizeof_song, sizeof_name,
  Garbage

PlaylistFileAssumption ==
  /\ {sizeof_header, sizeof_song, sizeof_name} \subseteq Nat \ {0}
  /\ Garbage \notin Found

(***************************************************************************)
(* convert_playlist.                                                       *)
(***************************************************************************)
\* A path that cannot be opened is reported and left out.
init_songs(text) == SelectSeq(text, LAMBDA path : path \in Found)

SongsStart == sizeof_header
NamesStart(songs) == SongsStart + Len(songs) * sizeof_song

Names(songs) == FlattenSeq(songs)

NamesBeforePerSong(songs, i) == i                   \* mutant: one name per song
NamesBefore(songs, i) == Len(Names(SubSeq(songs, 1, i)))

HeaderOf(songs, i) ==
  [path_offset |-> NamesStart(songs) + NamesBefore(songs, i) * sizeof_name,
   path_len    |-> Len(songs[i + 1]),
   names       |-> songs[i + 1]]

\* Entry k of a table of entries of this size, by its offset.
Table(start, size, n, Entry(_)) ==
  [at \in {start + k * size : k \in 0 .. n - 1} |-> Entry((at - start) \div size)]

write_songs(songs) ==
  [cnt_songs |-> Len(songs),
   song |-> Table(SongsStart, sizeof_song, Len(songs), LAMBDA i : HeaderOf(songs, i)),
   name |-> Table(NamesStart(songs), sizeof_name, Len(Names(songs)),
                  LAMBDA k : Names(songs)[k + 1])]

VARIABLES
  text, files,        \* the lists, and the files that were made of them
  window, finder,     \* the light_playlists of playlist_view and find_song
  ready,              \* the ones of them whose last operation has not failed
  playing, path       \* the playlist that plays, and its path buffer

card  == <<text, files>>
lists == <<window, finder, ready>>
vars  == <<card, lists, playing, path>>

(***************************************************************************)
(* light_playlist.  at is where the descriptor stands.                     *)
(***************************************************************************)
NoSong == [path_offset |-> 0, path_len |-> 0, names |-> Garbage]

SongAt(l, at) == IF at \in DOMAIN files[l].song THEN files[l].song[at] ELSE NoSong

Empty(l) == [fd |-> l, at |-> 0, pos |-> 0, cnt |-> 0, song |-> NoSong]

read_song(lpl) ==
  [lpl EXCEPT !.song = SongAt(lpl.fd, lpl.at), !.at = lpl.at + sizeof_song]

OffsetOf(pos) == SongsStart + pos * sizeof_song

seek(lpl, pos) ==
  IF lpl.cnt = 0 THEN lpl
  ELSE [read_song([lpl EXCEPT !.at = OffsetOf(pos % lpl.cnt)])
          EXCEPT !.pos = pos % lpl.cnt]

next_simple(lpl) == [read_song(lpl) EXCEPT !.pos = lpl.pos + 1]

AtEnd(lpl) == lpl.pos + 1 = lpl.cnt

next(lpl) ==
  IF lpl.cnt = 0 THEN lpl
  ELSE IF AtEnd(lpl) THEN seek(lpl, 0) ELSE next_simple(lpl)

open_file(l) == seek([Empty(l) EXCEPT !.cnt = files[l].cnt_songs], 0)

\* After a read or a seek that failed, the descriptor may have been moved.
Spoilt(lpl) == {lpl, [lpl EXCEPT !.at = SongsStart]}

(***************************************************************************)
(* playlist_view and find_song.  init, seek and jump_over go to a song and *)
(* fill the names with next; find_song::next follows a seek as well.       *)
(***************************************************************************)
Window == "window"
Finder == "finder"

\* An open that fails leaves the list before with no songs.
open_playlist ==
  /\ \/ \E l \in Files : window' = open_file(l) /\ ready' = ready \cup {Window}
     \/ window' \in {Empty(window.fd), window} /\ ready' = ready \ {Window}
  /\ UNCHANGED <<card, finder, playing, path>>

seek_window ==
  /\ \E p \in 0 .. window.cnt :
       \/ window' = seek(window, p) /\ ready' = ready \cup {Window}
       \/ window' \in Spoilt(window) /\ ready' = ready \ {Window}
  /\ UNCHANGED <<card, finder, playing, path>>

fill_names ==
  /\ Window \in ready
  /\ \/ window' = next(window) /\ UNCHANGED ready
     \/ window' \in Spoilt(window) /\ ready' = ready \ {Window}
  /\ UNCHANGED <<card, finder, playing, path>>

\* find, and find_next, whose list is the window's.
find ==
  /\ \E p \in 0 .. window.cnt :
       /\ \/ finder' = seek(window, p)
          \/ finder.fd = window.fd /\ finder' = seek(finder, p)
       /\ ready' = ready \cup {Finder}
  /\ UNCHANGED <<card, window, playing, path>>

find_next_song ==
  /\ Finder \in ready
  /\ \/ finder' = next(finder) /\ UNCHANGED ready
     \/ finder' \in Spoilt(finder) /\ ready' = ready \ {Finder}
  /\ UNCHANGED <<card, window, playing, path>>

(***************************************************************************)
(* playlist::seek: the path is read with a descriptor of its own.  What a  *)
(* failure leaves is in module Playlist.                                   *)
(***************************************************************************)
NamesAt(l, at, len) ==
  [k \in 1 .. len |->
     LET place == at + (k - 1) * sizeof_name IN
     IF place \in DOMAIN files[l].name THEN files[l].name[place] ELSE Garbage]

SeekPlaylist(lpl, pos) ==
  LET at_song == seek(lpl, pos) IN
  /\ lpl.cnt # 0
  /\ playing' = at_song
  /\ path' = NamesAt(lpl.fd, at_song.song.path_offset, at_song.song.path_len)

play ==
  /\ \E p \in 0 .. window.cnt : SeekPlaylist(window, p)
  /\ UNCHANGED <<card, lists>>

next_or_prev ==
  /\ \E step \in {1, playing.cnt - 1} : SeekPlaylist(playing, playing.pos + step)
  /\ UNCHANGED <<card, lists>>

Init ==
  /\ text \in Texts
  /\ files = [l \in Files |-> write_songs(init_songs(text[l]))]
  /\ \E l \in Files : window = Empty(l) /\ finder = Empty(l) /\ playing = Empty(l)
  /\ ready = {} /\ path = <<>>

Next ==
  \/ open_playlist \/ seek_window \/ fill_names
  \/ find \/ find_next_song
  \/ play \/ next_or_prev

Spec == Init /\ [][Next]_vars

(***************************************************************************)
(* Properties.                                                             *)
(***************************************************************************)
\* The descriptor of each list stands at a song, or behind the last.
TypeOK ==
  /\ text \in Texts /\ ready \subseteq {Window, Finder}
  /\ \A lpl \in {window, finder, playing} :
       /\ lpl.fd \in Files /\ lpl.cnt \in {0, files[lpl.fd].cnt_songs}
       /\ lpl.pos = 0 \/ lpl.pos \in 1 .. lpl.cnt - 1
       /\ lpl.at \in {0} \cup {OffsetOf(p) : p \in 0 .. files[lpl.fd].cnt_songs}
  /\ path \in Found \cup {<<>>}

ReadFrom(lpl) == LET songs == init_songs(text[lpl.fd]) IN
  /\ lpl.cnt = Len(songs)
  /\ lpl.pos \in 0 .. lpl.cnt - 1
  /\ lpl.song.names = songs[lpl.pos + 1]

\* The song that the window, a search or the player shows for a place is the one
\* that stands there in the list that was converted, the songs that were not found
\* left out; also when a read before it failed, when the song was read from where
\* the one before it ended, and after the list's end.  And the path that is opened
\* is that song's.
ReadsWhatWasWritten ==
  /\ Window \in ready /\ window.cnt # 0 => ReadFrom(window)
  /\ Finder \in ready /\ finder.cnt # 0 => ReadFrom(finder)
  /\ playing.cnt # 0 => ReadFrom(playing) /\ path = init_songs(text[playing.fd])[playing.pos + 1]
=============================================================================

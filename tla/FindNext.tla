------------------------------- MODULE FindNext -------------------------------
(***************************************************************************)
(* The search for a song in a list (find_song::next in                     *)
(* playlist/find_song.cpp; find, find_next and find_common in              *)
(* view/view.cpp): from the song after the cursor on through the list,     *)
(* past its end, until a song matches or every song has been read.  Which  *)
(* songs match is a set; FindSong says how one name is searched.  The      *)
(* finder keeps a copy of the list it searched, and its pattern.           *)
(***************************************************************************)
EXTENDS Integers

CONSTANTS
  List,              \* the lists that can be opened
  cnt_songs          \* how many songs each has

FindNextAssumption == cnt_songs \in [List -> Nat]

Song(l) == 0 .. cnt_songs[l] - 1

VARIABLES
  matching,          \* the songs of each list that match, chosen once
  open, cursor,      \* plv.value: the list and its get_pos()
  searching,         \* "yes" in find_song::next, "failed" after an error
  playlist, place,   \* finder.playlist: the list and its pos
  turns              \* i in find_song::next

plv    == <<open, cursor>>
finder == <<playlist, place, turns>>
vars   == <<matching, plv, searching, finder>>

Init ==
  /\ matching \in [List -> SUBSET UNION {Song(l) : l \in List}]
  /\ \A l \in List : matching[l] \subseteq Song(l)
  /\ open \in List /\ cursor = 0
  /\ searching = "no"
  /\ playlist \in List /\ place = 0 /\ turns = 0

\* The user opens a list, or moves in it.
Moves ==
  /\ searching # "yes"
  /\ \/ \E l \in List : open' = l /\ cursor' = 0
     \/ \E p \in Song(open) : open' = open /\ cursor' = p
  /\ UNCHANGED <<matching, searching, finder>>

ListToSearch == IF playlist = open THEN playlist ELSE open

GoesOn == IF playlist = open THEN place ELSE cursor \* mutant: from the last match
PlaceToStart == IF cnt_songs[open] = 0 THEN place ELSE cursor

\* find, and find_next, which is find when another list is open.  If the seek
\* fails nothing changes.
find_next ==
  /\ searching # "yes"
  /\ searching' = "yes"
  /\ playlist' = ListToSearch
  /\ place' = PlaceToStart
  /\ turns' = 0
  /\ UNCHANGED <<matching, plv>>

NextPlace(l, p) == IF p + 1 = cnt_songs[l] THEN 0 ELSE p + 1

\* A turn of the loop in find_song::next; the cursor goes to a song that
\* matches, after its list has been opened if it is not (to_playing_pos).
next ==
  /\ searching = "yes" /\ turns # cnt_songs[playlist]
  /\ turns' = turns + 1
  /\ place' = NextPlace(playlist, place)
  /\ IF place' \in matching[playlist]
       THEN /\ searching' = "no"
            /\ open' = playlist /\ cursor' = place'
       ELSE UNCHANGED <<searching, plv>>
  /\ UNCHANGED <<matching, playlist>>

not_found ==
  /\ searching = "yes" /\ turns = cnt_songs[playlist]
  /\ searching' = "no"
  /\ UNCHANGED <<matching, plv, finder>>

\* A song cannot be read.  What finder.playlist is then does not matter, every
\* search starts with a seek.
Fails ==
  /\ searching = "yes" /\ turns # cnt_songs[playlist]
  /\ searching' = "failed"
  /\ UNCHANGED <<matching, plv, finder>>

Next ==
  \/ Moves
  \/ find_next
  \/ next
  \/ not_found
  \/ Fails

Spec == Init /\ [][Next]_vars

(***************************************************************************)
(* Properties.                                                             *)
(***************************************************************************)

\* The places are songs of their lists.
TypeOK ==
  /\ open \in List /\ playlist \in List
  /\ cursor \in Song(open) \cup {0}
  /\ searching \in {"no", "yes", "failed"}
  /\ searching = "yes" =>
       /\ place \in Song(playlist) \/ cnt_songs[playlist] = 0
       /\ turns \in 0 .. cnt_songs[playlist]

\* How far song p of the open list is behind the cursor, the cursor's last.
Behind(p) == IF p > cursor THEN p - cursor
             ELSE (p - cursor) + cnt_songs[open]

IsNextMatch(p) ==
  /\ p \in matching[open]
  /\ \A m \in matching[open] : Behind(p) <= Behind(m)

\* A search that can read the songs moves the cursor to the next match of the
\* open list, round its end; it leaves it where it is, and the list open, only
\* if there is no match.  The list searched last does not matter.
FindsNextMatch ==
  [][searching = "yes" /\ searching' = "no" =>
       \/ open' = open /\ IsNextMatch(cursor')
       \/ matching[open] = {} /\ UNCHANGED plv]_vars
=============================================================================

---------------------------- MODULE PlaylistView ----------------------------
(***************************************************************************)
(* The window on a playlist: struct playlist_view (playlist/playlist_view. *)
(* {h,cpp}) over light_playlist.                                           *)
(*                                                                         *)
(* A list is longer than the screen, which has view_cnt lines.  The names  *)
(* on the lines are kept in a ring that starts at pos_begin: moving the    *)
(* cursor in the middle of a list reads one song from the card and puts    *)
(* its name over the one that leaves the screen.                           *)
(*                                                                         *)
(* Every access to the card can fail.  lpl.song and the position of the    *)
(* descriptor are only used directly after a seek has set them, so they    *)
(* are not variables.                                                      *)
(***************************************************************************)
EXTENDS Integers

CONSTANTS
  Lists,                \* the playlist files
  cnt_songs,            \* cnt_songs[l]: the songs of l, in its header
  Fake,                 \* the descriptor that init_fake makes
  Empty                 \* a name that was never filled in

ASSUME ListsAssumption == cnt_songs \in [Lists -> Nat] /\ Fake \notin Lists

border_cnt == 3
view_cnt == 2 * border_cnt + 1

VARIABLES
  fd, cnt,              \* lpl.fd, lpl.header.cnt_songs
  pos, type, direction, \* current_state; direction 1 is up the list
  pos_begin,
  names,                \* names[i]: the song name_group[i], name_song[i] are of
  playing,              \* fd, pos of a list that plays, for the marks
  drawn                 \* what the screen shows, if type says how it differs

shape == <<fd, cnt, pos_begin, names>>
vars  == <<shape, pos, type, direction, playing, drawn>>

RingPos == 0 .. view_cnt - 1
Song(l, p) == <<l, p>>

----------------------------------------------------------------------------
(***************************************************************************)
(* Pure parts.                                                             *)
(***************************************************************************)
\* calc_index_set_selected and print: the position on the first line.
FirstOf(p, n) ==
  IF n <= view_cnt \/ p < border_cnt THEN 0
  ELSE IF p + border_cnt >= n THEN n - view_cnt
  ELSE p - border_cnt

\* check_near
Near(p, b, n) ==
  IF n <= view_cnt THEN TRUE
  ELSE IF p < border_cnt THEN b < view_cnt
  ELSE IF p + border_cnt >= n THEN b >= n - view_cnt
  ELSE b >= p - border_cnt /\ b <= p + border_cnt

\* redraw_type().pos: the line of the cursor.
RedrawLine(p, n) ==
  IF p <= border_cnt THEN p
  ELSE IF p + border_cnt >= n THEN p + view_cnt - n
  ELSE border_cnt

\* pn_common: the number of a place in the ring.
Reduced(i) == (i % cnt) % view_cnt

\* The song that print puts on line i.
Line(i) == names[(i + pos_begin) % view_cnt]

----------------------------------------------------------------------------
\* fill_names, from position p of list l with n songs.
Filled(l, p, n) ==
  [i \in RingPos |-> IF i < n THEN Song(l, p + i) ELSE names[i]]

Refilled(p) ==
  /\ names' = Filled(fd, p, cnt)
  /\ pos_begin' = 0
  /\ UNCHANGED <<fd, cnt>>

Unread == UNCHANGED shape

PendingForgotten == "nothing"  \* mutant: what was not drawn yet is forgotten

\* What is left to draw when the cursor moves again.
Pending == IF type = "nothing" THEN "nothing" ELSE "not_easy"

Easy(t) == IF Pending = "nothing" THEN t ELSE "not_easy"

MovedTo(p, t) == pos' = p /\ type' = t

StayedAfter(t) == UNCHANGED pos /\ type' = t

jump_over(seek_pos, new_pos) ==
  \/ Refilled(seek_pos) /\ MovedTo(new_pos, "not_easy")
  \/ Unread /\ StayedAfter(Pending)

OnTopNext == pos < border_cnt

OnTopPrevShort == pos < border_cnt  \* mutant: off by one

OnTopPrev == pos <= border_cnt

\* Song p comes on the screen, at place ins_pos of the ring.
Shifted(begin, ins_pos, p) ==
  /\ pos_begin' = Reduced(begin)
  /\ names' = [names EXCEPT ![Reduced(ins_pos)] = Song(fd, p)]
  /\ UNCHANGED <<fd, cnt>>

next ==
  /\ direction' = 0
  /\ \/ cnt = 0 /\ UNCHANGED <<shape, pos, type>>
     \/ /\ cnt \in 1 .. view_cnt
        /\ Unread /\ MovedTo((pos + 1) % cnt, "not_easy")
     \/ cnt > view_cnt /\ pos + 1 = cnt /\ jump_over(0, 0)
     \/ /\ cnt > view_cnt /\ pos + 1 # cnt
        /\ OnTopNext \/ pos + border_cnt + 1 >= cnt
        /\ Unread /\ MovedTo(pos + 1, Easy("top_bottom"))
     \/ /\ cnt > view_cnt /\ ~OnTopNext /\ pos + border_cnt + 1 < cnt
        /\ \/ /\ Shifted(pos_begin + 1, pos_begin + view_cnt,
                         pos + border_cnt + 1)
              /\ MovedTo(pos + 1, Easy("middle"))
           \/ Unread /\ StayedAfter(Pending)
  /\ UNCHANGED playing

prev ==
  /\ direction' = 1
  /\ \/ cnt = 0 /\ UNCHANGED <<shape, pos, type>>
     \/ /\ cnt \in 1 .. view_cnt
        /\ Unread /\ MovedTo((pos + cnt - 1) % cnt, "not_easy")
     \/ cnt > view_cnt /\ pos = 0 /\ jump_over(cnt - view_cnt, cnt - 1)
     \/ /\ cnt > view_cnt /\ pos # 0
        /\ OnTopPrev \/ pos + border_cnt >= cnt
        /\ Unread /\ MovedTo(pos - 1, Easy("top_bottom"))
     \/ /\ cnt > view_cnt /\ ~OnTopPrev /\ pos + border_cnt < cnt
        /\ \/ /\ Shifted(pos_begin + view_cnt - 1, pos_begin + view_cnt - 1,
                         pos - border_cnt - 1)
              /\ MovedTo(pos - 1, Easy("middle"))
           \/ Unread /\ StayedAfter(Pending)
  /\ UNCHANGED playing

seek(p) ==
  LET q == p % cnt IN
  /\ cnt # 0
  /\ \/ cnt <= view_cnt /\ Unread /\ MovedTo(q, "not_easy")
     \/ cnt > view_cnt /\ Refilled(FirstOf(q, cnt)) /\ MovedTo(q, "not_easy")
     \/ cnt > view_cnt /\ Unread /\ StayedAfter(type)
  /\ UNCHANGED <<direction, playing>>

(***************************************************************************)
(* open_playlist and to_playing_playlist.  After a failure the descriptor  *)
(* is the old one; if the header or the first song could not be read, the  *)
(* number of songs is 0 from then on.                                      *)
(***************************************************************************)
open_playlist(l) ==
  /\ \/ /\ fd' = l
        /\ cnt' = cnt_songs[l]
        /\ names' = Filled(l, 0, cnt_songs[l])
        /\ pos_begin' = 0
        /\ MovedTo(0, "not_easy")
     \/ cnt' \in {0, cnt} /\ UNCHANGED <<fd, pos_begin, names, pos, type>>
  /\ UNCHANGED <<direction, playing>>

reset ==
  /\ fd' = Fake /\ cnt' = 0 /\ pos_begin' = 0
  /\ MovedTo(0, "not_easy") /\ direction' = 0
  /\ playing' = [fd |-> Fake, pos |-> 0]
  /\ UNCHANGED names

\* What is selected is played, or the list that plays moves on.
play ==
  /\ \/ cnt # 0 /\ playing' = [fd |-> fd, pos |-> pos]
     \/ /\ playing.fd # Fake
        /\ playing' = [playing EXCEPT !.pos = (@ + 1) % cnt_songs[playing.fd]]
  /\ UNCHANGED <<shape, pos, type, direction>>

\* display: the lines are drawn, and reset_display.
Screen == [first |-> FirstOf(pos, cnt), pos |-> pos]

display ==
  /\ type' = "nothing"
  /\ UNCHANGED <<shape, pos, direction, playing>>

Init ==
  /\ fd = Fake /\ cnt = 0
  /\ pos = 0 /\ type = "not_easy" /\ direction = 0
  /\ pos_begin = 0
  /\ names = [i \in RingPos |-> Empty]
  /\ playing = [fd |-> Fake, pos |-> 0]
  /\ drawn = Empty

\* drawn is what is on the screen, as long as type says how to get from it to
\* what is to be shown.
Draws ==
  drawn' = CASE type' = "not_easy" -> Empty
             [] type' = "nothing"  -> Screen'
             [] OTHER              -> drawn

Next ==
  \/ next /\ Draws
  \/ prev /\ Draws
  \/ (\E p \in 0 .. cnt - 1 : seek(p)) /\ Draws
  \/ (\E l \in Lists : open_playlist(l)) /\ Draws
  \/ reset /\ Draws
  \/ play /\ Draws
  \/ display /\ Draws

Spec == Init /\ [][Next]_vars

----------------------------------------------------------------------------
(***************************************************************************)
(* Properties.                                                             *)
(***************************************************************************)
\* The types of the variables.
TypeOK ==
  /\ fd \in Lists \cup {Fake}
  /\ cnt \in Nat /\ (cnt # 0 => fd \in Lists /\ cnt = cnt_songs[fd])
  /\ pos \in Nat /\ (cnt # 0 => pos < cnt)
  /\ type \in {"nothing", "not_easy", "top_bottom", "middle"}
  /\ direction \in {0, 1}
  /\ pos_begin \in RingPos
  /\ names = [i \in RingPos |-> names[i]]
  /\ playing \in [fd : Lists \cup {Fake}, pos : Nat]
  /\ playing.fd # Fake => playing.pos < cnt_songs[playing.fd]

First == FirstOf(pos, cnt)

LinesUsed == IF cnt < view_cnt THEN 0 .. cnt - 1 ELSE RingPos

\* Lengths at which pn_common's first remainder moves the place of a name: it
\* takes pos_begin and ins_pos, both less than 2 * view_cnt, modulo cnt.
Slips(n) == n \in view_cnt + 1 .. 2 * view_cnt - 1

\* In a list of any other length each line shows the name of the song whose
\* number stands on it, however the cursor has moved and whichever reads failed.
WindowNames ==
  cnt # 0 /\ ~Slips(cnt) => \A i \in LinesUsed : Line(i) = Song(fd, First + i)

\* The line that is marked as selected shows the selected song
\* (display_common.cpp:102).
SelectedShown == cnt # 0 => Line(pos - First) = Song(fd, pos)

OnScreen(b) == b \in First .. First + view_cnt - 1

\* The mark of a playing song is set if and only if the song is on a line.
MarkExact ==
  cnt # 0 /\ playing.fd = fd => (Near(pos, playing.pos, cnt) <=> OnScreen(playing.pos))

Step == IF direction = 0 THEN 1 ELSE -1

\* The redraw type says how the screen differs from what it is to show: not at
\* all, by the cursor's line, or by one line that came in; and the cursor is on
\* the line redraw_type() says.
RedrawSound ==
  cnt # 0 =>
    /\ type = "nothing" => drawn = Screen
    /\ type = "top_bottom" => drawn = [Screen EXCEPT !.pos = @ - Step]
    /\ type = "middle" => drawn = [first |-> First - Step, pos |-> pos - Step]
    /\ type \in {"top_bottom", "middle"} => RedrawLine(pos, cnt) = pos - First
=============================================================================

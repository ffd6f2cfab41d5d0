------------------------------- MODULE MCView -------------------------------
(* Two playlist files: in one a directory stands in place of the second     *)
(* song, the other has one song; and an empty one for browsing.             *)
EXTENDS View, TLC

TwoLists == {0, 1}
TwoAndOne == 0 :> 2 @@ 1 :> 1
SecondIsDir == 0 :> (0 :> FALSE @@ 1 :> TRUE) @@ 1 :> (0 :> FALSE)
SamePaths == 0 :> (0 :> 1 @@ 1 :> 1) @@ 1 :> (0 :> 1)
ShortAndLong == 0 :> (0 :> 1 @@ 1 :> 2) @@ 1 :> (0 :> 1)

ThreeLists == TwoLists \cup {2}
WithNone == 2 :> 0 @@ TwoAndOne
WithNoDir == 2 :> <<>> @@ SecondIsDir
WithNoPath == 0 :> (0 :> 2 @@ 1 :> 1) @@ 1 :> (0 :> 1) @@ 2 :> <<>>

Queueing == {"up", "left", "right", "next_song", "prev_song", "set_next_song",
             "set_jmp_pos"}
Browsing == {"up", "down", "left", "right", "center", "next_song", "prev_song",
             "inc_volume", "dec_volume", "toggle_repeat", "play_pause",
             "to_end_and_pause", "find", "jmp", "change_card"}
=============================================================================

--------------------------- MODULE MCPlaylistView ---------------------------
(* Lists that are shorter than the window, just fill it, or are at least    *)
(* twice as long; and some of the lengths in between.                       *)
EXTENDS PlaylistView, TLC

SomeLists == {"none", "one", "seven", "nine", "fourteen", "sixteen"}
SomeCounts == "none" :> 0 @@ "one" :> 1 @@ "seven" :> 7 @@ "nine" :> 9
              @@ "fourteen" :> 14 @@ "sixteen" :> 16

EightSongs == {"eight"}
EightCounts == "eight" :> 8
=============================================================================

--------------------------- MODULE MCAudioOutput ----------------------------
(* A song that begins at once, with two frames to a half; and one that      *)
(* begins behind a tag and whose frames are longer than the input buffer, so *)
(* that the decoder finds none.                                              *)
EXTENDS AudioOutput, TLC

TwoSongs == {"plain", "broken"}
Sizes    == "plain" :> 4 @@ "broken" :> 5
Offsets  == "plain" :> 0 @@ "broken" :> 1
Sounds   == "plain" :> 2 @@ "broken" :> 1
Lengths  == "plain" :> 1 @@ "broken" :> 3
=============================================================================

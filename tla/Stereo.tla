-------------------------------- MODULE Stereo --------------------------------
(***************************************************************************)
(* III_stereo (audio/mp3/layer3.c): what joint stereo does with the bands  *)
(* of a granule.  Intensity has the sound of both channels in the left one *)
(* and in the right one's scalefactors how it is shared out; the bands it  *)
(* is for are not told, they are those behind the last of the right        *)
(* channel's that is not silent.  In short blocks each window has its own  *)
(* last one, and the long bands of a mixed block come before all of them.  *)
(* All other bands are middle/side, if the frame has that.                 *)
(*                                                                         *)
(* Both channels' blocks are of one kind, or III_stereo fails (SideInfo).  *)
(***************************************************************************)
EXTENDS Bands, FiniteSets

CONSTANTS
  Granules       \* bound: what the granules' right channels are

Granule ==
  [samplerate : Rates, kind : {"long", "short", "mixed"},
   i_stereo : BOOLEAN, ms_stereo : BOOLEAN,
   heard : SUBSET (1 .. 39),      \* the right channel's bands that are not silent
   illegal : SUBSET (1 .. 39)]    \* those whose position is illegal

StereoAssumption == Granules \subseteq Granule

VARIABLES
  granule, pc,
  modes,         \* by band: the modes that are left for it
  done           \* by band: what was done with its lines

vars == <<granule, pc, modes, done>>

widths == sfbwidth(granule.samplerate, granule.kind)
Band   == DOMAIN widths
start  == LongBands(widths, granule.kind)

mode_extension ==
  (IF granule.i_stereo THEN {"i"} ELSE {}) \cup (IF granule.ms_stereo THEN {"ms"} ELSE {})

Init ==
  /\ granule \in Granules
  /\ pc = "modes" /\ modes = <<>> /\ done = <<>>

(***************************************************************************)
(* Which bands are for intensity: the loops over the right channel's lines *)
(***************************************************************************)
Nothing == [lower |-> 0, max |-> 0, bound |-> [w \in 0 .. 2 |-> 0], w |-> 0]

ScanLong(s, b) == IF b \in granule.heard THEN [s EXCEPT !.lower = b] ELSE s

ScanWindow(s, b) ==
  LET next == [s EXCEPT !.w = (s.w + 1) % 3]
  IN IF b \in granule.heard THEN [next EXCEPT !.max = b, !.bound[s.w] = b] ELSE next

Scan ==
  LET begin == start
      long  == FoldLeft(ScanLong, Nothing, [b \in 1 .. begin |-> b])
      all   == FoldLeft(ScanWindow, long, [b \in 1 .. Len(widths) - begin |-> begin + b])
  IN IF all.max > 0 THEN [all EXCEPT !.lower = begin] ELSE all

\* The bands that intensity is not for.
Bounded ==
  LET s     == Scan
      begin == start
  IN 1 .. s.lower \cup {b \in begin + 1 .. s.max : b <= s.bound[(b - begin - 1) % 3]}

FindModes ==
  /\ pc = "modes" /\ pc' = "intensity"
  /\ modes' = LET plain == IF granule.i_stereo THEN Bounded ELSE {}
              IN [b \in Band |-> IF b \in plain THEN mode_extension \ {"i"} ELSE mode_extension]
  /\ done' = [b \in Band |-> <<>>]
  /\ UNCHANGED granule

(***************************************************************************)
(* The processing                                                          *)
(***************************************************************************)
\* What has the illegal position is left to middle/side.
IntensityStereo ==
  /\ pc = "intensity" /\ pc' = "ms"
  /\ modes' = [b \in Band |-> IF b \in granule.illegal THEN modes[b] \ {"i"} ELSE modes[b]]
  /\ done' = [b \in Band |-> IF "i" \in modes'[b] THEN <<"i">> ELSE <<>>]
  /\ UNCHANGED granule

MiddleSide ==
  /\ pc = "ms" /\ pc' = "done"
  /\ done' = [b \in Band |-> IF modes[b] = {"ms"} THEN Append(done[b], "ms") ELSE done[b]]
  /\ UNCHANGED <<granule, modes>>

Next == FindModes \/ IntensityStereo \/ MiddleSide

Spec == Init /\ [][Next]_vars

(***************************************************************************)
(* Properties.                                                             *)
(***************************************************************************)
TypeOK ==
  /\ pc \in {"modes", "intensity", "ms", "done"}
  /\ pc = "modes" => modes = <<>> /\ done = <<>>
  /\ pc # "modes" =>
       /\ modes \in [Band -> SUBSET {"i", "ms"}]
       /\ DOMAIN done = Band /\ \A b \in Band : done[b] \in Seq({"i", "ms"})

\* The bands at or above b that sound in the same window; those of the three
\* windows lie above the long ones.
SameWindow(b, begin) ==
  {c \in Band : c >= b /\ (b <= begin \/ (c - b) % 3 = 0)}

\* Intensity is for the bands above which, and in which, the right channel is
\* silent, middle/side for all others; none is processed twice.
ShareEachBandOnce ==
  pc = "done" => LET begin == start IN \A b \in Band :
    LET shared == /\ granule.i_stereo /\ b \notin granule.illegal
                  /\ SameWindow(b, begin) \cap granule.heard = {}
    IN done[b] = IF shared THEN <<"i">>
                 ELSE IF granule.ms_stereo THEN <<"ms">> ELSE <<>>
=============================================================================

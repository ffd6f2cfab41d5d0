------------------------------- MODULE Subbands -------------------------------
(***************************************************************************)
(* From a channel's lines to its subbands (audio/mp3/layer3.c): III_reorder *)
(* puts the lines of short blocks, which come band by band and in a band   *)
(* window by window, in the order of the 32 subbands, where each window    *)
(* has six lines of a subband; III_decode then transforms the subbands,    *)
(* the upper ones as silence where all of their lines are zero.            *)
(*                                                                         *)
(* A line is its number before the reordering.  What a transform computes  *)
(* is left out: of a subband is kept where its lines began, which window   *)
(* it was transformed with, and how often it was overlapped with the       *)
(* granule before and inverted.                                            *)
(***************************************************************************)
EXTENDS Bands, FiniteSets

CONSTANTS
  Channels,      \* bound: the channels, as Channel says
  Limits         \* bound: the line behind the last that is not zero

SB == 32
PerSubband == 18
PerWindow == 6

Channel == [samplerate : Rates, block_type : 0 .. 3, mixed : BOOLEAN]

SubbandsAssumption ==
  /\ Channels \subseteq Channel
  /\ Limits \subseteq LowLines .. lines

VARIABLES
  channel, pc,
  xr,                  \* the lines, in their places
  l,                   \* the line that is next
  band, w,             \* the band that is next, and its window
  sbw, sw,             \* by window: the subband and its line that are next
  tmp,                 \* the places that were written
  limit, reduced,      \* limit; the lines at which aliases were reduced
  subband              \* by subband: what was done with it

order   == <<band, w, sbw, sw, tmp>>
vars    == <<channel, pc, xr, l, order, limit, reduced, subband>>

widths == sfbwidth(channel.samplerate, Kind(channel))
isShort == channel.block_type = 2

Untouched == [from |-> -1, window |-> "none", overlaps |-> 0, inversions |-> 0]

Init ==
  /\ channel \in Channels
  /\ pc = IF channel.block_type = 2 THEN "order" ELSE "reduce"
  /\ xr = [k \in 1 .. lines |-> k]
  /\ l = 0 /\ band = 0 /\ w = 0
  /\ sbw = <<0, 0, 0>> /\ sw = <<0, 0, 0>> /\ tmp = [k \in 1 .. lines |-> 0]
  /\ limit = 0 /\ reduced = {}
  /\ subband = [sb \in 0 .. SB - 1 |-> Untouched]

(***************************************************************************)
(* III_reorder                                                             *)
(***************************************************************************)
FirstShort == IF channel.mixed THEN 2 ELSE 0

OrderBegins ==
  /\ pc = "order"
  /\ pc' = "band"
  /\ l' = PerSubband * FirstShort
  /\ band' = LongBands(widths, Kind(channel)) + 1
  /\ sbw' = <<FirstShort, FirstShort, FirstShort>>
  /\ UNCHANGED <<channel, xr, w, sw, tmp, limit, reduced, subband>>

\* tmp[sb][w][k], counted through
Place(sb, window, k) == PerSubband * sb + PerWindow * window + k + 1

\* The lines of a band go one after the other to their window's next place.
LineAt(window, n) ==
  LET k == sw[window + 1] + n
  IN Place(sbw[window + 1] + k \div PerWindow, window, k % PerWindow)

OrderBand ==
  /\ pc = "band" /\ l < lines
  /\ LET n == widths[band]
         k == sw[w + 1] + n
     IN /\ tmp' = FoldLeft(LAMBDA t, j : [t EXCEPT ![LineAt(w, j - 1)] = l + j], tmp,
                           [j \in 1 .. n |-> j])
        /\ sbw' = [sbw EXCEPT ![w + 1] = @ + k \div PerWindow]
        /\ sw' = [sw EXCEPT ![w + 1] = k % PerWindow]
        /\ l' = l + n
  /\ band' = band + 1 /\ w' = (w + 1) % 3
  /\ UNCHANGED <<channel, pc, xr, limit, reduced, subband>>

\* memcpy: the long lines of a mixed block stay.
OrderEnds ==
  /\ pc = "band" /\ l = lines
  /\ xr' = [p \in 1 .. lines |-> IF p <= PerSubband * FirstShort THEN xr[p] ELSE tmp[p]]
  /\ pc' = "reduce" /\ l' = 0
  /\ UNCHANGED <<channel, order, limit, reduced, subband>>

(***************************************************************************)
(* III_decode, the channels' second loop                                   *)
(***************************************************************************)
\* III_aliasreduce(xr, n)
Boundaries(n) == {k \in 1 .. n - 1 : k % PerSubband = 0}

Reduce ==
  /\ pc = "reduce"
  /\ reduced' = IF ~isShort THEN Boundaries(lines)
                ELSE IF channel.mixed THEN Boundaries(LowLines) ELSE {}
  /\ pc' = "low"
  /\ UNCHANGED <<channel, xr, l, order, limit, subband>>

\* III_overlap, III_overlap_z and III_freqinver
Overlapped(s) == [s EXCEPT !.overlaps = @ + 1]
Silent(s)     == [s EXCEPT !.window = "zero", !.overlaps = @ + 1]
Inverted(s)   == [s EXCEPT !.inversions = @ + 1]

\* With the window of a block type; that of short blocks is the only short one.
Transformed(sb, from, block_type) ==
  Overlapped([subband[sb] EXCEPT !.from = from,
                !.window = <<"normal", "start", "short", "stop">>[block_type + 1]])

\* "subbands 0-1": they are long, and of the plain window, in all mixed blocks.
Low ==
  /\ pc = "low"
  /\ LET block_type == IF channel.mixed THEN 0 ELSE channel.block_type
         two == [sb \in 0 .. 1 |-> Transformed(sb, PerSubband * sb, block_type)]
     IN subband' = [subband EXCEPT ![0] = two[0], ![1] = Inverted(two[1])]
  /\ l' = 2 * PerSubband
  /\ limit' \in Limits
  /\ pc' = "high"
  /\ UNCHANGED <<channel, xr, order, reduced>>

sblimit == SB - (lines - limit) \div PerSubband

InvertedIfOdd(s, sb) == IF sb % 2 = 1 THEN Inverted(s) ELSE s

\* "(nonzero) subbands 2-31"
High ==
  /\ pc = "high"
  /\ subband' = [sb \in 0 .. SB - 1 |->
       IF sb \in 2 .. sblimit - 1
         THEN InvertedIfOdd(Transformed(sb, l + PerSubband * (sb - 2), channel.block_type), sb)
         ELSE subband[sb]]
  /\ l' = l + PerSubband * (sblimit - 2)
  /\ pc' = "zero"
  /\ UNCHANGED <<channel, xr, order, limit, reduced>>

\* "remaining (zero) subbands"
Zero ==
  /\ pc = "zero"
  /\ subband' = [sb \in 0 .. SB - 1 |->
       IF sb >= sblimit
         THEN InvertedIfOdd(Silent(subband[sb]), sb)
         ELSE subband[sb]]
  /\ pc' = "done"
  /\ UNCHANGED <<channel, xr, l, order, limit, reduced>>

Next == OrderBegins \/ OrderBand \/ OrderEnds \/ Reduce \/ Low \/ High \/ Zero

Spec == Init /\ [][Next]_vars

(***************************************************************************)
(* Properties.                                                             *)
(***************************************************************************)
TypeOK ==
  /\ pc \in {"order", "band", "reduce", "low", "high", "zero", "done"}
  /\ DOMAIN xr = 1 .. lines /\ l \in 0 .. lines
  /\ band \in 0 .. 40 /\ w \in 0 .. 2
  /\ \A k \in 1 .. 3 : sbw[k] \in 0 .. SB /\ sw[k] \in 0 .. PerWindow - 1
  /\ limit \in Limits \cup {0} /\ reduced \subseteq 1 .. lines
  /\ DOMAIN subband = 0 .. SB - 1

\* The windows of the lines behind the long ones, by the bands.
Windows ==
  LET short == SubSeq(widths, LongBands(widths, Kind(channel)) + 1, Len(widths))
  IN FlattenSeq([b \in DOMAIN short |-> [k \in 1 .. short[b] |-> (b - 1) % 3]])

\* Reordering loses and doubles no line, leaves the long ones, and gives each
\* window its own lines in the order of their frequency.
LinesKept ==
  pc = "reduce" /\ isShort =>
    /\ Range(xr) = 1 .. lines
    /\ \A p \in 1 .. PerSubband * FirstShort : xr[p] = p
    /\ LET of == Windows IN
       \A window \in 0 .. 2 :
         LET ours == [n \in 1 .. PerWindow * (SB - FirstShort) |->
               xr[Place(FirstShort + (n - 1) \div PerWindow, window, (n - 1) % PerWindow)]]
         IN /\ \A n \in DOMAIN ours : of[ours[n] - PerSubband * FirstShort] = window
            /\ \A n \in 1 .. Len(ours) - 1 : ours[n] < ours[n + 1]

\* Each subband is transformed once, from its own lines, and overlapped once; odd
\* ones are inverted; and none that has a line which is not zero is taken as zero.
SubbandsOnce ==
  pc = "done" => \A sb \in 0 .. SB - 1 :
    /\ subband[sb].overlaps = 1
    /\ subband[sb].inversions = sb % 2
    /\ IF subband[sb].window = "zero" THEN limit <= PerSubband * sb
       ELSE subband[sb].from = PerSubband * sb

\* Aliases are reduced between two subbands exactly where both are of long blocks.
LongNeighbours ==
  pc = "done" =>
    LET long == {sb \in 0 .. SB - 1 :
          \/ subband[sb].window \in {"normal", "start", "stop"}
          \/ subband[sb].window = "zero" /\ ~isShort}
    IN reduced = {PerSubband * sb : sb \in {b \in 1 .. SB - 1 : {b - 1, b} \subseteq long}}
=============================================================================

------------------------------- MODULE SideInfo -------------------------------
(***************************************************************************)
(* Side information and scalefactors of a frame (audio/mp3/layer3.c):      *)
(* III_sideinfo, then III_scalefactors or III_scalefactors_lsf for each    *)
(* channel of each granule, with the readers of what these leave:          *)
(* III_exponents and III_stereo.                                           *)
(*                                                                         *)
(* struct sideinfo lies on the stack of mad_layer_III and is never         *)
(* cleared, so whatever the frame's own bits do not set is of no frame.    *)
(* A scalefactor is modelled by what it was read for and how many bits it  *)
(* has; its value is any of so many bits.  The lines are left out here     *)
(* (Huffdecode, Stereo, Subbands).                                         *)
(***************************************************************************)
EXTENDS Bands

CONSTANTS
  Frames       \* bound: the frames, as Frame says

Shape ==
  [switched : BOOLEAN, block_type : 0 .. 3, mixed : BOOLEAN,
   scalefac_compress : 0 .. 511, many : BOOLEAN]   \* many: of big_values

\* What the bits say: shape[gr][ch].  scfsi as the set of groups that are copied.
Frame ==
  [samplerate : Rates, nch : 1 .. 2, joint : BOOLEAN, mode_extension : SUBSET {"i", "ms"},
   scfsi : Seq(SUBSET (0 .. 3)), shape : Seq(Seq(Shape))]

lsf(f) == f.samplerate \notin mpeg1
ngr(f) == IF lsf(f) THEN 1 ELSE 2

SideInfoAssumption ==
  \A f \in Frames :
    /\ f \in Frame
    /\ Len(f.shape) = ngr(f) /\ Len(f.scfsi) = f.nch
    /\ \A gr \in DOMAIN f.shape :
         /\ Len(f.shape[gr]) = f.nch
         /\ \A ch \in 1 .. f.nch :
              LET s == f.shape[gr][ch] IN
              /\ ~lsf(f) => s.scalefac_compress < 16
              /\ ~s.switched => s.block_type = 0 /\ ~s.mixed
    /\ f.joint => f.nch = 2

VARIABLES
  frame,
  pc, gr, ch,
  passed,        \* bits of side information that were read
  result,        \* MAD_ERROR_NONE or the first error
  scalefac       \* scalefac[gr][ch] of two granules, by band from 1

vars == <<frame, pc, gr, ch, passed, result, scalefac>>

Channel  == frame.shape[gr][ch]
Unset    == [of |-> "none", bits |-> 0]
IsLsf    == lsf(frame)
Copied   == IF IsLsf \/ gr = 1 THEN {} ELSE frame.scfsi[ch]

Init ==
  /\ frame \in Frames
  /\ pc = "head" /\ gr = 1 /\ ch = 1
  /\ passed = 0 /\ result = "none"
  /\ scalefac = [g \in 1 .. 2 |-> [c \in 1 .. 2 |-> [b \in 1 .. 39 |-> Unset]]]

(***************************************************************************)
(* III_sideinfo                                                            *)
(***************************************************************************)
Begins ==
  /\ pc = "head"
  /\ passed' = IF IsLsf THEN 8 + frame.nch
               ELSE (9 + IF frame.nch = 1 THEN 5 ELSE 3) + 4 * frame.nch
  /\ pc' = "info"
  /\ UNCHANGED <<frame, gr, ch, result, scalefac>>

SwitchedBits == 2 + 1 + 2 * 5 + 3 * 3
OtherBits    == 3 * 5 + 4 + 3

Errors ==
  << <<Channel.many, "badbigvalues">>,
     <<Channel.switched /\ Channel.block_type = 0, "badblocktype">>,
     <<~IsLsf /\ Channel.block_type = 2 /\ frame.scfsi[ch] # {}, "badscfsi">> >>

\* Only the first error counts, and the rest is read all the same.
Info ==
  /\ pc = "info"
  /\ passed' = passed + 12 + 9 + 8 + (IF IsLsf THEN 9 ELSE 4)
                 + 1 + (IF Channel.switched THEN SwitchedBits ELSE OtherBits)
                 + (IF IsLsf THEN 2 ELSE 3)
  /\ LET found == SelectSeq(Errors, LAMBDA e : e[1])
     IN result' = IF result = "none" /\ found # <<>> THEN found[1][2] ELSE result
  /\ IF ch < frame.nch THEN ch' = ch + 1 /\ UNCHANGED <<gr, pc>>
     ELSE IF gr < ngr(frame) THEN ch' = 1 /\ gr' = gr + 1 /\ UNCHANGED pc
     ELSE ch' = 1 /\ gr' = 1 /\ pc' = "read"
  /\ UNCHANGED <<frame, scalefac>>

\* mad_layer_III decodes the main data of a frame without an error only.
Read ==
  /\ pc = "read"
  /\ pc' = IF result = "none" THEN "scale" ELSE "done"
  /\ UNCHANGED <<frame, gr, ch, passed, result, scalefac>>

(***************************************************************************)
(* III_scalefactors                                                        *)
(***************************************************************************)
sflen_table ==
  << <<0, 0>>, <<0, 1>>, <<0, 2>>, <<0, 3>>, <<3, 0>>, <<1, 1>>, <<1, 2>>, <<1, 3>>,
     <<2, 1>>, <<2, 2>>, <<2, 3>>, <<3, 1>>, <<3, 2>>, <<3, 3>>, <<4, 2>>, <<4, 3>> >>

For(kind, bits) == [of |-> kind, bits |-> bits]

\* n scalefactors of so many bits each
Some(n, kind, bits) == [b \in 1 .. n |-> For(kind, bits)]

Then(written, before) == written \o SubSeq(before, Len(written) + 1, Len(before))

\* The groups of a long block that may be those of the granule before.
Groups == <<1 .. 6, 7 .. 11, 12 .. 16, 17 .. 21>>
GroupOf(b) == CHOOSE g \in DOMAIN Groups : b \in Groups[g]

III_scalefactors ==
  LET kind  == Kind(Channel)
      slen1 == sflen_table[Channel.scalefac_compress + 1][1]
      slen2 == sflen_table[Channel.scalefac_compress + 1][2]
      first == IF kind = "mixed" THEN 8 + 3 * 3 ELSE 6 * 3
      now   == scalefac[gr][ch]
      Long(b) ==
        IF GroupOf(b) - 1 \in Copied THEN scalefac[1][ch][b]
        ELSE For("long", IF GroupOf(b) <= 2 THEN slen1 ELSE slen2)
  IN IF kind = "long"
       THEN Then([b \in 1 .. 21 |-> Long(b)] \o Some(1, kind, 0), now)
       ELSE Then(Some(first, kind, slen1) \o Some(6 * 3, kind, slen2)
                   \o Some(1 * 3, kind, 0), now)

(***************************************************************************)
(* III_scalefactors_lsf                                                    *)
(***************************************************************************)
nsfb_table ==
  << [long |-> <<6, 5, 5, 5>>, short |-> <<9, 9, 9, 9>>, mixed |-> <<6, 9, 9, 9>>],
     [long |-> <<6, 5, 7, 3>>, short |-> <<9, 9, 12, 6>>, mixed |-> <<6, 9, 12, 6>>],
     [long |-> <<11, 10, 0, 0>>, short |-> <<18, 18, 0, 0>>, mixed |-> <<15, 18, 0, 0>>],
     [long |-> <<7, 7, 7, 0>>, short |-> <<12, 12, 12, 0>>, mixed |-> <<6, 15, 12, 0>>],
     [long |-> <<6, 6, 6, 3>>, short |-> <<12, 9, 9, 6>>, mixed |-> <<6, 12, 9, 6>>],
     [long |-> <<8, 8, 5, 0>>, short |-> <<15, 12, 9, 0>>, mixed |-> <<6, 18, 9, 0>>] >>

\* How many bits the four parts' scalefactors have, and how many these are.
Parts(slen, n) == [slen |-> slen, nsfb |-> nsfb_table[n + 1][Kind(Channel)]]

OwnParts(c) ==
  CASE c < 400 -> Parts(<<(c \div 16) \div 5, (c \div 16) % 5, (c % 16) \div 4, c % 4>>, 0)
    [] c \in 400 .. 499 ->
         LET d == c - 400 IN Parts(<<(d \div 4) \div 5, (d \div 4) % 5, d % 4, 0>>, 1)
    [] OTHER -> LET d == c - 500 IN Parts(<<d \div 3, d % 3, 0, 0>>, 2)

IntensityParts(c) ==
  CASE c < 180 -> Parts(<<c \div 36, (c % 36) \div 6, (c % 36) % 6, 0>>, 3)
    [] c \in 180 .. 243 ->
         LET d == c - 180 IN Parts(<<(d % 64) \div 16, (d % 16) \div 4, d % 4, 0>>, 4)
    [] OTHER -> LET d == c - 244 IN Parts(<<d \div 3, d % 3, 0, 0>>, 5)

Intensity == "i" \in frame.mode_extension /\ ch = 2

Filled(p, kind) ==
  LET read == FlattenSeq([k \in 1 .. 4 |-> Some(p.nsfb[k], kind, p.slen[k])])
  IN read \o Some(39 - Len(read), kind, 0)

\* In the right channel of the granule that LSF has not: which positions are the
\* illegal one, of all bits set.
III_scalefactors_lsf ==
  LET c     == Channel.scalefac_compress
      kind  == Kind(Channel)
      right == Filled(IntensityParts(c \div 2), kind)
  IN IF Intensity
       THEN [scalefac EXCEPT ![gr][ch] = right,
               ![2][2] = [b \in 1 .. 39 |-> For("flag", right[b].bits)]]
       ELSE [scalefac EXCEPT ![gr][ch] = Filled(OwnParts(c), kind)]

Scale ==
  /\ pc = "scale"
  /\ scalefac' = IF IsLsf THEN III_scalefactors_lsf
                 ELSE [scalefac EXCEPT ![gr][ch] = III_scalefactors]
  /\ IF ch < frame.nch THEN ch' = ch + 1 /\ UNCHANGED <<gr, pc>>
     ELSE /\ ch' = 1 /\ UNCHANGED gr
          /\ pc' = IF frame.joint /\ frame.mode_extension # {} THEN "stereo" ELSE "granule"
  /\ UNCHANGED <<frame, passed, result>>

\* III_stereo, up to where it takes the right channel's positions.
Stereo ==
  /\ pc = "stereo"
  /\ LET l == frame.shape[gr][1]
         r == frame.shape[gr][2]
     IN IF l.block_type # r.block_type \/ l.mixed # r.mixed
          THEN result' = "badstereo" /\ pc' = "done"
          ELSE pc' = "granule" /\ UNCHANGED result
  /\ UNCHANGED <<frame, gr, ch, passed, scalefac>>

GranuleEnd ==
  /\ pc = "granule"
  /\ IF gr < ngr(frame) THEN gr' = gr + 1 /\ pc' = "scale" ELSE pc' = "done" /\ UNCHANGED gr
  /\ UNCHANGED <<frame, ch, passed, result, scalefac>>

Next == Begins \/ Info \/ Read \/ Scale \/ Stereo \/ GranuleEnd

Spec == Init /\ [][Next]_vars

(***************************************************************************)
(* Properties.                                                             *)
(***************************************************************************)
TypeOK ==
  /\ pc \in {"head", "info", "read", "scale", "stereo", "granule", "done"}
  /\ gr \in 1 .. 2 /\ ch \in 1 .. 2
  /\ passed \in 0 .. 256
  /\ result \in {"none", "badbigvalues", "badblocktype", "badscfsi", "badstereo"}
  /\ \A g, c \in 1 .. 2 :
       scalefac[g][c] \in [1 .. 39 -> [of : {"none", "long", "short", "mixed", "flag"},
                                       bits : 0 .. 5]]

\* mad_layer_III: the length that it takes the checksum of and demands of a frame.
si_len == IF IsLsf THEN IF frame.nch = 1 THEN 9 ELSE 17
          ELSE IF frame.nch = 1 THEN 17 ELSE 32

\* Whatever the flags say, the side information is as long as the frame was asked
\* to be: main data begins at the next byte.
InfoFillsItsBytes == pc = "read" => passed = 8 * si_len

\* III_exponents: the bands whose scalefactors it takes.
UsedBands(g, c) ==
  1 .. IF Kind(frame.shape[g][c]) = "long" THEN 22
       ELSE Len(sfbwidth(frame.samplerate, Kind(frame.shape[g][c])))

\* Every scalefactor that a channel is scaled with was read for a band of the same
\* kind of block, in this granule or, where it is copied, in the one before.
ScaledByOwn ==
  pc \in {"granule", "stereo"} =>
    \A c \in 1 .. frame.nch : \A b \in UsedBands(gr, c) :
      scalefac[gr][c][b].of = Kind(frame.shape[gr][c])

\* Intensity: a position that is not the illegal one is within the table of LSF's
\* fifteen ratios, and which are illegal was said by this frame.
PositionsInTable ==
  pc = "granule" /\ frame.joint /\ "i" \in frame.mode_extension /\ IsLsf =>
    \A b \in UsedBands(gr, 2) :
      LET s == scalefac[gr][2][b] IN
      /\ scalefac[2][2][b] = For("flag", s.bits)
      /\ \A is_pos \in 1 .. 2 ^ s.bits - 2 : (is_pos - 1) \div 2 < 15
=============================================================================

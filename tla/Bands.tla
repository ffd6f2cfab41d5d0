-------------------------------- MODULE Bands --------------------------------
(***************************************************************************)
(* The scalefactor bands of a granule's 576 lines (audio/mp3/layer3.c):    *)
(* their widths for each sample rate, in long, short and mixed blocks.  In *)
(* short blocks the bands of the three windows take turns; mixed blocks    *)
(* are long for the first 36 lines.                                        *)
(***************************************************************************)
EXTENDS Integers, Sequences, SequencesExt

lines == 576
LowLines == 36

long_48000 == <<4, 4, 4, 4, 4, 4, 6, 6, 6, 8, 10, 12, 16, 18, 22, 28, 34, 40, 46, 54, 54, 192>>
long_44100 == <<4, 4, 4, 4, 4, 4, 6, 6, 8, 8, 10, 12, 16, 20, 24, 28, 34, 42, 50, 54, 76, 158>>
long_32000 == <<4, 4, 4, 4, 4, 4, 6, 6, 8, 10, 12, 16, 20, 24, 30, 38, 46, 56, 68, 84, 102, 26>>
long_24000 == <<6, 6, 6, 6, 6, 6, 8, 10, 12, 14, 16, 18, 22, 26, 32, 38, 46, 54, 62, 70, 76, 36>>
long_22050 == <<6, 6, 6, 6, 6, 6, 8, 10, 12, 14, 16, 20, 24, 28, 32, 38, 46, 52, 60, 68, 58, 54>>
long_8000  == <<12, 12, 12, 12, 12, 12, 16, 20, 24, 28, 32, 40, 48, 56, 64, 76, 90, 2, 2, 2, 2, 2>>

\* A width of short and mixed blocks stands for the bands of three windows.
Threes(widths) == FlattenSeq([b \in DOMAIN widths |-> <<widths[b], widths[b], widths[b]>>])

short_48000 == Threes(<<4, 4, 4, 4, 6, 6, 10, 12, 14, 16, 20, 26, 66>>)
short_44100 == Threes(<<4, 4, 4, 4, 6, 8, 10, 12, 14, 18, 22, 30, 56>>)
short_32000 == Threes(<<4, 4, 4, 4, 6, 8, 12, 16, 20, 26, 34, 42, 12>>)
short_24000 == Threes(<<4, 4, 4, 6, 8, 10, 12, 14, 18, 24, 32, 44, 12>>)
short_22050 == Threes(<<4, 4, 4, 6, 6, 8, 10, 14, 18, 26, 32, 42, 18>>)
short_16000 == Threes(<<4, 4, 4, 6, 8, 10, 12, 14, 18, 24, 30, 40, 18>>)
short_8000  == Threes(<<8, 8, 8, 12, 16, 20, 24, 28, 36, 2, 2, 2, 26>>)

mixed_48000 == <<4, 4, 4, 4, 4, 4, 6, 6>> \o Threes(<<4, 6, 6, 10, 12, 14, 16, 20, 26, 66>>)
mixed_44100 == <<4, 4, 4, 4, 4, 4, 6, 6>> \o Threes(<<4, 6, 8, 10, 12, 14, 18, 22, 30, 56>>)
mixed_32000 == <<4, 4, 4, 4, 4, 4, 6, 6>> \o Threes(<<4, 6, 8, 12, 16, 20, 26, 34, 42, 12>>)
mixed_24000 == <<6, 6, 6, 6, 6, 6>> \o Threes(<<6, 8, 10, 12, 14, 18, 24, 32, 44, 12>>)
mixed_22050 == <<6, 6, 6, 6, 6, 6>> \o Threes(<<6, 6, 8, 10, 14, 18, 26, 32, 42, 18>>)
mixed_16000 == <<6, 6, 6, 6, 6, 6>> \o Threes(<<6, 8, 10, 12, 14, 18, 24, 30, 40, 18>>)
mixed_8000  == <<12, 12, 12>> \o Threes(<<4, 8, 12, 16, 20, 24, 28, 36, 2, 2, 2, 26>>)

Widths(l, s, m) == [long |-> l, short |-> s, mixed |-> m]

sfbwidth_table ==
  << Widths(long_48000, short_48000, mixed_48000),
     Widths(long_44100, short_44100, mixed_44100),
     Widths(long_32000, short_32000, mixed_32000),
     Widths(long_24000, short_24000, mixed_24000),
     Widths(long_22050, short_22050, mixed_22050),
     Widths(long_22050, short_16000, mixed_16000),    \* 16000
     Widths(long_22050, short_16000, mixed_16000),    \* 12000
     Widths(long_22050, short_16000, mixed_16000),    \* 11025
     Widths(long_8000, short_8000, mixed_8000) >>

\* The rates of MPEG-1, of MPEG-2 (LSF) and of its extension 2.5.
mpeg1   == {48000, 44100, 32000}
mpeg2   == {24000, 22050, 16000}
mpeg2_5 == {12000, 11025, 8000}
Rates   == mpeg1 \cup mpeg2 \cup mpeg2_5

\* Which table a rate has, by some of its bits.
sfreqi(samplerate) ==
  LET sfreq == IF samplerate \in mpeg2_5 THEN 2 * samplerate ELSE samplerate
      some  == (((sfreq \div 2 ^ 7) % 16) + ((sfreq \div 2 ^ 15) % 2)) - 8
  IN IF samplerate \in mpeg2_5 THEN some + 3 ELSE some

\* mixed counts in a channel of short blocks only.
Kind(channel) ==
  IF channel.block_type # 2 THEN "long"
  ELSE IF channel.mixed THEN "mixed" ELSE "short"

sfbwidth(samplerate, kind) == sfbwidth_table[sfreqi(samplerate) + 1][kind]

\* The first line of band b, from 0; the end of all bands with b = Len(widths).
Begin(widths, b) ==
  LET end[n \in 0 .. b] == IF n = 0 THEN 0 ELSE end[n - 1] + widths[n]
  IN end[b]

\* Of a mixed block, the bands that are long.
LongBands(widths, kind) ==
  CASE kind = "long"  -> Len(widths)
    [] kind = "short" -> 0
    [] kind = "mixed" -> CHOOSE b \in DOMAIN widths : Begin(widths, b) = LowLines

(***************************************************************************)
(* Properties.                                                             *)
(***************************************************************************)

\* Every rate has its own table, in the order of the tables, and in each of them
\* the bands are all lines; those of mixed blocks part where the low lines end,
\* and a group of three begins there.
BandsAreTheLines ==
  /\ \A r \in Rates : sfreqi(r) \in 0 .. 8
  /\ \A r, s \in Rates : r # s => sfreqi(r) # sfreqi(s)
  /\ \A r \in Rates, kind \in {"long", "short", "mixed"} :
       LET w == sfbwidth(r, kind)
           b == LongBands(w, kind)
       IN /\ Begin(w, Len(w)) = lines /\ Len(w) <= 39
          /\ \A k \in DOMAIN w : w[k] % 2 = 0
          /\ (Len(w) - b) % 3 = 0
          /\ kind = "mixed" => Begin(w, b) = LowLines
=============================================================================

------------------------------ MODULE Huffdecode ------------------------------
(***************************************************************************)
(* The Huffman tables of layer III (audio/mp3/huffman.c) and               *)
(* III_huffdecode (layer3.c): the lines of one channel from its codes.     *)
(* startbits bits select an entry of a table, which is the value or the    *)
(* place of the entries for the next bits.                                 *)
(*                                                                         *)
(* The codes are taken from a cache of 32 bits, which is filled ahead of   *)
(* them, beyond the channel's end too; where that end is is only compared  *)
(* with what has been read.  A turn of a loop takes a code; the numbers    *)
(* and signs behind it are steps of their own, so that every look into     *)
(* the cache is one.                                                       *)
(*                                                                         *)
(* The bits are any: a step takes any code of the table.  Of a value only  *)
(* counts whether it is zero (it has no sign), fifteen (a number of        *)
(* linbits bits follows, if the table has linbits) or neither.             *)
(***************************************************************************)
EXTENDS Integers, Sequences, FiniteSets, FiniteSetsExt, SequencesExt

CONSTANTS
  Channels,            \* bound: what side info says of a channel
  Lefts,               \* bound: the bits left in the byte that it begins in
  lines,               \* 576
  sfbwidth,            \* widths of the bands, which are lines in all
  MAD_BUFFER_GUARD     \* 8

CHAR_BIT == 8
cache_bits == 32

\* bits: part2_3_length - part2_length.  table_select has two tables where the
\* window is switched, and III_sideinfo leaves the third one unset.
Channel ==
  [bits : Int, big_values : Nat, table_select : Seq(0 .. 31),
   region0_count : Nat, region1_count : Nat, count1table_select : 0 .. 1]

HuffdecodeAssumption ==
  /\ lines \in Nat /\ lines % 4 = 0
  /\ Channels \subseteq Channel
  /\ \A c \in Channels : 2 * c.big_values <= lines    \* or III_sideinfo fails
  /\ Lefts \subseteq 0 .. CHAR_BIT
  /\ \A b \in DOMAIN sfbwidth : sfbwidth[b] % 2 = 0
  /\ FoldSeq(+, 0, sfbwidth) = lines

VARIABLES
  channel, phase, error,
  cachesz, bits_left,
  line, band, sfbound,   \* xrptr, the bands that have begun, the end of the last
  region, rcount, big_values,
  code,                  \* the pair that is taken
  spare,                 \* history: the bits that were in the cache at the last
                         \* look, less those looked at
  inside                 \* history: the lines whose codes lie in the channel

cache  == <<cachesz, bits_left, spare>>
bands  == <<band, sfbound>>
pairs  == <<region, rcount, big_values>>
vars   == <<channel, phase, error, cache, line, bands, pairs, code, inside>>

(***************************************************************************)
(* The tables: PTR(offs, bits) is <<offs, bits>>, V(x, y, hlen) is         *)
(* <<x, y, hlen>> and V(v, w, x, y, hlen) of the quads has five numbers.   *)
(* The long tables are written in parts.                                   *)
(***************************************************************************)
hufftabA ==
  << <<16,2>>, <<20,2>>, <<24,1>>, <<26,1>>, <<0,0,1,0,4>>, <<0,0,0,1,4>>, <<0,1,0,0,4>>, <<1,0,0,0,4>>,
     <<0,0,0,0,1>>, <<0,0,0,0,1>>, <<0,0,0,0,1>>, <<0,0,0,0,1>>, <<0,0,0,0,1>>, <<0,0,0,0,1>>, <<0,0,0,0,1>>,
     <<0,0,0,0,1>>, <<1,0,1,1,2>>, <<1,1,1,1,2>>, <<1,1,0,1,2>>, <<1,1,1,0,2>>, <<0,1,1,1,2>>, <<0,1,0,1,2>>,
     <<1,0,0,1,1>>, <<1,0,0,1,1>>, <<0,1,1,0,1>>, <<0,0,1,1,1>>, <<1,0,1,0,1>>, <<1,1,0,0,1>> >>

hufftabB ==
  << <<1,1,1,1,4>>, <<1,1,1,0,4>>, <<1,1,0,1,4>>, <<1,1,0,0,4>>, <<1,0,1,1,4>>, <<1,0,1,0,4>>, <<1,0,0,1,4>>,
     <<1,0,0,0,4>>, <<0,1,1,1,4>>, <<0,1,1,0,4>>, <<0,1,0,1,4>>, <<0,1,0,0,4>>, <<0,0,1,1,4>>, <<0,0,1,0,4>>,
     <<0,0,0,1,4>>, <<0,0,0,0,4>> >>

hufftab0 ==
  << <<0,0,0>> >>

hufftab1 ==
  << <<1,1,3>>, <<0,1,3>>, <<1,0,2>>, <<1,0,2>>, <<0,0,1>>, <<0,0,1>>, <<0,0,1>>, <<0,0,1>> >>

hufftab2 ==
  << <<8,3>>, <<1,1,3>>, <<0,1,3>>, <<1,0,3>>, <<0,0,1>>, <<0,0,1>>, <<0,0,1>>, <<0,0,1>>, <<2,2,3>>,
     <<0,2,3>>, <<1,2,2>>, <<1,2,2>>, <<2,1,2>>, <<2,1,2>>, <<2,0,2>>, <<2,0,2>> >>

hufftab3 ==
  << <<8,3>>, <<1,0,3>>, <<1,1,2>>, <<1,1,2>>, <<0,1,2>>, <<0,1,2>>, <<0,0,2>>, <<0,0,2>>, <<2,2,3>>,
     <<0,2,3>>, <<1,2,2>>, <<1,2,2>>, <<2,1,2>>, <<2,1,2>>, <<2,0,2>>, <<2,0,2>> >>

hufftab5 ==
  << <<8,4>>, <<1,1,3>>, <<0,1,3>>, <<1,0,3>>, <<0,0,1>>, <<0,0,1>>, <<0,0,1>>, <<0,0,1>>, <<24,1>>, <<3,2,4>>,
     <<3,1,3>>, <<3,1,3>>, <<1,3,4>>, <<0,3,4>>, <<3,0,4>>, <<2,2,4>>, <<1,2,3>>, <<1,2,3>>, <<2,1,3>>,
     <<2,1,3>>, <<0,2,3>>, <<0,2,3>>, <<2,0,3>>, <<2,0,3>>, <<3,3,1>>, <<2,3,1>> >>

hufftab6 ==
  << <<16,3>>, <<24,1>>, <<26,1>>, <<1,2,4>>, <<2,1,4>>, <<2,0,4>>, <<0,1,3>>, <<0,1,3>>, <<1,1,2>>, <<1,1,2>>,
     <<1,1,2>>, <<1,1,2>>, <<1,0,3>>, <<1,0,3>>, <<0,0,3>>, <<0,0,3>>, <<3,3,3>>, <<0,3,3>>, <<2,3,2>>,
     <<2,3,2>>, <<3,2,2>>, <<3,2,2>>, <<3,0,2>>, <<3,0,2>>, <<1,3,1>>, <<3,1,1>>, <<2,2,1>>, <<0,2,1>> >>

hufftab7 ==
  << <<16,4>>, <<32,4>>, <<48,2>>, <<1,1,4>>, <<0,1,3>>, <<0,1,3>>, <<1,0,3>>, <<1,0,3>>, <<0,0,1>>, <<0,0,1>>,
     <<0,0,1>>, <<0,0,1>>, <<0,0,1>>, <<0,0,1>>, <<0,0,1>>, <<0,0,1>>, <<52,2>>, <<56,1>>, <<58,1>>, <<1,5,4>>,
     <<5,1,4>>, <<60,1>>, <<5,0,4>>, <<62,1>>, <<2,4,4>>, <<4,2,4>>, <<1,4,3>>, <<1,4,3>>, <<4,1,3>>,
     <<4,1,3>>, <<4,0,3>>, <<4,0,3>>, <<0,4,4>>, <<2,3,4>>, <<3,2,4>>, <<0,3,4>>, <<1,3,3>>, <<1,3,3>>,
     <<3,1,3>>, <<3,1,3>>, <<3,0,3>>, <<3,0,3>>, <<2,2,3>>, <<2,2,3>>, <<1,2,2>>, <<1,2,2>>, <<1,2,2>>,
     <<1,2,2>>, <<2,1,1>>, <<2,1,1>>, <<0,2,2>>, <<2,0,2>>, <<5,5,2>>, <<4,5,2>>, <<5,4,2>>, <<5,3,2>>,
     <<3,5,1>>, <<4,4,1>>, <<2,5,1>>, <<5,2,1>>, <<0,5,1>>, <<3,4,1>>, <<4,3,1>>, <<3,3,1>> >>

hufftab8 ==
  << <<16,4>>, <<32,4>>, <<1,2,4>>, <<2,1,4>>, <<1,1,2>>, <<1,1,2>>, <<1,1,2>>, <<1,1,2>>, <<0,1,3>>,
     <<0,1,3>>, <<1,0,3>>, <<1,0,3>>, <<0,0,2>>, <<0,0,2>>, <<0,0,2>>, <<0,0,2>>, <<48,3>>, <<56,2>>, <<60,1>>,
     <<1,5,4>>, <<5,1,4>>, <<62,1>>, <<64,1>>, <<2,4,4>>, <<4,2,4>>, <<1,4,4>>, <<4,1,3>>, <<4,1,3>>,
     <<0,4,4>>, <<4,0,4>>, <<2,3,4>>, <<3,2,4>>, <<1,3,4>>, <<3,1,4>>, <<0,3,4>>, <<3,0,4>>, <<2,2,2>>,
     <<2,2,2>>, <<2,2,2>>, <<2,2,2>>, <<0,2,2>>, <<0,2,2>>, <<0,2,2>>, <<0,2,2>>, <<2,0,2>>, <<2,0,2>>,
     <<2,0,2>>, <<2,0,2>>, <<5,5,3>>, <<5,4,3>>, <<4,5,2>>, <<4,5,2>>, <<5,3,1>>, <<5,3,1>>, <<5,3,1>>,
     <<5,3,1>>, <<3,5,2>>, <<4,4,2>>, <<2,5,1>>, <<2,5,1>>, <<5,2,1>>, <<0,5,1>>, <<3,4,1>>, <<4,3,1>>,
     <<5,0,1>>, <<3,3,1>> >>

hufftab9 ==
  << <<16,4>>, <<32,3>>, <<40,2>>, <<44,2>>, <<48,1>>, <<1,2,4>>, <<2,1,4>>, <<2,0,4>>, <<1,1,3>>, <<1,1,3>>,
     <<0,1,3>>, <<0,1,3>>, <<1,0,3>>, <<1,0,3>>, <<0,0,3>>, <<0,0,3>>, <<50,1>>, <<3,5,4>>, <<5,3,4>>,
     <<52,1>>, <<4,4,4>>, <<2,5,4>>, <<5,2,4>>, <<1,5,4>>, <<5,1,3>>, <<5,1,3>>, <<3,4,3>>, <<3,4,3>>,
     <<4,3,3>>, <<4,3,3>>, <<5,0,4>>, <<0,4,4>>, <<2,4,3>>, <<4,2,3>>, <<3,3,3>>, <<4,0,3>>, <<1,4,2>>,
     <<1,4,2>>, <<4,1,2>>, <<4,1,2>>, <<2,3,2>>, <<3,2,2>>, <<1,3,1>>, <<1,3,1>>, <<3,1,1>>, <<3,1,1>>,
     <<0,3,2>>, <<3,0,2>>, <<2,2,1>>, <<0,2,1>>, <<5,5,1>>, <<4,5,1>>, <<5,4,1>>, <<0,5,1>> >>

hufftab10 ==
  << <<16,4>>, <<32,4>>, <<48,2>>, <<1,1,4>>, <<0,1,3>>, <<0,1,3>>, <<1,0,3>>, <<1,0,3>>, <<0,0,1>>, <<0,0,1>>,
     <<0,0,1>>, <<0,0,1>>, <<0,0,1>>, <<0,0,1>>, <<0,0,1>>, <<0,0,1>>, <<52,3>>, <<60,2>>, <<64,3>>, <<72,1>>,
     <<74,2>>, <<78,2>>, <<82,2>>, <<1,7,4>>, <<7,1,4>>, <<86,1>>, <<88,2>>, <<92,2>>, <<1,6,4>>, <<6,1,4>>,
     <<6,0,4>>, <<96,1>>, <<98,1>>, <<100,1>>, <<1,4,4>>, <<4,1,4>>, <<4,0,4>>, <<2,3,4>>, <<3,2,4>>,
     <<0,3,4>>, <<1,3,3>>, <<1,3,3>>, <<3,1,3>>, <<3,1,3>>, <<3,0,3>>, <<3,0,3>>, <<2,2,3>>, <<2,2,3>>,
     <<1,2,2>>, <<2,1,2>>, <<0,2,2>>, <<2,0,2>>, <<7,7,3>>, <<6,7,3>>, <<7,6,3>>, <<5,7,3>>, <<7,5,3>>,
     <<6,6,3>>, <<4,7,2>>, <<4,7,2>>, <<7,4,2>>, <<5,6,2>>, <<6,5,2>>, <<3,7,2>>, <<7,3,2>>, <<7,3,2>>,
     <<4,6,2>>, <<4,6,2>>, <<5,5,3>>, <<5,4,3>>, <<6,3,2>>, <<6,3,2>>, <<2,7,1>>, <<7,2,1>>, <<6,4,2>>,
     <<0,7,2>>, <<7,0,1>>, <<7,0,1>>, <<6,2,1>>, <<6,2,1>>, <<4,5,2>>, <<3,5,2>>, <<0,6,1>>, <<0,6,1>>,
     <<5,3,2>>, <<4,4,2>>, <<3,6,1>>, <<2,6,1>>, <<2,5,2>>, <<5,2,2>>, <<1,5,1>>, <<1,5,1>>, <<5,1,1>>,
     <<5,1,1>>, <<3,4,2>>, <<4,3,2>>, <<0,5,1>>, <<5,0,1>>, <<2,4,1>>, <<4,2,1>>, <<3,3,1>>, <<0,4,1>> >>

hufftab11 ==
  << <<16,4>>, <<32,4>>, <<48,4>>, <<64,3>>, <<1,2,4>>, <<72,1>>, <<1,1,3>>, <<1,1,3>>, <<0,1,3>>, <<0,1,3>>,
     <<1,0,3>>, <<1,0,3>>, <<0,0,2>>, <<0,0,2>>, <<0,0,2>>, <<0,0,2>>, <<74,2>>, <<78,3>>, <<86,2>>, <<90,1>>,
     <<92,2>>, <<2,7,4>>, <<7,2,4>>, <<96,1>>, <<7,1,3>>, <<7,1,3>>, <<1,7,4>>, <<7,0,4>>, <<3,6,4>>,
     <<6,3,4>>, <<6,0,4>>, <<98,1>>, <<100,1>>, <<1,5,4>>, <<6,2,3>>, <<6,2,3>>, <<2,6,4>>, <<0,6,4>>,
     <<1,6,3>>, <<1,6,3>>, <<6,1,3>>, <<6,1,3>>, <<5,1,4>>, <<3,4,4>>, <<5,0,4>>, <<102,1>>, <<2,4,4>>,
     <<4,2,4>>, <<1,4,4>>, <<4,1,4>>, <<0,4,4>>, <<4,0,4>>, <<2,3,3>>, <<2,3,3>>, <<3,2,3>>, <<3,2,3>>,
     <<1,3,2>>, <<1,3,2>>, <<1,3,2>>, <<1,3,2>>, <<3,1,2>>, <<3,1,2>>, <<3,1,2>>, <<3,1,2>>, <<0,3,3>>,
     <<3,0,3>>, <<2,2,2>>, <<2,2,2>>, <<2,1,1>>, <<2,1,1>>, <<2,1,1>>, <<2,1,1>>, <<0,2,1>>, <<2,0,1>>,
     <<7,7,2>>, <<6,7,2>>, <<7,6,2>>, <<7,5,2>>, <<6,6,2>>, <<6,6,2>>, <<4,7,2>>, <<4,7,2>>, <<7,4,2>>,
     <<7,4,2>>, <<5,7,3>>, <<5,5,3>>, <<5,6,2>>, <<6,5,2>>, <<3,7,1>>, <<3,7,1>>, <<7,3,1>>, <<4,6,1>>,
     <<4,5,2>>, <<5,4,2>>, <<3,5,2>>, <<5,3,2>>, <<6,4,1>>, <<0,7,1>>, <<4,4,1>>, <<2,5,1>>, <<5,2,1>>,
     <<0,5,1>>, <<4,3,1>>, <<3,3,1>> >>

hufftab12 ==
  << <<16,4>>, <<32,4>>, <<48,4>>, <<64,2>>, <<68,3>>, <<76,1>>, <<1,2,4>>, <<2,1,4>>, <<78,1>>, <<0,0,4>>,
     <<1,1,3>>, <<1,1,3>>, <<0,1,3>>, <<0,1,3>>, <<1,0,3>>, <<1,0,3>>, <<80,2>>, <<84,1>>, <<86,1>>, <<88,1>>,
     <<5,6,4>>, <<3,7,4>>, <<90,1>>, <<2,7,4>>, <<7,2,4>>, <<4,6,4>>, <<6,4,4>>, <<1,7,4>>, <<7,1,4>>,
     <<92,1>>, <<3,6,4>>, <<6,3,4>>, <<4,5,4>>, <<5,4,4>>, <<4,4,4>>, <<94,1>>, <<2,6,3>>, <<2,6,3>>,
     <<6,2,3>>, <<6,2,3>>, <<6,1,3>>, <<6,1,3>>, <<1,6,4>>, <<6,0,4>>, <<3,5,4>>, <<5,3,4>>, <<2,5,4>>,
     <<5,2,4>>, <<1,5,3>>, <<1,5,3>>, <<5,1,3>>, <<5,1,3>>, <<3,4,3>>, <<3,4,3>>, <<4,3,3>>, <<4,3,3>>,
     <<5,0,4>>, <<0,4,4>>, <<2,4,3>>, <<2,4,3>>, <<4,2,3>>, <<4,2,3>>, <<1,4,3>>, <<1,4,3>>, <<3,3,2>>,
     <<4,1,2>>, <<2,3,2>>, <<3,2,2>>, <<4,0,3>>, <<0,3,3>>, <<3,0,2>>, <<3,0,2>>, <<1,3,1>>, <<1,3,1>>,
     <<1,3,1>>, <<1,3,1>>, <<3,1,1>>, <<2,2,1>>, <<0,2,1>>, <<2,0,1>>, <<7,7,2>>, <<6,7,2>>, <<7,6,1>>,
     <<7,6,1>>, <<5,7,1>>, <<7,5,1>>, <<6,6,1>>, <<4,7,1>>, <<7,4,1>>, <<6,5,1>>, <<7,3,1>>, <<5,5,1>>,
     <<0,7,1>>, <<7,0,1>>, <<0,6,1>>, <<0,5,1>> >>

hufftab13_1 ==
  << <<16,4>>, <<32,4>>, <<48,4>>, <<64,2>>, <<1,1,4>>, <<0,1,4>>, <<1,0,3>>, <<1,0,3>>, <<0,0,1>>, <<0,0,1>>,
     <<0,0,1>>, <<0,0,1>>, <<0,0,1>>, <<0,0,1>>, <<0,0,1>>, <<0,0,1>>, <<68,4>>, <<84,4>>, <<100,4>>,
     <<116,4>>, <<132,4>>, <<148,4>>, <<164,3>>, <<172,3>>, <<180,3>>, <<188,3>>, <<196,3>>, <<204,3>>,
     <<212,1>>, <<214,2>>, <<218,3>>, <<226,1>>, <<228,2>>, <<232,2>>, <<236,2>>, <<240,2>>, <<8,1,4>>,
     <<244,1>>, <<246,1>>, <<248,1>>, <<250,2>>, <<254,1>>, <<1,5,4>>, <<5,1,4>>, <<256,1>>, <<258,1>>,
     <<260,1>>, <<1,4,4>>, <<4,1,3>>, <<4,1,3>>, <<0,4,4>>, <<4,0,4>>, <<2,3,4>>, <<3,2,4>>, <<1,3,3>>,
     <<1,3,3>>, <<3,1,3>>, <<3,1,3>>, <<0,3,3>>, <<0,3,3>>, <<3,0,3>>, <<3,0,3>>, <<2,2,3>>, <<2,2,3>>,
     <<1,2,2>>, <<2,1,2>>, <<0,2,2>>, <<2,0,2>>, <<262,4>>, <<278,4>>, <<294,4>>, <<310,3>>, <<318,2>>,
     <<322,2>>, <<326,3>>, <<334,2>>, <<338,1>>, <<340,2>>, <<344,2>>, <<348,2>>, <<352,2>>, <<356,2>>,
     <<1,15,4>>, <<15,1,4>>, <<15,0,4>>, <<360,1>>, <<362,1>>, <<364,1>>, <<14,2,4>>, <<366,1>>, <<1,14,4>>,
     <<14,1,4>>, <<368,1>>, <<370,1>>, <<372,1>>, <<374,1>>, <<376,1>>, <<378,1>>, <<12,6,4>>, <<3,13,4>>,
     <<380,1>>, <<2,13,4>>, <<13,2,4>>, <<1,13,4>>, <<11,7,4>>, <<382,1>>, <<384,1>>, <<12,3,4>>, <<386,1>>,
     <<4,11,4>>, <<13,1,3>>, <<13,1,3>>, <<0,13,4>>, <<13,0,4>>, <<8,10,4>>, <<10,8,4>> >>

hufftab13_2 ==
  << <<4,12,4>>, <<12,4,4>>, <<6,11,4>>, <<11,6,4>>, <<3,12,3>>, <<3,12,3>>, <<2,12,3>>, <<2,12,3>>,
     <<12,2,3>>, <<12,2,3>>, <<5,11,3>>, <<5,11,3>>, <<11,5,4>>, <<8,9,4>>, <<1,12,3>>, <<1,12,3>>, <<12,1,3>>,
     <<12,1,3>>, <<9,8,4>>, <<0,12,4>>, <<12,0,3>>, <<12,0,3>>, <<11,4,4>>, <<6,10,4>>, <<10,6,4>>, <<7,9,4>>,
     <<3,11,3>>, <<3,11,3>>, <<11,3,3>>, <<11,3,3>>, <<8,8,4>>, <<5,10,4>>, <<2,11,3>>, <<2,11,3>>, <<10,5,4>>,
     <<6,9,4>>, <<10,4,3>>, <<10,4,3>>, <<7,8,4>>, <<8,7,4>>, <<9,4,3>>, <<9,4,3>>, <<7,7,4>>, <<7,6,4>>,
     <<11,2,2>>, <<11,2,2>>, <<11,2,2>>, <<11,2,2>>, <<1,11,2>>, <<1,11,2>>, <<11,1,2>>, <<11,1,2>>,
     <<0,11,3>>, <<11,0,3>>, <<9,6,3>>, <<4,10,3>>, <<3,10,3>>, <<10,3,3>>, <<5,9,3>>, <<9,5,3>>, <<2,10,2>>,
     <<2,10,2>>, <<10,2,2>>, <<10,2,2>>, <<1,10,2>>, <<1,10,2>>, <<10,1,2>>, <<10,1,2>>, <<0,10,3>>, <<6,8,3>>,
     <<10,0,2>>, <<10,0,2>>, <<8,6,3>>, <<4,9,3>>, <<9,3,2>>, <<9,3,2>>, <<3,9,3>>, <<5,8,3>>, <<8,5,3>>,
     <<6,7,3>>, <<2,9,2>>, <<2,9,2>>, <<9,2,2>>, <<9,2,2>>, <<5,7,3>>, <<7,5,3>>, <<3,8,2>>, <<3,8,2>>,
     <<8,3,2>>, <<8,3,2>>, <<6,6,3>>, <<4,7,3>>, <<7,4,3>>, <<5,6,3>>, <<6,5,3>>, <<7,3,3>>, <<1,9,1>>,
     <<9,1,1>>, <<0,9,2>>, <<9,0,2>>, <<4,8,2>>, <<8,4,2>>, <<7,2,2>>, <<7,2,2>>, <<4,6,3>>, <<6,4,3>>,
     <<2,8,1>>, <<2,8,1>>, <<2,8,1>>, <<2,8,1>>, <<8,2,1>>, <<1,8,1>>, <<3,7,2>>, <<2,7,2>>, <<1,7,1>>,
     <<1,7,1>> >>

hufftab13_3 ==
  << <<7,1,1>>, <<7,1,1>>, <<5,5,2>>, <<0,7,2>>, <<7,0,2>>, <<3,6,2>>, <<6,3,2>>, <<4,5,2>>, <<5,4,2>>,
     <<2,6,2>>, <<6,2,2>>, <<3,5,2>>, <<0,8,1>>, <<8,0,1>>, <<1,6,1>>, <<6,1,1>>, <<0,6,1>>, <<6,0,1>>,
     <<5,3,2>>, <<4,4,2>>, <<2,5,1>>, <<2,5,1>>, <<5,2,1>>, <<0,5,1>>, <<3,4,1>>, <<4,3,1>>, <<5,0,1>>,
     <<2,4,1>>, <<4,2,1>>, <<3,3,1>>, <<388,3>>, <<15,15,4>>, <<14,15,4>>, <<13,15,4>>, <<14,14,4>>,
     <<12,15,4>>, <<13,14,4>>, <<11,15,4>>, <<15,11,4>>, <<12,14,4>>, <<13,12,4>>, <<396,1>>, <<14,12,3>>,
     <<14,12,3>>, <<13,13,3>>, <<13,13,3>>, <<15,10,4>>, <<12,13,4>>, <<11,14,3>>, <<11,14,3>>, <<14,11,3>>,
     <<14,11,3>>, <<9,15,3>>, <<9,15,3>>, <<15,9,3>>, <<15,9,3>>, <<14,10,3>>, <<14,10,3>>, <<11,13,3>>,
     <<11,13,3>>, <<13,11,3>>, <<13,11,3>>, <<8,15,3>>, <<8,15,3>>, <<15,8,3>>, <<15,8,3>>, <<12,12,3>>,
     <<12,12,3>>, <<10,14,4>>, <<9,14,4>>, <<8,14,3>>, <<8,14,3>>, <<7,15,4>>, <<7,14,4>>, <<15,7,2>>,
     <<15,7,2>>, <<15,7,2>>, <<15,7,2>>, <<13,10,2>>, <<13,10,2>>, <<10,13,3>>, <<11,12,3>>, <<12,11,3>>,
     <<15,6,3>>, <<6,15,2>>, <<6,15,2>>, <<14,8,2>>, <<5,15,2>>, <<9,13,2>>, <<13,9,2>>, <<15,5,2>>,
     <<14,7,2>>, <<10,12,2>>, <<11,11,2>>, <<4,15,2>>, <<4,15,2>>, <<15,4,2>>, <<15,4,2>>, <<12,10,3>>,
     <<14,6,3>>, <<15,3,2>>, <<15,3,2>>, <<3,15,1>>, <<3,15,1>>, <<8,13,2>>, <<13,8,2>>, <<2,15,1>>,
     <<15,2,1>> >>

hufftab13_4 ==
  << <<6,14,2>>, <<9,12,2>>, <<0,15,1>>, <<0,15,1>>, <<12,9,2>>, <<5,14,2>>, <<10,11,1>>, <<10,11,1>>,
     <<7,13,2>>, <<13,7,2>>, <<4,14,1>>, <<4,14,1>>, <<12,8,2>>, <<13,6,2>>, <<3,14,1>>, <<3,14,1>>,
     <<11,9,1>>, <<11,9,1>>, <<9,11,2>>, <<10,10,2>>, <<11,10,1>>, <<14,5,1>>, <<14,4,1>>, <<8,12,1>>,
     <<6,13,1>>, <<14,3,1>>, <<2,14,1>>, <<0,14,1>>, <<14,0,1>>, <<5,13,1>>, <<13,5,1>>, <<7,12,1>>,
     <<12,7,1>>, <<4,13,1>>, <<8,11,1>>, <<11,8,1>>, <<13,4,1>>, <<9,10,1>>, <<10,9,1>>, <<6,12,1>>,
     <<13,3,1>>, <<7,11,1>>, <<5,12,1>>, <<12,5,1>>, <<9,9,1>>, <<7,10,1>>, <<10,7,1>>, <<9,7,1>>, <<15,14,3>>,
     <<15,12,3>>, <<15,13,2>>, <<15,13,2>>, <<14,13,1>>, <<14,13,1>>, <<14,13,1>>, <<14,13,1>>, <<10,15,1>>,
     <<14,9,1>> >>

hufftab13 == hufftab13_1 \o hufftab13_2 \o hufftab13_3 \o hufftab13_4

hufftab15_1 ==
  << <<16,4>>, <<32,4>>, <<48,4>>, <<64,4>>, <<80,4>>, <<96,3>>, <<104,3>>, <<112,2>>, <<116,1>>, <<118,1>>,
     <<1,1,3>>, <<1,1,3>>, <<0,1,4>>, <<1,0,4>>, <<0,0,3>>, <<0,0,3>>, <<120,4>>, <<136,4>>, <<152,4>>,
     <<168,4>>, <<184,4>>, <<200,3>>, <<208,3>>, <<216,4>>, <<232,3>>, <<240,3>>, <<248,3>>, <<256,3>>,
     <<264,2>>, <<268,3>>, <<276,3>>, <<284,2>>, <<288,2>>, <<292,2>>, <<296,2>>, <<300,2>>, <<304,2>>,
     <<308,2>>, <<312,2>>, <<316,2>>, <<320,1>>, <<322,1>>, <<324,1>>, <<326,2>>, <<330,1>>, <<332,1>>,
     <<334,2>>, <<338,1>>, <<340,1>>, <<342,1>>, <<9,1,4>>, <<344,1>>, <<346,1>>, <<348,1>>, <<350,1>>,
     <<352,1>>, <<2,8,4>>, <<8,2,4>>, <<1,8,4>>, <<8,1,4>>, <<354,1>>, <<356,1>>, <<358,1>>, <<360,1>>,
     <<2,7,4>>, <<7,2,4>>, <<6,4,4>>, <<1,7,4>>, <<5,5,4>>, <<7,1,4>>, <<362,1>>, <<3,6,4>>, <<6,3,4>>,
     <<4,5,4>>, <<5,4,4>>, <<2,6,4>>, <<6,2,4>>, <<1,6,4>>, <<364,1>>, <<3,5,4>>, <<6,1,3>>, <<6,1,3>>,
     <<5,3,4>>, <<4,4,4>>, <<2,5,3>>, <<2,5,3>>, <<5,2,3>>, <<5,2,3>>, <<1,5,3>>, <<1,5,3>>, <<5,1,3>>,
     <<5,1,3>>, <<0,5,4>>, <<5,0,4>>, <<3,4,3>>, <<3,4,3>>, <<4,3,3>>, <<2,4,3>>, <<4,2,3>>, <<3,3,3>>,
     <<4,1,2>>, <<4,1,2>>, <<1,4,3>>, <<0,4,3>>, <<2,3,2>>, <<2,3,2>>, <<3,2,2>>, <<3,2,2>>, <<4,0,3>>,
     <<0,3,3>>, <<1,3,2>>, <<1,3,2>>, <<3,1,2>>, <<3,0,2>>, <<2,2,1>>, <<2,2,1>>, <<1,2,1>>, <<2,1,1>>,
     <<0,2,1>>, <<2,0,1>> >>

hufftab15_2 ==
  << <<366,1>>, <<368,1>>, <<14,14,4>>, <<370,1>>, <<372,1>>, <<374,1>>, <<15,11,4>>, <<376,1>>, <<13,13,4>>,
     <<10,15,4>>, <<15,10,4>>, <<11,14,4>>, <<14,11,4>>, <<12,13,4>>, <<13,12,4>>, <<9,15,4>>, <<15,9,4>>,
     <<14,10,4>>, <<11,13,4>>, <<13,11,4>>, <<8,15,4>>, <<15,8,4>>, <<12,12,4>>, <<9,14,4>>, <<14,9,4>>,
     <<7,15,4>>, <<15,7,4>>, <<10,13,4>>, <<13,10,4>>, <<11,12,4>>, <<6,15,4>>, <<378,1>>, <<12,11,3>>,
     <<12,11,3>>, <<15,6,3>>, <<15,6,3>>, <<8,14,4>>, <<14,8,4>>, <<5,15,4>>, <<9,13,4>>, <<15,5,3>>,
     <<15,5,3>>, <<7,14,3>>, <<7,14,3>>, <<14,7,3>>, <<14,7,3>>, <<10,12,3>>, <<10,12,3>>, <<12,10,3>>,
     <<12,10,3>>, <<11,11,3>>, <<11,11,3>>, <<13,9,4>>, <<8,13,4>>, <<4,15,3>>, <<4,15,3>>, <<15,4,3>>,
     <<15,4,3>>, <<3,15,3>>, <<3,15,3>>, <<15,3,3>>, <<15,3,3>>, <<13,8,3>>, <<13,8,3>>, <<14,6,3>>,
     <<14,6,3>>, <<2,15,3>>, <<2,15,3>>, <<15,2,3>>, <<15,2,3>>, <<6,14,4>>, <<15,0,4>>, <<1,15,3>>,
     <<1,15,3>>, <<15,1,3>>, <<15,1,3>>, <<9,12,3>>, <<9,12,3>>, <<12,9,3>>, <<12,9,3>>, <<5,14,3>>,
     <<10,11,3>>, <<11,10,3>>, <<14,5,3>>, <<7,13,3>>, <<13,7,3>>, <<4,14,3>>, <<14,4,3>>, <<8,12,3>>,
     <<12,8,3>>, <<3,14,3>>, <<6,13,3>>, <<13,6,3>>, <<14,3,3>>, <<9,11,3>>, <<11,9,3>>, <<2,14,3>>,
     <<2,14,3>>, <<10,10,3>>, <<10,10,3>>, <<14,2,3>>, <<14,2,3>>, <<1,14,3>>, <<1,14,3>>, <<14,1,3>>,
     <<14,1,3>>, <<0,14,4>>, <<14,0,4>>, <<5,13,3>>, <<5,13,3>>, <<13,5,3>>, <<13,5,3>>, <<7,12,3>>,
     <<12,7,3>>, <<4,13,3>>, <<8,11,3>>, <<13,4,2>>, <<13,4,2>>, <<11,8,3>>, <<9,10,3>>, <<10,9,3>>,
     <<6,12,3>>, <<12,6,3>>, <<3,13,3>>, <<13,3,2>>, <<13,3,2>>, <<13,2,2>>, <<13,2,2>> >>

hufftab15_3 ==
  << <<2,13,3>>, <<0,13,3>>, <<1,13,2>>, <<1,13,2>>, <<7,11,2>>, <<7,11,2>>, <<11,7,2>>, <<11,7,2>>,
     <<13,1,2>>, <<13,1,2>>, <<5,12,3>>, <<13,0,3>>, <<12,5,2>>, <<12,5,2>>, <<8,10,2>>, <<8,10,2>>,
     <<10,8,2>>, <<4,12,2>>, <<12,4,2>>, <<6,11,2>>, <<11,6,2>>, <<11,6,2>>, <<9,9,3>>, <<0,12,3>>, <<3,12,2>>,
     <<3,12,2>>, <<12,3,2>>, <<12,3,2>>, <<7,10,2>>, <<7,10,2>>, <<10,7,2>>, <<10,7,2>>, <<10,6,2>>,
     <<10,6,2>>, <<12,0,3>>, <<0,11,3>>, <<12,2,1>>, <<12,2,1>>, <<2,12,2>>, <<5,11,2>>, <<11,5,2>>,
     <<1,12,2>>, <<8,9,2>>, <<9,8,2>>, <<12,1,2>>, <<4,11,2>>, <<11,4,2>>, <<6,10,2>>, <<3,11,2>>, <<7,9,2>>,
     <<11,3,1>>, <<11,3,1>>, <<9,7,2>>, <<8,8,2>>, <<2,11,2>>, <<5,10,2>>, <<11,2,1>>, <<11,2,1>>, <<10,5,2>>,
     <<1,11,2>>, <<11,1,1>>, <<11,1,1>>, <<11,0,2>>, <<6,9,2>>, <<9,6,2>>, <<4,10,2>>, <<10,4,2>>, <<7,8,2>>,
     <<8,7,2>>, <<3,10,2>>, <<10,3,1>>, <<10,3,1>>, <<5,9,1>>, <<9,5,1>>, <<2,10,1>>, <<10,2,1>>, <<1,10,1>>,
     <<10,1,1>>, <<0,10,2>>, <<10,0,2>>, <<6,8,1>>, <<6,8,1>>, <<8,6,1>>, <<4,9,1>>, <<9,4,1>>, <<3,9,1>>,
     <<9,3,1>>, <<9,3,1>>, <<7,7,2>>, <<0,9,2>>, <<5,8,1>>, <<8,5,1>>, <<2,9,1>>, <<6,7,1>>, <<7,6,1>>,
     <<9,2,1>>, <<1,9,1>>, <<9,0,1>> >>

hufftab15_4 ==
  << <<4,8,1>>, <<8,4,1>>, <<5,7,1>>, <<7,5,1>>, <<3,8,1>>, <<8,3,1>>, <<6,6,1>>, <<4,7,1>>, <<7,4,1>>,
     <<0,8,1>>, <<8,0,1>>, <<5,6,1>>, <<6,5,1>>, <<3,7,1>>, <<7,3,1>>, <<4,6,1>>, <<0,7,1>>, <<7,0,1>>,
     <<0,6,1>>, <<6,0,1>>, <<15,15,1>>, <<14,15,1>>, <<15,14,1>>, <<13,15,1>>, <<15,13,1>>, <<12,15,1>>,
     <<15,12,1>>, <<13,14,1>>, <<14,13,1>>, <<11,15,1>>, <<12,14,1>>, <<14,12,1>>, <<10,14,1>>, <<0,15,1>> >>

hufftab15 == hufftab15_1 \o hufftab15_2 \o hufftab15_3 \o hufftab15_4

hufftab16_1 ==
  << <<16,4>>, <<32,4>>, <<48,4>>, <<64,2>>, <<1,1,4>>, <<0,1,4>>, <<1,0,3>>, <<1,0,3>>, <<0,0,1>>, <<0,0,1>>,
     <<0,0,1>>, <<0,0,1>>, <<0,0,1>>, <<0,0,1>>, <<0,0,1>>, <<0,0,1>>, <<68,3>>, <<76,3>>, <<84,2>>,
     <<15,15,4>>, <<88,2>>, <<92,1>>, <<94,4>>, <<15,2,4>>, <<110,1>>, <<1,15,4>>, <<15,1,4>>, <<112,4>>,
     <<128,4>>, <<144,4>>, <<160,4>>, <<176,4>>, <<192,4>>, <<208,3>>, <<216,3>>, <<224,3>>, <<232,3>>,
     <<240,3>>, <<248,3>>, <<256,3>>, <<264,2>>, <<268,2>>, <<272,1>>, <<274,2>>, <<278,2>>, <<282,1>>,
     <<5,1,4>>, <<284,1>>, <<286,1>>, <<288,1>>, <<290,1>>, <<1,4,4>>, <<4,1,4>>, <<292,1>>, <<2,3,4>>,
     <<3,2,4>>, <<1,3,3>>, <<1,3,3>>, <<3,1,3>>, <<3,1,3>>, <<0,3,4>>, <<3,0,4>>, <<2,2,3>>, <<2,2,3>>,
     <<1,2,2>>, <<2,1,2>>, <<0,2,2>>, <<2,0,2>>, <<14,15,3>>, <<15,14,3>>, <<13,15,3>>, <<15,13,3>>,
     <<12,15,3>>, <<15,12,3>>, <<11,15,3>>, <<15,11,3>>, <<10,15,2>>, <<10,15,2>>, <<15,10,3>>, <<9,15,3>>,
     <<15,9,3>>, <<15,8,3>>, <<8,15,2>>, <<8,15,2>>, <<7,15,2>>, <<15,7,2>>, <<6,15,2>>, <<15,6,2>>,
     <<5,15,2>>, <<15,5,2>>, <<4,15,1>>, <<4,15,1>>, <<15,4,1>>, <<15,3,1>>, <<15,0,1>>, <<15,0,1>>,
     <<15,0,1>>, <<15,0,1>>, <<15,0,1>>, <<15,0,1>>, <<15,0,1>>, <<15,0,1>>, <<3,15,2>>, <<3,15,2>>,
     <<3,15,2>>, <<3,15,2>>, <<294,4>>, <<310,3>>, <<318,3>>, <<326,3>>, <<2,15,1>>, <<0,15,1>> >>

hufftab16_2 ==
  << <<334,2>>, <<338,2>>, <<342,2>>, <<346,1>>, <<348,2>>, <<352,2>>, <<356,1>>, <<358,2>>, <<362,2>>,
     <<366,2>>, <<370,2>>, <<14,3,4>>, <<374,1>>, <<376,1>>, <<378,1>>, <<380,1>>, <<382,1>>, <<384,1>>,
     <<386,1>>, <<0,13,4>>, <<388,1>>, <<390,1>>, <<392,1>>, <<3,12,4>>, <<394,1>>, <<1,12,4>>, <<12,0,4>>,
     <<396,1>>, <<14,2,3>>, <<14,2,3>>, <<2,14,4>>, <<1,14,4>>, <<13,3,4>>, <<2,13,4>>, <<13,2,4>>, <<13,1,4>>,
     <<3,11,4>>, <<398,1>>, <<1,13,3>>, <<1,13,3>>, <<12,4,4>>, <<6,11,4>>, <<12,3,4>>, <<10,7,4>>, <<2,12,3>>,
     <<2,12,3>>, <<12,2,4>>, <<11,5,4>>, <<12,1,4>>, <<0,12,4>>, <<4,11,4>>, <<11,4,4>>, <<6,10,4>>,
     <<10,6,4>>, <<11,3,3>>, <<11,3,3>>, <<5,10,4>>, <<10,5,4>>, <<2,11,3>>, <<2,11,3>>, <<11,2,3>>,
     <<11,2,3>>, <<1,11,3>>, <<1,11,3>>, <<11,1,3>>, <<11,1,3>>, <<0,11,4>>, <<11,0,4>>, <<6,9,4>>, <<9,6,4>>,
     <<4,10,4>>, <<10,4,4>>, <<7,8,4>>, <<8,7,4>>, <<10,3,3>>, <<10,3,3>>, <<3,10,4>>, <<5,9,4>>, <<2,10,3>>,
     <<2,10,3>>, <<9,5,4>>, <<6,8,4>>, <<10,1,3>>, <<10,1,3>>, <<8,6,4>>, <<7,7,4>>, <<9,4,3>>, <<9,4,3>>,
     <<4,9,4>>, <<5,7,4>>, <<6,7,3>>, <<6,7,3>>, <<10,2,2>>, <<10,2,2>>, <<10,2,2>>, <<10,2,2>>, <<1,10,2>>,
     <<1,10,2>>, <<0,10,3>>, <<10,0,3>>, <<3,9,3>>, <<9,3,3>>, <<5,8,3>>, <<8,5,3>>, <<2,9,2>>, <<2,9,2>>,
     <<9,2,2>>, <<9,2,2>>, <<7,6,3>>, <<0,9,3>>, <<1,9,2>>, <<1,9,2>>, <<9,1,2>>, <<9,1,2>>, <<9,0,3>>,
     <<4,8,3>>, <<8,4,3>>, <<7,5,3>>, <<3,8,3>>, <<8,3,3>>, <<6,6,3>>, <<2,8,3>>, <<8,2,2>>, <<8,2,2>>,
     <<4,7,3>>, <<7,4,3>>, <<1,8,2>>, <<1,8,2>> >>

hufftab16_3 ==
  << <<8,1,2>>, <<8,1,2>>, <<8,0,2>>, <<8,0,2>>, <<0,8,3>>, <<5,6,3>>, <<3,7,2>>, <<3,7,2>>, <<7,3,2>>,
     <<7,3,2>>, <<6,5,3>>, <<4,6,3>>, <<2,7,2>>, <<2,7,2>>, <<7,2,2>>, <<7,2,2>>, <<6,4,3>>, <<5,5,3>>,
     <<0,7,2>>, <<0,7,2>>, <<1,7,1>>, <<1,7,1>>, <<1,7,1>>, <<1,7,1>>, <<7,1,1>>, <<7,1,1>>, <<7,0,2>>,
     <<3,6,2>>, <<6,3,2>>, <<4,5,2>>, <<5,4,2>>, <<2,6,2>>, <<6,2,1>>, <<1,6,1>>, <<6,1,1>>, <<6,1,1>>,
     <<0,6,2>>, <<6,0,2>>, <<5,3,1>>, <<5,3,1>>, <<3,5,2>>, <<4,4,2>>, <<2,5,1>>, <<5,2,1>>, <<1,5,1>>,
     <<0,5,1>>, <<3,4,1>>, <<4,3,1>>, <<5,0,1>>, <<2,4,1>>, <<4,2,1>>, <<3,3,1>>, <<0,4,1>>, <<4,0,1>>,
     <<12,14,4>>, <<400,1>>, <<13,14,3>>, <<13,14,3>>, <<14,9,3>>, <<14,9,3>>, <<14,10,4>>, <<13,9,4>>,
     <<14,14,2>>, <<14,14,2>>, <<14,14,2>>, <<14,14,2>>, <<14,13,3>>, <<14,13,3>>, <<14,11,3>>, <<14,11,3>>,
     <<11,14,2>>, <<11,14,2>>, <<12,13,2>>, <<12,13,2>>, <<13,12,3>>, <<13,11,3>>, <<10,14,2>>, <<10,14,2>>,
     <<12,12,2>>, <<12,12,2>>, <<10,13,3>>, <<13,10,3>>, <<7,14,3>>, <<10,12,3>>, <<12,10,2>>, <<12,10,2>>,
     <<12,9,3>>, <<7,13,3>>, <<5,14,2>>, <<5,14,2>>, <<11,13,1>>, <<11,13,1>>, <<11,13,1>>, <<11,13,1>>,
     <<9,14,1>>, <<9,14,1>>, <<11,12,2>>, <<12,11,2>>, <<8,14,2>>, <<14,8,2>>, <<9,13,2>>, <<14,7,2>>,
     <<11,11,2>>, <<8,13,2>>, <<13,8,2>>, <<6,14,2>> >>

hufftab16_4 ==
  << <<14,6,1>>, <<9,12,1>>, <<10,11,2>>, <<11,10,2>>, <<14,5,2>>, <<13,7,2>>, <<4,14,1>>, <<4,14,1>>,
     <<14,4,2>>, <<8,12,2>>, <<12,8,1>>, <<3,14,1>>, <<6,13,1>>, <<6,13,1>>, <<13,6,2>>, <<9,11,2>>,
     <<11,9,2>>, <<10,10,2>>, <<14,1,1>>, <<14,1,1>>, <<13,4,1>>, <<13,4,1>>, <<11,8,2>>, <<10,9,2>>,
     <<7,11,1>>, <<7,11,1>>, <<11,7,2>>, <<13,0,2>>, <<0,14,1>>, <<14,0,1>>, <<5,13,1>>, <<13,5,1>>,
     <<7,12,1>>, <<12,7,1>>, <<4,13,1>>, <<8,11,1>>, <<9,10,1>>, <<6,12,1>>, <<12,6,1>>, <<3,13,1>>,
     <<5,12,1>>, <<12,5,1>>, <<8,10,1>>, <<10,8,1>>, <<9,9,1>>, <<4,12,1>>, <<11,6,1>>, <<7,10,1>>, <<5,11,1>>,
     <<8,9,1>>, <<9,8,1>>, <<7,9,1>>, <<9,7,1>>, <<8,8,1>>, <<14,12,1>>, <<13,13,1>> >>

hufftab16 == hufftab16_1 \o hufftab16_2 \o hufftab16_3 \o hufftab16_4

hufftab24_1 ==
  << <<16,4>>, <<32,4>>, <<48,4>>, <<15,15,4>>, <<64,4>>, <<80,4>>, <<96,4>>, <<112,4>>, <<128,4>>, <<144,4>>,
     <<160,3>>, <<168,2>>, <<1,1,4>>, <<0,1,4>>, <<1,0,4>>, <<0,0,4>>, <<14,15,4>>, <<15,14,4>>, <<13,15,4>>,
     <<15,13,4>>, <<12,15,4>>, <<15,12,4>>, <<11,15,4>>, <<15,11,4>>, <<15,10,3>>, <<15,10,3>>, <<10,15,4>>,
     <<9,15,4>>, <<15,9,3>>, <<15,9,3>>, <<15,8,3>>, <<15,8,3>>, <<8,15,4>>, <<7,15,4>>, <<15,7,3>>,
     <<15,7,3>>, <<6,15,3>>, <<6,15,3>>, <<15,6,3>>, <<15,6,3>>, <<5,15,3>>, <<5,15,3>>, <<15,5,3>>,
     <<15,5,3>>, <<4,15,3>>, <<4,15,3>>, <<15,4,3>>, <<15,4,3>>, <<3,15,3>>, <<3,15,3>>, <<15,3,3>>,
     <<15,3,3>>, <<2,15,3>>, <<2,15,3>>, <<15,2,3>>, <<15,2,3>>, <<15,1,3>>, <<15,1,3>>, <<1,15,4>>,
     <<15,0,4>>, <<172,3>>, <<180,3>>, <<188,3>>, <<196,3>>, <<204,4>>, <<220,3>>, <<228,3>>, <<236,3>>,
     <<244,2>>, <<248,2>>, <<252,2>>, <<256,2>>, <<260,2>>, <<264,2>>, <<268,2>>, <<272,2>>, <<276,2>>,
     <<280,3>>, <<288,2>>, <<292,2>>, <<296,2>>, <<300,3>>, <<308,2>>, <<312,3>>, <<320,1>>, <<322,2>>,
     <<326,2>>, <<330,1>>, <<332,2>>, <<336,1>>, <<338,1>>, <<340,1>>, <<342,1>>, <<344,1>>, <<346,1>>,
     <<348,1>>, <<350,1>>, <<352,1>>, <<354,1>>, <<356,1>>, <<358,1>>, <<360,1>>, <<362,1>>, <<364,1>>,
     <<366,1>>, <<368,1>>, <<370,2>>, <<374,1>>, <<376,2>>, <<7,3,4>>, <<380,1>>, <<7,2,4>>, <<4,6,4>>,
     <<6,4,4>>, <<5,5,4>>, <<7,1,4>>, <<3,6,4>>, <<6,3,4>>, <<4,5,4>>, <<5,4,4>>, <<2,6,4>>, <<6,2,4>>,
     <<1,6,4>>, <<6,1,4>>, <<382,1>>, <<3,5,4>>, <<5,3,4>>, <<4,4,4>> >>

hufftab24_2 ==
  << <<2,5,4>>, <<5,2,4>>, <<1,5,4>>, <<384,1>>, <<5,1,3>>, <<5,1,3>>, <<3,4,4>>, <<4,3,4>>, <<2,4,3>>,
     <<2,4,3>>, <<4,2,3>>, <<4,2,3>>, <<3,3,3>>, <<3,3,3>>, <<1,4,3>>, <<1,4,3>>, <<4,1,3>>, <<4,1,3>>,
     <<0,4,4>>, <<4,0,4>>, <<2,3,3>>, <<2,3,3>>, <<3,2,3>>, <<3,2,3>>, <<1,3,2>>, <<1,3,2>>, <<1,3,2>>,
     <<1,3,2>>, <<3,1,2>>, <<3,1,2>>, <<3,1,2>>, <<3,1,2>>, <<0,3,3>>, <<3,0,3>>, <<2,2,2>>, <<2,2,2>>,
     <<1,2,1>>, <<1,2,1>>, <<1,2,1>>, <<1,2,1>>, <<2,1,1>>, <<2,1,1>>, <<0,2,2>>, <<2,0,2>>, <<0,15,1>>,
     <<0,15,1>>, <<0,15,1>>, <<0,15,1>>, <<14,14,3>>, <<13,14,3>>, <<14,13,3>>, <<12,14,3>>, <<14,12,3>>,
     <<13,13,3>>, <<11,14,3>>, <<14,11,3>>, <<12,13,3>>, <<13,12,3>>, <<10,14,3>>, <<14,10,3>>, <<11,13,3>>,
     <<13,11,3>>, <<12,12,3>>, <<9,14,3>>, <<14,9,3>>, <<10,13,3>>, <<13,10,3>>, <<11,12,3>>, <<12,11,3>>,
     <<8,14,3>>, <<14,8,3>>, <<9,13,3>>, <<13,9,3>>, <<7,14,3>>, <<14,7,3>>, <<10,12,3>>, <<12,10,3>>,
     <<12,10,3>>, <<11,11,3>>, <<11,11,3>>, <<8,13,3>>, <<8,13,3>>, <<13,8,3>>, <<13,8,3>>, <<0,14,4>>,
     <<14,0,4>>, <<0,13,3>>, <<0,13,3>>, <<14,6,2>>, <<14,6,2>>, <<14,6,2>>, <<14,6,2>>, <<6,14,3>>,
     <<9,12,3>>, <<12,9,2>>, <<12,9,2>>, <<5,14,2>>, <<5,14,2>>, <<11,10,2>>, <<11,10,2>>, <<14,5,2>>,
     <<14,5,2>>, <<10,11,3>>, <<7,13,3>>, <<13,7,2>>, <<13,7,2>>, <<14,4,2>>, <<14,4,2>>, <<8,12,2>>,
     <<8,12,2>>, <<12,8,2>>, <<12,8,2>>, <<4,14,3>>, <<2,14,3>>, <<3,14,2>>, <<3,14,2>>, <<6,13,2>>,
     <<13,6,2>>, <<14,3,2>>, <<9,11,2>> >>

hufftab24_3 ==
  << <<11,9,2>>, <<10,10,2>>, <<14,2,2>>, <<1,14,2>>, <<14,1,2>>, <<5,13,2>>, <<13,5,2>>, <<7,12,2>>,
     <<12,7,2>>, <<4,13,2>>, <<8,11,2>>, <<11,8,2>>, <<13,4,2>>, <<9,10,2>>, <<10,9,2>>, <<6,12,2>>,
     <<12,6,2>>, <<3,13,2>>, <<13,3,2>>, <<2,13,2>>, <<13,2,2>>, <<1,13,2>>, <<7,11,2>>, <<11,7,2>>,
     <<13,1,2>>, <<5,12,2>>, <<12,5,2>>, <<8,10,2>>, <<10,8,2>>, <<9,9,2>>, <<4,12,2>>, <<12,4,2>>, <<6,11,2>>,
     <<6,11,2>>, <<11,6,2>>, <<11,6,2>>, <<13,0,3>>, <<0,12,3>>, <<3,12,2>>, <<3,12,2>>, <<12,3,2>>,
     <<7,10,2>>, <<10,7,2>>, <<2,12,2>>, <<12,2,2>>, <<5,11,2>>, <<11,5,2>>, <<1,12,2>>, <<8,9,2>>, <<9,8,2>>,
     <<12,1,2>>, <<4,11,2>>, <<12,0,3>>, <<0,11,3>>, <<3,11,2>>, <<3,11,2>>, <<11,0,3>>, <<0,10,3>>,
     <<1,10,2>>, <<1,10,2>>, <<11,4,1>>, <<11,4,1>>, <<6,10,2>>, <<10,6,2>>, <<7,9,2>>, <<7,9,2>>, <<9,7,2>>,
     <<9,7,2>>, <<10,0,3>>, <<0,9,3>>, <<9,0,2>>, <<9,0,2>>, <<11,3,1>>, <<8,8,1>>, <<2,11,2>>, <<5,10,2>>,
     <<11,2,1>>, <<11,2,1>>, <<10,5,2>>, <<1,11,2>>, <<11,1,2>>, <<6,9,2>>, <<9,6,1>>, <<10,4,1>>, <<4,10,2>>,
     <<7,8,2>>, <<8,7,1>>, <<8,7,1>>, <<3,10,1>>, <<10,3,1>>, <<5,9,1>>, <<9,5,1>>, <<2,10,1>>, <<10,2,1>>,
     <<10,1,1>>, <<6,8,1>>, <<8,6,1>>, <<7,7,1>> >>

hufftab24_4 ==
  << <<4,9,1>>, <<9,4,1>>, <<3,9,1>>, <<9,3,1>>, <<5,8,1>>, <<8,5,1>>, <<2,9,1>>, <<6,7,1>>, <<7,6,1>>,
     <<9,2,1>>, <<1,9,1>>, <<9,1,1>>, <<4,8,1>>, <<8,4,1>>, <<5,7,1>>, <<7,5,1>>, <<3,8,1>>, <<8,3,1>>,
     <<6,6,1>>, <<2,8,1>>, <<8,2,1>>, <<1,8,1>>, <<4,7,1>>, <<7,4,1>>, <<8,1,1>>, <<8,1,1>>, <<0,8,2>>,
     <<8,0,2>>, <<5,6,1>>, <<6,5,1>>, <<1,7,1>>, <<1,7,1>>, <<0,7,2>>, <<7,0,2>>, <<3,7,1>>, <<2,7,1>>,
     <<0,6,1>>, <<6,0,1>>, <<0,5,1>>, <<5,0,1>> >>

hufftab24 == hufftab24_1 \o hufftab24_2 \o hufftab24_3 \o hufftab24_4

(***************************************************************************)
(* The tables by their numbers                                             *)
(***************************************************************************)
mad_huff_quad_table == <<hufftabA, hufftabB>>

Unused == [table |-> <<>>, linbits |-> 0, startbits |-> 0]
Pairs(table, linbits, startbits) ==
  [table |-> table, linbits |-> linbits, startbits |-> startbits]

\* mad_huff_pair_table[n + 1] is the code's mad_huff_pair_table[n].
mad_huff_pair_table ==
  << Pairs(hufftab0, 0, 0), Pairs(hufftab1, 0, 3), Pairs(hufftab2, 0, 3),
     Pairs(hufftab3, 0, 3), Unused, Pairs(hufftab5, 0, 3), Pairs(hufftab6, 0, 4),
     Pairs(hufftab7, 0, 4), Pairs(hufftab8, 0, 4), Pairs(hufftab9, 0, 4),
     Pairs(hufftab10, 0, 4), Pairs(hufftab11, 0, 4), Pairs(hufftab12, 0, 4),
     Pairs(hufftab13, 0, 4), Unused, Pairs(hufftab15, 0, 4) >>
  \o [k \in 1 .. 8 |-> Pairs(hufftab16, <<1, 2, 3, 4, 6, 8, 10, 13>>[k], 4)]
  \o [k \in 1 .. 8 |-> Pairs(hufftab24, <<4, 5, 6, 7, 8, 9, 11, 13>>[k], 4)]

(***************************************************************************)
(* The lookup                                                              *)
(***************************************************************************)
Final(entry) == Len(entry) # 2
Value(entry) == Front(entry)
hlen(entry)  == Last(entry)

\* What the bits k of a lookup of so many bits select.
Selected(table, offset, k) == table[offset + k + 1]

\* The values that are found from a place on, each with its code: a number of len
\* bits.  peek is how many bits are looked at to find it, looks how often.
RECURSIVE Codes(_, _, _)
Codes(table, offset, bits) ==
  UNION {
    LET e == Selected(table, offset, k) IN
    IF Final(e)
      THEN {[value |-> Value(e), len |-> hlen(e), code |-> k \div 2 ^ (bits - hlen(e)),
             peek |-> bits, looks |-> 1]}
      ELSE {[c EXCEPT !.len = @ + bits, !.code = (k * 2 ^ c.len) + @,
                      !.peek = @ + bits, !.looks = @ + 1] :
              c \in Codes(table, e[1], e[2])}
    : k \in 0 .. 2 ^ bits - 1}

PairCodes == [n \in 0 .. 31 |->
  LET t == mad_huff_pair_table[n + 1] IN
  IF t.table = <<>> THEN {} ELSE Codes(t.table, 0, t.startbits)]
QuadCodes == [n \in 0 .. 1 |-> Codes(mad_huff_quad_table[n + 1], 0, 4)]

(***************************************************************************)
(* The channel                                                             *)
(***************************************************************************)
\* Down to whole bytes, as & ~7 does.
Bytes(n) == (n \div CHAR_BIT) * CHAR_BIT

NoCode == [x |-> 0, y |-> 0]

Table(r) == mad_huff_pair_table[channel.table_select[r + 1] + 1]
linbits  == Table(region).linbits

Rest == cachesz + bits_left        \* of the channel's bits, not taken yet

(***************************************************************************)
(* The codes of a table that differ for the cache                          *)
(***************************************************************************)
Kind(v) == IF v \in {0, 15} THEN v ELSE 1
PairShapes == [n \in 0 .. 31 |->
  {[len |-> c.len, peek |-> c.peek, x |-> Kind(c.value[1]), y |-> Kind(c.value[2])] :
     c \in PairCodes[n]}]
QuadShapes == [n \in 0 .. 1 |->
  {[len |-> c.len, peek |-> c.peek, signs |-> c.value] : c \in QuadCodes[n]}]

Init ==
  /\ channel \in Channels
  /\ phase = "start" /\ error = "none"
  /\ cachesz \in Lefts /\ bits_left = channel.bits
  /\ line = 0 /\ band = 0 /\ sfbound = 0
  /\ region = 0 /\ rcount = 0 /\ big_values = channel.big_values
  /\ code = NoCode /\ spare = 0 /\ inside = 0

Fail(e) ==
  /\ error' = e /\ phase' = "done"
  /\ UNCHANGED <<channel, line, code, inside>>

(***************************************************************************)
(* The cache                                                               *)
(***************************************************************************)
\* bits more are read into a cache that held held.
Filled(held, bits) ==
  /\ cachesz' = held + bits
  /\ bits_left' = bits_left - bits

\* A look for peek bits into a cache that is filled up by bits, which takes len.
Look(bits, peek, len) ==
  /\ spare' = (cachesz + bits) - peek
  /\ cachesz' = (cachesz + bits) - len
  /\ bits_left' = bits_left - bits

RefillLate == IF cachesz < 20 THEN Bytes((cache_bits - 1) - cachesz) ELSE 0 \* mutant: refills a bit too late

Refill == IF cachesz < 21 THEN Bytes((cache_bits - 1) - cachesz) ELSE 0

Start ==
  /\ phase = "start"
  /\ IF channel.bits < 0
       THEN Fail("badpart3len") /\ UNCHANGED <<cache, bands, pairs>>
       ELSE /\ Filled(cachesz, Bytes((cache_bits - 1) - cachesz))
            /\ band' = 1 /\ sfbound' = sfbwidth[1]
            /\ rcount' = channel.region0_count + 1
            /\ IF Table(0).table = <<>>
                 THEN Fail("badhufftable")
                 ELSE phase' = "pair" /\ UNCHANGED <<error, channel, line, code, inside>>
            /\ UNCHANGED <<spare, region, big_values>>

(***************************************************************************)
(* big_values                                                              *)
(***************************************************************************)
NextBand ==
  /\ band' = band + 1
  /\ sfbound' = sfbound + sfbwidth[band + 1]

\* rcount 0 stands for all the bands that remain.
NextRegion ==
  IF rcount = 1
    THEN region' = region + 1
         /\ rcount' = IF region = 0 THEN channel.region1_count + 1 ELSE 0
    ELSE region' = region /\ rcount' = IF rcount = 0 THEN 0 ELSE rcount - 1

TakesPair == phase = "pair" /\ big_values > 0 /\ Rest > 0

EnterBand ==
  IF line = sfbound THEN NextBand /\ NextRegion
  ELSE UNCHANGED <<bands, region, rcount>>

NoTable ==
  /\ TakesPair /\ EnterBand
  /\ region' # region /\ Table(region').table = <<>>
  /\ Fail("badhufftable")
  /\ UNCHANGED <<cache, big_values>>

Pair ==
  /\ TakesPair /\ EnterBand
  /\ big_values' = big_values - 1
  /\ \E c \in PairShapes[channel.table_select[region' + 1]] :
       Look(Refill, c.peek, c.len) /\ code' = [x |-> c.x, y |-> c.y]
  /\ phase' = "x"
  /\ UNCHANGED <<channel, error, line, inside>>

\* What follows a code for one of its values, next is what may still be looked at
\* without filling up.  Zero has no sign.
Number(v, next) ==
  CASE v = 0 -> UNCHANGED cache
    [] v = 15 /\ linbits > 0 ->
         Look(IF cachesz < linbits + next THEN 16 ELSE 0, linbits + 1, linbits + 1)
    [] OTHER -> Look(0, 1, 1)

NumberX ==
  /\ phase = "x"
  /\ Number(code.x, 2)
  /\ phase' = "y"
  /\ UNCHANGED <<channel, error, line, bands, pairs, code, inside>>

NumberY ==
  /\ phase = "y"
  /\ Number(code.y, 1)
  /\ phase' = "pair" /\ code' = NoCode
  /\ line' = line + 2
  /\ inside' = IF Rest' >= 0 THEN line' ELSE inside
  /\ UNCHANGED <<channel, error, bands, pairs>>

PairsEnd ==
  /\ phase = "pair" /\ ~TakesPair
  /\ IF Rest < 0 THEN Fail("badhuffdata")
     ELSE phase' = "count1" /\ UNCHANGED <<channel, error, line, code, inside>>
  /\ UNCHANGED <<cache, bands, pairs>>

(***************************************************************************)
(* count1                                                                  *)
(***************************************************************************)
TakesQuad == phase = "count1" /\ Rest > 0 /\ line <= lines - 4

\* A band may begin before the first two values and before the others.
BandsOfQuad ==
  LET first == IF line = sfbound THEN 1 ELSE 0
      bound == IF first = 1 THEN sfbound + sfbwidth[band + 1] ELSE sfbound
      both  == IF line + 2 = bound THEN first + 1 ELSE first
  IN /\ band' = band + both
     /\ sfbound' = IF both > first THEN bound + sfbwidth[band + both] ELSE bound

Quad ==
  /\ TakesQuad
  /\ BandsOfQuad
  /\ \E c \in QuadShapes[channel.count1table_select] :
       LET ones == FoldSeq(+, 0, c.signs)
       IN Look(IF cachesz < 10 THEN 16 ELSE 0, Max({c.peek, c.len + ones}), c.len + ones)
  /\ line' = line + 4
  /\ inside' = IF Rest' >= 0 THEN line' ELSE inside
  /\ UNCHANGED <<channel, phase, error, pairs, code>>

QuadsEnd ==
  /\ phase = "count1" /\ ~TakesQuad
  /\ line' = IF Rest < 0 THEN line - 4 ELSE line
  /\ phase' = "done"
  /\ UNCHANGED <<channel, error, cache, bands, pairs, code, inside>>

Next ==
  \/ Start \/ NoTable \/ Pair \/ NumberX \/ NumberY \/ PairsEnd
  \/ Quad \/ QuadsEnd

Spec == Init /\ [][Next]_vars

(***************************************************************************)
(* Properties.                                                             *)
(***************************************************************************)
TypeOK ==
  /\ channel \in Channels
  /\ phase \in {"start", "pair", "x", "y", "count1", "done"}
  /\ error \in {"none", "badpart3len", "badhufftable", "badhuffdata"}
  /\ cachesz \in Int /\ bits_left \in Int /\ spare \in Int
  /\ line \in 0 .. lines /\ inside \in 0 .. lines
  /\ band \in 0 .. Len(sfbwidth) /\ sfbound \in 0 .. lines
  /\ region \in 0 .. 2 /\ rcount \in Nat /\ big_values \in Nat
  /\ code \in [x : {0, 1, 15}, y : {0, 1, 15}]

\* "we must take care that sz >= bits": no look wants more bits than the cache
\* has, and the cache is never filled beyond its 32 bits.
BitsSuffice == spare >= 0 /\ cachesz \in 0 .. cache_bits - 1

\* "assert(-bits_left <= MAD_BUFFER_GUARD * CHAR_BIT)": however the channel's codes
\* run over its end, not more than the guard is read behind it.
WithinGuard == -bits_left <= MAD_BUFFER_GUARD * CHAR_BIT

\* Only the tables of the side information are used.
TablesAreSet == region < Len(channel.table_select)

\* What a channel gives are the lines whose codes lie within its bits, no less and
\* no more.
LinesFromOwnBits ==
  phase = "done" /\ error = "none" => line = inside

\* Every selection lies in the table, and the numbers in their bit fields.
WithinTable(table, startbits) ==
  /\ 2 ^ startbits <= Len(table)
  /\ \A k \in DOMAIN table :
       IF Final(table[k])
         THEN Last(table[k]) \in 0 .. 7 /\ \A m \in DOMAIN Value(table[k]) : table[k][m] \in 0 .. 15
         ELSE table[k][2] \in 1 .. 7 /\ table[k][1] + 2 ^ table[k][2] <= Len(table)

\* Each value has one code, none begins with another, and whatever the bits are,
\* they begin with one.
IsCode(codes, longest, values) ==
  /\ {c.value : c \in codes} = values
  /\ Cardinality(codes) = Cardinality(values)
  /\ 2 ^ longest = MapThenSumSet(
       LAMBDA n : Cardinality({c \in codes : c.len = n}) * 2 ^ (longest - n), 0 .. longest)

\* Both numbers of a pair go up to the same.
Square(codes) ==
  LET top == Max({c.value[1] : c \in codes}) IN {<<x, y>> : x, y \in 0 .. top}

\* The tables are what the decoder takes them for.
TablesAreCodes ==
  /\ \A n \in 0 .. 31 :
       LET t == mad_huff_pair_table[n + 1] IN
       t.table # <<>> => WithinTable(t.table, t.startbits)
                         /\ IsCode(PairCodes[n], 19, Square(PairCodes[n]))
  /\ \A n \in 0 .. 1 :
       /\ WithinTable(mad_huff_quad_table[n + 1], 4)
       /\ IsCode(QuadCodes[n], 6, [1 .. 4 -> 0 .. 1])
       /\ \A c \in QuadCodes[n] : c.looks <= 2
=============================================================================

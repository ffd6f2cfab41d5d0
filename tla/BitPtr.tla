-------------------------------- MODULE BitPtr --------------------------------
(***************************************************************************)
(* The bit pointer of the decoder (audio/mp3/bit.c): reading and skipping  *)
(* bits with the byte at hand in a cache, and the checksum of a frame's    *)
(* side information.                                                       *)
(*                                                                         *)
(* left is 16 bits wide, and skip lets it go below zero.  After a skip it  *)
(* may be 0, where the other operations have CHAR_BIT of the next byte.    *)
(***************************************************************************)
EXTENDS Integers, Sequences, SequencesExt, Bitwise

CONSTANTS
  Data,          \* bound: the bytes, one more than what is read
  Lengths        \* bound: how many bits are read or skipped at once

CHAR_BIT == 8
left_limit == 65536

BitPtrAssumption ==
  /\ \A d \in Data : d \in Seq(0 .. 255) /\ d # <<>>
  /\ Lengths \subseteq 0 .. 24       \* 32 are more than TLC's numbers have

VARIABLES
  data,
  byte, cache, left,     \* struct mad_bitptr, byte as an offset
  passed,                \* history: the bits that were read or skipped
  last, value            \* how many the last read took, and what it gave

pointer == <<byte, cache, left>>
vars    == <<data, pointer, passed, last, value>>

ByteAt(n) == data[n + 1]

\* mad_bit_init
Init ==
  /\ data \in Data
  /\ byte = 0 /\ cache = 0 /\ left = CHAR_BIT
  /\ passed = 0 /\ last = 0 /\ value = 0

InData(len) == passed + len <= CHAR_BIT * (Len(data) - 1)

\* mad_bit_skip
Skip(len) ==
  LET less  == (left - (len % CHAR_BIT)) % left_limit
      wraps == less > CHAR_BIT
      place == byte + (len \div CHAR_BIT) + IF wraps THEN 1 ELSE 0
      there == IF wraps THEN (less + CHAR_BIT) % left_limit ELSE less
  IN /\ InData(len)
     /\ byte' = place /\ left' = there
     /\ cache' = IF there < CHAR_BIT THEN ByteAt(place) ELSE cache
     /\ passed' = passed + len /\ last' = 0 /\ value' = 0
     /\ UNCHANGED data

\* mad_bit_read
Current == IF left = CHAR_BIT THEN ByteAt(byte) ELSE cache
Remaining == Current % 2 ^ left

ReadWithin(len) ==
  /\ len < left
  /\ value' = Remaining \div 2 ^ (left - len)
  /\ left' = left - len /\ cache' = Current
  /\ byte' = byte

ReadBeyond(len) ==
  LET more  == len - left
      whole == more \div CHAR_BIT
      odd   == more % CHAR_BIT
      bytes == [n \in 1 .. whole |-> ByteAt(byte + n)]
      next  == byte + 1 + whole
      high  == FoldLeft(LAMBDA v, b : v * 2 ^ CHAR_BIT + b, Remaining, bytes)
  IN /\ len >= left
     /\ byte' = next
     /\ IF odd = 0
          THEN value' = high /\ left' = CHAR_BIT /\ cache' = Current
          ELSE /\ cache' = ByteAt(next)
               /\ value' = high * 2 ^ odd + ByteAt(next) \div 2 ^ (CHAR_BIT - odd)
               /\ left' = CHAR_BIT - odd

Read(len) ==
  /\ InData(len)
  /\ ReadWithin(len) \/ ReadBeyond(len)
  /\ passed' = passed + len /\ last' = len
  /\ UNCHANGED data

Next == \E len \in Lengths : Skip(len) \/ Read(len)

Spec == Init /\ [][Next]_vars

\* mad_bit_length from the beginning of the data
Length == CHAR_BIT + CHAR_BIT * (byte - 1) + (CHAR_BIT - left)

\* mad_bit_nextbyte
NextByte == IF left = CHAR_BIT THEN byte ELSE byte + 1

(***************************************************************************)
(* mad_bit_crc                                                             *)
(***************************************************************************)
CRC_POLY == 32773
crc_limit == 65536

crc_table ==
  << 0, 32773, 32783, 10, 32795, 30, 20, 32785, 32819, 54, 60, 32825, 40, 32813, 32807, 34, 32867,
     102, 108, 32873, 120, 32893, 32887, 114, 80, 32853, 32863, 90, 32843, 78, 68, 32833, 32963,
     198, 204, 32969, 216, 32989, 32983, 210, 240, 33013, 33023, 250, 33003, 238, 228, 32993, 160,
     32933, 32943, 170, 32955, 190, 180, 32945, 32915, 150, 156, 32921, 136, 32909, 32903, 130,
     33155, 390, 396, 33161, 408, 33181, 33175, 402, 432, 33205, 33215, 442, 33195, 430, 420,
     33185, 480, 33253, 33263, 490, 33275, 510, 500, 33265, 33235, 470, 476, 33241, 456, 33229,
     33223, 450, 320, 33093, 33103, 330, 33115, 350, 340, 33105, 33139, 374, 380, 33145, 360,
     33133, 33127, 354, 33059, 294, 300, 33065, 312, 33085, 33079, 306, 272, 33045, 33055, 282,
     33035, 270, 260, 33025, 33539, 774, 780, 33545, 792, 33565, 33559, 786, 816, 33589, 33599,
     826, 33579, 814, 804, 33569, 864, 33637, 33647, 874, 33659, 894, 884, 33649, 33619, 854, 860,
     33625, 840, 33613, 33607, 834, 960, 33733, 33743, 970, 33755, 990, 980, 33745, 33779, 1014,
     1020, 33785, 1000, 33773, 33767, 994, 33699, 934, 940, 33705, 952, 33725, 33719, 946, 912,
     33685, 33695, 922, 33675, 910, 900, 33665, 640, 33413, 33423, 650, 33435, 670, 660, 33425,
     33459, 694, 700, 33465, 680, 33453, 33447, 674, 33507, 742, 748, 33513, 760, 33533, 33527,
     754, 720, 33493, 33503, 730, 33483, 718, 708, 33473, 33347, 582, 588, 33353, 600, 33373,
     33367, 594, 624, 33397, 33407, 634, 33387, 622, 612, 33377, 544, 33317, 33327, 554, 33339,
     574, 564, 33329, 33299, 534, 540, 33305, 520, 33293, 33287, 514 >>

Bit(d, n) == (d[n \div CHAR_BIT + 1] \div 2 ^ ((CHAR_BIT - 1) - (n % CHAR_BIT))) % 2

\* Whole bytes by the table, in fours or what is left of them; then bit by bit.
CrcByte(crc, b) ==
  ((crc * 256) % crc_limit) ^^ crc_table[((crc \div 256) ^^ b) + 1]
CrcBit(crc, b) ==
  LET up == (crc * 2) % crc_limit
  IN IF b # crc \div (crc_limit \div 2) THEN up ^^ CRC_POLY ELSE up

mad_bit_crc(d, len, init) ==
  LET whole == len \div CHAR_BIT
      bytes == FoldLeft(CrcByte, init, SubSeq(d, 1, whole))
  IN FoldLeft(CrcBit, bytes, [n \in 1 .. len % CHAR_BIT |-> Bit(d, whole * CHAR_BIT + n - 1)])

(***************************************************************************)
(* Properties.                                                             *)
(***************************************************************************)
TypeOK ==
  /\ data \in Data
  /\ byte \in 0 .. Len(data) - 1 /\ cache \in 0 .. 255 /\ left \in 0 .. CHAR_BIT
  /\ passed \in Nat /\ last \in Lengths \cup {0} /\ value \in Nat

\* A read gives the bits that follow those passed before, whatever was read or
\* skipped; the length and the next byte are told from where the pointer stands.
ReadsTheBits ==
  /\ Length = passed
  /\ NextByte = (passed + CHAR_BIT - 1) \div CHAR_BIT
  /\ value = FoldLeft(LAMBDA v, b : 2 * v + b, 0,
                      [n \in 1 .. last |-> Bit(data, passed - last + n - 1)])

\* The checksum by bytes is the checksum bit by bit.
CrcIsDivision ==
  passed < CHAR_BIT * Len(data) =>
    mad_bit_crc(data, passed, 65535)
      = FoldLeft(CrcBit, 65535, [n \in 1 .. passed |-> Bit(data, n - 1)])
=============================================================================

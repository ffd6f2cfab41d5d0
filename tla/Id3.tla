---------------------------------- MODULE Id3 ----------------------------------
(***************************************************************************)
(* Where a song's sound begins: get_length of audio/id3.cpp, which         *)
(* open_song_impl (view.cpp) seeks to.  A tag of either kind at the file's *)
(* begin is skipped, and then two bytes are looked for that a frame begins *)
(* with.  Reads give any part of what they are asked for, fail at the      *)
(* file's end, and may fail anywhere else.                                 *)
(*                                                                         *)
(* Of a byte is kept whether it is 0xff, or another that has the bits      *)
(* 0xe0.  The song's length, from its size or a header of its encoder, is  *)
(* left out.                                                               *)
(***************************************************************************)
EXTENDS Integers, FiniteSetsExt

CONSTANTS
  Files,             \* records: bytes, the tag they begin with, the length in it
  marker_size, v1_size, v2_size,  \* 3, 128 and 10
  mp3_header_size    \* 4

Id3Assumption ==
  /\ {marker_size, v1_size, v2_size, mp3_header_size} \subseteq Nat \ {0, 1}
  /\ \A f \in Files :
       /\ DOMAIN f.bytes = 0 .. Cardinality(DOMAIN f.bytes) - 1
       /\ \A i \in DOMAIN f.bytes : f.bytes[i] \in {"ff", "e0", "00"}
       /\ f.marker \in {"none", "TAG", "ID3"} /\ f.length \in Nat

VARIABLES
  file, pos,         \* the file, and where the descriptor is
  pc,
  total_read,
  id3_size,          \* of the tags found so far
  value,             \* mp3_h's first two bytes
  offset,            \* info.offset
  error              \* history: a read failed within the file

vars == <<file, pos, pc, total_read, id3_size, value, offset, error>>

Size == Cardinality(DOMAIN file.bytes)

IsSync(v) == v[1] = "ff" /\ v[2] \in {"ff", "e0"}

GoesOn(step) == pc' = step /\ pos' = 0 /\ total_read' = 0

\* A read of what is left of n bytes, of which there are enough to go on.
ReadsPart(n) ==
  \E k \in 1 .. n - total_read :
    /\ pos + k <= Size
    /\ pos' = pos + k /\ total_read' = total_read + k

\* A seek or a read fails.
ReadFails == error' = (error \/ pos < Size)

(***************************************************************************)
(* id3_v1_size and id3_v2_size.  The first goes on when it has the marker. *)
(***************************************************************************)
TagV1(found) == id3_size' = id3_size + IF found /\ file.marker = "TAG" THEN v1_size ELSE 0

id3_v1_size ==
  /\ pc = "v1"
  /\ \/ /\ total_read < marker_size
        /\ ReadsPart(v1_size)
        /\ UNCHANGED <<pc, id3_size, error>>
     \/ /\ total_read >= marker_size
        /\ GoesOn("v2") /\ TagV1(TRUE) /\ UNCHANGED error
     \/ /\ total_read < marker_size /\ ReadFails
        /\ GoesOn("v2") /\ TagV1(FALSE)
  /\ UNCHANGED <<file, value, offset>>

Whole(length) == length + v2_size

TagV2(found) ==
  id3_size' = id3_size + IF found /\ file.marker = "ID3" THEN Whole(file.length) ELSE 0

id3_v2_size ==
  /\ pc = "v2"
  /\ \/ /\ total_read < v2_size
        /\ ReadsPart(v2_size)
        /\ UNCHANGED <<pc, id3_size, error>>
     \/ /\ total_read = v2_size
        /\ GoesOn("seek") /\ TagV2(TRUE) /\ UNCHANGED error
     \/ /\ total_read < v2_size /\ ReadFails
        /\ GoesOn("seek") /\ TagV2(FALSE)
  /\ UNCHANGED <<file, value, offset>>

(***************************************************************************)
(* get_mp3_header                                                          *)
(***************************************************************************)
Finishes(at) == pc' = "done" /\ offset' = at

NotFound ==
  /\ pc \in {"seek", "search", "rest"}
  /\ pc = "rest" => total_read < mp3_header_size
  /\ IF pc = "seek" THEN error' = TRUE ELSE ReadFails
  /\ Finishes(id3_size)
  /\ UNCHANGED <<file, pos, total_read, id3_size, value>>

seek ==
  /\ pc = "seek"
  /\ pc' = "search" /\ pos' = id3_size /\ value' = <<"00", "00">>
  /\ UNCHANGED <<file, total_read, id3_size, offset, error>>

search ==
  /\ pc = "search" /\ pos < Size
  /\ value' = <<value[2], file.bytes[pos]>>
  /\ pos' = pos + 1
  /\ IF IsSync(value') THEN pc' = "rest" /\ total_read' = 2
                       ELSE UNCHANGED <<pc, total_read>>
  /\ UNCHANGED <<file, id3_size, offset, error>>

rest ==
  /\ pc = "rest"
  /\ \/ ReadsPart(mp3_header_size) /\ UNCHANGED <<pc, offset>>
     \/ /\ total_read = mp3_header_size
        /\ Finishes(pos - mp3_header_size) /\ UNCHANGED <<pos, total_read>>
  /\ UNCHANGED <<file, id3_size, value, error>>

Init ==
  /\ file \in Files
  /\ pos = 0 /\ pc = "v1" /\ total_read = 0
  /\ id3_size = 0 /\ value = <<"00", "00">> /\ offset = 0 /\ error = FALSE

get_length == id3_v1_size \/ id3_v2_size \/ seek \/ search \/ rest \/ NotFound

(***************************************************************************)
(* Properties.                                                             *)
(***************************************************************************)
\* Nothing is read beyond the file, and no more than a tag or a header.
TypeOK ==
  /\ file \in Files /\ pc \in {"v1", "v2", "seek", "search", "rest", "done"}
  /\ pos \in 0 .. Max({Size, id3_size})
  /\ total_read \in 0 .. Max({v1_size, v2_size, mp3_header_size})
  /\ id3_size \in Nat /\ offset \in 0 .. Max({Size, id3_size})
  /\ error \in BOOLEAN

TagOf(f) ==
  LET n == Cardinality(DOMAIN f.bytes) IN
  CASE f.marker = "TAG" /\ n >= marker_size -> v1_size
    [] f.marker = "ID3" /\ n >= v2_size -> f.length + v2_size
    [] OTHER -> 0

SyncsFrom(begin) ==
  {p \in begin .. Size - 2 : IsSync(<<file.bytes[p], file.bytes[p + 1]>>)}

\* A song is played from the first two bytes behind its tag that a frame begins with,
\* if the header that they begin is in the file, and else from the tag's end; a tag
\* with such bytes is not played.  A read that fails may hide a tag, or leave the
\* begin to the decoder, and no more.
BeginsAtSound ==
  pc = "done" =>
    IF error
      THEN offset \in {0, TagOf(file)} \cup SyncsFrom(0)
      ELSE LET syncs == SyncsFrom(TagOf(file)) IN
           offset = IF syncs # {} /\ Min(syncs) + mp3_header_size <= Size
                      THEN Min(syncs) ELSE TagOf(file)
=============================================================================

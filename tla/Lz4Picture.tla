------------------------------ MODULE Lz4Picture ------------------------------
(***************************************************************************)
(* A picture from the host to the screen as repeated blocks:               *)
(* utilities/huffman_encode/lz4_encode.cpp finds the shortest sequence of  *)
(* blocks, pictures/display_picture_lz4.cpp copies them into a buffer for  *)
(* some lines and draws those when the buffer is full.                     *)
(*                                                                         *)
(* The copies are of 4, 8 or 16 bytes whatever the size of a block: what   *)
(* is copied too much must be overwritten before it is shown, and have     *)
(* room.  Such bytes are -1 here, like those that were never written.      *)
(*                                                                         *)
(* A line narrower than the screen may begin in one window and end in the  *)
(* next.  Its two parts are copied to old_line with their numbers of       *)
(* pixels for numbers of bytes, so only the first half of each arrives.    *)
(* The program's own pictures are as wide as the screen, and a window is   *)
(* a whole number of their lines (start_image, song_image).                *)
(***************************************************************************)
EXTENDS Integers, SequencesExt

CONSTANTS
  Symbol,            \* the values of a byte
  max_size, max_repeat,  \* 15, four bits each
  pixel_size,        \* 2, sizeof(uint16_t)
  full_width,        \* 240, the pixels of a line of the screen
  parts,             \* 5, the lines of the screen in a window
  slack,             \* 16 pixels, in bytes
  Pictures           \* bound: for each width, the pictures as wide, in bytes

\* What the encoder reads at once, and the buffer without its slack.
window == full_width * parts * pixel_size

Lz4Assumption ==
  /\ max_size \in 1 .. 15 /\ max_repeat \in 1 .. 15
  /\ pixel_size \in Nat \ {0} /\ full_width \in Nat \ {0} /\ parts \in Nat \ {0}
  /\ slack \in Nat /\ Symbol \subseteq Nat
  /\ DOMAIN Pictures \subseteq 1 .. full_width
  /\ \A w \in DOMAIN Pictures : \A p \in Pictures[w] :
       p \in Seq(Symbol) \ {<<>>} /\ Len(p) % (w * pixel_size) = 0

VARIABLES
  width, picture,    \* size.first and the bytes, chosen once
  blocks,            \* what is left of the file
  buff, position,
  rest,              \* picture_size_in_bytes
  old_line, tail,    \* tail: how many pixels of a line have been put by
  shown, ended       \* the lines on the screen

vars == <<width, picture, blocks, buff, position, rest, old_line, tail, shown, ended>>

line_size == width * pixel_size

(***************************************************************************)
(* compress, of a window of the picture.                                   *)
(***************************************************************************)
\* How often the size bytes from p on stand there, at most max_repeat times and
\* without the last byte of the window.
Repeats(w, p, size) ==
  LET Same(n) == \A i \in 1 .. size : w[(p - 1) + i] = w[(p - 1) + size * n + i]
      Goes(n) == n < max_repeat /\ (p - 1) + size * (n + 1) < Len(w) /\ Same(n)
  IN CHOOSE n \in 1 .. max_repeat :
       ~Goes(n) /\ \A m \in 1 .. n - 1 : Goes(m)

Cheaper(a, b) == a.bytes < b.bytes \/ (a.bytes = b.bytes /\ a.count <= b.count)

\* The best way to write w from p on begins with this block; best[k] is that
\* from p + k on.
BestBlock(w, p, best) ==
  LET With(n, size) ==
        [repeat |-> n, size |-> size,
         bytes |-> 1 + size + best[size * n].bytes,
         count |-> 1 + best[size * n].count]
  IN FoldLeft(LAMBDA b, size :
                IF (p - 1) + size < Len(w) /\ Cheaper(With(Repeats(w, p, size), size), b)
                  THEN With(Repeats(w, p, size), size) ELSE b,
              With(1, 1), [i \in 1 .. max_size |-> i])

\* best: for each place of w and for its end.
BestFrom(w) ==
  FoldRight(LAMBDA p, best : <<BestBlock(w, p, best)>> \o best,
            [p \in 1 .. Len(w) |-> p],
            <<[repeat |-> 1, size |-> 0, bytes |-> 0, count |-> 0]>>)

Compressed(w) ==
  LET best == BestFrom(w)
      From[p \in 1 .. Len(w) + 1] ==
        IF p = Len(w) + 1 THEN <<>>
        ELSE LET b == best[p]
             IN <<[repeat |-> b.repeat, data |-> SubSeq(w, p, (p + b.size) - 1)]>>
                \o From[p + b.size * b.repeat]
  IN From[1]

compress(p) ==
  LET Window(n) == SubSeq(p, n * window + 1, IF (n + 1) * window < Len(p)
                                               THEN (n + 1) * window ELSE Len(p))
  IN FlattenSeq([n \in 1 .. (Len(p) + window - 1) \div window
                   |-> Compressed(Window(n - 1))])

Init ==
  /\ width \in DOMAIN Pictures /\ picture \in Pictures[width]
  /\ blocks = compress(picture)
  /\ buff = [i \in 1 .. window + slack |-> -1]
  /\ position = 0
  /\ rest = Len(picture)
  /\ old_line = [i \in 1 .. full_width * pixel_size |-> -1] /\ tail = 0
  /\ shown = <<>> /\ ended = FALSE

(***************************************************************************)
(* display_picture                                                         *)
(***************************************************************************)
\* How many bytes are copied for each repetition of a block.
CopySize(size) == IF size <= 4 THEN 4 ELSE IF size <= 8 THEN 8 ELSE 16

\* Blocks of one and of two bytes are repeated within the four that are copied.
Wide(data) ==
  IF Len(data) <= 2 THEN [i \in 1 .. 4 |-> data[((i - 1) % Len(data)) + 1]]
  ELSE data \o [i \in 1 .. CopySize(Len(data)) - Len(data) |-> -1]

Copies(b) == IF Len(b.data) <= 2 THEN (b.repeat * Len(b.data)) \div 4 + 1
             ELSE b.repeat

Step(b) == IF Len(b.data) <= 2 THEN 4 ELSE Len(b.data)

\* Where the last copy ends.
Reach(b) == position + (Copies(b) - 1) * Step(b) + CopySize(Len(b.data))

Paste(to, at, bytes) ==
  [i \in DOMAIN to |-> IF i - at \in DOMAIN bytes THEN bytes[i - at] ELSE to[i]]

Copied(b) ==
  FoldLeft(LAMBDA to, n : Paste(to, position + n * Step(b), Wide(b.data)),
           buff, [n \in 1 .. Copies(b) |-> n - 1])

\* Pixels of the buffer.
Pixels(bytes, first, count) ==
  SubSeq(bytes, first * pixel_size + 1, (first + count) * pixel_size)

\* The full buffer is drawn.  The line that was put by is finished first, with its
\* missing pixels' number of bytes; at the end what is left of the window is put
\* by, its pixels' number of bytes.  write_region says when the last line has been
\* shown.
Flush(bytes, end) ==
  LET pixel_end == end \div pixel_size
      begun     == width # full_width /\ tail # 0
      first     == IF begun THEN width - tail ELSE 0
      finished  == IF begun
                     THEN Paste(old_line, tail * pixel_size, SubSeq(bytes, 1, first))
                     ELSE old_line
      count     == (pixel_end - first) \div width
      index     == first + count * width
      left      == IF width # full_width THEN pixel_end - index ELSE 0
  IN /\ shown' = shown
                 \o (IF begun THEN <<SubSeq(finished, 1, line_size)>> ELSE <<>>)
                 \o [n \in 1 .. count |-> Pixels(bytes, first + (n - 1) * width, width)]
     /\ tail' = left
     /\ old_line' = Paste(finished, 0, SubSeq(bytes, index * pixel_size + 1,
                                              index * pixel_size + left))
     /\ rest' = rest - end
     /\ position' = 0
     /\ ended' = (Len(shown') * line_size = Len(picture) \/ rest' = 0)

DrawBlock ==
  /\ ~ended
  /\ LET end == position + Len(Head(blocks).data) * Head(blocks).repeat
     IN /\ buff' = Copied(Head(blocks))
        /\ \/ end \in {window, rest} /\ Flush(buff', end)
           \/ /\ end \notin {window, rest} /\ position' = end
              /\ UNCHANGED <<rest, old_line, tail, shown, ended>>
  /\ blocks' = Tail(blocks)
  /\ UNCHANGED <<width, picture>>

Next == DrawBlock

Spec == Init /\ [][Next]_vars

(***************************************************************************)
(* Properties.                                                             *)
(***************************************************************************)

\* The buffer is filled up to window at most, and no copy passes its end.
TypeOK ==
  /\ position \in 0 .. window - 1
  /\ rest \in 0 .. Len(picture)
  /\ tail \in 0 .. width - 1 /\ Len(old_line) = full_width * pixel_size
  /\ ended \in BOOLEAN
  /\ ~ended => blocks # <<>> /\ Reach(Head(blocks)) <= window + slack

\* How many bytes of line n are before the end of the window it begins in, all if
\* it ends there too.
Before(n) ==
  LET begin == (n - 1) * line_size
      left  == window - (begin % window)
  IN IF left < line_size THEN left ELSE line_size

\* The bytes of line n that were copied: all of a line within a window, the first
\* half of either part of another.
Kept(n) ==
  IF Before(n) = line_size THEN 1 .. line_size
  ELSE 1 .. Before(n) \div pixel_size
       \cup Before(n) + 1 .. Before(n) + (line_size - Before(n)) \div pixel_size

\* Whatever the picture, its lines are on the screen in their order and, when the
\* file has been read, all of them; each line that lies within a window - every
\* line of a picture as wide as the screen - is as it was, without a byte that was
\* copied too much, and so are the first halves of the two parts of another.
PictureShown ==
  /\ \A n \in DOMAIN shown :
       \A i \in Kept(n) : shown[n][i] = picture[(n - 1) * line_size + i]
  /\ width = full_width => FlattenSeq(shown) = SubSeq(picture, 1, Len(shown) * line_size)
  /\ ended => Len(shown) * line_size = Len(picture)
=============================================================================

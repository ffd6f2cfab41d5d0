------------------------------ MODULE WebSocket ------------------------------
(***************************************************************************)
(* Frames of a web socket (utilities/sockets/web_socket.cpp):              *)
(* web_socket_writer_t puts what it is given into frames,                  *)
(* web_socket_reader_t takes frames apart, and neither gets more at a time *)
(* than the socket gives or takes.  The reader hears a writer, or a        *)
(* browser (external), which masks its frames and may send empty ones.     *)
(*                                                                         *)
(* A byte on the wire is <<the part of a frame it belongs to, number,      *)
(* key>>: the number is the length in a frame's length bytes, as who hears *)
(* them reads it, and the byte's number in what is sent in data; the key   *)
(* is 1 in the header of a masked frame and tells which byte of the mask a *)
(* data byte is masked with.  fin and opcode, which nobody looks at, are   *)
(* left out.                                                               *)
(*                                                                         *)
(* Both sides of this code copy a longer length as the host has it, and a  *)
(* browser's is in the order of the network: who hears it takes it for     *)
(* another one, and loses step with the frames.  What a reader that has    *)
(* lost step takes a byte for depends on the bytes' values, so here it may *)
(* be anything (Misread).                                                  *)
(***************************************************************************)
EXTENDS Integers, Sequences

CONSTANTS
  short,             \* 126: lengths that fit into the header
  long,              \* 1 << 16: lengths that fit into len_2
  header_size, len_2_size, len_8_size, mask_size,
  buffer_size,       \* what the reader's caller takes at once
  other_order,       \* what the bytes of a length are in the other order of bytes
  Misread,           \* bound: the numbers a reader out of step takes bytes for
  FrameSizes,        \* bound: the sizes of a browser's frames
  MaxData            \* bound: data bytes in a behaviour

Size == [header |-> header_size, len_2 |-> len_2_size, len_8 |-> len_8_size,
         mask |-> mask_size]

WebSocketAssumption ==
  /\ short \in Nat \ {0} /\ long \in Nat /\ short < long
  /\ \A part \in DOMAIN Size : Size[part] \in Nat \ {0}
  /\ buffer_size \in Nat \ {0}
  /\ FrameSizes \subseteq Nat /\ Misread \subseteq Nat
  /\ MaxData \in Nat
  /\ \A part \in {"len_2", "len_8"} : \A size \in 0 .. MaxData :
       other_order[part][size] \in Nat

VARIABLES
  browser,           \* the sender is one
  offered,           \* how many bytes are to be sent
  sent,              \* how many have been
  announced,         \* writer: what is left of the data of its frame
  header,            \* writer: what is left of its header
  agreed,            \* history: what was announced is what was sent, to both sides
  wire,
  status, cur_pos, cur_size, has_mask, data_len,     \* of the reader
  received,          \* the numbers of the bytes read, 0 for one spoilt
  aligned,           \* history, of each of them: the read that gave it began at a
                     \* multiple of mask_size, or the frame was not masked
  in_step            \* history: no byte was taken for what it was not sent as

writer == <<offered, sent, announced, header, agreed>>
reader == <<status, cur_pos, cur_size, has_mask, data_len, received, aligned, in_step>>
vars   == <<browser, writer, wire, reader>>

Min2(a, b) == IF a < b THEN a ELSE b
Rest(s, n) == SubSeq(s, n + 1, Len(s))

Init ==
  /\ browser \in BOOLEAN
  /\ offered = 0 /\ sent = 0 /\ announced = 0 /\ header = <<>>
  /\ wire = <<>> /\ agreed = TRUE
  /\ status = "header" /\ cur_pos = 0 /\ cur_size = header_size
  /\ has_mask = FALSE /\ data_len = 0
  /\ received = <<>> /\ aligned = <<>> /\ in_step = TRUE

(***************************************************************************)
(* The senders                                                             *)
(***************************************************************************)
Bytes(part, number, key) == [i \in 1 .. Size[part] |-> <<part, number, key>>]

IsShort(size) == size < short
LengthPart(size) == IF size < long THEN "len_2" ELSE "len_8"

\* The length as the one who hears it understands it.
Heard(size) == IF IsShort(size) THEN size ELSE other_order[LengthPart(size)][size]

Header(size, masked) ==
  IF IsShort(size) THEN Bytes("header", size, masked)
  ELSE Bytes("header", IF size < long THEN short ELSE short + 1, masked)
         \o Bytes(LengthPart(size), Heard(size), 0)

\* The caller has something to send.
Offer ==
  /\ ~browser
  /\ offered < MaxData
  /\ offered' = offered + 1
  /\ UNCHANGED <<browser, sent, announced, header, agreed, wire, reader>>

MoreThanSaid(size) == size                         \* mutant: all that is given
AsAnnounced(size) == Min2(size, announced)

\* What ::write returns when the socket takes n, which is none when it fails.
Returned(n) == IF n = 0 THEN -1 ELSE n

\* web_socket_writer_t::write of size bytes: of the header, which announces
\* all of them, or, when that is out, of the data announced.  The socket takes n.
\* When it fails amid the data, the -1 is taken off what is announced.
write(size) ==
  /\ ~browser
  /\ size \in 1 .. offered - sent
  /\ IF announced = 0 \/ header # <<>>
       THEN LET head == IF announced = 0 THEN Header(size, 0) ELSE header
            IN \E n \in 0 .. Len(head) :
                 /\ wire' = wire \o SubSeq(head, 1, n)
                 /\ header' = Rest(head, n)
                 /\ announced' = IF announced = 0 THEN size ELSE announced
                 /\ agreed' = (agreed /\ (announced = 0 => Heard(size) = size))
                 /\ UNCHANGED sent
       ELSE \E n \in 0 .. AsAnnounced(size) :
              /\ n = 0 => announced <= MaxData    \* bound
              /\ wire' = wire \o [i \in 1 .. n |-> <<"data", sent + i, -1>>]
              /\ sent' = sent + n
              /\ announced' = announced - Returned(n)
              /\ agreed' = (agreed /\ n # 0)
              /\ UNCHANGED header
  /\ UNCHANGED <<browser, offered, reader>>

\* A browser sends a frame.
BrowserSends(size) ==
  /\ browser
  /\ sent + size <= MaxData
  /\ Len(wire) <= 1 /\ Len(received) <= sent        \* bounds
  /\ wire' = wire \o Header(size, 1) \o Bytes("mask", 0, 0)
                  \o [i \in 1 .. size |-> <<"data", sent + i, (i - 1) % mask_size>>]
  /\ offered' = offered + size
  /\ sent' = sent + size
  /\ agreed' = (agreed /\ Heard(size) = size)
  /\ UNCHANGED <<browser, announced, header, reader>>

(***************************************************************************)
(* web_socket_reader_t::read                                               *)
(***************************************************************************)
Expects(s, size) == status' = s /\ cur_size' = size

\* The next n bytes are of the part they are taken for, as all before were.
StaysInStep(n) == in_step /\ \A i \in 1 .. n : wire[i][1] = status

\* What the last byte of a part says to a reader that is, or is not, in step.
TakenFor(byte) == IF in_step' THEN {byte} ELSE {status} \X Misread \X {0, 1}

\* What comes after a part is complete.
PartDone(byte) ==
  LET masked == IF status = "header" THEN byte[3] = 1 ELSE has_mask
      length == IF status = "mask" THEN data_len ELSE byte[2]
      to     == IF status = "header" /\ length = short THEN "len_2"
                ELSE IF status = "header" /\ length > short THEN "len_8"
                ELSE IF status # "mask" /\ masked THEN "mask"
                ELSE "data"
  IN /\ Expects(to, IF to = "data" THEN length ELSE Size[to])
     /\ cur_pos' = 0
     /\ has_mask' = masked
     /\ data_len' = IF to \in {"len_2", "len_8"} THEN data_len ELSE length

\* n bytes of a header, a length or the mask.
ReadPart(n) ==
  /\ status # "data"
  /\ n \in 1 .. Min2(cur_size - cur_pos, Len(wire))
  /\ in_step' = StaysInStep(n)
  /\ IF cur_pos + n = cur_size
       THEN \E byte \in TakenFor(wire[n]) : PartDone(byte)
       ELSE cur_pos' = cur_pos + n /\ UNCHANGED <<status, cur_size, has_mask, data_len>>
  /\ wire' = Rest(wire, n)
  /\ UNCHANGED <<browser, writer, received, aligned>>

FromEnd(i) == (cur_pos + i) % mask_size            \* mutant: from where it ended
KeyOf(i) == (i - 1) % mask_size

\* The i-th of the bytes read at once, unmasked.
Unmasked(byte, i) ==
  IF in_step' /\ byte[3] = (IF has_mask THEN KeyOf(i) ELSE -1) THEN byte[2] ELSE 0

StaysInData(n) == FALSE                            \* mutant: no end of a frame
FrameDone(n) == cur_pos + n = cur_size

InFrame(left) == Min2(left, buffer_size)

\* n bytes of data, and a frame without data is done by a read of none.
ReadData(n) ==
  /\ status = "data" /\ wire # <<>>
  /\ n <= InFrame(cur_size - cur_pos) /\ n <= Len(wire)
  /\ n = 0 <=> cur_size = cur_pos
  /\ in_step' = StaysInStep(n)
  /\ received' = received \o [i \in 1 .. n |-> Unmasked(wire[i], i)]
  /\ aligned' = aligned \o [i \in 1 .. n |-> has_mask => cur_pos % mask_size = 0]
  /\ wire' = Rest(wire, n)
  /\ IF FrameDone(n)
       THEN Expects("header", header_size) /\ cur_pos' = 0
       ELSE cur_pos' = cur_pos + n /\ UNCHANGED <<status, cur_size>>
  /\ UNCHANGED <<browser, writer, has_mask, data_len>>

Writes == \E size \in 1 .. MaxData : write(size)
Reads  == \E n \in 0 .. Len(wire) : ReadPart(n) \/ ReadData(n)

Next ==
  \/ Offer
  \/ Writes
  \/ \E size \in FrameSizes : BrowserSends(size)
  \/ Reads

Spec == Init /\ [][Next]_vars

\* The loop asks for what is ready, again and again.
Fairness == WF_vars(Writes) /\ WF_vars(Reads)

FairSpec == Spec /\ Fairness

(***************************************************************************)
(* Properties.                                                             *)
(***************************************************************************)

\* The state has its types and the reader does not pass the end of a part; while both
\* sides agree on what is announced, nothing is announced that is not there.
TypeOK ==
  /\ browser \in BOOLEAN /\ has_mask \in BOOLEAN /\ agreed \in BOOLEAN /\ in_step \in BOOLEAN
  /\ offered \in 0 .. MaxData /\ sent \in 0 .. offered
  /\ status \in DOMAIN Size \cup {"data"}
  /\ cur_pos \in 0 .. cur_size
  /\ status # "data" => cur_size = Size[status] /\ cur_pos < cur_size
  /\ announced \in Nat /\ data_len \in Nat /\ Len(aligned) = Len(received)
  /\ agreed => /\ announced \in 0 .. offered - (IF browser THEN 0 ELSE sent)
               /\ data_len \in 0 .. MaxData
               /\ Len(received) \in 0 .. sent

\* As long as no length was announced that the other side reads as another, and no
\* write failed amid the data, the reader takes every byte for what it was sent as,
\* whatever the pieces in which headers, lengths and data come.
InStep ==
  agreed => in_step /\ (wire # <<>> /\ cur_pos < cur_size => wire[1][1] = status)

\* So long the data arrive in the order in which they were sent, none twice and none
\* left out.  Spoilt are those and only those of a masked frame that were got by a read
\* which did not begin at a multiple of mask_size: mask[i % 4] counts from its begin.
InOrder ==
  agreed => \A i \in 1 .. Len(received) : received[i] = IF aligned[i] THEN i ELSE 0

\* And all that is to be sent arrives.
AllArrives == []agreed => []<>(Len(received) = offered)
=============================================================================

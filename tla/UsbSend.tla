------------------------------- MODULE UsbSend -------------------------------
(***************************************************************************)
(* The player's answers to the host (usb/usb_send.cpp and CDC_Transmit_FS  *)
(* of usb/usbd_cdc_if.cpp).  The view sends answers of several sizes; they *)
(* are gathered in a buffer that goes to the host when it is half full, at *)
(* the end of a turn of the main loop, or when the next answer would fill  *)
(* it.  CDC_Transmit_FS copies the buffer and starts the transfer, which   *)
(* the USB interrupt ends; until then it refuses.                          *)
(*                                                                         *)
(* Answers are numbered in the order they are sent.                        *)
(***************************************************************************)
EXTENDS Integers, Sequences

CONSTANTS
  Sizes,             \* the sizes of the answers: 2 to 50 bytes
  buffer_size,       \* 2048
  EmptyAnswers,      \* the sizes of the answers of send_empty, in order
  MaxAnswers         \* bound: how many answers a behaviour has

UsbSendAssumption ==
  /\ Sizes \subseteq Nat \ {0}
  /\ buffer_size \in Nat \ {0}
  /\ EmptyAnswers \in Seq(Sizes)
  /\ MaxAnswers \in Nat
  /\ \A s \in Sizes : s < buffer_size

VARIABLES
  buffer, pos,       \* the answers in the buffer and their bytes
  UserTxBuffer,      \* the answers that are being sent; TxState is not 0 while
                     \* there are any
  todo,              \* what send_empty has still to send
  sent,              \* how many answers there were
  host               \* the answers the host has got

vars == <<buffer, pos, UserTxBuffer, todo, sent, host>>

Init ==
  /\ buffer = <<>> /\ pos = 0
  /\ UserTxBuffer = <<>>
  /\ todo = <<>>
  /\ sent = 0 /\ host = <<>>

Busy == UserTxBuffer # <<>>

\* CDC_Transmit_FS of the answers b, when it is not busy.
Transmit(b) == UserTxBuffer' = b

\* The answer does not fit any more: the buffer is sent, or lost if that is not
\* possible, and the answer is the first of a new one.
Replace(size) ==
  /\ size + pos >= buffer_size
  /\ IF Busy THEN UNCHANGED UserTxBuffer ELSE Transmit(buffer)
  /\ buffer' = <<sent + 1>> /\ pos' = size

\* The answer goes to the end; from half the buffer on it is sent.
AppendHalf(size) == 2 * (pos + size) >= buffer_size

AppendLeft(b, n) == buffer' = b /\ pos' = n          \* mutant: sent and kept
AppendSent(b, n) == buffer' = <<>> /\ pos' = 0

Gather(size) ==
  /\ size + pos < buffer_size
  /\ LET b == Append(buffer, sent + 1)
         n == pos + size
     IN IF AppendHalf(size) /\ ~Busy
          THEN Transmit(b) /\ AppendSent(b, n)
          ELSE buffer' = b /\ pos' = n /\ UNCHANGED UserTxBuffer

add_to_buff(size) ==
  /\ sent < MaxAnswers
  /\ Replace(size) \/ Gather(size)
  /\ sent' = sent + 1
  /\ UNCHANGED host

\* One of send_cur_song, send_displayed_song, send_pl_list, send_volume and
\* send_state.
Send(size) ==
  /\ todo = <<>>
  /\ add_to_buff(size)
  /\ UNCHANGED todo

\* send_empty sends a screen of blanks, waiting for a millisecond before each
\* answer.
SendEmpty ==
  /\ todo = <<>> /\ EmptyAnswers # <<>>
  /\ sent + Len(EmptyAnswers) <= MaxAnswers
  /\ todo' = EmptyAnswers
  /\ UNCHANGED <<buffer, pos, UserTxBuffer, sent, host>>

SendNextEmpty ==
  /\ todo # <<>>
  /\ add_to_buff(Head(todo))
  /\ todo' = Tail(todo)

Flushable(b) == b # <<>>

flush ==
  /\ todo = <<>>
  /\ IF Flushable(buffer) /\ ~Busy
       THEN Transmit(buffer) /\ buffer' = <<>> /\ pos' = 0
       ELSE UNCHANGED <<buffer, pos, UserTxBuffer>>
  /\ UNCHANGED <<todo, sent, host>>

\* The host has read the transfer, and the interrupt clears TxState.
TransmitCplt ==
  /\ Busy
  /\ host' = host \o UserTxBuffer
  /\ UserTxBuffer' = <<>>
  /\ UNCHANGED <<buffer, pos, todo, sent>>

Next ==
  \/ \E size \in Sizes : Send(size)
  \/ SendEmpty
  \/ SendNextEmpty
  \/ flush
  \/ TransmitCplt

Spec == Init /\ [][Next]_vars

\* The main loop goes on, and the host reads.
Fairness == WF_vars(SendNextEmpty) /\ WF_vars(flush) /\ WF_vars(TransmitCplt)

FairSpec == Spec /\ Fairness

(***************************************************************************)
(* Properties.                                                             *)
(***************************************************************************)

\* The buffer holds answers exactly when pos says so, and never overflows.
TypeOK ==
  /\ buffer \in Seq(1 .. sent) /\ UserTxBuffer \in Seq(1 .. sent)
  /\ host \in Seq(1 .. sent) /\ sent \in 0 .. MaxAnswers
  /\ todo \in Seq(Sizes)
  /\ pos \in 0 .. buffer_size - 1
  /\ buffer = <<>> <=> pos = 0

\* Whatever the interrupt's timing: the host gets each answer whole, in order
\* and at most once; what is lost is lost for a newer one.
Promise == INSTANCE AnswerStream WITH underway <- UserTxBuffer \o buffer,
                                      got <- host
ImplementsStream == Promise!Spec

\* When the player has fallen silent the host has the newest answer, also if
\* the buffer is not half full and the answer was made while a transfer went on.
NewestArrives ==
  \A a \in 1 .. MaxAnswers :
    sent = a ~> (host # <<>> /\ host[Len(host)] >= a)
=============================================================================

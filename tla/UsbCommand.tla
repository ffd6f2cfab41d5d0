----------------------------- MODULE UsbCommand -----------------------------
(***************************************************************************)
(* The command ring of usb_command_process.{h,cpp}.  The USB interrupt     *)
(* (receive_callback) stores the bytes of a packet; the main loop          *)
(* (usb_process) takes whole commands out of the ring and calls the view;  *)
(* clear() empties the ring when a card is inserted.  The interrupt        *)
(* preempts the main loop between any two of its accesses and runs to its  *)
(* end before the main loop goes on.                                       *)
(*                                                                         *)
(* A byte is a member of Byte.  Every cell of the ring also carries three  *)
(* labels the code does not have, which the properties are stated with:    *)
(* the command c of the host's stream the byte belongs to, its index k in  *)
(* that command and the number n of the command among the accepted ones.   *)
(***************************************************************************)
EXTENDS Integers, Sequences

CONSTANTS
  Plain,                \* the one-byte commands
  cmd_find, cmd_jmp,    \* bytes 128 and 129, which an argument follows
  cmd_nothing,          \* byte 0, the initial value of old_command
  sizeof_find_pattern, sizeof_position_t,
  Slack,                \* 20: the ring is Slack bytes longer than an argument
  MaxSame,              \* 4: repetitions of one command that are executed
  MaxPacket,            \* bytes of a packet (64 on a full speed device)
  MaxBytes              \* bound: bytes the host sends in a behaviour

ASSUME SizesAssumption ==
  /\ sizeof_find_pattern \in Nat \ {0}
  /\ sizeof_position_t \in Nat \ {0}
  /\ Slack \in Nat \ {0, 1}
  /\ MaxSame \in Nat
  /\ MaxPacket \in Nat
  /\ MaxBytes \in Nat

ASSUME BytesAssumption ==
  /\ cmd_nothing \in Plain
  /\ cmd_find \notin Plain
  /\ cmd_jmp \notin Plain
  /\ cmd_find # cmd_jmp

Byte == Plain \cup {cmd_find, cmd_jmp}

calc_need_rd(b) ==
  IF b = cmd_find THEN 1 + sizeof_find_pattern
  ELSE IF b = cmd_jmp THEN 1 + sizeof_position_t
  ELSE 1

max_struct_size ==
  IF sizeof_find_pattern > sizeof_position_t THEN sizeof_find_pattern
                                             ELSE sizeof_position_t

N == Slack + max_struct_size
Slots == 0 .. N - 1

\* x % N for the x < 2 * N that the code computes.
Wrap(x) == IF x < N THEN x ELSE x - N

\* Cells from slot a up to, not including, slot b.
Dist(a, b) == IF b >= a THEN b - a ELSE b - a + N

Cell == [v : Byte, c : Byte, k : 0 .. max_struct_size, n : Nat]

ClearPcs == {"clear_int", "clear_start", "clear_end", "clear_end_buf",
             "clear_skip", "clear_rd", "clear_test"}
TakePcs == {"copy", "do", "advance"}

VARIABLES
  buffer, start, end, end_buf, need_skip, need_rd, has_interrupted,
  isr,             \* "none", or the loop of receive_callback that is running
  tmp, left,       \* its local tmp and len - i
  pc,              \* what the main loop is about to do
  same_commands, old_command, command, cmd_data,  \* usb_process's locals
  hcmd, hpos,      \* the host's current command and bytes of it received
  sent,            \* bytes the host has sent
  acc, taken,      \* commands accepted into and taken out of the ring
  lost             \* the ring has taken, or will skip, a byte for one of another
                   \* command; or a clear has not ended between two commands

ring == <<buffer, start, end, end_buf, need_skip, need_rd>>
isrVars == <<isr, tmp, left>>
mainVars == <<same_commands, old_command, command, cmd_data>>
hostVars == <<hcmd, hpos, sent>>
ghost == <<acc, taken, lost>>
vars == <<ring, has_interrupted, isrVars, pc, mainVars, hostVars, ghost>>

Init ==
  /\ buffer = [s \in Slots |->
                [v |-> cmd_nothing, c |-> cmd_nothing, k |-> 0, n |-> 0]]
  /\ start = 0 /\ end = 0 /\ end_buf = 0 /\ need_skip = 0 /\ need_rd = 0
  /\ has_interrupted = FALSE
  /\ isr = "none" /\ tmp = 0 /\ left = 0
  /\ pc = "main"
  /\ same_commands = 0 /\ old_command = cmd_nothing
  /\ command = cmd_nothing /\ cmd_data = <<>>
  /\ hcmd = cmd_nothing /\ hpos = 0 /\ sent = 0
  /\ acc = 0 /\ taken = 0 /\ lost = FALSE

(***************************************************************************)
(* The interrupt: receive_callback.                                        *)
(***************************************************************************)

\* The command the next byte v of the host's stream belongs to.
Owner(v) == IF hpos = 0 THEN v ELSE hcmd

\* Bytes the host has still to send of the command it has begun.
Remaining == IF hpos = 0 THEN 0 ELSE calc_need_rd(hcmd) - hpos

\* The host's stream moves on by the byte v.
HostByte(v) ==
  /\ hcmd' = Owner(v)
  /\ hpos' = IF hpos + 1 = calc_need_rd(Owner(v)) THEN 0 ELSE hpos + 1
  /\ sent' = sent + 1

Receive(len) ==
  /\ isr = "none"
  /\ sent + len <= MaxBytes
  /\ has_interrupted' = TRUE
  /\ tmp' = Wrap(end_buf + 1)
  /\ left' = len
  /\ isr' = "fill"
  /\ UNCHANGED <<ring, pc, mainVars, hostVars, ghost>>

\* A slot stays free, so that a full ring does not look like an empty one.
HasRoom == tmp # start

SkipByte(v) ==
  /\ isr = "fill" /\ HasRoom /\ left # 0
  /\ need_skip # 0
  /\ need_skip' = need_skip - 1
  /\ left' = left - 1
  /\ HostByte(v)
  /\ UNCHANGED <<buffer, start, end, end_buf, need_rd, has_interrupted,
                 isr, tmp, pc, mainVars, ghost>>

ReadCountOne(v) == 1                           \* mutant: commits every byte

\* need_rd as StoreByte(v) counts it down.
ReadCount(v) == IF need_rd + need_skip = 0 THEN calc_need_rd(v) ELSE need_rd

StoreByte(v) ==
  /\ isr = "fill" /\ HasRoom /\ left # 0
  /\ need_skip = 0
  /\ buffer' = [buffer EXCEPT ![end_buf] =
                  [v |-> v, c |-> Owner(v), k |-> hpos, n |-> acc]]
  /\ end_buf' = tmp
  /\ tmp' = Wrap(tmp + 1)
  /\ need_rd' = ReadCount(v) - 1
  /\ IF ReadCount(v) = 1 THEN end' = tmp /\ acc' = acc + 1
                         ELSE UNCHANGED <<end, acc>>
  /\ left' = left - 1
  /\ HostByte(v)
  /\ lost' = (lost \/ (hpos = 0 /\ need_rd \notin {0, calc_need_rd(v)}))
  /\ UNCHANGED <<start, need_skip, has_interrupted, isr, pc, mainVars, taken>>

\* The ring is full and bytes are left: the command being stored is given up.
\* need_rd keeps its value, also when that command has been skipped, and need_skip
\* loses the one it had.
Overflow ==
  /\ isr = "fill" /\ ~HasRoom /\ left # 0
  /\ end_buf' = end
  /\ need_skip' = need_rd
  /\ isr' = "spill"
  /\ lost' = (lost \/ need_rd # Remaining)
  /\ UNCHANGED <<buffer, start, end, need_rd, has_interrupted, tmp, left,
                 pc, mainVars, hostVars, acc, taken>>

\* Bytes still to skip after the spilled byte v.
SpillCount(v) ==
  IF need_skip # 0 THEN need_skip - 1 ELSE calc_need_rd(v) - 1

SpillByte(v) ==
  /\ isr = "spill" /\ left # 0
  /\ need_skip' = SpillCount(v)
  /\ left' = left - 1
  /\ HostByte(v)
  /\ UNCHANGED <<buffer, start, end, end_buf, need_rd, has_interrupted,
                 isr, tmp, pc, mainVars, ghost>>

ReturnFromInterrupt ==
  /\ isr \in {"fill", "spill"} /\ left = 0
  /\ isr' = "none"
  /\ tmp' = 0
  /\ UNCHANGED <<ring, has_interrupted, left, pc, mainVars, hostVars, ghost>>

Interrupt ==
  \/ \E len \in 0 .. MaxPacket : Receive(len)
  \/ \E v \in Byte : SkipByte(v) \/ StoreByte(v) \/ SpillByte(v)
  \/ Overflow
  \/ ReturnFromInterrupt

(***************************************************************************)
(* The main loop: usb_process.                                             *)
(***************************************************************************)

\* A local out of scope has the value it is next initialised with.
FreshLoopLocals == command' = cmd_nothing /\ cmd_data' = <<>>
FreshLocals ==
  /\ same_commands' = 0 /\ old_command' = cmd_nothing
  /\ FreshLoopLocals

CallUsbProcess ==
  /\ isr = "none" /\ pc = "main"
  /\ pc' = "test"
  /\ FreshLocals
  /\ UNCHANGED <<ring, has_interrupted, isrVars, hostVars, ghost>>

Test ==
  /\ isr = "none" /\ pc = "test"
  /\ IF start # end THEN pc' = "fetch" /\ UNCHANGED mainVars
                    ELSE pc' = "main" /\ FreshLocals
  /\ UNCHANGED <<ring, has_interrupted, isrVars, hostVars, ghost>>

AfterRepeatStuck == "test"           \* mutant: a repetition is not taken out

\* Where a command goes on that was repeated more than MaxSame times.
AfterRepeat == "advance"

Fetch ==
  /\ isr = "none" /\ pc = "fetch"
  /\ LET b == buffer[start].v
     IN  /\ command' = b
         /\ IF b = old_command
            THEN IF same_commands >= MaxSame
                 THEN /\ pc' = AfterRepeat
                      /\ UNCHANGED <<same_commands, old_command>>
                 ELSE /\ same_commands' = same_commands + 1
                      /\ pc' = "copy"
                      /\ UNCHANGED old_command
            ELSE /\ same_commands' = 0
                 /\ old_command' = b
                 /\ pc' = "copy"
  /\ cmd_data' = <<>>
  /\ UNCHANGED <<ring, has_interrupted, isrVars, hostVars, ghost>>

ArgumentSlotEarly == Wrap(start + Len(cmd_data))  \* mutant: + 1 forgotten

\* The slot of the argument's next byte.
ArgumentSlot == Wrap(start + Len(cmd_data) + 1)

\* One turn of the loop that copies the argument out of the ring.
CopyByte ==
  /\ isr = "none" /\ pc = "copy"
  /\ Len(cmd_data) # calc_need_rd(command) - 1
  /\ cmd_data' = Append(cmd_data, buffer[ArgumentSlot])
  /\ UNCHANGED <<ring, has_interrupted, isrVars, pc, same_commands,
                 old_command, command, hostVars, ghost>>

\* The argument is complete: the view's method runs.
Execute ==
  /\ isr = "none"
  /\ \/ /\ pc = "copy" /\ Len(cmd_data) = calc_need_rd(command) - 1
        /\ pc' = "do"
     \/ pc = "do" /\ pc' = "advance"
  /\ UNCHANGED <<ring, has_interrupted, isrVars, mainVars, hostVars, ghost>>

TakenBytesOne == 1                      \* mutant: the argument is left behind

\* Bytes the command takes up in the ring.
TakenBytes == calc_need_rd(command)

Advance ==
  /\ isr = "none" /\ pc = "advance"
  /\ start' = Wrap(start + TakenBytes)
  /\ taken' = IF lost THEN taken ELSE taken + 1
  /\ pc' = "test"
  /\ FreshLoopLocals
  /\ UNCHANGED <<buffer, end, end_buf, need_skip, need_rd, has_interrupted,
                 isrVars, same_commands, old_command, hostVars, acc, lost>>

(***************************************************************************)
(* The main loop: clear(), called when the card has been mounted.          *)
(***************************************************************************)

ClearBegin ==
  /\ isr = "none" /\ pc = "main"
  /\ pc' = "clear_int"
  /\ lost' = TRUE
  /\ UNCHANGED <<ring, has_interrupted, isrVars, mainVars, hostVars, acc, taken>>

\* From one of clear()'s stores to the next.
ClearStep(from, next) == isr = "none" /\ pc = from /\ pc' = next

ClearStore ==
  /\ \/ /\ ClearStep("clear_int", "clear_start")
        /\ has_interrupted' = FALSE
        /\ UNCHANGED ring
     \/ /\ ClearStep("clear_start", "clear_end")
        /\ start' = 0
        /\ UNCHANGED <<buffer, end, end_buf, need_skip, need_rd, has_interrupted>>
     \/ /\ ClearStep("clear_end", "clear_end_buf")
        /\ end' = 0
        /\ UNCHANGED <<buffer, start, end_buf, need_skip, need_rd, has_interrupted>>
     \/ /\ ClearStep("clear_end_buf", "clear_skip")
        /\ end_buf' = 0
        /\ UNCHANGED <<buffer, start, end, need_skip, need_rd, has_interrupted>>
     \/ /\ ClearStep("clear_skip", "clear_rd")
        /\ need_skip' = 0
        /\ UNCHANGED <<buffer, start, end, end_buf, need_rd, has_interrupted>>
     \/ /\ ClearStep("clear_rd", "clear_test")
        /\ need_rd' = 0
        /\ UNCHANGED <<buffer, start, end, end_buf, need_skip, has_interrupted>>
  /\ UNCHANGED <<isrVars, mainVars, hostVars, ghost>>

ClearAgainNever == FALSE              \* mutant: the stores are never repeated

ClearAgain == has_interrupted

\* while (has_interrupted): an interrupt since clear_int repeats the stores.
ClearTest ==
  /\ isr = "none" /\ pc = "clear_test"
  /\ IF ClearAgain
     THEN pc' = "clear_int" /\ UNCHANGED ghost
     ELSE /\ pc' = "main"
          /\ acc' = 0 /\ taken' = 0
          /\ lost' = (hpos # 0)
  /\ UNCHANGED <<ring, has_interrupted, isrVars, mainVars, hostVars>>

Main ==
  \/ CallUsbProcess \/ Test \/ Fetch \/ CopyByte \/ Execute \/ Advance
  \/ ClearBegin \/ ClearStore \/ ClearTest

Next == Interrupt \/ Main

Spec == Init /\ [][Next]_vars

\* An interrupt that has begun ends; between interrupts the main loop runs, so
\* it is served however often a packet arrives.
FairSpec ==
  /\ Spec
  /\ WF_vars(isr # "none" /\ Interrupt)
  /\ SF_vars(CallUsbProcess)
  /\ SF_vars(pc # "main" /\ Main)

(***************************************************************************)
(* Properties.                                                             *)
(***************************************************************************)

\* The types of the variables.
TypeOK ==
  /\ buffer \in [Slots -> Cell]
  /\ start \in Slots /\ end \in Slots /\ end_buf \in Slots
  /\ need_skip \in 0 .. max_struct_size
  /\ need_rd \in 0 .. max_struct_size
  /\ has_interrupted \in BOOLEAN
  /\ isr \in {"none", "fill", "spill"}
  /\ tmp \in Slots /\ left \in Nat
  /\ pc \in {"main", "test", "fetch"} \cup TakePcs \cup ClearPcs
  /\ same_commands \in Nat /\ old_command \in Byte /\ command \in Byte
  /\ cmd_data \in Seq(Cell)
  /\ Len(cmd_data) < calc_need_rd(command)
  /\ hcmd \in Byte /\ hpos \in 0 .. max_struct_size
  /\ hpos < calc_need_rd(hcmd)
  /\ sent \in Nat /\ acc \in Nat /\ taken \in Nat
  /\ lost \in BOOLEAN

\* The cell d places behind start.
CellAt(d) == buffer[Wrap(start + d)]

used == Dist(start, end)

\* The command the cell d places behind start belongs to lies in the committed
\* part of the ring complete and in order.
WholeAt(d) ==
  LET b == CellAt(d)
      last == d - b.k + calc_need_rd(b.c) - 1
  IN  /\ b.k <= d /\ d <= last
      /\ last < used
      /\ b.k = 0 => b.v = b.c
      /\ \A e \in d - b.k .. last :
           CellAt(e).c = b.c /\ CellAt(e).n = b.n /\ CellAt(e).k = e - (d - b.k)

\* What the main loop may take begins with the first byte of a command and
\* consists of whole commands, also after the ring overflowed between commands.
WholeCommands == \A d \in 0 .. used - 1 : WholeAt(d)

Framed == ~lost => WholeCommands

\* usb_process takes every accepted command, once, in the order the host sent
\* them: the cell it fetches heads the accepted command number taken.
TakesInOrder ==
  ~lost =>
    /\ pc = "fetch" => /\ start # end
                       /\ CellAt(0).k = 0
                       /\ CellAt(0).n = taken
    /\ start = end <=> taken = acc

\* The view gets the argument the host sent with the command, although packets
\* arrived while it was copied out of the ring.
ArgumentsIntact ==
  ~lost /\ pc = "do" =>
    \A i \in 1 .. Len(cmd_data) :
      /\ cmd_data[i].c = command
      /\ cmd_data[i].k = i
      /\ cmd_data[i].n = taken

\* No packet, not even one that overflows the ring, changes a byte the main
\* loop may still read.
CommittedUntouched ==
  [][ ~lost /\ isr # "none" =>
        \A d \in 0 .. used - 1 : CellAt(d)' = CellAt(d) ]_vars

\* clear() leaves the ring empty and both framing counters zero, also when
\* packets arrived between its stores.
ClearIsAtomic ==
  [][ pc = "clear_test" /\ pc' = "main" =>
        /\ start = end /\ end = end_buf
        /\ need_rd = 0 /\ need_skip = 0 ]_vars

\* The interrupt and the host agree on where the command ends that the host is
\* sending: it is being stored, and need_rd counts to its end; or it is given up
\* with nothing of it in the ring, and need_skip counts to its end, also if the
\* ring overflowed in the middle of it.  need_rd is of no use then: it may be what
\* was left of a command that was given up (see LostByStaleCount).
ResyncsAtBoundary ==
  ~lost =>
    \/ need_skip = 0 /\ need_rd = Remaining
    \/ need_skip = Remaining /\ end_buf = end

\* An overflow in the middle of a command loses that command and nothing else, as
\* long as the ring does not go by the count it leaves behind: the interrupt loses
\* framing only by a need_rd that is neither what is left of the host's command
\* nor, where one begins, its length.
LostByStaleCount ==
  [][ ~lost /\ lost' /\ isr # "none" =>
        /\ need_rd # Remaining
        /\ need_skip = Remaining /\ end_buf = end ]_vars

\* usb_process returns with the ring empty again and again, unless framing is
\* lost for good or the ring is cleared for ever.
Drains == <>[](~lost) => []<>(pc = "main" /\ start = end)
=============================================================================

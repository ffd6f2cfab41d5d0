------------------------------ MODULE UsbProofs ------------------------------
(***************************************************************************)
(* Proofs about the USB connection in both directions.  UsbCommand, for    *)
(* every size of the ring, of the arguments and of the packets: the type   *)
(* invariant, and, through the inductive invariant IInv, that the main     *)
(* loop takes whole commands, each accepted one once and in order, with    *)
(* the argument the host sent.  UsbSend: see there.                        *)
(***************************************************************************)
EXTENDS UsbCommand, SequenceTheorems, TLAPS

level == Dist(start, end_buf)

\* The command being received is stored: its bytes are at the end of the ring.
Stored ==
  /\ need_skip = 0 /\ need_rd = Remaining
  /\ level = used + hpos
  /\ \A d \in used .. level - 1 :
       LET b == CellAt(d)
       IN  b.c = hcmd /\ b.k = d - used /\ b.n = acc /\ (b.k = 0 => b.v = b.c)

\* It is skipped, or none has begun since one was: nothing of it is in the ring.
\* need_rd may be what was left of a command when the ring overflowed.
GivenUp == need_skip = Remaining /\ level = used

PendingInv == used + Dist(end, end_buf) = level /\ (Stored \/ GivenUp)

\* The accepted commands in the ring are numbered from taken to acc - 1.
NumberInv ==
  /\ taken <= acc
  /\ used = 0 <=> taken = acc
  /\ used # 0 => CellAt(0).n = taken
  /\ \A d \in 0 .. used - 1 : CellAt(d).n < acc
  /\ \A d \in 0 .. used - 1, e \in 1 .. used :
       e = d - CellAt(d).k + calc_need_rd(CellAt(d).c) =>
         CellAt(d).n + 1 = IF e = used THEN acc ELSE CellAt(e).n

IsrInv ==
  /\ isr = "fill" => tmp = Wrap(end_buf + 1)
  /\ isr = "spill" => GivenUp

MainInv ==
  /\ pc \in {"fetch"} \cup TakePcs => used # 0
  /\ pc \in TakePcs => command = CellAt(0).c
  /\ pc \in {"copy", "do"} =>
       \A i \in 1 .. Len(cmd_data) :
         cmd_data[i].c = command /\ cmd_data[i].k = i /\ cmd_data[i].n = taken

FramedInv ==
  ~lost => PendingInv /\ WholeCommands /\ NumberInv /\ IsrInv /\ MainInv

\* What clear() has zeroed stays zero until an interrupt tells it to repeat.
ClearInv ==
  /\ isr # "none" => has_interrupted
  /\ pc \in ClearPcs => lost
  /\ ~has_interrupted =>
       /\ pc \in ClearPcs \ {"clear_int", "clear_start"} => start = 0
       /\ pc \in {"clear_end_buf", "clear_skip", "clear_rd", "clear_test"} => end = 0
       /\ pc \in {"clear_skip", "clear_rd", "clear_test"} => end_buf = 0
       /\ pc \in {"clear_rd", "clear_test"} => need_skip = 0
       /\ pc = "clear_test" => need_rd = 0

IInv == TypeOK /\ FramedInv /\ ClearInv

(***************************************************************************)
(* Facts about the constants and about positions in the ring.              *)
(***************************************************************************)

\* N exceeds every command's length, and no command is empty.
LEMMA Sizes ==
  /\ N \in Nat /\ N >= 3
  /\ max_struct_size \in Nat /\ max_struct_size + 2 <= N
  /\ cmd_nothing \in Byte
  /\ \A b : calc_need_rd(b) \in 1 .. max_struct_size + 1
  /\ calc_need_rd(cmd_nothing) = 1
  BY SizesAssumption, BytesAssumption
     DEF N, max_struct_size, Byte, calc_need_rd

\* Wrap is the code's % on every sum the code computes.
LEMMA WrapIsModulo ==
  \A x \in 0 .. 2 * N - 1 : Wrap(x) = x % N
  BY Sizes DEF Wrap

\* Wrap stays in the ring for the sums the code forms.
LEMMA WrapType ==
  \A x \in 0 .. 2 * N - 1 : Wrap(x) \in Slots
  BY Sizes DEF Wrap, Slots

\* The cell d places after s is the only one at that distance.
LEMMA WrapDist ==
  \A s \in Slots, d \in Slots :
    Wrap(s + d) \in Slots /\ Dist(s, Wrap(s + d)) = d
  BY Sizes DEF Wrap, Slots, Dist

\* Walking the distance from a to b leads to b.
LEMMA DistWrap ==
  \A a, b \in Slots : Dist(a, b) \in Slots /\ Wrap(a + Dist(a, b)) = b
  BY Sizes DEF Wrap, Slots, Dist

\* Two walks after each other make one walk.
LEMMA WrapWrap ==
  \A s \in Slots, d, e \in Nat :
    d + e < N => Wrap(Wrap(s + d) + e) = Wrap(s + (d + e))
  BY Sizes DEF Wrap, Slots

\* The distance between two cells seen from a third before both.
LEMMA DistBetween ==
  \A s \in Slots, d, e \in Slots :
    d <= e => Dist(Wrap(s + d), Wrap(s + e)) = e - d
  BY Sizes DEF Wrap, Slots, Dist
(***************************************************************************)
(* Type correctness.                                                       *)
(***************************************************************************)

\* Every byte of the host's stream is a byte of a command it may send.
LEMMA HostType ==
  ASSUME TypeOK, NEW v \in Byte, HostByte(v)
  PROVE  /\ Owner(v) \in Byte
         /\ hcmd' \in Byte /\ hpos' \in 0 .. max_struct_size
         /\ hpos' < calc_need_rd(hcmd') /\ sent' \in Nat
         /\ hpos < calc_need_rd(Owner(v))
  BY Sizes DEF TypeOK, HostByte, Owner

\* The reset locals have their types.
LEMMA FreshType ==
  ASSUME FreshLoopLocals
  PROVE  command' \in Byte /\ cmd_data' \in Seq(Cell)
         /\ Len(cmd_data') < calc_need_rd(command')
  BY Sizes DEF FreshLoopLocals

LEMMA InitType == Init => TypeOK
  <1> SUFFICES ASSUME Init PROVE TypeOK
    OBVIOUS
  <1>1. 0 \in Slots /\ 0 \in 0 .. max_struct_size
    BY Sizes DEF Slots
  <1>2. buffer \in [Slots -> Cell]
    BY Sizes, <1>1 DEF Init, Cell
  <1>3. cmd_data \in Seq(Cell) /\ Len(cmd_data) < calc_need_rd(command)
    BY Sizes DEF Init
  <1>4. hpos < calc_need_rd(hcmd) /\ {hcmd, old_command, command} \subseteq Byte
    BY Sizes DEF Init
  <1> QED
    BY <1>1, <1>2, <1>3, <1>4 DEF Init, TypeOK

LEMMA StoreByteType ==
  ASSUME TypeOK, NEW v \in Byte, StoreByte(v)
  PROVE  TypeOK'
  <1>1. HostByte(v)
    BY DEF StoreByte, HasRoom
  <1>2. ReadCount(v) \in 1 .. max_struct_size + 1
    BY Sizes DEF TypeOK, StoreByte, HasRoom, ReadCount
  <1>3. [v |-> v, c |-> Owner(v), k |-> hpos, n |-> acc] \in Cell
    BY <1>1, HostType DEF TypeOK, Cell
  <1>4. buffer' \in [Slots -> Cell]
    BY <1>3 DEF TypeOK, StoreByte, HasRoom
  <1>5. tmp \in 0 .. N - 1 /\ tmp + 1 \in 0 .. 2 * N - 1
    BY Sizes DEF TypeOK, Slots
  <1>6. tmp' \in Slots /\ end_buf' \in Slots
    BY <1>5, WrapType DEF StoreByte, HasRoom, TypeOK
  <1>7. need_rd' \in 0 .. max_struct_size
    BY <1>2, Sizes DEF StoreByte, HasRoom
  <1>8. end' \in Slots /\ acc' \in Nat
    BY DEF StoreByte, HasRoom, TypeOK
  <1>9. left' \in Nat
    BY DEF StoreByte, HasRoom, TypeOK
  <1> QED
    <2>1. /\ hcmd' \in Byte /\ hpos' \in 0 .. max_struct_size
          /\ hpos' < calc_need_rd(hcmd') /\ sent' \in Nat
      BY <1>1, HostType
    <2> QED
      BY <1>4, <1>6, <1>7, <1>8, <1>9, <2>1 DEF StoreByte, HasRoom, TypeOK, mainVars

LEMMA InterruptType ==
  ASSUME TypeOK, Interrupt
  PROVE  TypeOK'
  <1>1. ASSUME NEW len \in 0 .. MaxPacket, Receive(len)
        PROVE  TypeOK'
    <2>1. end_buf + 1 \in 0 .. 2 * N - 1
      BY Sizes DEF TypeOK, Slots
    <2>2. tmp' \in Slots /\ left' \in Nat
      BY <1>1, <2>1, WrapType, SizesAssumption DEF Receive
    <2> QED
      BY <1>1, <2>2
         DEF Receive, TypeOK, ring, mainVars, hostVars, ghost
  <1>2. ASSUME NEW v \in Byte, SkipByte(v)
        PROVE  TypeOK'
    <2>1. HostByte(v)
      BY <1>2 DEF SkipByte
    <2>2. need_skip' \in 0 .. max_struct_size /\ left' \in Nat
      BY <1>2, Sizes DEF SkipByte, TypeOK
    <2> QED
      BY <1>2, <2>1, <2>2, HostType DEF SkipByte, TypeOK, mainVars, ghost
  <1>3. ASSUME NEW v \in Byte, SpillByte(v)
        PROVE  TypeOK'
    <2>1. HostByte(v)
      BY <1>3 DEF SpillByte, SpillCount
    <2>2. need_skip' \in 0 .. max_struct_size /\ left' \in Nat
      BY <1>3, Sizes DEF SpillByte, SpillCount, TypeOK
    <2> QED
      BY <1>3, <2>1, <2>2, HostType DEF SpillByte, SpillCount, TypeOK, mainVars, ghost
  <1>4. ASSUME Overflow
        PROVE  TypeOK'
    BY <1>4 DEF Overflow, HasRoom, TypeOK, mainVars, hostVars
  <1>5. ASSUME ReturnFromInterrupt
        PROVE  TypeOK'
    BY <1>5, Sizes
       DEF ReturnFromInterrupt, TypeOK, Slots, ring, mainVars, hostVars, ghost
  <1> QED
    BY <1>1, <1>2, <1>3, <1>4, <1>5, StoreByteType DEF Interrupt

LEMMA MainType ==
  ASSUME TypeOK, Main
  PROVE  TypeOK'
  <1> USE DEF ring, isrVars, hostVars, ghost, TakePcs, ClearPcs
  <1>1. ASSUME CallUsbProcess PROVE TypeOK'
    BY <1>1, FreshType, Sizes DEF CallUsbProcess, FreshLocals, TypeOK
  <1>2. ASSUME Test PROVE TypeOK'
    <2>1. CASE start # end
      BY <1>2, <2>1 DEF Test, mainVars, TypeOK
    <2>2. CASE start = end
      BY <1>2, <2>2, FreshType, Sizes DEF Test, FreshLocals, TypeOK
    <2> QED
      BY <2>1, <2>2
  <1>3. ASSUME Fetch PROVE TypeOK'
    <2>1. buffer[start].v \in Byte
      BY DEF TypeOK, Cell
    <2>2. command' \in Byte /\ cmd_data' = <<>> /\ old_command' \in Byte
      BY <1>3, <2>1 DEF Fetch, AfterRepeat, TypeOK
    <2>3. same_commands' \in Nat /\ pc' \in TakePcs
      BY <1>3 DEF Fetch, AfterRepeat, TypeOK
    <2>4. cmd_data' \in Seq(Cell) /\ Len(cmd_data') < calc_need_rd(command')
      BY <2>2, Sizes
    <2> QED
      BY <1>3, <2>2, <2>3, <2>4 DEF Fetch, AfterRepeat, TypeOK
  <1>4. ASSUME CopyByte PROVE TypeOK'
    <2>1. calc_need_rd(command) \in 1 .. max_struct_size + 1
      BY Sizes
    <2>2. start + Len(cmd_data) + 1 \in 0 .. 2 * N - 1
      BY <2>1, Sizes DEF TypeOK, Slots
    <2>3. buffer[Wrap(start + Len(cmd_data) + 1)] \in Cell
      BY <2>2, WrapType DEF TypeOK
    <2>4. cmd_data' \in Seq(Cell) /\ Len(cmd_data') = Len(cmd_data) + 1
      BY <1>4, <2>3 DEF CopyByte, ArgumentSlot, TypeOK
    <2>5. Len(cmd_data') < calc_need_rd(command')
      BY <1>4, <2>1, <2>4 DEF CopyByte, ArgumentSlot, TypeOK
    <2> QED
      BY <1>4, <2>4, <2>5 DEF CopyByte, ArgumentSlot, TypeOK
  <1>5. ASSUME Execute PROVE TypeOK'
    BY <1>5 DEF Execute, mainVars, TypeOK
  <1>6. ASSUME Advance PROVE TypeOK'
    <2>1. start + calc_need_rd(command) \in 0 .. 2 * N - 1
      BY Sizes DEF TypeOK, Slots
    <2>2. start' \in Slots
      BY <1>6, <2>1, WrapType DEF Advance, TakenBytes
    <2>3. taken' \in Nat
      BY <1>6 DEF Advance, TakenBytes, TypeOK
    <2> QED
      BY <1>6, <2>2, <2>3, FreshType DEF Advance, TakenBytes, TypeOK
  <1>7. ASSUME ClearBegin PROVE TypeOK'
    BY <1>7 DEF ClearBegin, mainVars, TypeOK
  <1>8. ASSUME ClearStore PROVE TypeOK'
    <2>1. 0 \in Slots /\ 0 \in 0 .. max_struct_size
      BY Sizes DEF Slots
    <2>2. pc' \in ClearPcs
      BY <1>8 DEF ClearStore, ClearStep
    <2>3. /\ buffer' = buffer
          /\ start' \in {0, start} /\ end' \in {0, end}
          /\ end_buf' \in {0, end_buf} /\ need_skip' \in {0, need_skip}
          /\ need_rd' \in {0, need_rd}
          /\ has_interrupted' \in {FALSE, has_interrupted}
      BY <1>8 DEF ClearStore
    <2> QED
      BY <1>8, <2>1, <2>2, <2>3 DEF ClearStore, mainVars, TypeOK
  <1>9. ASSUME ClearTest PROVE TypeOK'
    <2>1. lost' \in BOOLEAN /\ pc' \in {"main"} \cup ClearPcs
      BY <1>9, Zenon DEF ClearTest, ClearAgain, TypeOK
    <2>2. acc' \in Nat /\ taken' \in Nat
      BY <1>9 DEF ClearTest, ClearAgain, TypeOK
    <2> QED
      BY <1>9, <2>1, <2>2 DEF ClearTest, ClearAgain, mainVars, TypeOK
  <1> QED
    BY <1>1, <1>2, <1>3, <1>4, <1>5, <1>6, <1>7, <1>8, <1>9 DEF Main

\* Every index stays inside the ring, the counters inside their range and the
\* argument inside cmd_data, whether or not framing is lost.
THEOREM TypeCorrect == Spec => []TypeOK
  <1>1. TypeOK /\ [Next]_vars => TypeOK'
    <2> SUFFICES ASSUME TypeOK, [Next]_vars PROVE TypeOK'
      OBVIOUS
    <2>1. CASE UNCHANGED vars
      BY <2>1 DEF vars, ring, isrVars, mainVars, hostVars, ghost, TypeOK
    <2> QED
      BY <2>1, InterruptType, MainType DEF Next
  <1> QED
    BY <1>1, InitType, PTL DEF Spec

(***************************************************************************)
(* The framing invariant: the interrupt.                                   *)
(***************************************************************************)

Framing == PendingInv /\ WholeCommands /\ NumberInv

\* The numbers the framing invariant is about, and the slots they lead to.
LEMMA Levels ==
  ASSUME TypeOK, PendingInv
  PROVE  /\ used \in Slots /\ level \in Slots /\ used <= level
         /\ Wrap(start + used) = end /\ Wrap(start + level) = end_buf
  <1>1. Dist(start, end) \in Slots /\ Wrap(start + Dist(start, end)) = end
    BY DistWrap DEF TypeOK
  <1>2. Dist(start, end_buf) \in Slots /\ Wrap(start + Dist(start, end_buf)) = end_buf
    BY DistWrap DEF TypeOK
  <1>3. Dist(end, end_buf) \in Slots
    BY DistWrap DEF TypeOK
  <1> QED
    BY <1>1, <1>2, <1>3, Sizes DEF PendingInv, used, level, Slots

\* What lies in the ring is a cell.
LEMMA CellType ==
  ASSUME TypeOK, NEW d \in Nat, d < N
  PROVE  CellAt(d) \in Cell
  <1>1. Wrap(start + d) \in Slots
    BY Sizes DEF TypeOK, Wrap, Slots
  <1> QED
    BY <1>1 DEF CellAt, TypeOK

\* A step that leaves the ring and its labels alone keeps the framing.
LEMMA FramingFrame ==
  ASSUME Framing, UNCHANGED <<ring, hcmd, hpos, acc, taken>>
  PROVE  Framing'
  BY DEF Framing, ring, PendingInv, Stored, GivenUp, Remaining, WholeCommands,
         WholeAt, NumberInv, used, level, CellAt

\* The room the interrupt tests for, tmp # start, is a free cell.
LEMMA Room ==
  ASSUME TypeOK, PendingInv, IsrInv, isr = "fill", tmp # start
  PROVE  level + 1 \in Slots /\ Dist(start, tmp) = level + 1
  <1>1. level \in Slots /\ Wrap(start + level) = end_buf /\ start \in Slots
    BY Levels DEF TypeOK
  <1>2. tmp = Wrap(end_buf + 1)
    BY DEF IsrInv
  <1>3. level + 1 # N
    BY <1>1, <1>2, Sizes DEF Wrap, Slots
  <1>4. level + 1 \in Slots /\ tmp = Wrap(start + (level + 1))
    BY <1>1, <1>2, <1>3, Sizes, WrapWrap DEF Slots
  <1> QED
    BY <1>1, <1>4, WrapDist

\* A byte goes into the free cell after those in use, and into no other.
LEMMA StoreCells ==
  ASSUME TypeOK, PendingInv, IsrInv, NEW v \in Byte, StoreByte(v)
  PROVE  /\ level' = level + 1 /\ level + 1 \in Slots
         /\ \A d \in 0 .. level :
              CellAt(d)' = IF d = level
                           THEN [v |-> v, c |-> Owner(v), k |-> hpos, n |-> acc]
                           ELSE CellAt(d)
  <1>1. level + 1 \in Slots /\ Dist(start, tmp) = level + 1
    BY Room DEF StoreByte, HasRoom
  <1>2. level' = level + 1
    BY <1>1 DEF StoreByte, HasRoom, level
  <1>3. level \in Slots /\ Wrap(start + level) = end_buf /\ start \in Slots
    BY Levels DEF TypeOK
  <1>4. ASSUME NEW d \in 0 .. level - 1
        PROVE  CellAt(d)' = CellAt(d)
    <2>1. d \in Slots /\ d # level
      BY <1>3, Sizes DEF Slots
    <2>2. Wrap(start + d) \in Slots /\ Wrap(start + d) # end_buf
      BY <1>3, <2>1, WrapDist
    <2>3. start' = start /\ \A x \in Slots : x # end_buf => buffer'[x] = buffer[x]
      BY DEF StoreByte, HasRoom, TypeOK
    <2>4. CellAt(d)' = buffer'[Wrap(start + d)]
      BY DEF CellAt, StoreByte, HasRoom
    <2>5. CellAt(d) = buffer[Wrap(start + d)]
      BY DEF CellAt
    <2> QED
      BY <2>2, <2>3, <2>4, <2>5
  <1>5. buffer'[Wrap(start + level)] =
          [v |-> v, c |-> Owner(v), k |-> hpos, n |-> acc]
    BY <1>3 DEF StoreByte, HasRoom, TypeOK
  <1>6. ASSUME NEW d, d = level
        PROVE  CellAt(d)' = [v |-> v, c |-> Owner(v), k |-> hpos, n |-> acc]
    <2>1. CellAt(d)' = buffer'[Wrap(start + d)]
      BY DEF CellAt, StoreByte, HasRoom
    <2> QED
      BY <1>5, <1>6, <2>1
  <1> QED
    BY <1>1, <1>2, <1>3, <1>4, <1>6 DEF Slots

\* While a command is stored, what is still to be read completes it.
LEMMA StoreCount ==
  ASSUME TypeOK, PendingInv, NEW v \in Byte, StoreByte(v), ~lost'
  PROVE  /\ level = used + hpos
         /\ hpos + ReadCount(v) = calc_need_rd(Owner(v))
         /\ hpos # 0 => hcmd = Owner(v)
         /\ hpos = 0 => v = Owner(v)
         /\ \A d \in used .. level - 1 :
              LET b == CellAt(d)
              IN  /\ b.c = Owner(v) /\ b.k = d - used /\ b.n = acc
                  /\ b.k = 0 => b.v = b.c
  <1>1. need_skip = 0 /\ need_rd \in Nat /\ hpos \in Nat /\ hpos < calc_need_rd(hcmd)
    BY DEF StoreByte, HasRoom, TypeOK
  <1>2. used \in Nat /\ calc_need_rd(hcmd) \in Nat
    BY Levels, Sizes DEF Slots
  <1>3. CASE hpos = 0
    <2>1. level = used /\ Owner(v) = v
      BY <1>1, <1>2, <1>3 DEF PendingInv, Stored, GivenUp, Owner
    <2>2. ReadCount(v) = calc_need_rd(v)
      <3>1. need_rd = 0 \/ need_rd = calc_need_rd(v)
        BY <1>3 DEF StoreByte
      <3>2. need_rd + need_skip = need_rd
        BY <1>1
      <3> QED
        BY <3>1, <3>2, Zenon DEF ReadCount
    <2>3. calc_need_rd(v) \in Nat
      BY Sizes
    <2> QED
      BY <1>2, <1>3, <2>1, <2>2, <2>3
  <1>4. CASE hpos # 0
    <2>1. Remaining = calc_need_rd(hcmd) - hpos /\ Remaining # 0
      BY <1>1, <1>2, <1>4 DEF Remaining
    <2>2. Stored /\ need_rd = Remaining
      BY <1>1, <2>1 DEF PendingInv, Stored, GivenUp
    <2>3. ReadCount(v) = need_rd /\ Owner(v) = hcmd
      BY <1>1, <1>4, <2>1, <2>2 DEF ReadCount, Owner
    <2> QED
      BY <1>1, <1>2, <1>4, <2>1, <2>2, <2>3 DEF Stored
  <1> QED
    BY <1>3, <1>4

\* Commands stay whole when the cells in use do and more become used.
LEMMA WholePrefix ==
  ASSUME TypeOK, WholeCommands, used \in Nat, used < N, used' \in Nat, used <= used',
         \A d \in 0 .. used - 1 : CellAt(d)' = CellAt(d),
         NEW d \in 0 .. used - 1
  PROVE  WholeAt(d)'
  <1>1. CellAt(d).k \in Nat /\ calc_need_rd(CellAt(d).c) \in Nat
    BY CellType, Sizes DEF Cell
  <1>2. WholeAt(d)
    BY DEF WholeCommands
  <1>3. CellAt(d)' = CellAt(d)
    OBVIOUS
  <1> QED
    BY <1>1, <1>2, <1>3 DEF WholeAt

\* Storing a byte of a command, the last one included, keeps the framing.
LEMMA StoreFraming ==
  ASSUME TypeOK, Framing, IsrInv, NEW v \in Byte, StoreByte(v), ~lost'
  PROVE  Framing'
  <1> DEFINE need == calc_need_rd(Owner(v))
             new == [v |-> v, c |-> Owner(v), k |-> hpos, n |-> acc]
  <1>0. PendingInv /\ WholeCommands /\ NumberInv
    BY DEF Framing
  <1>1. /\ level' = level + 1 /\ level + 1 \in Slots
        /\ \A d \in 0 .. level : CellAt(d)' = IF d = level THEN new ELSE CellAt(d)
    BY <1>0, StoreCells
  <1>2. /\ level = used + hpos /\ hpos + ReadCount(v) = need
        /\ hpos # 0 => hcmd = Owner(v)
        /\ hpos = 0 => v = Owner(v)
        /\ \A d \in used .. level - 1 :
             LET b == CellAt(d)
             IN  /\ b.c = Owner(v) /\ b.k = d - used /\ b.n = acc
                 /\ b.k = 0 => b.v = b.c
    BY <1>0, StoreCount
  <1>3. used \in Nat /\ hpos \in Nat /\ need \in Nat \ {0} /\ level \in Nat
        /\ start \in Slots /\ acc \in Nat /\ taken \in Nat /\ used < N /\ level < N
    BY <1>0, Levels, Sizes, SMTT(60) DEF TypeOK, Slots
  <1>4. hcmd' = Owner(v) /\ start' = start /\ taken' = taken /\ need_skip' = 0
        /\ end_buf' = tmp /\ need_rd' = ReadCount(v) - 1 /\ need_skip = 0
        /\ hpos' = IF hpos + 1 = need THEN 0 ELSE hpos + 1
    BY DEF StoreByte, HasRoom, HostByte
  <1>5. Dist(start, tmp) = level + 1 /\ end_buf' = tmp
    BY <1>0, Room DEF StoreByte, HasRoom
  \* The cells of the command the byte belongs to, the byte included.
  <1>6. ASSUME NEW d \in used .. level
        PROVE  /\ CellAt(d)'.c = Owner(v) /\ CellAt(d)'.k = d - used
               /\ CellAt(d)'.n = acc
               /\ CellAt(d)'.k = 0 => CellAt(d)'.v = Owner(v)
    <2>1. CASE d = level
      BY <1>1, <1>2, <1>3, <2>1
    <2>2. CASE d # level
      <3>1. d \in used .. level - 1 /\ d \in 0 .. level
        BY <1>2, <1>3, <2>2
      <3> QED
        BY <1>1, <1>2, <2>2, <3>1
    <2> QED
      BY <2>1, <2>2
  \* The cells of the commands before it are what they were.
  <1>7. \A d \in 0 .. used - 1 : CellAt(d)' = CellAt(d)
    BY <1>1, <1>2, <1>3
  <1>8. CASE ReadCount(v) = 1
    <2>1. /\ used' = used + need /\ level' = used + need /\ need = hpos + 1
          /\ acc' = acc + 1 /\ hpos' = 0 /\ need_rd' = 0 /\ end' = end_buf'
          /\ level = used + need - 1
      BY <1>1, <1>2, <1>3, <1>4, <1>5, <1>8 DEF StoreByte, HasRoom, used
    <2>2. PendingInv'
      BY <1>3, <1>4, <2>1, <1>1, Sizes
         DEF PendingInv, GivenUp, Remaining, Dist, StoreByte, HasRoom, TypeOK, Slots
    <2>3. WholeCommands'
      <3> SUFFICES ASSUME NEW d \in 0 .. used' - 1
                   PROVE  WholeAt(d)'
        BY DEF WholeCommands
      <3>1. CASE d < used
        <4>1. d \in 0 .. used - 1 /\ CellAt(d)' = CellAt(d)
          BY <1>3, <1>7, <3>1
        <4>2. used <= used' /\ used' \in Nat
          BY <1>3, <2>1
        <4> QED
          BY <1>0, <1>3, <1>7, <4>1, <4>2, WholePrefix
      <3>2. CASE d >= used
        <4>1. d \in used .. level
          BY <1>3, <2>1, <3>2
        <4>2. CellAt(d)'.c = Owner(v) /\ CellAt(d)'.k = d - used /\ CellAt(d)'.n = acc
          BY <1>6, <4>1
        <4>3. /\ d - CellAt(d)'.k = used
              /\ d - CellAt(d)'.k + calc_need_rd(CellAt(d)'.c) - 1 = level
          BY <1>3, <2>1, <4>1, <4>2
        <4>5. d <= level
          BY <4>1, <1>3
        <4>4. CellAt(d)'.k = 0 => CellAt(d)'.v = CellAt(d)'.c
          BY <1>3, <1>6, <4>1, <4>2
        <4> QED
          BY <1>3, <1>6, <2>1, <4>1, <4>2, <4>3, <4>4, <4>5 DEF WholeAt
      <3> QED
        BY <1>3, <2>1, <3>1, <3>2
    <2>4. NumberInv'
      <3>1. taken' <= acc' /\ ~(used' = 0) /\ ~(taken' = acc')
        BY <1>0, <1>3, <1>4, <2>1 DEF NumberInv
      <3>2. CellAt(0)'.n = taken'
        <4>1. CASE used = 0
          BY <1>0, <1>3, <1>4, <1>6, <2>1, <4>1 DEF NumberInv
        <4>2. CASE used # 0
          BY <1>0, <1>3, <1>4, <1>7, <4>2 DEF NumberInv
        <4> QED
          BY <4>1, <4>2
      <3>3. ASSUME NEW d \in 0 .. used' - 1, NEW e \in 1 .. used',
                   e = d - CellAt(d)'.k + calc_need_rd(CellAt(d)'.c)
            PROVE  CellAt(d)'.n + 1 = IF e = used' THEN acc' ELSE CellAt(e)'.n
        <4>1. CASE d < used
          <5>1. d \in 0 .. used - 1 /\ CellAt(d)' = CellAt(d)
            BY <1>3, <1>7, <4>1
          <5>2. /\ CellAt(d).k \in Nat
                /\ calc_need_rd(CellAt(d).c) \in Nat \ {0}
            BY <1>3, <5>1, CellType, Sizes DEF Cell
          <5>3. e \in 1 .. used /\ e # used'
            BY <1>0, <1>3, <2>1, <3>3, <5>1, <5>2 DEF WholeCommands, WholeAt
          <5>4. CellAt(d).n + 1 = IF e = used THEN acc ELSE CellAt(e).n
            BY <1>0, <3>3, <5>1, <5>3 DEF NumberInv
          <5>5. CASE e = used
            <6>1. e \in used .. level
              BY <1>2, <1>3, <5>5
            <6> QED
              BY <1>6, <5>1, <5>3, <5>4, <5>5, <6>1
          <5>6. CASE e # used
            <6>1. e \in 0 .. used - 1
              BY <1>3, <5>3, <5>6
            <6> QED
              BY <1>7, <5>1, <5>3, <5>4, <5>6, <6>1
          <5> QED
            BY <5>5, <5>6
        <4>2. CASE d >= used
          <5>1. d \in used .. level
            BY <1>3, <2>1, <4>2
          <5>2. CellAt(d)'.c = Owner(v) /\ CellAt(d)'.k = d - used /\ CellAt(d)'.n = acc
            BY <1>6, <5>1
          <5>3. e = used'
            BY <1>3, <2>1, <3>3, <5>1, <5>2
          <5> QED
            BY <2>1, <5>2, <5>3
        <4> QED
          BY <1>3, <2>1, <4>1, <4>2
      <3>4. ASSUME NEW d \in 0 .. used' - 1
            PROVE  CellAt(d)'.n < acc'
        <4>1. CASE d < used
          <5>1. d \in 0 .. used - 1 /\ CellAt(d)' = CellAt(d)
            BY <1>3, <1>7, <4>1
          <5>2. CellAt(d) \in Cell
            BY <1>3, <5>1, Sizes, CellType
          <5>3. CellAt(d).n < acc /\ CellAt(d).n \in Nat
            BY <1>0, <5>1, <5>2 DEF NumberInv, Cell
          <5> QED
            BY <1>3, <2>1, <5>1, <5>3
        <4>2. CASE d >= used
          BY <1>3, <1>6, <2>1, <4>2
        <4> QED
          BY <1>3, <2>1, <4>1, <4>2
      <3> QED
        BY <3>1, <3>2, <3>3, <3>4 DEF NumberInv
    <2> QED
      BY <2>2, <2>3, <2>4 DEF Framing
  <1>9. CASE ReadCount(v) # 1
    <2>1. /\ used' = used /\ end' = end /\ acc' = acc /\ hpos' = hpos + 1
          /\ hpos + 1 # need /\ need_rd' + hpos' = need /\ need_rd' # 0
          /\ level' = used' + hpos'
      <3>1. end' = end /\ acc' = acc
        BY <1>9 DEF StoreByte, HasRoom
      <3>2. used' = used
        BY <1>4, <3>1 DEF used
      <3>3. ReadCount(v) \in Int
        BY Sizes DEF ReadCount, TypeOK
      <3> QED
        BY <1>1, <1>2, <1>3, <1>4, <1>9, <3>1, <3>2, <3>3
    <2>2. PendingInv'
      <3>1. Dist(end, tmp) = level + 1 - used
        <4>1. /\ end = Wrap(start + used)
              /\ Wrap(start + Dist(start, tmp)) = tmp
          BY <1>0, Levels, DistWrap DEF StoreByte, HasRoom, TypeOK
        <4>2. used <= level + 1
          BY <1>2, <1>3
        <4>3. used \in Slots
          BY <1>3, Sizes DEF Slots
        <4> QED
          BY <1>1, <1>3, <1>5, <4>1, <4>2, <4>3, DistBetween
      <3>2. used' + Dist(end, tmp) = level'
        BY <1>1, <1>3, <2>1, <3>1
      <3>3. ASSUME NEW d \in used' .. level' - 1
            PROVE  LET b == CellAt(d)'
                   IN  b.c = hcmd' /\ b.k = d - used' /\ b.n = acc' /\ (b.k = 0 => b.v = b.c)
        <4>1. d \in used .. level
          BY <1>1, <1>3, <2>1
        <4> QED
          BY <1>4, <1>6, <2>1, <4>1
      <3>4. need_rd' = Remaining'
        BY <1>3, <1>4, <2>1 DEF Remaining
      <3> QED
        BY <1>4, <1>5, <2>1, <3>2, <3>3, <3>4 DEF PendingInv, Stored
    <2>3. WholeCommands'
      BY <1>0, <1>3, <1>7, <2>1, WholePrefix DEF WholeCommands
    <2>4. NumberInv'
      BY <1>0, <1>3, <1>4, <1>7, <2>1 DEF NumberInv
    <2> QED
      BY <2>2, <2>3, <2>4 DEF Framing
  <1> QED
    BY <1>8, <1>9

\* A byte that is skipped, or spilled with the ring full, keeps the framing.
LEMMA SkipFraming ==
  ASSUME TypeOK, Framing, NEW v \in Byte, HostByte(v),
         GivenUp,
         need_skip' = IF need_skip # 0 THEN need_skip - 1 ELSE calc_need_rd(v) - 1,
         UNCHANGED <<buffer, start, end, end_buf, need_rd, acc, taken>>
  PROVE  Framing' /\ GivenUp'
  <1>1. /\ level = used /\ hpos \in Nat /\ need_skip \in Nat
        /\ need_skip = IF hpos = 0 THEN 0 ELSE calc_need_rd(hcmd) - hpos
        /\ hpos < calc_need_rd(hcmd)
    BY DEF GivenUp, Remaining, TypeOK
  <1>2. /\ hcmd' = Owner(v)
        /\ hpos' = IF hpos + 1 = calc_need_rd(Owner(v)) THEN 0 ELSE hpos + 1
    BY DEF HostByte
  <1>3. /\ calc_need_rd(Owner(v)) \in Nat \ {0}
        /\ hpos = 0 => Owner(v) = v
        /\ hpos # 0 => Owner(v) = hcmd
    BY Sizes DEF Owner
  <1>4. need_skip' = IF hpos' = 0 THEN 0 ELSE calc_need_rd(hcmd') - hpos'
    BY <1>1, <1>2, <1>3
  <1>5. used' = used /\ level' = level /\ Dist(end, end_buf)' = Dist(end, end_buf)
    BY DEF used, level, Dist
  <1>6. PendingInv' /\ GivenUp'
    BY <1>1, <1>4, <1>5 DEF Framing, PendingInv, GivenUp, Remaining
  <1>7. WholeCommands' /\ NumberInv'
    BY <1>5 DEF Framing, WholeCommands, WholeAt, NumberInv, CellAt
  <1> QED
    BY <1>6, <1>7 DEF Framing

\* A full ring in the middle of a command: what is skipped is the rest of it.
LEMMA OverflowFraming ==
  ASSUME TypeOK, Framing, Overflow, ~lost'
  PROVE  Framing' /\ GivenUp'
  <1>1. need_rd = Remaining /\ end_buf' = end /\ need_skip' = need_rd
        /\ UNCHANGED <<buffer, start, end, need_rd, hcmd, hpos, acc, taken>>
    BY DEF Overflow, HasRoom, hostVars
  <1>2. used' = used /\ level' = used
    BY <1>1 DEF used, level
  <1>3. Dist(end', end_buf') = 0 /\ used \in Nat
    BY <1>1, Levels, Sizes DEF Framing, TypeOK, Dist, Slots
  <1>4. PendingInv' /\ GivenUp'
    BY <1>1, <1>2, <1>3 DEF PendingInv, GivenUp, Remaining
  <1>5. WholeCommands' /\ NumberInv'
    BY <1>1, <1>2 DEF Framing, WholeCommands, WholeAt, NumberInv, CellAt
  <1> QED
    BY <1>4, <1>5 DEF Framing

\* An interrupt leaves the command the main loop works on where it is.
LEMMA MainFrame ==
  ASSUME MainInv, UNCHANGED <<pc, command, cmd_data, taken>>,
         used # 0 => /\ used' # 0
                     /\ CellAt(0)' = CellAt(0)
  PROVE  MainInv'
  BY DEF MainInv, TakePcs

LEMMA InterruptFramed ==
  ASSUME TypeOK, FramedInv, Interrupt
  PROVE  FramedInv'
  <1> SUFFICES ASSUME ~lost' PROVE Framing' /\ IsrInv' /\ MainInv'
    BY DEF FramedInv, Framing
  <1>0. ~lost
    BY DEF Interrupt, Receive, SkipByte, StoreByte, HasRoom, SpillByte,
           SpillCount, Overflow, ReturnFromInterrupt, ghost
  <1>1. Framing /\ IsrInv /\ MainInv /\ PendingInv /\ need_rd \in Nat
    BY <1>0 DEF FramedInv, Framing, TypeOK
  <1>2. ASSUME UNCHANGED <<buffer, start, end>>
        PROVE  used' = used /\ CellAt(0)' = CellAt(0)
    BY <1>2 DEF used, CellAt
  <1>3. ASSUME NEW len \in 0 .. MaxPacket, Receive(len)
        PROVE  Framing' /\ IsrInv' /\ MainInv'
    <2>1. Framing'
      BY <1>1, <1>3, FramingFrame DEF Receive, ring, hostVars, ghost
    <2>2. MainInv'
      BY <1>1, <1>2, <1>3, MainFrame DEF Receive, ring, mainVars, ghost
    <2> QED
      BY <1>3, <2>1, <2>2 DEF Receive, IsrInv, ring
  <1>4. ASSUME NEW v \in Byte, SkipByte(v)
        PROVE  Framing' /\ IsrInv' /\ MainInv'
    <2>1. GivenUp
      BY <1>1, <1>4 DEF SkipByte, PendingInv, Stored
    <2>2. Framing'
      BY <1>1, <1>4, <2>1, SkipFraming DEF SkipByte, ghost
    <2>3. MainInv'
      BY <1>1, <1>2, <1>4, MainFrame DEF SkipByte, mainVars, ghost
    <2> QED
      BY <1>1, <1>4, <2>2, <2>3 DEF SkipByte, IsrInv
  <1>5. ASSUME NEW v \in Byte, SpillByte(v)
        PROVE  Framing' /\ IsrInv' /\ MainInv'
    <2>1. GivenUp
      BY <1>1, <1>5 DEF SpillByte, SpillCount, IsrInv
    <2>2. Framing' /\ GivenUp'
      BY <1>1, <1>5, <2>1, SkipFraming DEF SpillByte, SpillCount, ghost
    <2>3. MainInv'
      BY <1>1, <1>2, <1>5, MainFrame DEF SpillByte, SpillCount, mainVars, ghost
    <2> QED
      BY <1>1, <1>5, <2>2, <2>3 DEF SpillByte, SpillCount, IsrInv
  <1>6. ASSUME NEW v \in Byte, StoreByte(v)
        PROVE  Framing' /\ IsrInv' /\ MainInv'
    <2>1. Framing'
      BY <1>1, <1>6, StoreFraming
    <2>2. IsrInv'
      BY <1>6 DEF StoreByte, HasRoom, IsrInv
    <2>3. used # 0 => used' # 0 /\ CellAt(0)' = CellAt(0)
      <3>1. level' = level + 1 /\ level + 1 \in Slots
            /\ \A d \in 0 .. level :
                 CellAt(d)' = IF d = level
                              THEN [v |-> v, c |-> Owner(v), k |-> hpos, n |-> acc]
                              ELSE CellAt(d)
        BY <1>1, <1>6, StoreCells
      <3>2. used \in Nat /\ level \in Nat /\ used <= level
        BY <1>1, Levels, Sizes DEF Slots
      <3>3. end' = end \/ end' = tmp
        BY <1>6 DEF StoreByte, HasRoom
      <3>4. used' = used \/ used' = level + 1
        <4>1. start' = start /\ tmp # start /\ isr = "fill"
          BY <1>6 DEF StoreByte, HasRoom
        <4>2. Dist(start, tmp) = level + 1
          BY <1>1, <4>1, Room
        <4> QED
          BY <3>3, <4>1, <4>2 DEF used
      <3>5. used # 0 => CellAt(0)' = CellAt(0)
        BY <3>1, <3>2
      <3> QED
        BY <3>2, <3>4, <3>5
    <2>4. MainInv'
      BY <1>1, <1>6, <2>3, MainFrame DEF StoreByte, HasRoom, mainVars
    <2> QED
      BY <2>1, <2>2, <2>4
  <1>7. ASSUME Overflow
        PROVE  Framing' /\ IsrInv' /\ MainInv'
    <2>1. Framing' /\ GivenUp'
      BY <1>1, <1>7, OverflowFraming
    <2>2. MainInv'
      BY <1>1, <1>2, <1>7, MainFrame DEF Overflow, HasRoom, mainVars
    <2> QED
      BY <1>7, <2>1, <2>2 DEF Overflow, HasRoom, IsrInv
  <1>8. ASSUME ReturnFromInterrupt
        PROVE  Framing' /\ IsrInv' /\ MainInv'
    <2>1. Framing'
      BY <1>1, <1>8, FramingFrame DEF ReturnFromInterrupt, ring, hostVars, ghost
    <2>2. MainInv'
      BY <1>1, <1>2, <1>8, MainFrame
         DEF ReturnFromInterrupt, ring, mainVars, ghost
    <2> QED
      BY <1>8, <2>1, <2>2 DEF ReturnFromInterrupt, IsrInv
  <1> QED
    BY <1>3, <1>4, <1>5, <1>6, <1>7, <1>8 DEF Interrupt

(***************************************************************************)
(* The framing invariant: the main loop.                                   *)
(***************************************************************************)

\* The command due is the accepted command number taken, from its first byte.
LEMMA HeadCommand ==
  ASSUME TypeOK, Framing, used # 0
  PROVE  /\ used \in Nat /\ used < N
         /\ CellAt(0) = buffer[start] /\ CellAt(0).k = 0
         /\ CellAt(0).v = CellAt(0).c /\ CellAt(0).n = taken
         /\ calc_need_rd(CellAt(0).c) <= used
         /\ \A e \in 0 .. calc_need_rd(CellAt(0).c) - 1 :
              CellAt(e).c = CellAt(0).c /\ CellAt(e).n = taken /\ CellAt(e).k = e
  <1>1. used \in Nat /\ used < N
    BY Levels, Sizes DEF Framing, Slots
  <1>2. Wrap(start + 0) = start
    BY Sizes DEF TypeOK, Slots, Wrap
  <1>3. CellAt(0) = buffer[start]
    BY <1>2 DEF CellAt
  <1>4. CellAt(0).k \in Nat /\ calc_need_rd(CellAt(0).c) \in Nat
    BY <1>1, CellType, Sizes DEF Cell
  <1>5. 0 \in 0 .. used - 1 /\ CellAt(0).n = taken
    BY <1>1 DEF Framing, NumberInv
  <1>6. WholeAt(0)
    BY <1>5 DEF Framing, WholeCommands
  <1>7. CellAt(0).k = 0
    BY <1>4, <1>6 DEF WholeAt
  <1> QED
    BY <1>1, <1>3, <1>4, <1>5, <1>6, <1>7 DEF WholeAt

\* Taking the command due leaves the following ones as they are.
LEMMA AdvanceFraming ==
  ASSUME TypeOK, Framing, MainInv, Advance, ~lost
  PROVE  Framing'
  <1> DEFINE need == calc_need_rd(command)
  <1>0. PendingInv /\ WholeCommands /\ NumberInv
    BY DEF Framing
  <1>1. used # 0 /\ command = CellAt(0).c
    BY DEF Advance, TakenBytes, MainInv, TakePcs
  <1>2. /\ used \in Nat /\ used < N /\ level \in Nat /\ level < N /\ used <= level
        /\ need \in Nat \ {0} /\ need <= used /\ acc \in Nat /\ taken \in Nat
        /\ hpos \in Nat
    BY <1>0, <1>1, HeadCommand, Levels, Sizes, SMTT(60) DEF Slots, TypeOK
  <1>3. /\ start' = Wrap(start + need) /\ taken' = taken + 1
        /\ UNCHANGED <<buffer, end, end_buf, need_skip, need_rd, hcmd, hpos, acc>>
    BY DEF Advance, TakenBytes, hostVars
  <1>4. used' = used - need /\ level' = level - need
    <2>1. start \in Slots /\ need \in Slots /\ used \in Slots /\ level \in Slots
      BY <1>2, Sizes DEF TypeOK, Slots
    <2>2. end = Wrap(start + used) /\ end_buf = Wrap(start + level)
      BY <1>0, Levels
    <2> QED
      BY <1>2, <1>3, <2>1, <2>2, DistBetween DEF used, level
  <1>5. ASSUME NEW d \in 0 .. level' - 1, NEW f, f = d + need
        PROVE  CellAt(d)' = CellAt(f) /\ f \in 0 .. level - 1
    <2>0. need + d < N /\ need \in Nat /\ d \in Nat
      BY <1>2, <1>4, Sizes
    <2>1. Wrap(Wrap(start + need) + d) = Wrap(start + (need + d))
      BY <2>0, WrapWrap DEF TypeOK
    <2>2. CellAt(d)' = buffer[Wrap(start' + d)]
      BY <1>3 DEF CellAt
    <2>3. CellAt(f) = buffer[Wrap(start + f)] /\ f = need + d
      BY <1>2, <1>5 DEF CellAt
    <2> QED
      BY <1>2, <1>3, <1>4, <1>5, <2>1, <2>2, <2>3
  <1>6. PendingInv'
    <2>1. used' + Dist(end', end_buf') = level'
      <3>1. Dist(end, end_buf) \in Slots
        BY DistWrap DEF TypeOK
      <3> QED
        BY <1>0, <1>2, <1>3, <1>4, <3>1, Sizes DEF PendingInv, Slots
    <2>2. ASSUME Stored, NEW d \in used' .. level' - 1
          PROVE  LET b == CellAt(d)'
                 IN  /\ b.c = hcmd' /\ b.k = d - used' /\ b.n = acc'
                     /\ b.k = 0 => b.v = b.c
      <3>1. d \in 0 .. level' - 1 /\ d + need \in used .. level - 1
        BY <1>2, <1>4
      <3>2. CellAt(d)' = CellAt(d + need)
        BY <1>5, <3>1
      <3>3. (d + need) - used = d - used'
        BY <1>2, <1>4
      <3> QED
        <4>1. hcmd' = hcmd /\ acc' = acc
          BY <1>3
        <4>2. \A f \in used .. level - 1 :
                LET b == CellAt(f)
                IN  /\ b.c = hcmd /\ b.k = f - used /\ b.n = acc
                    /\ b.k = 0 => b.v = b.c
          BY <2>2 DEF Stored
        <4> QED
          <5> DEFINE f == d + need
          <5>1. f \in used .. level - 1
            BY <3>1
          <5>2. CellAt(d)' = CellAt(f)
            BY <3>2
          <5>3. f - used = d - used'
            BY <3>3
          <5> HIDE DEF f
          <5> QED
            BY <4>1, <4>2, <5>1, <5>2, <5>3
    <2>3. Remaining' = Remaining
      BY <1>3 DEF Remaining
    <2>4. Stored => Stored'
      BY <1>2, <1>3, <1>4, <2>2, <2>3 DEF Stored
    <2>5. GivenUp => GivenUp'
      BY <1>3, <1>4, <2>3 DEF GivenUp
    <2> QED
      BY <1>0, <2>1, <2>4, <2>5 DEF PendingInv
  \* A command after the first does not begin within the first.
  <1>7. ASSUME NEW f \in need .. used - 1
        PROVE  /\ WholeAt(f) /\ f \in 0 .. used - 1 /\ f - CellAt(f).k >= need
               /\ CellAt(f).k \in Nat /\ CellAt(f).n \in Nat
               /\ calc_need_rd(CellAt(f).c) \in Nat \ {0}
    <2>1. f \in 0 .. used - 1
      BY <1>2
    <2>2. WholeAt(f)
      BY <1>0, <2>1 DEF WholeCommands
    <2>3. CellAt(f) \in Cell
      <3>1. f \in Nat /\ f < N
        BY <1>2, Sizes
      <3> QED
        BY <3>1, CellType
    <2>4. /\ CellAt(f).k \in Nat /\ CellAt(f).n \in Nat
          /\ calc_need_rd(CellAt(f).c) \in Nat \ {0}
      BY <2>3, Sizes DEF Cell
    <2> DEFINE h == f - CellAt(f).k
    <2>5. h \in 0 .. f /\ CellAt(h).k = 0 /\ CellAt(h).c = CellAt(f).c
          /\ f < h + calc_need_rd(CellAt(f).c)
      BY <2>1, <2>2, <2>4 DEF WholeAt
    <2>6. h >= need
      <3> SUFFICES ASSUME h < need PROVE FALSE
        BY <1>2, <2>5
      <3> HIDE DEF h
      <3>1. h \in 0 .. need - 1
        BY <1>2, <2>5
      <3>2. CellAt(h).k = h /\ CellAt(h).c = command
        BY <1>1, <3>1, HeadCommand
      <3> QED
        BY <1>2, <2>5, <3>2
    <2> QED
      BY <2>1, <2>2, <2>4, <2>6
  <1>8. WholeCommands'
    <2> SUFFICES ASSUME NEW d \in 0 .. used' - 1
                 PROVE  WholeAt(d)'
      BY DEF WholeCommands
    <2> DEFINE f == d + need
    <2>1. f \in need .. used - 1 /\ d \in 0 .. level' - 1
      BY <1>2, <1>4
    <2>2. CellAt(d)' = CellAt(f)
      BY <1>5, <2>1
    <2>3. /\ WholeAt(f) /\ f - CellAt(f).k >= need /\ CellAt(f).k \in Nat
          /\ calc_need_rd(CellAt(f).c) \in Nat \ {0}
      BY <1>7, <2>1
    <2> DEFINE last == d - CellAt(f).k + calc_need_rd(CellAt(f).c) - 1
    <2>4. CellAt(f).k <= d /\ d <= last /\ last < used'
      BY <1>2, <1>4, <2>3 DEF WholeAt
    <2>5. ASSUME NEW e \in d - CellAt(f).k .. last
          PROVE  /\ CellAt(e)'.c = CellAt(f).c /\ CellAt(e)'.n = CellAt(f).n
                 /\ CellAt(e)'.k = e - (d - CellAt(f).k)
      <3>1. e \in 0 .. level' - 1
        BY <1>2, <1>4, <2>3, <2>4
      <3>2. CellAt(e)' = CellAt(e + need)
        BY <1>5, <3>1
      <3>3. e + need \in f - CellAt(f).k .. f - CellAt(f).k + calc_need_rd(CellAt(f).c) - 1
        BY <1>2, <2>3
      <3>4. /\ CellAt(e + need).c = CellAt(f).c /\ CellAt(e + need).n = CellAt(f).n
            /\ CellAt(e + need).k = (e + need) - (f - CellAt(f).k)
        BY <2>3, <3>3 DEF WholeAt
      <3> QED
        BY <1>2, <2>3, <3>2, <3>4
    <2>6. CellAt(f).k = 0 => CellAt(f).v = CellAt(f).c
      BY <2>3 DEF WholeAt
    <2> QED
      BY <2>2, <2>4, <2>5, <2>6 DEF WholeAt
  <1>9. NumberInv'
    <2>1. CellAt(0).k = 0 /\ CellAt(0).n = taken /\ calc_need_rd(CellAt(0).c) = need
      BY <1>1, HeadCommand
    <2>2. taken + 1 = IF need = used THEN acc ELSE CellAt(need).n
      <3>1. 0 \in 0 .. used - 1 /\ need \in 1 .. used
        BY <1>2
      <3>2. need = 0 - CellAt(0).k + calc_need_rd(CellAt(0).c)
        BY <1>2, <2>1
      <3> HIDE DEF need
      <3> QED
        BY <1>0, <2>1, <3>1, <3>2 DEF NumberInv
    <2>3. ASSUME need # used
          PROVE  CellAt(0)' = CellAt(need) /\ CellAt(need).n < acc
      <3>1. 0 \in 0 .. level' - 1 /\ need = 0 + need /\ need \in 0 .. used - 1
        BY <1>2, <1>4, <2>3
      <3> HIDE DEF need
      <3> QED
        BY <1>0, <1>5, <3>1 DEF NumberInv
    <2>4. ASSUME NEW d \in 0 .. used' - 1
          PROVE  CellAt(d)'.n < acc'
      <3>1. d \in 0 .. level' - 1 /\ d + need \in 0 .. used - 1
        BY <1>2, <1>4
      <3> QED
        BY <1>0, <1>3, <1>5, <3>1 DEF NumberInv
    <2>5. ASSUME NEW d \in 0 .. used' - 1, NEW e \in 1 .. used',
                 e = d - CellAt(d)'.k + calc_need_rd(CellAt(d)'.c)
          PROVE  CellAt(d)'.n + 1 = IF e = used' THEN acc' ELSE CellAt(e)'.n
      <3> DEFINE f == d + need
                 g == e + need
      <3>1. f \in need .. used - 1 /\ f \in 0 .. used - 1 /\ g \in 1 .. used
            /\ d \in 0 .. level' - 1
        BY <1>2, <1>4
      <3>2. CellAt(d)' = CellAt(f)
        BY <1>5, <3>1
      <3>3. g = f - CellAt(f).k + calc_need_rd(CellAt(f).c)
        BY <1>2, <1>7, <2>5, <3>1, <3>2
      <3>4. CellAt(f).n + 1 = IF g = used THEN acc ELSE CellAt(g).n
        <4> HIDE DEF f, g
        <4> QED
          BY <1>0, <3>1, <3>3 DEF NumberInv
      <3>5. CASE e = used'
        BY <1>2, <1>3, <1>4, <3>2, <3>4, <3>5
      <3>6. CASE e # used'
        <4>1. e \in 0 .. level' - 1 /\ g # used
          BY <1>2, <1>4, <3>6
        <4>2. CellAt(e)' = CellAt(g)
          BY <1>5, <4>1
        <4> QED
          BY <3>2, <3>4, <3>6, <4>1, <4>2
      <3> QED
        BY <3>5, <3>6
    <2>6. taken' <= acc' /\ (used' = 0 <=> taken' = acc')
      <3>1. CASE need = used
        BY <1>2, <1>3, <1>4, <2>2, <3>1
      <3>2. CASE need # used
        BY <1>2, <1>3, <1>4, <2>2, <2>3, <3>2
      <3> QED
        BY <3>1, <3>2
    <2>7. used' # 0 => CellAt(0)'.n = taken'
      BY <1>2, <1>3, <1>4, <2>2, <2>3
    <2> QED
      BY <2>4, <2>5, <2>6, <2>7 DEF NumberInv
  <1> QED
    BY <1>6, <1>8, <1>9 DEF Framing

LEMMA MainFramed ==
  ASSUME TypeOK, FramedInv, ClearInv, Main
  PROVE  FramedInv'
  <1> SUFFICES ASSUME ~lost' PROVE Framing' /\ IsrInv' /\ MainInv'
    BY DEF FramedInv, Framing
  <1> USE DEF TakePcs
  <1>1. CASE ClearTest
    <2>1. /\ start = 0 /\ end = 0 /\ end_buf = 0 /\ need_skip = 0 /\ need_rd = 0
          /\ hpos = 0 /\ acc' = 0 /\ taken' = 0 /\ isr = "none" /\ pc' = "main"
          /\ UNCHANGED <<ring, isr, hcmd, hpos>>
      <3>1. pc = "clear_test" /\ lost
        BY <1>1 DEF ClearTest, ClearAgain, ClearInv, ClearPcs
      <3>2. ~has_interrupted
        BY <1>1, <3>1 DEF ClearTest, ClearAgain, ghost
      <3> QED
        BY <1>1, <3>1, <3>2
           DEF ClearTest, ClearAgain, ClearInv, ClearPcs, isrVars, hostVars
    <2>2. used' = 0 /\ level' = 0 /\ Dist(end', end_buf') = 0
      BY <2>1 DEF used, level, Dist, ring
    <2>3. PendingInv'
      BY <2>1, <2>2 DEF PendingInv, GivenUp, Remaining, ring
    <2>4. WholeCommands' /\ NumberInv'
      BY <2>1, <2>2 DEF WholeCommands, NumberInv
    <2> QED
      BY <2>1, <2>3, <2>4 DEF Framing, IsrInv, MainInv
  <1>2. CASE ~ClearTest
    <2>1. ~lost
      BY <1>2 DEF Main, CallUsbProcess, Test, Fetch, AfterRepeat, CopyByte,
                  ArgumentSlot, Execute, Advance, TakenBytes, ClearBegin,
                  ClearStore, ghost
    <2>2. Framing /\ IsrInv /\ MainInv
      BY <2>1 DEF FramedInv, Framing
    <2>3. pc \notin ClearPcs
      BY <2>1 DEF ClearInv
    <2>4. ASSUME UNCHANGED <<ring, isrVars, hostVars, acc, taken>>
          PROVE  Framing' /\ IsrInv' /\ used' = used /\ CellAt(0)' = CellAt(0)
      BY <2>2, <2>4, FramingFrame
         DEF IsrInv, GivenUp, Remaining, used, level, CellAt, ring, isrVars, hostVars
    <2>5. CASE CallUsbProcess
      BY <2>4, <2>5 DEF CallUsbProcess, MainInv, ghost
    <2>6. CASE Test
      <3>1. start # end => used # 0
        BY Sizes DEF used, Dist, TypeOK, Slots
      <3> QED
        BY <2>4, <2>6, <3>1 DEF Test, MainInv, ghost
    <2>7. CASE Fetch
      <3>1. used # 0
        BY <2>2, <2>7 DEF Fetch, AfterRepeat, MainInv
      <3>2. command' = CellAt(0).c /\ cmd_data' = <<>> /\ pc' \in TakePcs
        BY <2>2, <2>7, <3>1, HeadCommand DEF Fetch, AfterRepeat
      <3> QED
        BY <2>4, <2>7, <3>1, <3>2 DEF Fetch, AfterRepeat, MainInv, ghost
    <2>8. CASE CopyByte
      <3>1. used # 0 /\ command = CellAt(0).c
        BY <2>2, <2>8 DEF CopyByte, ArgumentSlot, MainInv
      <3> DEFINE m == Len(cmd_data) + 1
      <3>2. /\ m \in 1 .. calc_need_rd(command) - 1 /\ Len(cmd_data) \in Nat
            /\ calc_need_rd(command) \in Nat
        BY <2>8, Sizes DEF CopyByte, ArgumentSlot, TypeOK
      <3>3. /\ CellAt(m).c = command /\ CellAt(m).k = m /\ CellAt(m).n = taken
        <4> HIDE DEF m
        <4>1. m \in 0 .. calc_need_rd(CellAt(0).c) - 1
          BY <3>1, <3>2
        <4> QED
          BY <2>2, <3>1, <4>1, HeadCommand
      <3>4. cmd_data' = Append(cmd_data, CellAt(m))
        <4>1. start + Len(cmd_data) + 1 = start + m
          BY <3>2, Sizes DEF TypeOK, Slots
        <4> QED
          BY <2>8, <4>1 DEF CopyByte, ArgumentSlot, CellAt
      <3>5. ASSUME NEW i \in 1 .. Len(cmd_data')
            PROVE  /\ cmd_data'[i].c = command /\ cmd_data'[i].k = i
                   /\ cmd_data'[i].n = taken
        <4> HIDE DEF m
        <4>1. cmd_data \in Seq(Cell) /\ Len(cmd_data') = Len(cmd_data) + 1
          BY <3>4 DEF TypeOK
        <4>2. CASE i \in 1 .. Len(cmd_data)
          BY <2>2, <2>8, <3>4, <4>1, <4>2 DEF MainInv, CopyByte, ArgumentSlot
        <4>3. CASE i = m
          BY <3>3, <3>4, <4>1, <4>3 DEF m
        <4> QED
          BY <3>2, <4>1, <4>2, <4>3 DEF m
      <3>6. UNCHANGED <<command, taken>> /\ pc' = "copy"
        BY <2>8 DEF CopyByte, ArgumentSlot, ghost
      <3>7. Framing' /\ IsrInv' /\ used' = used /\ CellAt(0)' = CellAt(0)
        BY <2>4, <2>8 DEF CopyByte, ArgumentSlot, ghost
      <3> QED
        BY <3>1, <3>5, <3>6, <3>7 DEF MainInv
    <2>9. CASE Execute
      <3>1. Framing' /\ IsrInv' /\ used' = used /\ CellAt(0)' = CellAt(0)
        BY <2>4, <2>9 DEF Execute, ghost
      <3>2. /\ UNCHANGED <<command, cmd_data, taken>>
            /\ pc \in {"copy", "do"} /\ pc' \in {"do", "advance"}
        BY <2>9 DEF Execute, mainVars, ghost
      <3> QED
        BY <2>2, <3>1, <3>2 DEF MainInv
    <2>10. CASE Advance
      <3>1. Framing'
        BY <2>1, <2>2, <2>10, AdvanceFraming
      <3> QED
        BY <2>10, <3>1 DEF Advance, TakenBytes, IsrInv, MainInv, isrVars
    <2>11. ~ClearBegin /\ ~ClearStore
      BY <2>3 DEF ClearBegin, ClearStore, ClearStep, ClearPcs
    <2> QED
      BY <1>2, <2>5, <2>6, <2>7, <2>8, <2>9, <2>10, <2>11 DEF Main
  <1> QED
    BY <1>1, <1>2

\* clear() keeps zero what it has zeroed, or repeats.
LEMMA ClearKept ==
  ASSUME TypeOK, ClearInv, Next
  PROVE  ClearInv'
  <1>1. CASE Interrupt
    <2>1. has_interrupted' /\ UNCHANGED pc /\ (lost => lost')
      BY <1>1 DEF Interrupt, Receive, SkipByte, StoreByte, HasRoom, SpillByte,
                  SpillCount, Overflow, ReturnFromInterrupt, ghost, ClearInv
    <2> QED
      BY <2>1 DEF ClearInv
  <1>2. CASE CallUsbProcess \/ Test \/ Fetch \/ CopyByte \/ Execute \/ Advance
    <2>1. pc' \notin ClearPcs /\ isr' = "none"
      BY <1>2 DEF CallUsbProcess, Test, Fetch, AfterRepeat, CopyByte,
                  ArgumentSlot, Execute, Advance, TakenBytes, isrVars,
                  ClearPcs
    <2> QED
      BY <2>1 DEF ClearInv, ClearPcs
  <1>3. CASE ClearBegin
    BY <1>3 DEF ClearBegin, ClearInv, ClearPcs, isrVars
  <1>4. CASE ClearStore
    BY <1>4 DEF ClearStore, ClearStep, ClearInv, ClearPcs, isrVars, ring, ghost
  <1>5. CASE ClearTest
    BY <1>5 DEF ClearTest, ClearAgain, ClearInv, ClearPcs, isrVars, ring, ghost
  <1> QED
    BY <1>1, <1>2, <1>3, <1>4, <1>5 DEF Next, Main

LEMMA InitFramed == Init => FramedInv /\ ClearInv
  <1> SUFFICES ASSUME Init PROVE FramedInv /\ ClearInv
    OBVIOUS
  <1>1. used = 0 /\ level = 0 /\ Dist(end, end_buf) = 0
    BY DEF Init, used, level, Dist
  <1>2. PendingInv /\ WholeCommands /\ NumberInv
    BY <1>1 DEF Init, PendingInv, GivenUp, Remaining, WholeCommands, NumberInv
  <1> QED
    BY <1>2 DEF Init, FramedInv, IsrInv, MainInv, ClearInv, TakePcs, ClearPcs

THEOREM Inductive == Spec => []IInv
  <1>1. Init => IInv
    BY InitType, InitFramed DEF IInv
  <1>2. IInv /\ [Next]_vars => IInv'
    <2> SUFFICES ASSUME IInv, [Next]_vars PROVE IInv'
      OBVIOUS
    <2>1. CASE Next
      BY <2>1, InterruptType, MainType, InterruptFramed, MainFramed, ClearKept
         DEF IInv, Next
    <2>2. CASE UNCHANGED vars
      <3>1. TypeOK'
        BY <2>2 DEF IInv, vars, ring, isrVars, mainVars, hostVars, ghost, TypeOK
      <3>2. ClearInv'
        BY <2>2 DEF IInv, vars, ring, isrVars, ghost, ClearInv
      <3>3. FramedInv'
        BY <2>2 DEF IInv, vars, ring, isrVars, mainVars, hostVars, ghost, FramedInv,
                    PendingInv, Stored, GivenUp, Remaining, WholeCommands, WholeAt,
                    NumberInv, IsrInv,
                    MainInv, used, level, CellAt
      <3> QED
        BY <3>1, <3>2, <3>3 DEF IInv
    <2> QED
      BY <2>1, <2>2
  <1> QED
    BY <1>1, <1>2, PTL DEF Spec

\* As long as framing is not lost, the ring holds whole commands.
THEOREM AlwaysFramed == Spec => []Framed
  <1>1. IInv => Framed
    BY DEF IInv, FramedInv, Framed
  <1> QED
    BY <1>1, Inductive, PTL

\* Every accepted command is taken once and in order.
THEOREM AlwaysInOrder == Spec => []TakesInOrder
  <1>1. IInv => TakesInOrder
    <2> SUFFICES ASSUME IInv, ~lost PROVE TakesInOrder
      BY DEF TakesInOrder
    <2>1. TypeOK /\ Framing /\ MainInv /\ NumberInv
      BY DEF IInv, FramedInv, Framing
    <2>2. start = end <=> used = 0
      BY <2>1, Sizes DEF used, Dist, TypeOK, Slots
    <2>3. pc = "fetch" => used # 0
      BY <2>1 DEF MainInv
    <2> QED
      BY <2>1, <2>2, <2>3, HeadCommand DEF TakesInOrder, NumberInv
  <1> QED
    BY <1>1, Inductive, PTL

\* The view gets a command with the argument the host sent with it.
THEOREM AlwaysIntact == Spec => []ArgumentsIntact
  <1>1. IInv => ArgumentsIntact
    BY DEF IInv, FramedInv, MainInv, ArgumentsIntact
  <1> QED
    BY <1>1, Inductive, PTL

\* Nothing lies between end and end_buf of a command that is given up.
LEMMA NothingPending ==
  ASSUME TypeOK, PendingInv, GivenUp
  PROVE  end_buf = end
  <1>1. Wrap(start + used) = end /\ Wrap(start + level) = end_buf
    BY Levels
  <1> QED
    BY <1>1 DEF GivenUp

\* The interrupt stores the host's command to its end or skips it to its end, also
\* when the ring has overflowed in the middle of it.
THEOREM AlwaysResyncs == Spec => []ResyncsAtBoundary
  <1>1. IInv => ResyncsAtBoundary
    BY NothingPending DEF IInv, FramedInv, PendingInv, Stored, GivenUp, ResyncsAtBoundary
  <1> QED
    BY <1>1, Inductive, PTL

\* An overflow in the middle of a command loses no other command: framing is lost
\* only by the count it leaves in need_rd.
THEOREM LosesByStaleCount == Spec => LostByStaleCount
  <1>1. IInv /\ [Next]_vars =>
          [~lost /\ lost' /\ isr # "none" =>
             need_rd # Remaining /\ need_skip = Remaining /\ end_buf = end]_vars
    <2> SUFFICES ASSUME IInv, Next, ~lost, lost', isr # "none"
                 PROVE  need_rd # Remaining /\ need_skip = Remaining /\ end_buf = end
      BY DEF vars
    <2>1. TypeOK /\ PendingInv
      BY DEF IInv, FramedInv
    <2>2. need_rd # Remaining
      <3>1. CASE \E v \in Byte : StoreByte(v)
        BY <2>1, <3>1 DEF StoreByte, HasRoom, ReadCount, Remaining, TypeOK
      <3>2. CASE ~ \E v \in Byte : StoreByte(v)
        BY <3>2 DEF Next, Interrupt, Receive, SkipByte, SpillByte, SpillCount, Overflow,
             ReturnFromInterrupt, Main, CallUsbProcess, Test, Fetch, CopyByte, Execute,
             Advance, ClearBegin, ClearStore, ClearStep, ClearTest, ghost
      <3> QED
        BY <3>1, <3>2
    <2>3. GivenUp
      BY <2>1, <2>2 DEF PendingInv, Stored
    <2> QED
      BY <2>1, <2>2, <2>3, NothingPending DEF GivenUp
  <1> QED
    BY <1>1, Inductive, PTL DEF Spec, LostByStaleCount

\* No interrupt changes a committed cell, not even by overflowing the ring.
THEOREM NeverOverwritten == Spec => CommittedUntouched
  <1>1. IInv /\ [Next]_vars =>
          [~lost /\ isr # "none" =>
             \A d \in 0 .. used - 1 : CellAt(d)' = CellAt(d)]_vars
    <2> SUFFICES ASSUME IInv, Next, ~lost, isr # "none", NEW d \in 0 .. used - 1
                 PROVE  CellAt(d)' = CellAt(d)
      BY DEF vars
    <2>1. TypeOK /\ PendingInv /\ IsrInv
      BY DEF IInv, FramedInv
    <2>2. used <= level /\ used \in Nat /\ level \in Nat
      BY <2>1, Levels, Sizes DEF Slots
    <2>3. Interrupt
      BY DEF Next, Main, CallUsbProcess, Test, Fetch, CopyByte, Execute, Advance,
             ClearBegin, ClearStore, ClearStep, ClearTest
    <2>4. CASE \E v \in Byte : StoreByte(v)
      BY <2>1, <2>2, <2>4, StoreCells
    <2>5. CASE ~ \E v \in Byte : StoreByte(v)
      <3>1. UNCHANGED <<buffer, start>>
        BY <2>3, <2>5 DEF Interrupt, Receive, SkipByte, SpillByte, Overflow,
                          ReturnFromInterrupt, ring
      <3> QED
        BY <3>1 DEF CellAt
    <2> QED
      BY <2>4, <2>5
  <1> QED
    BY <1>1, Inductive, PTL DEF Spec, CommittedUntouched

\* clear() returns with an empty ring, whatever arrived between its stores.
THEOREM ClearEmpties == Spec => ClearIsAtomic
  <1>1. IInv /\ [Next]_vars =>
          [pc = "clear_test" /\ pc' = "main" =>
             /\ start = end /\ end = end_buf
             /\ need_rd = 0 /\ need_skip = 0]_vars
    <2> SUFFICES ASSUME IInv, Next, pc = "clear_test", pc' = "main"
                 PROVE  start = end /\ end = end_buf /\ need_rd = 0 /\ need_skip = 0
      BY DEF vars
    <2>1. ~has_interrupted
      BY DEF Next, Interrupt, Main, Receive, SkipByte, StoreByte, SpillByte,
             Overflow, ReturnFromInterrupt, CallUsbProcess, Test, Fetch, CopyByte,
             Execute, Advance, ClearBegin, ClearStore, ClearStep, ClearTest,
             ClearAgain
    <2> QED
      BY <2>1 DEF IInv, ClearInv, ClearPcs
  <1> QED
    BY <1>1, Inductive, PTL DEF Spec, ClearIsAtomic

----------------------------------------------------------------------------
(***************************************************************************)
(* The other direction: the player's answers, whatever their sizes, the    *)
(* buffer's size and the timing of the USB interrupt.  The buffer keeps    *)
(* within its size, and the host gets whole answers in order, of which     *)
(* the newest is never given up.                                           *)
(***************************************************************************)
CONSTANTS AnswerSizes, buffer_size, EmptyAnswers, MaxAnswers

VARIABLES answers, pos, UserTxBuffer, todo, made, host

U == INSTANCE UsbSend WITH buffer <- answers, sent <- made, Sizes <- AnswerSizes

(***************************************************************************)
(* Two sequences, one behind the other.                                    *)
(***************************************************************************)

\* The first of two sequences is the beginning of both, the second the rest.
LEMMA TwoParts ==
  ASSUME NEW S, NEW s \in Seq(S), NEW t \in Seq(S)
  PROVE  /\ SubSeq(s \o t, 1, Len(s)) = s
         /\ SubSeq(s \o t, Len(s) + 1, Len(s \o t)) = t
  <1> DEFINE u == s \o t
             n == Len(s)
             a == SubSeq(u, 1, n)
             b == SubSeq(u, n + 1, Len(u))
  <1>1. /\ u \in Seq(S) /\ n \in Nat /\ Len(t) \in Nat /\ Len(u) = n + Len(t)
        /\ \A i \in 1 .. n : u[i] = s[i]
        /\ \A i \in 1 .. Len(t) : u[n + i] = t[i]
    BY ConcatProperties, LenProperties
  <1>2. /\ a \in Seq(S) /\ Len(a) = n /\ \A i \in 1 .. n : a[i] = u[i]
        /\ b \in Seq(S) /\ Len(b) = Len(t) /\ \A i \in 1 .. Len(t) : b[i] = u[n + i]
    <2> HIDE DEF u, n
    <2>1. u \in Seq(S) /\ n \in Nat /\ Len(t) \in Nat /\ Len(u) = n + Len(t)
      BY <1>1
    <2>2. \A i \in 1 .. Len(u) : u[i] \in S
      BY <2>1, ElementOfSeq
    <2>3. a \in Seq(S) /\ Len(a) = n /\ \A i \in 1 .. n : a[i] = u[i]
      BY <2>1, <2>2
    <2>4. b \in Seq(S) /\ Len(b) = Len(t)
      BY <2>1, <2>2
    <2>5. \A i \in 1 .. Len(t) : b[i] = u[((n + 1) + i) - 1]
      BY <2>1, <2>2
    <2>6. \A i \in 1 .. Len(t) : ((n + 1) + i) - 1 = n + i
      BY <2>1
    <2> QED
      BY <2>3, <2>4, <2>5, <2>6
  <1>3. a = s
    <2> HIDE DEF a
    <2> QED
      BY <1>1, <1>2, SeqEqual
  <1>4. b = t
    <2> HIDE DEF b
    <2> QED
      BY <1>1, <1>2, SeqEqual
  <1> QED
    BY <1>3, <1>4

\* The last of two sequences is that of the second, if there is any in it.
LEMMA LastOfTwo ==
  ASSUME NEW S, NEW s \in Seq(S), NEW t \in Seq(S)
  PROVE  /\ t # <<>> => (s \o t)[Len(s \o t)] = t[Len(t)]
         /\ t = <<>> => s \o t = s
  <1>1. ASSUME t # <<>>
        PROVE  (s \o t)[Len(s \o t)] = t[Len(t)]
    <2>1. Len(s) \in Nat /\ Len(t) \in Nat \ {0}
      BY <1>1, EmptySeq, LenProperties
    <2>2. Len(s \o t) = Len(s) + Len(t)
      BY ConcatProperties
    <2>3. (s \o t)[Len(s) + Len(t)] = t[(Len(s) + Len(t)) - Len(s)]
      BY <2>1, ConcatProperties
    <2> QED
      BY <2>1, <2>2, <2>3
  <1> QED
    BY <1>1, ConcatEmptySeq

(***************************************************************************)
(* The invariant: the answer that is last of all is the newest.            *)
(***************************************************************************)
underway == UserTxBuffer \o answers
all == host \o underway

NewestInv == IF all = <<>> THEN made = 0 ELSE all[Len(all)] = made

SendInv == U!TypeOK /\ NewestInv

\* The types of all but todo.
BufferOK ==
  /\ answers \in Seq(1 .. made) /\ UserTxBuffer \in Seq(1 .. made)
  /\ host \in Seq(1 .. made) /\ made \in 0 .. MaxAnswers
  /\ pos \in 0 .. buffer_size - 1
  /\ answers = <<>> <=> pos = 0

\* The newest answer is added, and the first n of those underway stay.
Adds(n) ==
  /\ n \in 0 .. Len(underway)
  /\ underway' = Append(SubSeq(underway, 1, n), made + 1)
  /\ host' = host /\ made' = made + 1 /\ made < MaxAnswers

\* A new answer goes behind the transfer when the buffer is given up, and behind
\* everything otherwise; the buffer does not overflow.
LEMMA AddsOne ==
  ASSUME U!UsbSendAssumption, U!TypeOK, NEW size \in AnswerSizes, U!add_to_buff(size)
  PROVE  (\E n : Adds(n)) /\ BufferOK'
  <1> DEFINE M == 1 .. made + 1
             one == <<made + 1>>
  <1>1. /\ made' = made + 1 /\ host' = host /\ made < MaxAnswers /\ made \in Nat
        /\ MaxAnswers \in Nat /\ size \in Nat \ {0} /\ size < buffer_size
        /\ buffer_size \in Nat \ {0} /\ pos \in 0 .. buffer_size - 1
        /\ answers = <<>> <=> pos = 0
    BY DEF U!add_to_buff, U!UsbSendAssumption, U!TypeOK
  <1>2. answers \in Seq(M) /\ UserTxBuffer \in Seq(M) /\ host \in Seq(M) /\ made + 1 \in M
    <2>1. 1 .. made \subseteq M /\ made + 1 \in M
      BY <1>1
    <2> QED
      BY <2>1, SeqMonotonic DEF U!TypeOK
  <1>3. ASSUME NEW s \in Seq(M)
        PROVE  /\ Append(s, made + 1) = s \o one
               /\ Append(s, made + 1) \in Seq(M) /\ Append(s, made + 1) # <<>>
    <2>1. made + 1 \in M
      BY <1>2
    <2> HIDE DEF M
    <2> QED
      BY <2>1, AppendIsConcat, AppendProperties
  <1>4. one \in Seq(M) /\ one # <<>> /\ <<>> \in Seq(M)
    <2> HIDE DEF M
    <2> QED
      BY <1>2
  <1>5. /\ underway \in Seq(M) /\ Len(underway) \in 0 .. Len(underway)
        /\ SubSeq(underway, 1, Len(underway)) = underway
    <2>1. underway \in Seq(M)
      BY <1>2, ConcatProperties DEF underway
    <2>2. Len(underway) \in Nat
      BY <2>1, LenProperties
    <2> HIDE DEF M
    <2> QED
      BY <2>1, <2>2, SubSeqFull
  <1>6. M = 1 .. made' /\ made' \in 0 .. MaxAnswers
    BY <1>1
  <1>7. ASSUME answers' \in Seq(M), UserTxBuffer' \in Seq(M),
               pos' \in 0 .. buffer_size - 1, answers' = <<>> <=> pos' = 0
        PROVE  BufferOK'
    BY <1>1, <1>2, <1>6, <1>7 DEF BufferOK
  <1>8. ASSUME underway' = underway \o one
        PROVE  Adds(Len(underway))
    BY <1>1, <1>3, <1>5, <1>8 DEF Adds
  <1> HIDE DEF M, one
  <1>9. CASE U!Replace(size)
    <2>1. answers' = one /\ pos' = size
      BY <1>9 DEF U!Replace, one
    <2>2. CASE U!Busy
      <3>1. UserTxBuffer' = UserTxBuffer
        BY <1>9, <2>2 DEF U!Replace
      <3>2. /\ SubSeq(underway, 1, Len(UserTxBuffer)) = UserTxBuffer
            /\ Len(UserTxBuffer) \in 0 .. Len(underway)
        <4>1. Len(underway) = Len(UserTxBuffer) + Len(answers)
              /\ Len(UserTxBuffer) \in Nat /\ Len(answers) \in Nat
          BY <1>2, ConcatProperties, LenProperties DEF underway
        <4>2. Len(UserTxBuffer) \in 0 .. Len(underway)
          BY <4>1
        <4> QED
          BY <1>2, <4>2, TwoParts DEF underway
      <3>3. underway' = Append(SubSeq(underway, 1, Len(UserTxBuffer)), made + 1)
        BY <1>2, <1>3, <2>1, <3>1, <3>2 DEF underway
      <3>4. Adds(Len(UserTxBuffer))
        BY <1>1, <3>2, <3>3 DEF Adds
      <3>5. BufferOK'
        BY <1>1, <1>2, <1>4, <1>7, <2>1, <3>1
      <3> QED
        BY <3>4, <3>5
    <2>3. CASE ~U!Busy
      <3>1. UserTxBuffer = <<>> /\ UserTxBuffer' = answers
        BY <1>9, <2>3 DEF U!Replace, U!Busy, U!Transmit
      <3>2. underway = answers
        BY <1>2, <3>1, ConcatEmptySeq DEF underway
      <3>3. underway' = underway \o one
        BY <2>1, <3>1, <3>2 DEF underway
      <3>4. BufferOK'
        BY <1>1, <1>2, <1>4, <1>7, <2>1, <3>1
      <3> QED
        BY <1>8, <3>3, <3>4
    <2> QED
      BY <2>2, <2>3
  <1>10. CASE U!Gather(size)
    <2> DEFINE b == Append(answers, made + 1)
    <2>1. b = answers \o one /\ b \in Seq(M) /\ b # <<>>
      BY <1>2, <1>3
    <2>2. underway \o one = UserTxBuffer \o b
      <3>1. (UserTxBuffer \o answers) \o one = UserTxBuffer \o (answers \o one)
      BY <1>2, <1>4, ConcatAssociative
    <3> QED
      BY <2>1, <3>1 DEF underway
    <2>3. CASE U!AppendHalf(size) /\ ~U!Busy
      <3>1. UserTxBuffer = <<>> /\ UserTxBuffer' = b /\ answers' = <<>> /\ pos' = 0
        BY <1>10, <2>3 DEF U!Gather, U!Busy, U!Transmit, U!AppendSent
      <3>2. underway' = underway \o one
        <4>1. <<>> \o b = b /\ b \o <<>> = b
          BY <2>1, ConcatEmptySeq
        <4> QED
          BY <2>2, <3>1, <4>1 DEF underway
      <3>3. BufferOK'
        BY <1>1, <1>4, <1>7, <2>1, <3>1
      <3> QED
        BY <1>8, <3>2, <3>3
    <2>4. CASE ~(U!AppendHalf(size) /\ ~U!Busy)
      <3>1. /\ UserTxBuffer' = UserTxBuffer /\ answers' = b /\ pos' = pos + size
            /\ size + pos < buffer_size
        BY <1>10, <2>4 DEF U!Gather
      <3>2. underway' = underway \o one
        BY <2>2, <3>1 DEF underway
      <3>3. pos' \in 0 .. buffer_size - 1 /\ pos' # 0
        BY <1>1, <3>1
      <3>4. BufferOK'
        BY <1>2, <1>7, <2>1, <3>1, <3>3
      <3> QED
        BY <1>8, <3>2, <3>4
    <2> QED
      BY <2>3, <2>4
  <1> QED
    BY <1>9, <1>10 DEF U!add_to_buff

\* What is last after an answer was added is that answer.
LEMMA AddedIsLast ==
  ASSUME U!TypeOK, NEW n, Adds(n)
  PROVE  NewestInv'
  <1> DEFINE M == 1 .. made + 1
             kept == SubSeq(underway, 1, n)
  <1>1. made \in Nat /\ made + 1 \in M /\ 1 .. made \subseteq M
    BY DEF U!TypeOK
  <1>2. host \in Seq(M) /\ underway \in Seq(M)
    <2>1. answers \in Seq(M) /\ UserTxBuffer \in Seq(M) /\ host \in Seq(M)
      BY <1>1, SeqMonotonic DEF U!TypeOK
    <2> QED
      BY <2>1, ConcatProperties DEF underway
  <1> HIDE DEF M
  <1>3. kept \in Seq(M)
    <2>1. n \in 0 .. Len(underway)
      BY DEF Adds
    <2> QED
      BY <1>2, <2>1
  <1>4. underway' \in Seq(M) /\ underway' # <<>> /\ underway'[Len(underway')] = made + 1
    <2>1. underway' = Append(kept, made + 1)
      BY DEF Adds
    <2> HIDE DEF kept
    <2> QED
      BY <1>1, <1>3, <2>1
  <1>5. all' = host \o underway'
    BY DEF all, Adds
  <1>6. all'[Len(all')] = made + 1 /\ all' # <<>>
    BY <1>2, <1>4, <1>5, LastOfTwo, ConcatEqualIffEmpty
  <1> QED
    BY <1>6 DEF NewestInv, Adds

\* A flush moves the buffer to the transfer, and nothing else.
LEMMA FlushKeeps ==
  ASSUME U!UsbSendAssumption, U!TypeOK, U!flush
  PROVE  underway' = underway /\ UNCHANGED <<host, made>> /\ BufferOK'
  <1>1. CASE U!Flushable(answers) /\ ~U!Busy
    <2>1. /\ UserTxBuffer = <<>> /\ UserTxBuffer' = answers /\ answers' = <<>> /\ pos' = 0
          /\ UNCHANGED <<host, made>>
      BY <1>1 DEF U!flush, U!Busy, U!Transmit
    <2>2. answers \in Seq(1 .. made)
      BY DEF U!TypeOK
    <2>3. underway' = underway
      BY <2>1, <2>2, ConcatEmptySeq DEF underway
    <2>4. 0 \in 0 .. buffer_size - 1
      BY DEF U!UsbSendAssumption
    <2>5. <<>> \in Seq(1 .. made)
      BY EmptySeq
    <2> QED
      BY <2>1, <2>2, <2>3, <2>4, <2>5 DEF U!TypeOK, BufferOK
  <1>2. CASE ~(U!Flushable(answers) /\ ~U!Busy)
    BY <1>2 DEF U!flush, U!TypeOK, BufferOK, underway
  <1> QED
    BY <1>1, <1>2

\* The end of a transfer moves its answers to the host.
LEMMA CpltMoves ==
  ASSUME U!TypeOK, U!TransmitCplt
  PROVE  /\ all' = all /\ made' = made /\ BufferOK'
         /\ Len(UserTxBuffer) \in 1 .. Len(underway)
         /\ host' = host \o SubSeq(underway, 1, Len(UserTxBuffer))
         /\ underway' = SubSeq(underway, Len(UserTxBuffer) + 1, Len(underway))
  <1> DEFINE M == 1 .. made
  <1>1. /\ host \in Seq(M) /\ UserTxBuffer \in Seq(M) /\ answers \in Seq(M)
        /\ UserTxBuffer # <<>> /\ UserTxBuffer' = <<>> /\ host' = host \o UserTxBuffer
        /\ UNCHANGED <<answers, pos, made>>
    BY DEF U!TypeOK, U!TransmitCplt, U!Busy
  <1>2. BufferOK'
    <2>1. host' \in Seq(M) /\ <<>> \in Seq(M)
      BY <1>1, ConcatProperties
    <2> QED
      BY <1>1, <2>1 DEF U!TypeOK, BufferOK
  <1> HIDE DEF M
  <1>3. underway' = answers
    BY <1>1, ConcatEmptySeq DEF underway
  <1>4. all' = all
    <2>1. (host \o UserTxBuffer) \o answers = host \o (UserTxBuffer \o answers)
      BY <1>1, ConcatAssociative
    <2> QED
      BY <1>1, <1>3, <2>1 DEF all, underway
  <1>5. /\ SubSeq(underway, 1, Len(UserTxBuffer)) = UserTxBuffer
        /\ SubSeq(underway, Len(UserTxBuffer) + 1, Len(underway)) = answers
    BY <1>1, TwoParts DEF underway
  <1>6. Len(UserTxBuffer) \in 1 .. Len(underway)
    <2>1. /\ Len(underway) = Len(UserTxBuffer) + Len(answers)
          /\ Len(UserTxBuffer) \in Nat \ {0} /\ Len(answers) \in Nat
      BY <1>1, ConcatProperties, LenProperties, EmptySeq DEF underway
    <2> QED
      BY <2>1
  <1> QED
    BY <1>1, <1>2, <1>3, <1>4, <1>5, <1>6

(***************************************************************************)
(* The steps.                                                              *)
(***************************************************************************)

\* Each step adds an answer, moves some to the host, or changes nothing that the
\* host can see.
Visible ==
  \/ \E n : Adds(n)
  \/ U!TransmitCplt
  \/ UNCHANGED <<underway, host, made>>

\* Both steps with an answer add one and keep todo's type.
LEMMA SendStep ==
  ASSUME U!UsbSendAssumption, SendInv, [U!Next]_(U!vars)
  PROVE  SendInv' /\ Visible
  <1>1. U!TypeOK /\ NewestInv /\ todo \in Seq(AnswerSizes)
    BY DEF SendInv, U!TypeOK
  <1>2. ASSUME BufferOK', todo' \in Seq(AnswerSizes)
        PROVE  U!TypeOK'
    BY <1>2 DEF BufferOK, U!TypeOK
  <1>3. ASSUME UNCHANGED <<underway, host, made>>
        PROVE  NewestInv'
    BY <1>1, <1>3 DEF NewestInv, all
  <1>4. ASSUME NEW size \in AnswerSizes, U!Send(size)
        PROVE  SendInv' /\ Visible
    <2>1. U!add_to_buff(size) /\ todo' = todo
      BY <1>4 DEF U!Send
    <2>2. PICK n : Adds(n)
      BY <1>1, <2>1, AddsOne
    <2>3. BufferOK'
      BY <1>1, <2>1, AddsOne
    <2>4. U!TypeOK'
      BY <1>1, <1>2, <2>1, <2>3
    <2> QED
      BY <1>1, <2>2, <2>4, AddedIsLast DEF SendInv, Visible
  <1>5. CASE U!SendNextEmpty
    <2>1. U!add_to_buff(Head(todo)) /\ Head(todo) \in AnswerSizes /\ todo' \in Seq(AnswerSizes)
      BY <1>1, <1>5, HeadTailProperties DEF U!SendNextEmpty
    <2>2. PICK n : Adds(n)
      BY <1>1, <2>1, AddsOne
    <2>3. BufferOK'
      BY <1>1, <2>1, AddsOne
    <2>4. U!TypeOK'
      BY <1>2, <2>1, <2>3
    <2> QED
      BY <1>1, <2>2, <2>4, AddedIsLast DEF SendInv, Visible
  <1>6. CASE U!SendEmpty
    <2>1. UNCHANGED <<answers, pos, UserTxBuffer, made, host>> /\ todo' = EmptyAnswers
      BY <1>6 DEF U!SendEmpty
    <2>2. U!TypeOK'
      BY <1>1, <2>1 DEF U!TypeOK, U!UsbSendAssumption
    <2>3. UNCHANGED <<underway, host, made>>
      BY <2>1 DEF underway
    <2> QED
      BY <1>3, <2>2, <2>3 DEF SendInv, Visible
  <1>7. CASE U!flush
    <2>1. UNCHANGED <<underway, host, made>> /\ BufferOK'
      BY <1>1, <1>7, FlushKeeps
    <2>2. todo' = todo
      BY <1>7 DEF U!flush
    <2> QED
      BY <1>1, <1>2, <1>3, <2>1, <2>2 DEF SendInv, Visible
  <1>8. CASE U!TransmitCplt
    <2>1. all' = all /\ made' = made /\ BufferOK' /\ todo' = todo
      BY <1>1, <1>8, CpltMoves DEF U!TransmitCplt
    <2> QED
      BY <1>1, <1>2, <1>8, <2>1 DEF SendInv, Visible, NewestInv
  <1>9. CASE UNCHANGED U!vars
    <2>1. UNCHANGED <<underway, host, made>> /\ U!TypeOK'
      BY <1>1, <1>9 DEF U!vars, underway, U!TypeOK
    <2> QED
      BY <1>3, <2>1 DEF SendInv, Visible
  <1> QED
    BY <1>4, <1>5, <1>6, <1>7, <1>8, <1>9 DEF U!Next

LEMMA SendInit ==
  ASSUME U!UsbSendAssumption, U!Init
  PROVE  SendInv /\ U!Promise!Init
  <1>1. /\ <<>> \in Seq(1 .. made) /\ <<>> \in Seq(AnswerSizes)
        /\ <<>> \o <<>> = <<>>
    BY EmptySeq, ConcatEmptySeq
  <1>2. MaxAnswers \in Nat /\ buffer_size \in Nat \ {0}
    BY DEF U!UsbSendAssumption
  <1>3. 0 \in 0 .. MaxAnswers /\ 0 \in 0 .. buffer_size - 1
    BY <1>2
  <1> QED
    BY <1>1, <1>3 DEF U!Init, SendInv, U!TypeOK, NewestInv, all, underway, U!Promise!Init

(***************************************************************************)
(* The theorems.                                                           *)
(***************************************************************************)

\* The buffer of answers never overflows, and what is in it, in the transfer and at
\* the host are answers that were sent (usb_send.cpp).
THEOREM AnswersTyped ==
  ASSUME U!UsbSendAssumption
  PROVE  U!Spec => []U!TypeOK
  <1>1. U!Init => SendInv
    BY SendInit
  <1>2. SendInv /\ [U!Next]_(U!vars) => SendInv'
    BY SendStep
  <1>3. SendInv => U!TypeOK
    BY DEF SendInv
  <1> QED
    BY <1>1, <1>2, <1>3, PTL DEF U!Spec

\* The answer that comes last, at the host, in the transfer or in the buffer, is the
\* newest: whatever add_to_buff gives up, it is an older one.
THEOREM NewestIsKept ==
  ASSUME U!UsbSendAssumption
  PROVE  U!Spec => []NewestInv
  <1>1. U!Init => SendInv
    BY SendInit
  <1>2. SendInv /\ [U!Next]_(U!vars) => SendInv'
    BY SendStep
  <1>3. SendInv => NewestInv
    BY DEF SendInv
  <1> QED
    BY <1>1, <1>2, <1>3, PTL DEF U!Spec

\* The host gets the answers whole, in order and at most once: usb_send.cpp and
\* CDC_Transmit_FS implement AnswerStream.
THEOREM AnswersImplement ==
  ASSUME U!UsbSendAssumption
  PROVE  U!Spec => U!ImplementsStream
  <1>1. U!Init => SendInv /\ U!Promise!Init
    BY SendInit
  <1>2. SendInv /\ [U!Next]_(U!vars) => SendInv'
    BY SendStep
  <1>3. ASSUME SendInv, [U!Next]_(U!vars)
        PROVE  [U!Promise!Next]_(U!Promise!vars)
    <2>1. Visible /\ U!TypeOK /\ NewestInv
      BY <1>3, SendStep DEF SendInv
    <2>2. ASSUME NEW n, Adds(n)
          PROVE  U!Promise!Next
      <3> DEFINE a == IF host \o (UserTxBuffer \o answers) = <<>> THEN 1 ELSE U!Promise!Newest + 1
      <3>1. a = made + 1
        BY <2>1 DEF NewestInv, all, underway, U!Promise!Newest
      <3>2. a <= MaxAnswers
        BY <2>2, <2>1, <3>1 DEF Adds, U!TypeOK, U!UsbSendAssumption
      <3>3. U!Promise!Send
        BY <2>2, <3>1, <3>2 DEF Adds, underway, U!Promise!Send
      <3> QED
        BY <3>3 DEF U!Promise!Next
    <2>3. CASE U!TransmitCplt
      <3>1. U!Promise!Arrive
        BY <2>1, <2>3, CpltMoves DEF underway, U!Promise!Arrive
      <3> QED
        BY <3>1 DEF U!Promise!Next
    <2>4. CASE UNCHANGED <<underway, host, made>>
      BY <2>4 DEF U!Promise!vars, underway
    <2> QED
      BY <2>1, <2>2, <2>3, <2>4 DEF Visible
  <1> QED
    BY <1>1, <1>2, <1>3, PTL DEF U!Spec, U!ImplementsStream, U!Promise!Spec
=============================================================================

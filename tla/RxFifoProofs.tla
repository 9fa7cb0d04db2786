---------------------------- MODULE RxFifoProofs ----------------------------
(***************************************************************************)
(* Proofs about RxFifo, for every FIFO size, every set of byte values and  *)
(* every depth of the USART.  The inductive invariant says, for each place *)
(* the reader may be at, which distances between the indices go with which *)
(* f_status: that is what the code relies on and nowhere checks.           *)
(***************************************************************************)
EXTENDS RxFifo, TLAPS

\* Before initialize_fifo the memory is zero, and zero means FULL.
BootInv == rpc = "boot" => f_head = 0 /\ f_tail = 0 /\ f_status = "FULL"

\* Outside the critical part of a read, f_status describes the indices: READY
\* never with equal indices, EMPTY with at most Burst bytes between them.
RestInv == rpc \in {"idle", "load", "ret"} =>
             /\ f_status = "READY" => Gap > 0
             /\ f_status = "EMPTY" => Gap <= Burst

\* A call that passed its test keeps f_status away from EMPTY until it stores
\* EMPTY itself: the handler only ever stores READY or FULL.
CallInv == InCall => f_status # "EMPTY"

\* Once a byte is taken there is a free slot, so the indices cannot become
\* equal by being filled before they are compared.
RoomInv == rpc \in {"bump", "wrap", "cmp", "clear"} /\ f_status # "FULL" =>
             Gap <= FIFO_SIZE - 2 + moved

\* At the store of EMPTY, the bytes there are those that came since the
\* comparison, and none came if the FIFO is FULL.
ClearInv == rpc = "clear" => Gap <= moved /\ (f_status = "FULL" => Gap = 0)

IInv == TypeOK /\ BootInv /\ RestInv /\ CallInv /\ RoomInv /\ ClearInv

-----------------------------------------------------------------------------
(* Arithmetic of the ring. *)

\* The next unread slot is a slot, and the distance to f_head is less than
\* the size (NextUnread and Gap).
LEMMA GapRange ==
  ASSUME TypeOK
  PROVE  NextUnread \in Index /\ Gap \in 0 .. FIFO_SIZE - 1
BY FifoSizeAssumption DEF TypeOK, NextUnread, Gap, Slot, Index

\* At most FIFO_SIZE bytes are pending.
LEMMA CountRange ==
  ASSUME TypeOK
  PROVE  Count \in 0 .. FIFO_SIZE
BY GapRange, FifoSizeAssumption DEF Count

\* One more byte moves f_head one further from the next unread slot; only a
\* FIFO with one free slot sees them meet (Wrapped in fifo_write_byte).
LEMMA GapAfterWrite ==
  ASSUME TypeOK, Room, f_head' = Wrapped(f_head + 1),
         UNCHANGED <<f_tail, rpc>>
  PROVE  /\ NextUnread' = NextUnread
         /\ f_head' \in Index
         /\ Gap' = IF Gap = FIFO_SIZE - 1 THEN 0 ELSE Gap + 1
BY FifoSizeAssumption DEF TypeOK, NextUnread, Gap, Slot, Index, Wrapped

-----------------------------------------------------------------------------
(* The invariant. *)

LEMMA InitInv == Init => IInv
BY ZeroAssumption, FifoSizeAssumption, BurstAssumption
DEF Init, IInv, TypeOK, BootInv, RestInv, CallInv, RoomInv, ClearInv, Index,
    Status, InCall

LEMMA NextInv == IInv /\ [Next]_vars => IInv'
<1> SUFFICES ASSUME IInv, [Next]_vars PROVE IInv'
  OBVIOUS
<1> USE FifoSizeAssumption, BurstAssumption
<1>1. ASSUME NEW b \in Byte, Arrive(b) PROVE IInv'
  <2>1. rx' \in Seq(Byte)
    BY <1>1 DEF Arrive, IInv, TypeOK
  <2>2. overrun' \in BOOLEAN
    BY <1>1 DEF Arrive, IInv, TypeOK
  <2>3. TypeOK'
    BY <1>1, <2>1, <2>2 DEF Arrive, IInv, TypeOK, fifoVars, readVars
  <2> QED
    BY <1>1, <2>3 DEF Arrive, IInv, BootInv, RestInv, CallInv, RoomInv,
       ClearInv, Gap, NextUnread, Slot, InCall, fifoVars, readVars
<1>2. CASE Isr
  <2>1. /\ NextUnread' = NextUnread
        /\ f_head' \in Index
        /\ Gap' = IF Gap = FIFO_SIZE - 1 THEN 0 ELSE Gap + 1
    BY <1>2, GapAfterWrite DEF Isr, FifoWrite, IInv
  <2>2. f_status # "FULL" /\ f_status' \in {"FULL", "READY"}
    BY <1>2 DEF Isr, FifoWrite, Written, Room
  <2>3. TypeOK'
    <3>1. rx' \in Seq(Byte) /\ Head(rx) \in Byte
      BY <1>2 DEF Isr, IInv, TypeOK
    <3>2. f_buf' \in [Index -> Byte]
      BY <1>2, <3>1 DEF Isr, FifoWrite, IInv, TypeOK
    <3>3. moved' \in 0 .. Burst
      BY <1>2 DEF Isr, IInv, TypeOK
    <3> QED
      BY <1>2, <2>1, <2>2, <3>1, <3>2, <3>3
      DEF Isr, FifoWrite, IInv, TypeOK, Status
  <2>4. rpc # "boot" /\ BootInv'
    BY <1>2, <2>2 DEF Isr, IInv, BootInv
  <2>5. RestInv'
    BY <1>2, <2>1, <2>2, GapRange DEF Isr, FifoWrite, Written, IInv, RestInv,
       TypeOK, Index, NextUnread, Slot, Gap
  <2>6. CallInv'
    BY <2>2 DEF CallInv
  <2>7. rpc \in {"bump", "wrap", "cmp", "clear"} =>
          moved = 0 /\ moved' = 1 /\ Gap <= FIFO_SIZE - 2 /\ Gap' = Gap + 1
    BY <1>2, <2>1, <2>2, GapRange DEF Isr, IInv, TypeOK, RoomInv, InCall
  <2>8. RoomInv' /\ ClearInv'
    BY <1>2, <2>1, <2>2, <2>7, GapRange
    DEF Isr, FifoWrite, Written, IInv, RoomInv, ClearInv, TypeOK, Index,
        NextUnread, Slot, Gap
  <2> QED
    BY <2>3, <2>4, <2>5, <2>6, <2>8 DEF IInv
<1>3. CASE InitializeFifo
  BY <1>3 DEF InitializeFifo, IInv, TypeOK, BootInv, RestInv, CallInv, RoomInv,
     ClearInv, Gap, NextUnread, Slot, InCall, Index, Status
<1>4. CASE ReadTest
  BY <1>4 DEF ReadTest, IInv, TypeOK, BootInv, RestInv, CallInv, RoomInv,
     ClearInv, Gap, NextUnread, Slot, InCall, Index, Status, fifoVars
<1>5. CASE ReadLoad
  BY <1>5 DEF ReadLoad, IInv, TypeOK, BootInv, RestInv, CallInv, RoomInv,
     ClearInv, Gap, NextUnread, Slot, InCall, Index, Status, fifoVars
<1>6. CASE ReadBump
  BY <1>6 DEF ReadBump, IInv, TypeOK, BootInv, RestInv, CallInv, RoomInv,
     ClearInv, Gap, NextUnread, Slot, InCall, Index, Status
<1>7. CASE ReadWrap
  BY <1>7 DEF ReadWrap, Wrapped, IInv, TypeOK, BootInv, RestInv, CallInv,
     RoomInv, ClearInv, Gap, NextUnread, Slot, InCall, Index, Status
<1>8. CASE ReadCompare
  BY <1>8 DEF ReadCompare, Drained, IInv, TypeOK, BootInv, RestInv, CallInv,
     RoomInv, ClearInv, Gap, NextUnread, Slot, InCall, Index, Status, fifoVars
<1>9. CASE ReadClear
  BY <1>9 DEF ReadClear, DrainedStatus, IInv, TypeOK, BootInv, RestInv,
     CallInv, RoomInv, ClearInv, Gap, NextUnread, Slot, InCall, Index, Status
<1>10. CASE ReadReturn
  BY <1>10 DEF ReadReturn, IInv, TypeOK, BootInv, RestInv, CallInv, RoomInv,
     ClearInv, Gap, NextUnread, Slot, InCall, Index, Status, fifoVars
<1>11. CASE UNCHANGED vars
  BY <1>11 DEF vars, fifoVars, readVars, IInv, TypeOK, BootInv, RestInv,
     CallInv, RoomInv, ClearInv, Gap, NextUnread, Slot, InCall
<1> QED
  BY <1>1, <1>2, <1>3, <1>4, <1>5, <1>6, <1>7, <1>8, <1>9, <1>10, <1>11
  DEF Next, ReadStep

\* The inductive invariant holds throughout.
THEOREM Invariance == Spec => []IInv
BY InitInv, NextInv, PTL DEF Spec

\* The indices stay in the buffer and the status is one of the three.
THEOREM TypeCorrect == Spec => []TypeOK
<1>1. IInv => TypeOK
  BY DEF IInv
<1> QED
  BY <1>1, Invariance, PTL

\* A reader that sees the FIFO not EMPTY finds a byte in it.
THEOREM Readable == Spec => []NotEmptyMeansReadable
<1>1. IInv => NotEmptyMeansReadable
  BY GapRange, FifoSizeAssumption
  DEF IInv, TypeOK, Status, RestInv, NotEmptyMeansReadable, Count
<1> QED
  BY <1>1, Invariance, PTL

\* An EMPTY FIFO hides at most Burst bytes.
THEOREM HiddenAtMostBurst == Spec => []HiddenBound
<1>1. IInv => HiddenBound
  BY DEF IInv, RestInv, HiddenBound, Count
<1> QED
  BY <1>1, Invariance, PTL

\* initialize_fifo finds the indices equal and leaves them so.
LEMMA GapAtBoot ==
  ASSUME IInv, InitializeFifo
  PROVE  Gap = 0 /\ Gap' = 0
<1>1. NextUnread = 0 /\ NextUnread' = 0
  BY FifoSizeAssumption DEF IInv, BootInv, InitializeFifo, NextUnread, Slot
<1> QED
  BY <1>1 DEF IInv, BootInv, InitializeFifo, Gap

\* A FIFO that has been full takes no byte before it is drained.
THEOREM FullIsSticky == Spec => FullUntilDrained
<1>1. ASSUME IInv, [Next]_vars, f_status = "FULL", f_status' # "FULL"
      PROVE  Count' = 0
  <2>1. InitializeFifo \/ ReadClear
    BY <1>1 DEF Next, vars, fifoVars, readVars, Arrive, Isr, FifoWrite, Room,
       ReadStep, ReadTest, ReadLoad, ReadBump, ReadWrap, ReadCompare,
       ReadReturn
  <2>2. CASE InitializeFifo
    BY <1>1, <2>2, GapAtBoot DEF InitializeFifo, Count
  <2>3. CASE ReadClear
    BY <1>1, <2>3 DEF ReadClear, DrainedStatus, IInv, ClearInv, Count, Gap,
       NextUnread
  <2> QED
    BY <2>1, <2>2, <2>3
<1> QED
  BY <1>1, Invariance, PTL DEF Spec, FullUntilDrained

-----------------------------------------------------------------------------
(* RxFifo implements ByteQueue. *)

\* The pending bytes are a sequence of bytes, the oldest in the next unread
\* slot.
PendingShape ==
  /\ Pending \in Seq(Byte)
  /\ Len(Pending) = Count
  /\ \A i \in 1 .. Count : /\ Slot(NextUnread, i - 1) \in Index
                           /\ Pending[i] = f_buf[Slot(NextUnread, i - 1)]

\* It follows from the ranges of the indices alone.
LEMMA PendingType == TypeOK => PendingShape
<1> SUFFICES ASSUME TypeOK PROVE PendingShape
  OBVIOUS
<1>1. \A i \in 1 .. Count : Slot(NextUnread, i - 1) \in Index
  BY GapRange, CountRange, FifoSizeAssumption DEF Slot, Index
<1>2. Pending \in [1 .. Count -> Byte] /\ Count \in Nat
  BY <1>1, CountRange DEF Pending, TypeOK
<1>3. Pending \in Seq(Byte) /\ Len(Pending) = Count
  BY <1>2
<1> QED
  BY <1>1, <1>2, <1>3 DEF Pending, PendingShape

\* A step of the handler appends the character it took from the USART.
LEMMA PendingAfterWrite ==
  ASSUME IInv, Isr
  PROVE  /\ Head(rx) \in Byte
         /\ Len(Pending) < FIFO_SIZE
         /\ Pending' = Append(Pending, Head(rx))
<1> USE FifoSizeAssumption, BurstAssumption
<1>1. TypeOK /\ TypeOK'
  <2>1. IInv'
    BY NextInv DEF Next
  <2> QED
    BY <2>1 DEF IInv
<1>2. Head(rx) \in Byte
  BY <1>1 DEF Isr, TypeOK
<1>3. /\ NextUnread' = NextUnread /\ NextUnread \in Index
      /\ Gap' = IF Gap = FIFO_SIZE - 1 THEN 0 ELSE Gap + 1
      /\ Gap \in 0 .. FIFO_SIZE - 1
  BY <1>1, GapAfterWrite, GapRange DEF Isr, FifoWrite
<1>4. Count = Gap /\ Count' = Count + 1
  <2>1. f_status # "FULL" /\ rpc' = rpc
    BY DEF Isr, FifoWrite, Room
  <2>2. CASE rpc \in {"idle", "load", "ret"}
    BY <1>1, <1>3, <2>1, <2>2
    DEF Isr, FifoWrite, Written, Count, Gap, NextUnread, Slot, TypeOK, Index
  <2>3. CASE rpc \in {"bump", "wrap", "cmp", "clear"}
    BY <1>1, <1>3, <2>1, <2>3
    DEF Isr, IInv, RoomInv, Count, TypeOK, InCall
  <2>4. rpc # "boot"
    BY <2>1 DEF IInv, BootInv
  <2> QED
    BY <1>1, <2>2, <2>3, <2>4 DEF TypeOK
<1>5. Slot(NextUnread, Count) = f_head
  BY <1>1, <1>3, <1>4 DEF Gap, Slot, TypeOK, Index
<1>6. \A i \in 1 .. Count : Slot(NextUnread, i - 1) # f_head
  BY <1>1, <1>3, <1>4 DEF Gap, Slot, TypeOK, Index
<1>7. f_buf' = [f_buf EXCEPT ![f_head] = Head(rx)]
  BY DEF Isr, FifoWrite
<1>8. /\ Pending' \in Seq(Byte) /\ Len(Pending') = Count + 1
      /\ \A i \in 1 .. Count + 1 :
            Pending'[i] = f_buf'[Slot(NextUnread, i - 1)]
  <2>1. PendingShape'
    BY <1>1, PendingType, PTL
  <2> QED
    BY <2>1, <1>3, <1>4 DEF PendingShape, Slot
<1>9. /\ Pending \in Seq(Byte) /\ Len(Pending) = Count
      /\ \A i \in 1 .. Count : /\ Slot(NextUnread, i - 1) \in Index
                               /\ Pending[i] = f_buf[Slot(NextUnread, i - 1)]
  BY <1>1, PendingType DEF PendingShape
<1>10. \A i \in 1 .. Count : Pending'[i] = Pending[i]
  BY <1>1, <1>6, <1>7, <1>8, <1>9 DEF TypeOK
<1>11. Pending'[Count + 1] = Head(rx)
  BY <1>1, <1>3, <1>4, <1>5, <1>7, <1>8 DEF TypeOK
<1>12. Pending' = Append(Pending, Head(rx))
  BY <1>2, <1>3, <1>4, <1>8, <1>9, <1>10, <1>11
<1> QED
  BY <1>2, <1>3, <1>4, <1>9, <1>12

\* The load takes the oldest pending byte.
LEMMA PendingAfterLoad ==
  ASSUME IInv, ReadLoad
  PROVE  /\ Pending # << >>
         /\ ch' = Head(Pending)
         /\ Pending' = Tail(Pending)
<1> USE FifoSizeAssumption, BurstAssumption
<1>1. TypeOK /\ TypeOK'
  <2>1. IInv'
    BY NextInv DEF Next, ReadStep
  <2> QED
    BY <2>1 DEF IInv
<1>2. /\ NextUnread = f_tail /\ NextUnread \in Index
      /\ NextUnread' = Slot(f_tail, 1)
  BY <1>1, GapRange DEF ReadLoad, NextUnread, Slot, TypeOK, Index, fifoVars
<1>3. Count \in 1 .. FIFO_SIZE
  BY <1>1, GapRange
  DEF ReadLoad, IInv, RestInv, CallInv, InCall, Count, TypeOK, Status
<1>4. Count' = Count - 1
  BY <1>1, <1>2, <1>3 DEF ReadLoad, Count, Gap, Slot, TypeOK, Index, fifoVars
<1>5. /\ Pending \in Seq(Byte) /\ Len(Pending) = Count
      /\ \A i \in 1 .. Count : Pending[i] = f_buf[Slot(NextUnread, i - 1)]
  BY <1>1, PendingType DEF PendingShape
<1>6. f_buf' = f_buf
  BY DEF ReadLoad, fifoVars
<1>7. /\ Pending' \in Seq(Byte) /\ Len(Pending') = Count - 1
      /\ \A i \in 1 .. Count - 1 :
            Pending'[i] = f_buf[Slot(NextUnread', i - 1)]
  <2>1. PendingShape'
    BY <1>1, PendingType, PTL
  <2> QED
    BY <2>1, <1>4, <1>6 DEF PendingShape, Slot
<1>8. \A i \in 1 .. Count - 1 :
        Slot(NextUnread', i - 1) = Slot(NextUnread, (i + 1) - 1)
  BY <1>1, <1>2, <1>3 DEF Slot, Index
<1>9. \A i \in 1 .. Count - 1 : Pending'[i] = Pending[i + 1]
  BY <1>3, <1>5, <1>7, <1>8
<1>10. Head(Pending) = Pending[1] /\ Slot(NextUnread, 1 - 1) = f_tail
  BY <1>1, <1>2, <1>3, <1>5 DEF Slot, Index
<1>11. ch' = Head(Pending)
  BY <1>3, <1>5, <1>10 DEF ReadLoad
<1>12. Pending # << >>
  BY <1>3, <1>5
<1>13. /\ Tail(Pending) \in Seq(Byte) /\ Len(Tail(Pending)) = Count - 1
       /\ \A i \in 1 .. Count - 1 : Tail(Pending)[i] = Pending[i + 1]
  BY <1>3, <1>5, <1>12
<1>14. Pending' = Tail(Pending)
  BY <1>3, <1>7, <1>9, <1>13
<1> QED
  BY <1>11, <1>12, <1>14

\* No other step touches the pending bytes: f_tail moves after its byte was
\* taken, and EMPTY may be stored over bytes that stay where they are.
LEMMA PendingUnchanged ==
  ASSUME IInv, [Next]_vars, ~Isr, ~ReadLoad
  PROVE  UNCHANGED <<Pending, ch>>
<1> USE FifoSizeAssumption, BurstAssumption
<1>1. UNCHANGED <<f_buf, ch>>
  BY DEF Next, vars, fifoVars, readVars, Arrive, InitializeFifo, ReadStep,
     ReadTest, ReadBump, ReadWrap, ReadCompare, ReadClear, ReadReturn
<1>2. CASE InitializeFifo
  <2>1. Count = 0 /\ Count' = 0
    BY <1>2, GapAtBoot DEF InitializeFifo, Count
  <2> QED
    BY <1>1, <2>1 DEF Pending
<1>3. CASE ~InitializeFifo
  <2>1. NextUnread' = NextUnread /\ Count' = Count
    <3>1. CASE ReadTest
      BY <3>1 DEF ReadTest, Count, Gap, NextUnread, fifoVars
    <3>2. CASE ReadBump
      BY <3>2 DEF ReadBump, Count, Gap, NextUnread, Slot, IInv, TypeOK, Index
    <3>3. CASE ReadWrap
      BY <3>3 DEF ReadWrap, Wrapped, Count, Gap, NextUnread, Slot, IInv,
         TypeOK, Index
    <3>4. CASE ReadCompare
      BY <3>4 DEF ReadCompare, Drained, Count, Gap, NextUnread, Slot, IInv,
         TypeOK, Index, fifoVars
    <3>5. CASE ReadClear
      BY <3>5 DEF ReadClear, DrainedStatus, Count, Gap, NextUnread, Slot
    <3>6. CASE ReadReturn
      BY <3>6 DEF ReadReturn, Count, Gap, NextUnread, fifoVars
    <3>7. CASE \E b \in Byte : Arrive(b)
      BY <3>7 DEF Arrive, Count, Gap, NextUnread, fifoVars, readVars
    <3>8. CASE UNCHANGED vars
      BY <3>8 DEF vars, Count, Gap, NextUnread, fifoVars, readVars
    <3> QED
      BY <1>3, <3>1, <3>2, <3>3, <3>4, <3>5, <3>6, <3>7, <3>8
      DEF Next, ReadStep
  <2> QED
    BY <1>1, <2>1 DEF Pending, Slot
<1> QED
  BY <1>2, <1>3

\* The FIFO under its interrupt is a queue: every byte the handler stored is
\* read once and in order, for every place of the interrupt in a read.
THEOREM Implements == Spec => QueueSpec
<1>1. Init => Queue!Init
  BY FifoSizeAssumption
  DEF Init, Queue!Init, Pending, Count, Gap, NextUnread, Slot
<1>2. ASSUME IInv, [Next]_vars
      PROVE  [Queue!Next]_<<Pending, ch>>
  <2>1. CASE Isr
    BY <1>2, <2>1, PendingAfterWrite DEF Queue!Next, Queue!Write, Isr
  <2>2. CASE ReadLoad
    BY <1>2, <2>2, PendingAfterLoad DEF Queue!Next, Queue!Read
  <2>3. CASE ~Isr /\ ~ReadLoad
    BY <1>2, <2>3, PendingUnchanged
  <2> QED
    BY <2>1, <2>2, <2>3
<1> QED
  BY <1>1, <1>2, Invariance, PTL DEF Spec, QueueSpec, Queue!Spec
=============================================================================

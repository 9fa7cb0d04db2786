---------------------------- MODULE ElmLinkProofs ----------------------------
(***************************************************************************)
(* Proofs about ElmLink, for every FIFO size, every depth of the USART, any*)
(* number of commands, and every set of answers that fit: the bytes of the *)
(* answer to the current command are at each moment in buf, in the hand of *)
(* fifo_read_byte, in the FIFO, in the USART and in the device, in this    *)
(* order, and every step but the next command only moves the borders.      *)
(***************************************************************************)
EXTENDS ElmLink, RxFifoProofs, SequenceTheorems

\* Answers that end in their only prompt, hold no NUL, and fit the FIFO, the size
\* given to elm_read, and its array with the '\0'.
Fit == /\ ArraySize > 0
       /\ \A answer \in Answers :
            /\ Len(answer) \in 1 .. FIFO_SIZE
            /\ Len(answer) <= ReadSize /\ Len(answer) < ArraySize
            /\ \A i \in 1 .. Len(answer) :
                 answer[i] = IF i = Len(answer) THEN "prompt" ELSE "data"

\* The byte that fifo_read_byte has taken and elm_read has not stored yet
Taken == IF rpc \in {"bump", "wrap", "cmp", "clear", "ret"} THEN <<ch>> ELSE << >>

Stream == (((buf \o Taken) \o Pending) \o rx) \o dev

\* s is an answer to the current command, from its first byte to its prompt.
Whole(s) ==
  /\ s \in Seq(Byte)
  /\ Len(s) \in 1 .. FIFO_SIZE /\ Len(s) <= ReadSize /\ Len(s) < ArraySize
  /\ \A i \in 1 .. Len(s) :
       s[i] = <<cmd, IF i = Len(s) THEN "prompt" ELSE "data">>

Quiet == Pending = << >> /\ rx = << >> /\ dev = << >>

ShapeInv ==
  /\ mpc \in {"send", "poll", "call", "done", "stuck"}
  /\ cmd \in Cmds /\ buf \in Seq(Byte) /\ dev \in Seq(Byte)
  /\ Len(buf) < ArraySize
  /\ rpc \notin {"boot", "idle"} => mpc = "call"
  /\ rpc = "boot" => mpc = "send"

\* While elm_read is in its loop, nothing of the answer is missing or added.
ExchangeInv == mpc \in {"poll", "call", "stuck"} => Whole(Stream)

\* Outside the loop nothing is on its way.
QuietInv == /\ mpc \in {"send", "done"} => Quiet
            /\ mpc = "done" => Whole(buf)

\* A FIFO that is FULL has all there is, so that nothing it refuses is lost.
FullInv == f_status = "FULL" => rx = << >> /\ dev = << >>

ElmInv == /\ IInv /\ ShapeInv /\ ExchangeInv /\ QuietInv /\ FullInv
          /\ PollHolds /\ NothingLost

-----------------------------------------------------------------------------
(* Sequences whose border moves.                                           *)

\* Moving the first element of a sequence to the end of the one before it
\* changes nothing of what they are together.
LEMMA MoveBorder ==
  ASSUME NEW a \in Seq(Byte), NEW s \in Seq(Byte), NEW t \in Seq(Byte), t # << >>
  PROVE  (a \o Append(s, Head(t))) \o Tail(t) = (a \o s) \o t
<1>1. Head(t) \in Byte /\ Tail(t) \in Seq(Byte)
  BY HeadTailProperties
<1>2. t = <<Head(t)>> \o Tail(t)
  <2>1. <<Head(t)>> \in Seq(Byte) /\ Len(<<Head(t)>>) = 1
    BY <1>1
  <2>2. /\ <<Head(t)>> \o Tail(t) \in Seq(Byte)
        /\ Len(<<Head(t)>> \o Tail(t)) = 1 + Len(Tail(t))
        /\ \A i \in 1 .. 1 + Len(Tail(t)) :
             (<<Head(t)>> \o Tail(t))[i] =
               IF i <= 1 THEN Head(t) ELSE Tail(t)[i - 1]
    BY <1>1, <2>1, ConcatProperties
  <2>3. /\ Len(Tail(t)) = Len(t) - 1 /\ Head(t) = t[1]
        /\ \A i \in 1 .. Len(Tail(t)) : Tail(t)[i] = t[i + 1]
    BY HeadTailProperties
  <2>4. Len(t) \in Nat /\ Len(t) > 0
    OBVIOUS
  <2>5. \A i \in 1 .. Len(t) : (<<Head(t)>> \o Tail(t))[i] = t[i]
    BY <2>2, <2>3, <2>4
  <2> QED
    BY <2>2, <2>3, <2>4, <2>5
<1>3. Append(s, Head(t)) = s \o <<Head(t)>>
  BY <1>1, AppendIsConcat
<1>4. <<Head(t)>> \in Seq(Byte) /\ s \o <<Head(t)>> \in Seq(Byte)
  BY <1>1, ConcatProperties
<1>5. (a \o (s \o <<Head(t)>>)) \o Tail(t) = ((a \o s) \o <<Head(t)>>) \o Tail(t)
  BY <1>4, ConcatAssociative
<1>6. a \o s \in Seq(Byte)
  BY ConcatProperties
<1>7. ((a \o s) \o <<Head(t)>>) \o Tail(t) = (a \o s) \o (<<Head(t)>> \o Tail(t))
  BY <1>1, <1>4, <1>6, ConcatAssociative
<1> QED
  BY <1>2, <1>3, <1>5, <1>7

\* What is put behind a sequence leaves it as it is.
LEMMA PrefixKept ==
  ASSUME NEW s \in Seq(Byte), NEW t \in Seq(Byte)
  PROVE  /\ s \o t \in Seq(Byte) /\ Len(s \o t) = Len(s) + Len(t)
         /\ \A i \in 1 .. Len(s) : (s \o t)[i] = s[i]
  BY ConcatProperties

\* The parts of the stream are sequences, and its length is the sum of theirs.
Parts ==
  /\ Taken \in Seq(Byte) /\ Pending \in Seq(Byte) /\ rx \in Seq(Byte)
  /\ buf \o Taken \in Seq(Byte) /\ (buf \o Taken) \o Pending \in Seq(Byte)
  /\ ((buf \o Taken) \o Pending) \o rx \in Seq(Byte)
  /\ Stream \in Seq(Byte)
  /\ Len(Stream) = Len(buf) + Len(Taken) + Len(Pending) + Len(rx) + Len(dev)

LEMMA StreamParts == IInv /\ ShapeInv => Parts
<1> SUFFICES ASSUME IInv, ShapeInv PROVE Parts
  OBVIOUS
<1>1. Pending \in Seq(Byte) /\ rx \in Seq(Byte) /\ buf \in Seq(Byte)
      /\ dev \in Seq(Byte) /\ ch \in Byte
  BY PendingType DEF IInv, TypeOK, PendingShape, ShapeInv
<1>2. Taken \in Seq(Byte)
  BY <1>1 DEF Taken
<1>3. buf \o Taken \in Seq(Byte) /\ Len(buf \o Taken) = Len(buf) + Len(Taken)
  BY <1>1, <1>2, ConcatProperties
<1>4. /\ (buf \o Taken) \o Pending \in Seq(Byte)
      /\ Len((buf \o Taken) \o Pending) = Len(buf \o Taken) + Len(Pending)
  BY <1>1, <1>3, ConcatProperties
<1>5. /\ ((buf \o Taken) \o Pending) \o rx \in Seq(Byte)
      /\ Len(((buf \o Taken) \o Pending) \o rx) =
           Len((buf \o Taken) \o Pending) + Len(rx)
  BY <1>1, <1>4, ConcatProperties
<1>6. /\ Stream \in Seq(Byte)
      /\ Len(Stream) = Len(((buf \o Taken) \o Pending) \o rx) + Len(dev)
  BY <1>1, <1>5, ConcatProperties DEF Stream
<1> QED
  BY <1>1, <1>2, <1>3, <1>4, <1>5, <1>6 DEF Parts

\* The handler that finds the last slot and sets FULL leaves FIFO_SIZE bytes that
\* elm_read has not stored yet.
LEMMA FullHoldsAll ==
  ASSUME IInv, Isr, f_status' = "FULL"
  PROVE  Len(Taken') + Len(Pending') >= FIFO_SIZE
<1> USE FifoSizeAssumption, BurstAssumption
<1>1. IInv' /\ TypeOK /\ TypeOK'
  BY NextInv DEF Next, IInv
<1>2. PendingShape'
  BY <1>1, PendingType, PTL
<1>3. Len(Pending') = Count'
  BY <1>2 DEF PendingShape
<1>4. /\ NextUnread' = NextUnread /\ NextUnread \in Index
      /\ Gap' = IF Gap = FIFO_SIZE - 1 THEN 0 ELSE Gap + 1
      /\ Gap \in 0 .. FIFO_SIZE - 1
  BY <1>1, GapAfterWrite, GapRange DEF Isr, FifoWrite
<1>5. /\ f_status # "FULL" /\ rpc' = rpc /\ f_head' = f_tail' /\ f_tail' = f_tail
      /\ f_head' \in Index /\ rpc # "boot"
  BY <1>1 DEF Isr, FifoWrite, Room, Written, IInv, BootInv, TypeOK
<1>6. CASE rpc \in {"idle", "load", "ret"}
  <2>1. Gap' = 0
    BY <1>1, <1>4, <1>5, <1>6 DEF Gap, NextUnread, Slot, Index, TypeOK
  <2>2. Count' = FIFO_SIZE
    BY <1>5, <1>6, <2>1 DEF Count
  <2>3. Len(Taken') \in Nat
    BY DEF Taken
  <2> QED
    BY <1>3, <2>2, <2>3
<1>7. CASE rpc = "bump"
  <2>1. Gap' = FIFO_SIZE - 1
    BY <1>1, <1>4, <1>5, <1>7 DEF Gap, NextUnread, Slot, Index, TypeOK
  <2>2. Count' = FIFO_SIZE - 1 /\ Len(Taken') = 1
    BY <1>5, <1>7, <2>1 DEF Count, Taken
  <2> QED
    BY <1>3, <2>2
<1>8. CASE rpc \in {"wrap", "cmp", "clear"}
  <2>1. moved = 0 /\ Gap <= FIFO_SIZE - 2
    BY <1>1, <1>4, <1>5, <1>8 DEF Isr, InCall, IInv, TypeOK, RoomInv
  <2>2. Gap' > 0
    BY <1>4, <2>1
  <2>3. Gap' = 0
    BY <1>1, <1>4, <1>5, <1>8 DEF Gap, NextUnread, Slot, Index, TypeOK
  <2> QED
    BY <2>2, <2>3
<1> QED
  BY <1>1, <1>5, <1>6, <1>7, <1>8 DEF TypeOK

-----------------------------------------------------------------------------
(* The FIFO as elm.c uses it is the FIFO of RxFifo.                        *)

\* Every step of the link is a step of the FIFO or leaves it alone.
LEMMA FifoStep ==
  ASSUME ShapeInv, [ElmNext]_allVars
  PROVE  [Next]_vars
<1>1. CASE DevSend
  <2>1. Head(dev) \in Byte
    BY <1>1, HeadTailProperties DEF DevSend, ShapeInv
  <2> QED
    BY <1>1, <2>1 DEF DevSend, Next
<1>2. CASE ElmIsr
  BY <1>2 DEF ElmIsr, Next
<1>3. CASE Main
  BY <1>3 DEF Main, ElmWrite, ElmPoll, ElmCall, ElmStore, ElmReturn, Next, ReadStep
<1>4. CASE ElmPollSticks
  BY <1>4 DEF ElmPollSticks
<1>5. CASE UNCHANGED allVars
  BY <1>5 DEF allVars
<1> QED
  BY <1>1, <1>2, <1>3, <1>4, <1>5 DEF ElmNext

\* Every step but the load and that of the handler leaves the pending bytes alone.
LEMMA PendingKept ==
  ASSUME IInv, ShapeInv, [ElmNext]_allVars, ~Isr, ~ReadLoad
  PROVE  Pending' = Pending
  BY FifoStep, PendingUnchanged

-----------------------------------------------------------------------------
(* The steps that move a border.                                           *)

\* A character that comes in is not lost: the USART is empty, since a FULL FIFO
\* would have all there is.
LEMMA DevSendMoves ==
  ASSUME ElmInv, DevSend
  PROVE  Stream' = Stream /\ ~overrun' /\ f_status # "FULL"
<1>1. rx = << >> /\ f_status # "FULL"
  BY DEF DevSend, Arrive, ElmInv, FullInv
<1>2. rx' = Append(rx, Head(dev)) /\ UNCHANGED overrun /\ dev' = Tail(dev)
  BY <1>1, UsartDepthAssumption DEF DevSend, Arrive
<1>3. buf' = buf /\ Taken' = Taken
  BY DEF DevSend, Arrive, readVars, Taken
<1>4. Pending' = Pending
  <2>1. ~Isr /\ ~ReadLoad
    BY <1>2, <1>1 DEF DevSend, Arrive, Isr, ReadLoad, readVars
  <2> QED
    BY <2>1, PendingKept DEF ElmInv, ElmNext
<1>5. dev \in Seq(Byte) /\ dev # << >>
  BY DEF DevSend, ElmInv, ShapeInv
<1>6. Stream' = (((buf \o Taken) \o Pending) \o Append(rx, Head(dev))) \o Tail(dev)
  BY <1>2, <1>3, <1>4 DEF Stream
<1>7. Stream' = Stream
  <2> DEFINE a == (buf \o Taken) \o Pending
  <2>1. a \in Seq(Byte) /\ rx \in Seq(Byte)
    BY StreamParts DEF Parts, ElmInv
  <2>2. (a \o Append(rx, Head(dev))) \o Tail(dev) = (a \o rx) \o dev
    BY <1>5, <2>1, MoveBorder, Zenon
  <2> QED
    BY <1>6, <2>2 DEF Stream
<1> QED
  BY <1>1, <1>2, <1>7 DEF ElmInv, NothingLost

\* The handler moves the first character of the USART to the end of the FIFO.
LEMMA IsrMoves ==
  ASSUME ElmInv, ElmIsr
  PROVE  Stream' = Stream /\ ~overrun'
<1>1. /\ rx # << >> /\ rx' = Tail(rx) /\ ~overrun'
      /\ buf' = buf /\ dev' = dev /\ Taken' = Taken
  BY DEF ElmIsr, Isr, elmVars, Taken
<1>2. Pending' = Append(Pending, Head(rx))
  BY PendingAfterWrite DEF ElmInv, ElmIsr
<1>3. Stream' = (((buf \o Taken) \o Append(Pending, Head(rx))) \o Tail(rx)) \o dev
  BY <1>1, <1>2 DEF Stream
<1> DEFINE a == buf \o Taken
<1>4. a \in Seq(Byte) /\ Pending \in Seq(Byte) /\ rx \in Seq(Byte)
  BY StreamParts DEF Parts, ElmInv
<1>5. (a \o Append(Pending, Head(rx))) \o Tail(rx) = (a \o Pending) \o rx
  BY <1>1, <1>4, MoveBorder, Zenon
<1> QED
  BY <1>1, <1>3, <1>5 DEF Stream

\* The load takes the first byte out of the FIFO.
LEMMA LoadMoves ==
  ASSUME ElmInv, ReadLoad, UNCHANGED elmVars
  PROVE  Stream' = Stream
<1>1. Pending # << >> /\ ch' = Head(Pending) /\ Pending' = Tail(Pending)
  BY PendingAfterLoad DEF ElmInv
<1>2. Taken = << >> /\ Taken' = <<Head(Pending)>>
  BY <1>1 DEF ReadLoad, Taken
<1>3. Taken' = Append(Taken, Head(Pending))
  BY <1>2
<1>4. rx' = rx /\ dev' = dev /\ buf' = buf
  BY DEF ReadLoad, elmVars
<1>5. Stream' = (((buf \o Append(Taken, Head(Pending))) \o Tail(Pending)) \o rx) \o dev
  BY <1>1, <1>3, <1>4 DEF Stream
<1>6. buf \in Seq(Byte) /\ Taken \in Seq(Byte) /\ Pending \in Seq(Byte)
  BY StreamParts DEF Parts, ElmInv, ShapeInv
<1>7. (buf \o Append(Taken, Head(Pending))) \o Tail(Pending) = (buf \o Taken) \o Pending
  BY <1>1, <1>6, MoveBorder, Zenon
<1> QED
  BY <1>5, <1>7 DEF Stream

\* elm_read stores the byte behind those it has.
LEMMA StoreMoves ==
  ASSUME ElmInv, ElmStore
  PROVE  /\ Stream' = Stream /\ buf' \in Seq(Byte)
         /\ Taken' = << >> /\ Pending' = Pending /\ UNCHANGED <<rx, dev, f_status>>
<1>1. Taken = <<ch>> /\ Taken' = << >> /\ UNCHANGED <<rx, dev, f_status>>
  BY DEF ElmStore, ReadReturn, Taken, fifoVars
<1>2. buf \in Seq(Byte) /\ ch \in Byte /\ buf' = Append(buf, ch)
  BY DEF ElmStore, ElmInv, ShapeInv, IInv, TypeOK
<1>3. Pending' = Pending
  <2>1. ~Isr /\ ~ReadLoad
    BY DEF ElmStore, ReadReturn, Isr, ReadLoad
  <2> QED
    BY <2>1, PendingKept DEF ElmInv, ElmNext, Main
<1>4. buf' \in Seq(Byte) /\ buf' \o Taken' = buf \o Taken
  BY <1>1, <1>2, AppendIsConcat, AppendProperties, ConcatEmptySeq
<1> QED
  BY <1>1, <1>3, <1>4 DEF Stream

\* The other steps within a call of elm_read move nothing.
LEMMA OthersMoveNothing ==
  ASSUME ElmInv, ElmPoll \/ ElmPollSticks \/ (ElmCall /\ ~ReadLoad)
  PROVE  /\ Stream' = Stream /\ Pending' = Pending
         /\ UNCHANGED <<rx, dev, buf, overrun>>
<1>1. /\ UNCHANGED <<rx, dev, buf, overrun>> /\ Taken' = Taken
  BY DEF ElmPoll, ElmPollSticks, ElmCall, ReadTest, ReadBump, ReadWrap, ReadCompare,
         ReadClear, vars, readVars, fifoVars, elmVars, Taken
<1>2. ~Isr /\ ~ReadLoad
  BY <1>1 DEF ElmPoll, ElmPollSticks, ElmCall, ReadLoad, Isr, vars, readVars, ElmInv,
              IInv, TypeOK
<1>3. Pending' = Pending
  BY <1>2, PendingKept DEF ElmInv, ElmNext, Main
<1> QED
  BY <1>1, <1>3 DEF Stream

-----------------------------------------------------------------------------
(* The invariant.                                                          *)

LEMMA PendingAtInit == Init => Pending = << >>
  BY FifoSizeAssumption DEF Init, Pending, Count, Gap, NextUnread, Slot

LEMMA InitElm ==
  ASSUME Fit, ElmInit
  PROVE  ElmInv
<1>1. IInv /\ Pending = << >>
  BY InitInv, PendingAtInit DEF ElmInit
<1>2. ShapeInv
  BY CmdsAssumption, SizeAssumption DEF ElmInit, Init, ShapeInv, Cmds, Fit
<1> QED
  BY <1>1, <1>2 DEF ElmInv, ElmInit, Init, ExchangeInv, QuietInv, Quiet, FullInv,
                    PollHolds, NothingLost

\* In the loop the answer keeps its command.
LEMMA WholeKept ==
  ASSUME Whole(Stream), Stream' = Stream, cmd' = cmd
  PROVE  Whole(Stream)'
  BY DEF Whole

LEMMA StepDevSend ==
  ASSUME ElmInv, IInv', DevSend
  PROVE  ElmInv'
<1>1. Stream' = Stream /\ ~overrun' /\ f_status # "FULL"
  BY DevSendMoves
<1>2. /\ dev # << >> /\ dev' = Tail(dev)
      /\ UNCHANGED <<mpc, cmd, buf, rpc, f_status>>
  BY DEF DevSend, Arrive, fifoVars, readVars
<1>3. dev' \in Seq(Byte)
  BY <1>2, HeadTailProperties DEF ElmInv, ShapeInv
<1>4. mpc \in {"poll", "call", "stuck"}
  BY <1>2 DEF ElmInv, ShapeInv, QuietInv, Quiet
<1>5. ExchangeInv'
  BY <1>1, <1>2, <1>4, WholeKept DEF ElmInv, ExchangeInv
<1> QED
  BY <1>1, <1>2, <1>3, <1>4, <1>5
     DEF ElmInv, ShapeInv, QuietInv, FullInv, PollHolds, NothingLost

LEMMA StepElmIsr ==
  ASSUME ElmInv, IInv', ElmIsr
  PROVE  ElmInv'
<1>1. Stream' = Stream /\ ~overrun'
  BY IsrMoves
<1>2. /\ rx # << >> /\ UNCHANGED <<mpc, cmd, buf, dev, rpc>>
      /\ f_status' # "EMPTY"
  BY DEF ElmIsr, Isr, FifoWrite, Written, elmVars
<1>3. mpc \in {"poll", "call", "stuck"}
  BY <1>2 DEF ElmInv, ShapeInv, QuietInv, Quiet
<1>4. ExchangeInv'
  BY <1>1, <1>2, <1>3, WholeKept DEF ElmInv, ExchangeInv
<1>5. ShapeInv'
  BY <1>2 DEF ElmInv, ShapeInv
<1>6. FullInv'
  <2> SUFFICES ASSUME f_status' = "FULL"
               PROVE  rx' = << >> /\ dev' = << >>
    BY DEF FullInv
  <2>1. Len(Taken') + Len(Pending') >= FIFO_SIZE
    BY FullHoldsAll DEF ElmInv, ElmIsr
  <2>2. /\ Taken' \in Seq(Byte) /\ Pending' \in Seq(Byte) /\ rx' \in Seq(Byte)
        /\ Len(Stream') =
             Len(buf') + Len(Taken') + Len(Pending') + Len(rx') + Len(dev')
    <3>1. IInv' /\ ShapeInv'
      BY <1>5
    <3>2. Parts'
      BY <3>1, StreamParts, PTL
    <3> QED
      BY <3>2 DEF Parts
  <2>3. Len(Stream') <= FIFO_SIZE /\ buf' \in Seq(Byte) /\ dev' \in Seq(Byte)
    BY <1>1, <1>3, <1>5 DEF ElmInv, ExchangeInv, Whole, ShapeInv
  <2>4. Len(rx') = 0 /\ Len(dev') = 0
    BY <2>1, <2>2, <2>3, FifoSizeAssumption
  <2> QED
    BY <2>2, <2>3, <2>4
<1> QED
  BY <1>1, <1>2, <1>3, <1>4, <1>5, <1>6
     DEF ElmInv, QuietInv, PollHolds, NothingLost

LEMMA StepInitialize ==
  ASSUME ElmInv, IInv', InitializeFifo, UNCHANGED elmVars
  PROVE  ElmInv'
<1>1. /\ mpc = "send" /\ rpc' = "idle"
      /\ UNCHANGED <<mpc, cmd, buf, dev, rx, overrun>>
  BY DEF InitializeFifo, ElmInv, ShapeInv, elmVars
<1>2. Pending' = Pending
  <2>1. ~Isr /\ ~ReadLoad
    BY DEF InitializeFifo, ReadLoad, Isr, ElmInv, IInv, BootInv, FifoWrite, Room
  <2> QED
    BY <2>1, PendingKept DEF ElmInv, ElmNext, Main
<1> QED
  BY <1>1, <1>2 DEF ElmInv, ShapeInv, ExchangeInv, QuietInv, Quiet, FullInv, PollHolds,
                    NothingLost

\* An idle FIFO with nothing in it is not FULL.
LEMMA QuietNotFull ==
  ASSUME IInv, rpc = "idle", Pending = << >>
  PROVE  f_status # "FULL"
<1>1. Count = 0
  BY PendingType DEF IInv, PendingShape
<1> QED
  BY <1>1, FifoSizeAssumption DEF Count

LEMMA StepWrite ==
  ASSUME Fit, ElmInv, IInv', ElmWrite
  PROVE  ElmInv'
<1>1. /\ mpc = "send" /\ mpc' = "poll" /\ rpc = "idle" /\ buf' = << >>
      /\ UNCHANGED <<vars, cmd>> /\ Quiet
  BY DEF ElmWrite, Blank, ElmInv, QuietInv
<1>2. PICK answer \in Answers : dev' = DevAnswer(answer)
  BY DEF ElmWrite
<1>3. /\ Len(answer) \in 1 .. FIFO_SIZE
      /\ Len(answer) <= ReadSize /\ Len(answer) < ArraySize
      /\ \A i \in 1 .. Len(answer) :
            answer[i] = IF i = Len(answer) THEN "prompt" ELSE "data"
      /\ DOMAIN answer = 1 .. Len(answer)
  BY AnswersAssumption DEF Fit
<1> DEFINE sent == [i \in 1 .. Len(answer) |-> <<cmd, answer[i]>>]
<1>4. sent \in Seq(Byte) /\ Len(sent) = Len(answer)
  <2>1. \A i \in 1 .. Len(answer) : <<cmd, answer[i]>> \in Byte
    BY <1>3, ByteAssumption DEF ElmInv, ShapeInv, Kinds
  <2>2. sent \in [1 .. Len(answer) -> Byte]
    BY <2>1
  <2>3. Len(answer) \in Nat
    BY AnswersAssumption
  <2> HIDE DEF sent
  <2> QED
    BY <2>2, <2>3
<1>5. dev' = sent
  <2>1. dev' = << >> \o sent
    BY <1>1, <1>2, <1>3 DEF DevAnswer, Quiet
  <2> HIDE DEF sent
  <2> QED
    BY <1>4, <2>1, ConcatEmptySeq
<1>6. Pending' = << >> /\ rx' = << >> /\ Taken' = << >> /\ f_status' # "FULL"
  <2>1. Pending' = Pending
    BY <1>1 DEF vars, fifoVars, readVars, Pending, Count, Gap, NextUnread, Slot
  <2> QED
    BY <1>1, <2>1, QuietNotFull DEF Quiet, vars, fifoVars, readVars, Taken, ElmInv
<1>7. Stream' = dev'
  <2>1. << >> \in Seq(Byte)
    OBVIOUS
  <2>2. << >> \o << >> = << >> /\ << >> \o dev' = dev'
    BY <1>4, <1>5, <2>1, ConcatEmptySeq
  <2> QED
    BY <1>1, <1>6, <2>2 DEF Stream
<1>8. Whole(Stream)'
  BY <1>1, <1>3, <1>4, <1>5, <1>7 DEF Whole
<1>9. ShapeInv'
  BY <1>1, <1>4, <1>5 DEF ElmInv, ShapeInv, vars, readVars, Fit
<1> QED
  BY <1>1, <1>6, <1>8, <1>9
     DEF ElmInv, ExchangeInv, QuietInv, FullInv, PollHolds, NothingLost, vars

\* ElmPoll, ElmPollSticks, and the steps of a call that load nothing
LEMMA StepOther ==
  ASSUME ElmInv, IInv', ElmPoll \/ ElmPollSticks \/ (ElmCall /\ ~ReadLoad)
  PROVE  ElmInv'
<1>1. Stream' = Stream /\ UNCHANGED <<rx, dev, buf, overrun>>
  BY OthersMoveNothing
<1>2. /\ cmd' = cmd /\ mpc \in {"poll", "call"} /\ mpc' \in {"poll", "call", "stuck"}
      /\ rpc' \notin {"boot", "idle"} => mpc' = "call"
      /\ rpc' # "boot"
      /\ f_status' = "FULL" => f_status = "FULL"
      /\ mpc' = "call" /\ rpc' = "idle" => f_status' # "EMPTY"
  BY DEF ElmPoll, ElmPollSticks, ElmCall, ReadTest, ReadBump, ReadWrap, ReadCompare,
         ReadClear, DrainedStatus, DataReady, vars, fifoVars, readVars, elmVars
<1>3. ExchangeInv'
  BY <1>1, <1>2, WholeKept DEF ElmInv, ExchangeInv
<1> QED
  BY <1>1, <1>2, <1>3
     DEF ElmInv, ShapeInv, QuietInv, FullInv, PollHolds, NothingLost

LEMMA StepLoad ==
  ASSUME ElmInv, IInv', ElmCall, ReadLoad
  PROVE  ElmInv'
<1>1. Stream' = Stream /\ UNCHANGED <<rx, dev, buf, overrun, cmd, mpc, f_status>>
  BY LoadMoves DEF ElmCall, ReadLoad, fifoVars, elmVars
<1>2. mpc = "call" /\ rpc' = "bump"
  BY DEF ElmCall, ReadLoad
<1>3. ExchangeInv'
  BY <1>1, <1>2, WholeKept DEF ElmInv, ExchangeInv
<1> QED
  BY <1>1, <1>2, <1>3
     DEF ElmInv, ShapeInv, QuietInv, FullInv, PollHolds, NothingLost

\* When elm_read leaves its loop it has the answer to its prompt, and nothing is
\* behind it.
LEMMA LeavesWithAll ==
  ASSUME buf \in Seq(Byte), Taken = << >>, Parts, dev \in Seq(Byte),
         Whole(Stream), Leaves(buf)
  PROVE  Quiet /\ Whole(buf)
<1>1. /\ Len(buf) \in Nat /\ Len(Pending) \in Nat /\ Len(rx) \in Nat
      /\ Len(dev) \in Nat /\ Len(Taken) = 0
      /\ Len(Stream) = Len(buf) + Len(Pending) + Len(rx) + Len(dev)
      /\ Pending \in Seq(Byte) /\ rx \in Seq(Byte)
  BY DEF Parts
<1>2. \A i \in 1 .. Len(buf) : Stream[i] = buf[i]
  <2> DEFINE a == buf \o Taken
             b == a \o Pending
             c == b \o rx
  <2>1. /\ a \in Seq(Byte) /\ Len(a) = Len(buf)
        /\ \A i \in 1 .. Len(buf) : a[i] = buf[i]
    BY ConcatEmptySeq
  <2>2. /\ b \in Seq(Byte) /\ Len(b) = Len(buf) + Len(Pending)
        /\ \A i \in 1 .. Len(buf) : b[i] = a[i]
    <3>1. /\ a \o Pending \in Seq(Byte) /\ Len(a \o Pending) = Len(a) + Len(Pending)
          /\ \A i \in 1 .. Len(a) : (a \o Pending)[i] = a[i]
      <4> HIDE DEF a
      <4> QED
        BY <1>1, <2>1, PrefixKept, Zenon
    <3>2. b = a \o Pending
      OBVIOUS
    <3> HIDE DEF a, b
    <3> QED
      BY <1>1, <2>1, <3>1, <3>2
  <2>3. /\ c \in Seq(Byte) /\ Len(c) = Len(buf) + Len(Pending) + Len(rx)
        /\ \A i \in 1 .. Len(buf) : c[i] = b[i]
    <3>1. /\ b \o rx \in Seq(Byte) /\ Len(b \o rx) = Len(b) + Len(rx)
          /\ \A i \in 1 .. Len(b) : (b \o rx)[i] = b[i]
      <4> HIDE DEF b
      <4> QED
        BY <1>1, <2>2, PrefixKept, Zenon
    <3>2. c = b \o rx
      OBVIOUS
    <3> HIDE DEF b, c
    <3> QED
      BY <1>1, <2>2, <3>1, <3>2
  <2>4. \A i \in 1 .. Len(buf) : (c \o dev)[i] = c[i]
    <3> HIDE DEF c
    <3> QED
      BY <1>1, <2>3, PrefixKept
  <2>5. Stream = c \o dev
    BY DEF Stream
  <2> QED
    BY <2>1, <2>2, <2>3, <2>4, <2>5
<1>3. Len(buf) >= Len(Stream)
  <2>1. CASE Len(buf) = ReadSize
    BY <2>1 DEF Whole
  <2>2. CASE ResponseComplete(buf)
    <3>1. PICK i \in 1 .. Len(buf) : buf[i][2] = "prompt"
      BY <2>2 DEF ResponseComplete
    <3>2. i \in 1 .. Len(Stream) /\ Stream[i][2] = "prompt"
      BY <1>1, <1>2, <3>1
    <3>3. Stream[i] = <<cmd, IF i = Len(Stream) THEN "prompt" ELSE "data">>
      BY <3>2 DEF Whole
    <3>4. i = Len(Stream)
      BY <3>2, <3>3
    <3> QED
      BY <1>1, <3>1, <3>4
  <2> QED
    BY <2>1, <2>2 DEF Leaves
<1>4. Len(Pending) = 0 /\ Len(rx) = 0 /\ Len(dev) = 0 /\ Len(Stream) = Len(buf)
  BY <1>1, <1>3
<1>5. Quiet
  BY <1>4 DEF Quiet, Parts
<1> QED
  BY <1>2, <1>4, <1>5 DEF Whole

LEMMA StepStore ==
  ASSUME ElmInv, IInv', ElmStore
  PROVE  ElmInv'
<1>1. /\ Stream' = Stream /\ buf' \in Seq(Byte) /\ Taken' = << >>
      /\ UNCHANGED <<rx, dev, f_status>>
  BY StoreMoves
<1>2. /\ cmd' = cmd /\ rpc' = "idle" /\ overrun' = overrun /\ mpc = "call"
      /\ mpc' = IF Leaves(buf') THEN "done" ELSE "poll"
  BY DEF ElmStore, ReadReturn
<1>3. Whole(Stream)'
  BY <1>1, <1>2, WholeKept DEF ElmInv, ExchangeInv
<1>4. dev' \in Seq(Byte) /\ rx' \in Seq(Byte) /\ Pending' \in Seq(Byte)
  <2>1. Pending' = Pending
    BY StoreMoves
  <2> QED
    BY <1>1, <2>1, StreamParts DEF ElmInv, ShapeInv, Parts
<1>5. Parts'
  <2>1. buf' \o Taken' = buf'
    BY <1>1, ConcatEmptySeq
  <2>2. Taken' \in Seq(Byte) /\ Len(Taken') = 0
    BY <1>1
  <2>3. /\ buf' \o Pending' \in Seq(Byte)
        /\ Len(buf' \o Pending') = Len(buf') + Len(Pending')
    BY <1>1, <1>4, ConcatProperties
  <2>4. /\ (buf' \o Pending') \o rx' \in Seq(Byte)
        /\ Len((buf' \o Pending') \o rx') = Len(buf' \o Pending') + Len(rx')
    BY <1>4, <2>3, ConcatProperties
  <2>5. /\ Stream' = ((buf' \o Pending') \o rx') \o dev'
        /\ Stream' \in Seq(Byte)
        /\ Len(Stream') = Len((buf' \o Pending') \o rx') + Len(dev')
    BY <1>4, <2>1, <2>4, ConcatProperties DEF Stream
  <2> QED
    BY <1>1, <1>4, <2>1, <2>2, <2>3, <2>4, <2>5 DEF Parts
<1>6. ShapeInv'
  <2>1. Len(buf') <= Len(Stream')
    BY <1>1, <1>4, <1>5 DEF Parts
  <2>2. Len(buf') < ArraySize
    BY <1>1, <1>3, <1>5, <2>1, SizeAssumption DEF Whole, Parts
  <2> QED
    BY <1>1, <1>2, <1>4, <2>2 DEF ElmInv, ShapeInv
<1>7. mpc' = "done" => Quiet' /\ Whole(buf)'
  <2>1. Leaves(buf)' => Quiet' /\ Whole(buf)'
    <3>1. /\ (buf \in Seq(Byte))' /\ (Taken = << >>)' /\ Parts'
          /\ (dev \in Seq(Byte))' /\ Whole(Stream)'
      BY <1>1, <1>3, <1>4, <1>5
    <3> QED
      BY <3>1, LeavesWithAll, PTL
  <2>2. Leaves(buf)' = Leaves(buf')
    BY DEF Leaves, ResponseComplete
  <2> QED
    BY <1>2, <2>1, <2>2
<1> QED
  BY <1>1, <1>2, <1>3, <1>6, <1>7
     DEF ElmInv, ExchangeInv, QuietInv, FullInv, PollHolds, NothingLost

LEMMA StepReturn ==
  ASSUME ElmInv, IInv', ElmReturn
  PROVE  ElmInv'
<1>1. /\ mpc = "done" /\ mpc' = "send" /\ cmd' = (cmd + 1) % NCmds
      /\ UNCHANGED <<vars, buf, dev>>
  BY DEF ElmReturn
<1>2. cmd' \in Cmds
  BY <1>1, CmdsAssumption DEF ElmInv, ShapeInv, Cmds
<1>3. Pending' = Pending
  BY <1>1 DEF vars, fifoVars, readVars, Pending, Count, Gap, NextUnread, Slot
<1> QED
  BY <1>1, <1>2, <1>3
     DEF ElmInv, ShapeInv, ExchangeInv, QuietInv, Quiet, FullInv, PollHolds,
         NothingLost, vars, fifoVars, readVars

LEMMA ElmNextInv ==
  ASSUME Fit, ElmInv, [ElmNext]_allVars
  PROVE  ElmInv'
<1>1. IInv'
  BY FifoStep, NextInv DEF ElmInv
<1>2. CASE DevSend
  BY <1>1, <1>2, StepDevSend
<1>3. CASE ElmIsr
  BY <1>1, <1>3, StepElmIsr
<1>4. CASE InitializeFifo /\ UNCHANGED elmVars
  BY <1>1, <1>4, StepInitialize
<1>5. CASE ElmWrite
  BY <1>1, <1>5, StepWrite
<1>6. CASE ElmPoll \/ ElmPollSticks \/ (ElmCall /\ ~ReadLoad)
  BY <1>1, <1>6, StepOther
<1>7. CASE ElmCall /\ ReadLoad
  BY <1>1, <1>7, StepLoad
<1>8. CASE ElmStore
  BY <1>1, <1>8, StepStore
<1>9. CASE ElmReturn
  BY <1>1, <1>9, StepReturn
<1>10. CASE UNCHANGED allVars
  <2>1. UNCHANGED <<mpc, cmd, buf, dev, f_status, rx, overrun, rpc>>
    BY <1>10 DEF allVars, elmVars, vars, fifoVars, readVars
  <2>2. Pending' = Pending /\ Taken' = Taken
    BY <1>10 DEF allVars, vars, fifoVars, readVars, Pending, Count, Gap, NextUnread,
                 Slot, Taken
  <2>3. Stream' = Stream
    BY <2>1, <2>2 DEF Stream
  <2>4. ExchangeInv'
    BY <2>1, <2>3, WholeKept DEF ElmInv, ExchangeInv
  <2>5. QuietInv'
    BY <2>1, <2>2 DEF ElmInv, QuietInv, Quiet, Whole
  <2> QED
    BY <1>1, <2>1, <2>4, <2>5 DEF ElmInv, ShapeInv, FullInv, PollHolds, NothingLost
<1> QED
  BY <1>2, <1>3, <1>4, <1>5, <1>6, <1>7, <1>8, <1>9, <1>10 DEF ElmNext, Main

-----------------------------------------------------------------------------
(* What follows for every set of answers that fit.                         *)

\* Every byte of the answer to the current command is somewhere between the device
\* and buf, in order, at every step of the exchange (elm.c:51-104, fifo.c:22-90).
THEOREM ElmInvariance ==
  ASSUME Fit
  PROVE  ElmSpec => []ElmInv
<1>1. ElmInit => ElmInv
  BY InitElm
<1>2. ElmInv /\ [ElmNext]_allVars => ElmInv'
  BY ElmNextInv
<1> QED
  BY <1>1, <1>2, PTL DEF ElmSpec

\* The shape of the state, with the '\0' inside the array (elm.c:84).
THEOREM ElmTypeCorrect ==
  ASSUME Fit
  PROVE  ElmSpec => []ElmTypeOK
<1>1. ElmInv => ElmTypeOK
  BY DEF ElmInv, IInv, ShapeInv, ElmTypeOK
<1> QED
  BY <1>1, ElmInvariance, PTL

\* What elm_command returns is the answer to its own command, up to its prompt
\* (elm.c:93-104).
THEOREM OwnAnswer ==
  ASSUME Fit
  PROVE  ElmSpec => []Attribution
<1>1. ElmInv => Attribution
  <2> SUFFICES ASSUME ElmInv, mpc = "done"
               PROVE  /\ ResponseComplete(buf)
                      /\ \A i \in DOMAIN buf : buf[i][1] = cmd
    BY DEF Attribution
  <2>1. /\ buf \in Seq(Byte) /\ Len(buf) \in 1 .. FIFO_SIZE
        /\ \A i \in 1 .. Len(buf) :
             buf[i] = <<cmd, IF i = Len(buf) THEN "prompt" ELSE "data">>
    BY DEF ElmInv, QuietInv, Whole
  <2>2. DOMAIN buf = 1 .. Len(buf) /\ Len(buf) \in 1 .. Len(buf)
    BY <2>1, FifoSizeAssumption
  <2> DEFINE n == Len(buf)
  <2>3. buf[n] = <<cmd, "prompt">>
    BY <2>1, <2>2
  <2>4. \A k \in 1 .. n - 1 : buf[k] = <<cmd, "data">>
    <3>1. n \in Nat
      BY <2>1
    <3>2. \A k \in 1 .. n : buf[k] = <<cmd, IF k = n THEN "prompt" ELSE "data">>
      BY <2>1
    <3> HIDE DEF n
    <3>3. \A k \in 1 .. n - 1 : k \in 1 .. n /\ k # n
      BY <3>1
    <3> QED
      BY <3>2, <3>3
  <2>5. /\ buf[Len(buf)][2] = "prompt"
        /\ \A k \in 1 .. Len(buf) - 1 : buf[k][2] # "nul"
    BY <2>3, <2>4
  <2>6. ResponseComplete(buf)
    BY <2>2, <2>5 DEF ResponseComplete
  <2>7. \A i \in 1 .. Len(buf) : buf[i][1] = cmd
    BY <2>1
  <2> QED
    BY <2>2, <2>6, <2>7
<1> QED
  BY <1>1, ElmInvariance, PTL

\* Nothing of an earlier answer is under way when a command is sent
\* (elm.c:93-104).
THEOREM QuietWhenSent ==
  ASSUME Fit
  PROVE  ElmSpec => []LineQuiet
<1>1. ElmInv => LineQuiet
  BY DEF ElmInv, QuietInv, Quiet, LineQuiet
<1> QED
  BY <1>1, ElmInvariance, PTL

\* The FIFO does not become empty between the poll and the test of
\* fifo_read_byte (elm.c:71-76).
THEOREM PollIsValid ==
  ASSUME Fit
  PROVE  ElmSpec => []PollHolds
<1>1. ElmInv => PollHolds
  BY DEF ElmInv
<1> QED
  BY <1>1, ElmInvariance, PTL

\* No character of an answer that is no longer than the FIFO is lost in the USART
\* (main.c:215-217, fifo.c:46).
THEOREM LosesNothing ==
  ASSUME Fit
  PROVE  ElmSpec => []NothingLost
<1>1. ElmInv => NothingLost
  BY DEF ElmInv
<1> QED
  BY <1>1, ElmInvariance, PTL

\* Under the link the FIFO behaves as RxFifo says, and so is the queue of
\* ByteQueue (elm.c:65-91 over fifo.c).
THEOREM LinkUsesFifo ==
  ASSUME Fit
  PROVE  ElmSpec => Spec /\ QueueSpec
<1>1. ElmInv /\ [ElmNext]_allVars => [Next]_vars
  BY FifoStep DEF ElmInv
<1>2. ElmInit => Init
  BY DEF ElmInit
<1> QED
  BY <1>1, <1>2, ElmInvariance, Implements, PTL DEF ElmSpec, Spec
=============================================================================

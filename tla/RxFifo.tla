------------------------------- MODULE RxFifo -------------------------------
(***************************************************************************)
(* The receive FIFO of fifo.c as the program runs it: the interrupt        *)
(* handler of main.c (ISR(USART1_RX_vect)) writes, the main program reads, *)
(* and nothing in fifo_read_byte keeps the handler out.  The handler runs  *)
(* to completion, so a write is one step; a read is one step for each      *)
(* access to the shared structure, so that the handler may run in between. *)
(* The steps are those of the source: a compiler that merges the two       *)
(* stores to f_tail only removes interleavings.                            *)
(*                                                                         *)
(* Definitions named Mut_* are plausible bugs of the definition that       *)
(* follows them, used only to see that the properties can be broken.       *)
(***************************************************************************)
EXTENDS Naturals, Sequences

CONSTANTS
  Byte, Zero,   \* byte values, and the one cleared memory holds
  FIFO_SIZE,    \* 64 in fifo.h
  UsartDepth,   \* characters the USART keeps while nobody reads UDR1
  Burst         \* characters the handler may store during one read call

ASSUME ZeroAssumption == Zero \in Byte
ASSUME FifoSizeAssumption == FIFO_SIZE \in 2 .. 255      \* indices are uint8_t
ASSUME UsartDepthAssumption == UsartDepth \in Nat \ {0}
\* At 38400 baud and 7.3728 MHz a character takes 1920 cycles; a call of
\* fifo_read_byte takes some tens of cycles, so at most one character is
\* stored while it runs.
ASSUME BurstAssumption == Burst \in 0 .. 1

VARIABLES
  f_buf, f_head, f_tail, f_status,   \* struct fifo_t
  rx,        \* the characters in the USART, the one UDR1 yields first
  overrun,   \* the USART's data overrun flag
  rpc,       \* the next step of the reader
  ch,        \* the byte the last fifo_read_byte stored through its pointer
  moved      \* characters stored by the handler since the read call began

fifoVars == <<f_buf, f_head, f_tail, f_status>>
readVars == <<rpc, ch, moved>>
vars     == <<fifoVars, rx, overrun, readVars>>

Index  == 0 .. FIFO_SIZE - 1
Status == {"FULL", "EMPTY", "READY"}

\* The read call is between its first test of f_status and its last store.
InCall == rpc \in {"load", "bump", "wrap", "cmp", "clear"}

\* Cleared memory: f_status is 0, which is FIFO_FULL.
Init ==
  /\ f_buf = [i \in Index |-> Zero]
  /\ f_head = 0 /\ f_tail = 0 /\ f_status = "FULL"
  /\ rx = << >> /\ overrun = FALSE
  /\ rpc = "boot" /\ ch \in Byte /\ moved = 0

-----------------------------------------------------------------------------
(* The USART and its interrupt.  The receive interrupt is enabled before   *)
(* initialize_fifo runs (main.c:87,91).                                    *)

\* A character comes in.  The handler is faster than the line, so one finds
\* the USART occupied only when the handler refuses to read it.
Arrive(b) ==
  /\ rx = << >> \/ f_status = "FULL"
  /\ IF Len(rx) < UsartDepth
       THEN rx' = Append(rx, b) /\ UNCHANGED overrun
       ELSE overrun' = TRUE /\ UNCHANGED rx
  /\ UNCHANGED <<fifoVars, readVars>>

\* fifo_write_byte: whether there is room, where an index that was incremented
\* to i really points, and the status after a write that left f_head at h.
Mut_Room == TRUE
Room == f_status # "FULL"

Mut_Wrapped(i) == IF i = FIFO_SIZE + 1 THEN 0 ELSE i
Wrapped(i) == IF i = FIFO_SIZE THEN 0 ELSE i

Mut_Written(h) == IF h = f_tail THEN "FULL" ELSE f_status
Written(h) == IF h = f_tail THEN "FULL" ELSE "READY"

FifoWrite(b) ==
  LET h == Wrapped(f_head + 1)
  IN  /\ Room
      /\ f_buf' = [f_buf EXCEPT ![f_head] = b]
      /\ f_head' = h
      /\ f_status' = Written(h)
      /\ UNCHANGED f_tail

\* UDR1 is only read, and the interrupt so acknowledged, when there is room
\* by f_status; otherwise the handler returns and nothing has changed.
Isr ==
  /\ rx # << >>
  /\ InCall => moved < Burst
  /\ FifoWrite(Head(rx))
  /\ rx' = Tail(rx)
  /\ overrun' = FALSE
  /\ moved' = IF InCall THEN moved + 1 ELSE moved
  /\ UNCHANGED <<rpc, ch>>

-----------------------------------------------------------------------------
(* The main program.                                                       *)

InitializeFifo ==
  /\ rpc = "boot"
  /\ f_head' = 0 /\ f_tail' = 0 /\ f_status' = "EMPTY"
  /\ rpc' = "idle"
  /\ UNCHANGED <<f_buf, rx, overrun, ch, moved>>

\* fifo_read_byte, one action for each access to the structure.  A call that
\* finds the FIFO empty returns -1 and changes nothing.
ReadTest ==
  /\ rpc = "idle" /\ f_status # "EMPTY"
  /\ rpc' = "load" /\ moved' = 0
  /\ UNCHANGED <<fifoVars, rx, overrun, ch>>

ReadLoad ==
  /\ rpc = "load"
  /\ ch' = f_buf[f_tail]
  /\ rpc' = "bump"
  /\ UNCHANGED <<fifoVars, rx, overrun, moved>>

ReadBump ==
  /\ rpc = "bump"
  /\ f_tail' = f_tail + 1
  /\ rpc' = "wrap"
  /\ UNCHANGED <<f_buf, f_head, f_status, rx, overrun, ch, moved>>

ReadWrap ==
  /\ rpc = "wrap"
  /\ f_tail' = Wrapped(f_tail)
  /\ rpc' = "cmp"
  /\ UNCHANGED <<f_buf, f_head, f_status, rx, overrun, ch, moved>>

Mut_Drained == FALSE
Drained == f_tail = f_head

ReadCompare ==
  /\ rpc = "cmp"
  /\ rpc' = IF Drained THEN "clear" ELSE "ret"
  /\ UNCHANGED <<fifoVars, rx, overrun, ch, moved>>

Mut_DrainedStatus == IF f_status = "FULL" THEN "FULL" ELSE "EMPTY"
DrainedStatus == "EMPTY"

ReadClear ==
  /\ rpc = "clear"
  /\ f_status' = DrainedStatus
  /\ rpc' = "ret"
  /\ UNCHANGED <<f_buf, f_head, f_tail, rx, overrun, ch, moved>>

ReadReturn ==
  /\ rpc = "ret"
  /\ rpc' = "idle" /\ moved' = 0
  /\ UNCHANGED <<fifoVars, rx, overrun, ch>>

ReadStep == \/ ReadTest \/ ReadLoad \/ ReadBump \/ ReadWrap
            \/ ReadCompare \/ ReadClear \/ ReadReturn

Next == (\E b \in Byte : Arrive(b)) \/ Isr \/ InitializeFifo \/ ReadStep

Spec == Init /\ [][Next]_vars

\* The interrupt is served, and main polls the FIFO for ever (elm_read).  No
\* fairness of the line: the device may fall silent at any time.
Fairness == WF_vars(Isr) /\ WF_vars(InitializeFifo) /\ WF_vars(ReadStep)
FairSpec == Spec /\ Fairness

-----------------------------------------------------------------------------
(* What the structure stands for.                                          *)

Slot(i, n) == IF i + n < FIFO_SIZE THEN i + n ELSE i + n - FIFO_SIZE

\* The slot of the next unread byte: the byte is taken when it is loaded, a
\* step before f_tail moves, and f_tail is FIFO_SIZE just before it wraps.
NextUnread == Slot(f_tail, IF rpc = "bump" THEN 1 ELSE 0)

Gap == IF f_head < NextUnread THEN f_head + FIFO_SIZE - NextUnread
                              ELSE f_head - NextUnread

\* Equal indices mean no bytes, or FIFO_SIZE of them: f_status tells which,
\* but not before initialize_fifo, and not while a read call is ending.
Count == IF /\ Gap = 0 /\ f_status = "FULL"
            /\ rpc \in {"idle", "load", "ret"}
           THEN FIFO_SIZE ELSE Gap

Pending == [i \in 1 .. Count |-> f_buf[Slot(NextUnread, i - 1)]]

-----------------------------------------------------------------------------
(* Properties.                                                             *)

\* The shape of the state, with the ranges of the two indices: f_head never
\* leaves the buffer, f_tail does so only between its increment and the wrap
\* (fifo.c:77-79).
TypeOK ==
  /\ f_buf \in [Index -> Byte]
  /\ f_head \in Index
  /\ f_tail \in 0 .. FIFO_SIZE /\ (f_tail = FIFO_SIZE => rpc = "wrap")
  /\ f_status \in Status
  /\ rx \in Seq(Byte) /\ overrun \in BOOLEAN
  /\ rpc \in {"boot", "idle", "load", "bump", "wrap", "cmp", "clear", "ret"}
  /\ ch \in Byte /\ moved \in 0 .. Burst

\* fifo_read_byte and the handler together are a queue: whatever the handler
\* stored is handed to the reader once, in order, wherever in a read the
\* interrupt hits (fifo.c:22-90, main.c:215-217).
Queue == INSTANCE ByteQueue WITH q <- Pending, out <- ch, Capacity <- FIFO_SIZE
QueueSpec == Queue!Spec

\* A reader that sees a status other than EMPTY gets a byte that was received,
\* never a stale slot (fifo.c:70-74, and the poll in elm.c:71).
NotEmptyMeansReadable ==
  rpc \in {"idle", "load"} /\ f_status # "EMPTY" => Count > 0

\* An interrupt between the comparison of the indices and the store of EMPTY
\* (fifo.c:82-83) hides a byte, but never more than the handler stored during
\* that one call: an EMPTY FIFO holds at most Burst bytes.
HiddenBound == rpc = "idle" /\ f_status = "EMPTY" => Count <= Burst

\* FIFO_FULL means "refusing": fifo_read_byte never turns FULL into READY, so
\* a FIFO that has been full takes no byte before it is drained completely
\* (fifo.c:82-83).
FullUntilDrained ==
  [][f_status = "FULL" /\ f_status' # "FULL" => Count' = 0]_vars

\* The way out of FULL exists: a polled FIFO that has been full accepts
\* characters again, although every one that arrives meanwhile is refused.
FullIsLeft == f_status = "FULL" ~> f_status # "FULL"

\* A byte with more than Burst bytes in the FIFO is read even if nothing more
\* arrives: the race of fifo.c:82-83 delays the last byte received only.
BacklogIsRead == Count > Burst ~> rpc = "load"

\* fifo.c:61 and :88, "if fifo is empty, return -1", "fifo empty, nothing to
\* read": a read is refused only when nothing is there.
RefusedOnlyWhenEmpty == rpc = "idle" /\ f_status = "EMPTY" => Count = 0
=============================================================================

--------------------------- MODULE SdDriverProofs ---------------------------
(***************************************************************************)
(* Proofs about SdDriver, for every set of cards, every number and size of *)
(* sectors and every bound of the driver's loops.  What the calls promise  *)
(* hangs together by one thing: which call is under way at which step, and *)
(* what the card can have on its line there.                               *)
(***************************************************************************)
EXTENDS SdDriver, SequenceTheorems, TLAPS

\* The steps of each call.  A command is one of a call, also while the driver waits
\* to send it.
Commanding == pc \in {"send", "reply", "answered"} \/ (pc = "busy" /\ then = "send")

FlowInv ==
  /\ Commanding => call = IF cmd = "CMD24" THEN "put" ELSE "init"
  /\ pc \in {"retry", "type"} => call = "init"
  /\ pc \in {"read", "token", "bytes"} => call = "get"
  /\ pc \in {"block", "ack"} => call = "put"
  /\ pc = "close" => call \in {"get", "put"}
  /\ pc = "busy" => /\ then \in {"send", "retry", "type", "read", "close"}
                    /\ then \in {"retry", "type"} => call = "init"
                    /\ then = "read" => call = "get"
                    /\ then = "close" => call \in {"get", "put"}
  /\ pc \in {"reply", "answered", "busy", "read", "token", "bytes", "block", "ack"}
       => cs = "low"

\* The card waits for a block only while a call puts one, and for the sector at the
\* address of that call.
RecvInv == recv # Nobody =>
             kind # "none" /\ call = "put" /\ recv \in Addressed(addr)

\* Where a card can be busy: before a start has found out, in the wait for its
\* response, and in a wait for it to be done, with nothing else on the line.
BusyInv ==
  busy => /\ kind # "none"
          /\ \/ call \in {"none", "init"}
             \/ pc = "ack"
             \/ pc = "busy" /\ call \in {"get", "put"} /\ out = << >>

Stored == /\ Addressed(addr) # {}
          /\ \A s \in Addressed(addr) : card[s] = buf

\* The only response that is taken for "accepted" follows a block that was stored.
StoredInv ==
  /\ pc = "ack" => \/ out \in {<< >>, <<11>>, <<13>>}
                   \/ out = <<5>> /\ Stored
  /\ call = "put" /\ (pc = "close" \/ (pc = "busy" /\ then = "close"))
       => ret \in {"ok", "err"} /\ (ret = "ok" => Stored)
  /\ call = "put" /\ pc = "idle" /\ ret = "ok" => Stored

CardInv == DOMAIN card = Sector

\* Behind place n of the line come the bytes of the sector addressed.
DataAt(line, n) ==
  \E s \in Addressed(addr) : \A i \in 1 .. SECTOR_SIZE :
    n + i <= Len(line) /\ line[n + i] = card[s][i]

\* On the line while the driver looks for a token: the first byte that looks like
\* one is one, with the block behind it, and a gap is in front of something.
Ahead(line) ==
  /\ line \in Seq(Nat)
  /\ \A n \in 1 .. Len(line) :
       /\ line[n] = GAP => n < Len(line)
       /\ line[n] = TOKEN /\ (\A m \in 1 .. n - 1 : line[m] # TOKEN) =>
            DataAt(line, n)

\* A read goes from such a line to the block, and from the block to the result.
GetInv ==
  /\ card \in [Sector -> Block] /\ (call = "put" => buf \in Block)
  /\ pc = "token" => Ahead(out)
  /\ pc = "bytes" => kind # "none" /\ out \in Seq(Nat) /\ DataAt(out, 0)
  /\ (call = "get" /\ ret = "ok" /\ (pc \in {"close", "idle"}
                                    \/ (pc = "busy" /\ then = "close")))
       => \E s \in Addressed(addr) : buf = card[s]

\* What every step keeps, whatever is on the line.
SInv == FlowInv /\ RecvInv /\ BusyInv /\ StoredInv /\ CardInv /\ Deselected

-----------------------------------------------------------------------------
\* The state after a power-on is one of these.
LEMMA SInit == Init => SInv
  BY DEF Init, SInv, FlowInv, Commanding, RecvInv, BusyInv, StoredInv, CardInv,
     Deselected, Returned

\* An address is that of one sector at most.
LEMMA OneSector ==
  ASSUME NEW a, NEW s \in Addressed(a), NEW t \in Addressed(a)
  PROVE  s = t
<1>1. CASE kind = "hc"
  BY <1>1 DEF Addressed
<1>2. CASE kind # "hc"
  <2>1. s \in Nat /\ t \in Nat /\ s * SECTOR_SIZE = t * SECTOR_SIZE
    BY <1>2, CardAssumption DEF Addressed, Sector
  <2>2. \A x, y, z \in Nat : z > 0 /\ x * z = y * z => x = y
    OBVIOUS
  <2> QED
    BY <2>1, <2>2, CardAssumption
<1> QED
  BY <1>1, <1>2

\* Only a command to write makes the card wait for a block.
LEMMA AwaitsOnlyAddressed ==
  ASSUME NEW c, NEW a, NEW hcs, Receives(c, a, hcs), recv' # Nobody
  PROVE  kind # "none" /\ c = "CMD24" /\ recv' \in Addressed(a)
  BY DEF Receives, Deaf, Obeys, Plain, Says, GoIdle, SendIfCond, SendOpCond, ReadOcr,
     Transfer, ReadBlock, WriteBlock

\* Each step of the driver, of the card, and each reset keeps it.
LEMMA SNext ==
  ASSUME SInv, [Next]_vars
  PROVE  SInv'
<1> USE DEF R1_READY_STATE
<1>1. CASE InitializeSd
  BY <1>1 DEF InitializeSd, Command, Disable, Abort, fixed, device,
     SInv, FlowInv, Commanding, RecvInv, BusyInv, StoredInv, Stored, Addressed,
     CardInv, Deselected, Returned
<1>2. CASE Reply
  BY <1>2 DEF Reply, fixed, device,
     SInv, FlowInv, Commanding, RecvInv, BusyInv, StoredInv, Stored, Addressed,
     CardInv, Deselected, Returned
<1>3. CASE BusyWait
  <2>1. /\ pc = "busy" /\ cs = "low" /\ pc' \in {then, "busy"}
        /\ UNCHANGED <<then, call, addr, buf, ret, cmd, r1, cs, kind, card, recv, busy>>
    BY <1>3 DEF BusyWait, fixed, SInv, FlowInv
  <2>2. busy /\ out = << >> /\ call \in {"get", "put"} => pc' = "busy" /\ out' = << >>
    BY <1>3, <2>1 DEF BusyWait, Line, Quiet, HIGH, SInv, BusyInv
  <2>3. BusyInv'
    BY <2>1, <2>2 DEF SInv, BusyInv
  <2> QED
    BY <2>1, <2>3 DEF SInv, FlowInv, Commanding, RecvInv, BusyInv, StoredInv, Stored,
       Addressed,
       CardInv, Deselected, Returned
<1>4. CASE GoIdleAnswered
  BY <1>4 DEF GoIdleAnswered, Starting, CommandAfterWait, Retry, Command, Failure,
     Disable, Abort, Bus, ctx, fixed, device,
     SInv, FlowInv, Commanding, RecvInv, BusyInv, StoredInv, Stored, Addressed,
     CardInv, Deselected, Returned
<1>5. CASE SendIfCondAnswered
  BY <1>5 DEF SendIfCondAnswered, Starting, Command, Retry, Failure, Disable, Abort,
     Bus, ctx, fixed, device,
     SInv, FlowInv, Commanding, RecvInv, BusyInv, StoredInv, Stored, Addressed,
     CardInv, Deselected, Returned
<1>6. CASE AppCmdAnswered
  BY <1>6 DEF AppCmdAnswered, Starting, Wait, CommandAfterWait, Bus, ctx, fixed, device,
     SInv, FlowInv, Commanding, RecvInv, BusyInv, StoredInv, Stored, Addressed,
     CardInv, Deselected, Returned
<1>7. CASE SendOpCondAnswered
  BY <1>7 DEF SendOpCondAnswered, Starting, Wait, Bus, ctx, fixed, device,
     SInv, FlowInv, Commanding, RecvInv, BusyInv, StoredInv, Stored, Addressed,
     CardInv, Deselected, Returned
<1>8. CASE AcommandRetry
  BY <1>8 DEF AcommandRetry, Retry, Command, Failure, Disable, Abort, Bus, ctx, fixed,
     device,
     SInv, FlowInv, Commanding, RecvInv, BusyInv, StoredInv, Stored, Addressed,
     CardInv, Deselected, Returned
<1>9. CASE CheckType
  BY <1>9 DEF CheckType, Command, Success, Bus, ctx, fixed, device,
     SInv, FlowInv, Commanding, RecvInv, BusyInv, StoredInv, Stored, Addressed,
     CardInv, Deselected, Returned
<1>10. CASE ReadOcrAnswered
  BY <1>10 DEF ReadOcrAnswered, Starting, Retry, Command, Failure, Disable, Abort,
     Bus, ctx, fixed, device,
     SInv, FlowInv, Commanding, RecvInv, BusyInv, StoredInv, Stored, Addressed,
     CardInv, Deselected, Returned
<1>11. CASE AwaitToken
  BY <1>11 DEF AwaitToken, fixed, device,
     SInv, FlowInv, Commanding, RecvInv, BusyInv, StoredInv, Stored, Addressed,
     CardInv, Deselected, Returned
<1>12. CASE GetBytes
  BY <1>12 DEF GetBytes, Wait, fixed, device,
     SInv, FlowInv, Commanding, RecvInv, BusyInv, StoredInv, Stored, Addressed,
     CardInv, Deselected, Returned
<1>13. CASE Close
  BY <1>13 DEF Close, Disable, Abort, fixed, device,
     SInv, FlowInv, Commanding, RecvInv, BusyInv, StoredInv, Stored, Addressed,
     CardInv, Deselected, Returned
<1>14. CASE WriteBlockAnswered
  BY <1>14 DEF WriteBlockAnswered, Bus, fixed, device,
     SInv, FlowInv, Commanding, RecvInv, BusyInv, StoredInv, Stored, Addressed,
     CardInv, Deselected, Returned
<1>15. CASE CallGet
  BY <1>15 DEF CallGet, Enable, Abort, Wait, Nobody, fixed, device,
     SInv, FlowInv, Commanding, RecvInv, BusyInv, StoredInv, Stored, Addressed,
     CardInv, Deselected, Returned
<1>16. CASE CallPut
  BY <1>16 DEF CallPut, Enable, Abort, CommandAfterWait, fixed, device,
     SInv, FlowInv, Commanding, RecvInv, BusyInv, StoredInv, Stored, Addressed,
     CardInv, Deselected, Returned
<1>17. CASE CardDone
  BY <1>17 DEF CardDone, control, ctx, fixed, device,
     SInv, FlowInv, Commanding, RecvInv, BusyInv, StoredInv, Stored, Addressed,
     CardInv, Deselected, Returned
<1>18. CASE Reset
  BY <1>18 DEF Reset, fixed, device,
     SInv, FlowInv, Commanding, RecvInv, BusyInv, StoredInv, Stored, Addressed,
     CardInv, Deselected, Returned
<1>19. CASE Send
  <2>1. recv' # Nobody => kind # "none" /\ cmd = "CMD24" /\ recv' \in Addressed(addr)
    BY <1>19, AwaitsOnlyAddressed DEF Send, Argument
  <2> QED
    BY <1>19, <2>1 DEF Send, ctx, fixed,
     SInv, FlowInv, Commanding, RecvInv, BusyInv, StoredInv, Stored, Addressed,
     CardInv, Deselected, Returned
<1>20. CASE StartRead
  <2>1. recv' = Nobody
    BY <1>20 DEF StartRead, Receives, Obeys, Plain, Transfer, ReadBlock
  <2> QED
    BY <1>20, <2>1 DEF StartRead, ctx, fixed,
     SInv, FlowInv, Commanding, RecvInv, BusyInv, StoredInv, Stored, Addressed,
     CardInv, Deselected, Returned
<1>21. CASE PutBytes
  <2>1. /\ call = "put" /\ cs = "low" /\ recv' = Nobody /\ pc' = "ack"
        /\ UNCHANGED <<call, addr, buf, cs, kind>> /\ ~busy
    BY <1>21 DEF PutBytes, fixed, SInv, FlowInv, BusyInv
  <2>2. CASE Stores
    <3>1. /\ recv \in Addressed(addr) /\ card' = [card EXCEPT ![recv] = buf]
          /\ out' = <<5>> \/ out' = << >>
      BY <2>2 DEF Stores, SInv, RecvInv
    <3>2. \A s \in Addressed(addr) : card'[s] = buf
      <4>1. \A s \in Addressed(addr) : s = recv
        BY <3>1, OneSector
      <4>2. recv \in DOMAIN card
        BY <3>1 DEF SInv, CardInv, Addressed
      <4> QED
        BY <3>1, <4>1, <4>2
    <3>3. kind # "none"
      BY <2>2 DEF Stores, SInv, RecvInv
    <3>4. Stored'
      BY <2>1, <3>1, <3>2 DEF Stored, Addressed
    <3>5. CardInv'
      BY <3>1 DEF SInv, CardInv
    <3> QED
      BY <2>1, <3>1, <3>3, <3>4, <3>5
      DEF SInv, FlowInv, Commanding, RecvInv, BusyInv, StoredInv, Deselected
  <2>3. CASE Rejects
    BY <2>1, <2>3 DEF Rejects,
     SInv, FlowInv, Commanding, RecvInv, BusyInv, StoredInv, Stored,
     CardInv, Deselected, Returned
  <2> QED
    BY <1>21, <2>2, <2>3 DEF PutBytes
<1>22. CASE Ack
  <2>1. PICK r \in Line :
          /\ out' = r[2]
          /\ IF IsResponse(r[1])
               THEN /\ Wait("close")
                    /\ ret' = IF Accepted(r[1]) THEN "ok" ELSE "err"
               ELSE \/ Wait("close") /\ ret' = "err"
                    \/ UNCHANGED <<pc, then, ret>>
    BY <1>22 DEF Ack
  <2>2. /\ pc = "ack" /\ call = "put" /\ cs = "low"
        /\ UNCHANGED <<call, addr, buf, cs, kind, card, recv, busy>>
        /\ out \in {<< >>, <<11>>, <<13>>} \/ (out = <<5>> /\ Stored)
    BY <1>22 DEF Ack, fixed, SInv, FlowInv, StoredInv
  <2>3. /\ ~IsResponse(0) /\ ~IsResponse(HIGH) /\ IsResponse(5) /\ IsResponse(11)
        /\ IsResponse(13) /\ ~Accepted(11) /\ ~Accepted(13)
    BY DEF IsResponse, Accepted, HIGH
  <2>4. \/ r[1] \in {0, HIGH} /\ out' = out /\ (kind # "none" => out = << >>)
        \/ out # << >> /\ r[1] = out[1] /\ out' = << >>
    <3>1. CASE kind = "none" \/ out = << >>
      BY <2>1, <2>2, <3>1 DEF Line
    <3>2. ASSUME kind # "none", NEW b \in {5, 11, 13}, out = <<b>>
          PROVE  out # << >> /\ r[1] = out[1] /\ out' = << >>
      <4>1. out # << >> /\ Head(out) = b /\ Tail(out) = << >> /\ b # GAP
        BY <3>2 DEF GAP
      <4>2. Line = {<<b, << >>>>}
        BY <2>2, <3>2, <4>1 DEF Line
      <4> QED
        BY <2>1, <3>2, <4>1, <4>2
    <3> QED
      BY <2>2, <3>1, <3>2
  <2>5. \/ Wait("close") /\ ret' = "err" /\ (kind # "none" => out' = << >>)
        \/ Wait("close") /\ ret' = "ok" /\ out' = << >> /\ Stored
        \/ UNCHANGED <<pc, then, ret, out>>
    BY <2>1, <2>2, <2>3, <2>4
  <2>6. Stored' = Stored
    BY <2>2 DEF Stored, Addressed
  <2> QED
    BY <2>2, <2>5, <2>6
    DEF Wait, SInv, FlowInv, Commanding, RecvInv, BusyInv, StoredInv, CardInv,
        Addressed, Deselected
<1>23. CASE UNCHANGED vars
  BY <1>23 DEF vars, control, ctx, fixed, device,
     SInv, FlowInv, Commanding, RecvInv, BusyInv, StoredInv, Stored, Addressed,
     CardInv, Deselected, Returned
<1> QED
  BY <1>1, <1>2, <1>3, <1>4, <1>5, <1>6, <1>7, <1>8, <1>9, <1>10, <1>11, <1>12, <1>13,
     <1>14, <1>15, <1>16, <1>17, <1>18, <1>19, <1>20, <1>21, <1>22, <1>23
  DEF Next, Driver

\* So it holds in every state of every behaviour.
THEOREM SInvariance == Spec => []SInv
  BY SInit, SNext, PTL DEF Spec

-----------------------------------------------------------------------------
\* Nothing is read yet when the power comes.
LEMMA GInit == Init => GetInv
  BY DEF Init, GetInv

\* A card that is late adds one gap.
LEMMA DelayIsSeq ==
  /\ Delay \in Seq(Nat) /\ Len(Delay) \in {0, 1}
  /\ \A i \in 1 .. Len(Delay) : Delay[i] = GAP
  BY DEF Delay, GAP

\* An answer of one byte has no block behind it, and needs none.
LEMMA ShortAnswer ==
  ASSUME NEW b \in Nat, b # TOKEN, b # GAP
  PROVE  Ahead(Delay \o <<b>>)
<1> DEFINE L == Delay \o <<b>>
<1>1. /\ L \in Seq(Nat) /\ Len(L) = Len(Delay) + 1
      /\ \A i \in 1 .. Len(Delay) + 1 :
           L[i] = IF i <= Len(Delay) THEN Delay[i] ELSE <<b>>[i - Len(Delay)]
  <2>1. Delay \in Seq(Nat) /\ <<b>> \in Seq(Nat) /\ Len(<<b>>) = 1
    BY DelayIsSeq
  <2> QED
    BY <2>1, ConcatProperties
<1>2. \A i \in 1 .. Len(L) : L[i] = IF i < Len(L) THEN GAP ELSE b
  BY <1>1, DelayIsSeq
<1> QED
  BY <1>1, <1>2 DEF Ahead, TOKEN, GAP

\* In the answer to a read the first token is the one before the sector.
LEMMA BlockAnswer ==
  ASSUME NEW s, s \in Addressed(addr), card \in [Sector -> Block], NEW crc \in Crcs
  PROVE  Ahead(Delay \o (<<R1_READY_STATE>> \o Delay \o <<TOKEN>> \o card[s] \o crc))
<1> DEFINE A == <<R1_READY_STATE>> \o Delay
           B == A \o <<TOKEN>>
           C == B \o card[s]
           D == C \o crc
           L == Delay \o D
           d == Len(Delay)
<1>1. /\ card[s] \in Seq(Nat) /\ Len(card[s]) = SECTOR_SIZE
  <2>1. s \in Sector
    BY DEF Addressed
  <2>2. card[s] \in [1 .. SECTOR_SIZE -> Byte]
    BY <2>1 DEF Block
  <2>3. Byte \subseteq Nat
    BY ByteAssumption
  <2>4. card[s] \in [1 .. SECTOR_SIZE -> Nat]
    BY <2>2, <2>3
  <2> QED
    BY <2>4, CardAssumption
<1>2. crc \in Seq(Nat) /\ Len(crc) = 2 /\ crc[2] # GAP
  <2>1. crc = <<255, 0>> \/ crc = <<0, 255>>
    BY DEF Crcs, HIGH
  <2>2. CASE crc = <<255, 0>>
    BY <2>2 DEF GAP
  <2>3. CASE crc = <<0, 255>>
    BY <2>3 DEF GAP
  <2> QED
    BY <2>1, <2>2, <2>3
<1>3. /\ Delay \in Seq(Nat) /\ d \in {0, 1} /\ \A i \in 1 .. d : Delay[i] = GAP
  BY DelayIsSeq
<1>4. /\ A \in Seq(Nat) /\ Len(A) = 1 + d
      /\ \A i \in 1 .. 1 + d : A[i] = IF i <= 1 THEN 0 ELSE Delay[i - 1]
  <2>1. /\ <<R1_READY_STATE>> \in Seq(Nat) /\ Len(<<R1_READY_STATE>>) = 1
        /\ <<R1_READY_STATE>>[1] = 0
    BY DEF R1_READY_STATE
  <2> HIDE DEF d
  <2>2. /\ A \in Seq(Nat) /\ Len(A) = Len(<<R1_READY_STATE>>) + Len(Delay)
        /\ \A i \in 1 .. Len(<<R1_READY_STATE>>) + Len(Delay) : A[i] =
             IF i <= Len(<<R1_READY_STATE>>) THEN <<R1_READY_STATE>>[i]
             ELSE Delay[i - Len(<<R1_READY_STATE>>)]
    BY <2>1, <1>3, ConcatProperties, Zenon
  <2> QED
    BY <2>1, <2>2, <1>3 DEF d
<1>5. /\ B \in Seq(Nat) /\ Len(B) = 2 + d
      /\ \A i \in 1 .. 2 + d : B[i] = IF i <= 1 + d THEN A[i] ELSE TOKEN
  <2>1. <<TOKEN>> \in Seq(Nat) /\ Len(<<TOKEN>>) = 1 /\ <<TOKEN>>[1] = TOKEN
    BY DEF TOKEN
  <2> HIDE DEF A
  <2>2. /\ B \in Seq(Nat) /\ Len(B) = Len(A) + Len(<<TOKEN>>)
        /\ \A i \in 1 .. Len(A) + Len(<<TOKEN>>) : B[i] =
             IF i <= Len(A) THEN A[i] ELSE <<TOKEN>>[i - Len(A)]
    BY <2>1, <1>4, ConcatProperties, Zenon
  <2> QED
    BY <2>1, <2>2, <1>4, <1>3
<1>6. /\ C \in Seq(Nat) /\ Len(C) = 2 + d + SECTOR_SIZE
      /\ \A i \in 1 .. 2 + d + SECTOR_SIZE :
           C[i] = IF i <= 2 + d THEN B[i] ELSE card[s][i - (2 + d)]
  <2> HIDE DEF B
  <2>2. /\ C \in Seq(Nat) /\ Len(C) = Len(B) + Len(card[s])
        /\ \A i \in 1 .. Len(B) + Len(card[s]) : C[i] =
             IF i <= Len(B) THEN B[i] ELSE card[s][i - Len(B)]
    BY <1>1, <1>5, ConcatProperties, Zenon
  <2> QED
    BY <2>2, <1>1, <1>5, <1>3
<1>7. /\ D \in Seq(Nat) /\ Len(D) = 2 + d + SECTOR_SIZE + 2
      /\ \A i \in 1 .. 2 + d + SECTOR_SIZE + 2 :
           D[i] = IF i <= 2 + d + SECTOR_SIZE THEN C[i]
                  ELSE crc[i - (2 + d + SECTOR_SIZE)]
  <2> HIDE DEF C
  <2>2. /\ D \in Seq(Nat) /\ Len(D) = Len(C) + Len(crc)
        /\ \A i \in 1 .. Len(C) + Len(crc) : D[i] =
             IF i <= Len(C) THEN C[i] ELSE crc[i - Len(C)]
    BY <1>2, <1>6, ConcatProperties, Zenon
  <2> QED
    BY <2>2, <1>2, <1>6, <1>3
<1>8. /\ L \in Seq(Nat) /\ Len(L) = 2 + 2 * d + SECTOR_SIZE + 2
      /\ \A i \in 1 .. 2 + 2 * d + SECTOR_SIZE + 2 :
           L[i] = IF i <= d THEN Delay[i] ELSE D[i - d]
  <2> HIDE DEF D
  <2>2. /\ L \in Seq(Nat) /\ Len(L) = Len(Delay) + Len(D)
        /\ \A i \in 1 .. Len(Delay) + Len(D) : L[i] =
             IF i <= Len(Delay) THEN Delay[i] ELSE D[i - Len(Delay)]
    BY <1>3, <1>7, ConcatProperties, Zenon
  <2> HIDE DEF L
  <2>3. d + (2 + d + SECTOR_SIZE + 2) = 2 + 2 * d + SECTOR_SIZE + 2
    BY <1>3, CardAssumption
  <2> QED
    BY <2>2, <2>3, <1>3, <1>7
<1>9. d \in {0, 1} /\ SECTOR_SIZE \in Nat /\ SECTOR_SIZE > 0
  BY <1>3, CardAssumption
<1> HIDE DEF A, B, C, D, L, d
<1>10. \A i \in 1 .. 1 + 2 * d : L[i] \in {0, GAP}
  <2> SUFFICES ASSUME NEW i \in 1 .. 1 + 2 * d PROVE L[i] \in {0, GAP}
    OBVIOUS
  <2>1. i \in 1 .. 2 + 2 * d + SECTOR_SIZE + 2
    BY <1>9
  <2>2. CASE i <= d
    BY <2>1, <2>2, <1>3, <1>8, <1>9
  <2>3. CASE i > d
    <3>1. i - d \in 1 .. 1 + d
      BY <2>3, <1>9
    <3>2. L[i] = D[i - d]
      BY <2>1, <2>3, <1>8, <1>9
    <3>3. D[i - d] = C[i - d] /\ C[i - d] = B[i - d] /\ B[i - d] = A[i - d]
      BY <3>1, <1>5, <1>6, <1>7, <1>9
    <3>4. A[i - d] \in {0, GAP}
      BY <3>1, <1>3, <1>4, <1>9
    <3> QED
      BY <3>2, <3>3, <3>4
  <2> QED
    BY <2>2, <2>3, <1>9
<1>11. L[2 + 2 * d] = TOKEN
  <2>1. L[2 + 2 * d] = D[2 + d] /\ D[2 + d] = C[2 + d] /\ C[2 + d] = B[2 + d]
    <3>1. 2 + 2 * d \in 1 .. 2 + 2 * d + SECTOR_SIZE + 2 /\ ~(2 + 2 * d <= d)
          /\ (2 + 2 * d) - d = 2 + d
      BY <1>9
    <3>2. 2 + d \in 1 .. 2 + d + SECTOR_SIZE /\ 2 + d <= 2 + d
          /\ 2 + d \in 1 .. 2 + d + SECTOR_SIZE + 2 /\ 2 + d <= 2 + d + SECTOR_SIZE
      BY <1>9
    <3>3. L[2 + 2 * d] = D[(2 + 2 * d) - d]
      BY <3>1, <1>8
    <3>4. D[2 + d] = C[2 + d]
      BY <3>2, <1>7
    <3>5. C[2 + d] = B[2 + d]
      BY <3>2, <1>6
    <3> QED
      BY <3>1, <3>3, <3>4, <3>5
  <2> QED
    BY <2>1, <1>5, <1>9
<1>12. \A i \in 1 .. SECTOR_SIZE : L[(2 + 2 * d) + i] = card[s][i]
  <2> TAKE i \in 1 .. SECTOR_SIZE
  <2>1. L[(2 + 2 * d) + i] = D[2 + d + i]
    <3>1. /\ (2 + 2 * d) + i \in 1 .. 2 + 2 * d + SECTOR_SIZE + 2
          /\ ~((2 + 2 * d) + i <= d) /\ ((2 + 2 * d) + i) - d = 2 + d + i
      BY <1>9
    <3>2. L[(2 + 2 * d) + i] = D[((2 + 2 * d) + i) - d]
      BY <3>1, <1>8
    <3> QED
      BY <3>1, <3>2
  <2>2. D[2 + d + i] = C[2 + d + i]
    <3>1. /\ 2 + d + i \in 1 .. 2 + d + SECTOR_SIZE + 2
          /\ 2 + d + i <= 2 + d + SECTOR_SIZE
      BY <1>9
    <3> QED
      BY <3>1, <1>7
  <2>3. C[2 + d + i] = card[s][i]
    <3>1. /\ 2 + d + i \in 1 .. 2 + d + SECTOR_SIZE
          /\ ~(2 + d + i <= 2 + d) /\ (2 + d + i) - (2 + d) = i
      BY <1>9
    <3>2. C[2 + d + i] = card[s][(2 + d + i) - (2 + d)]
      BY <3>1, <1>6
    <3> QED
      BY <3>1, <3>2
  <2> QED
    BY <2>1, <2>2, <2>3
<1>13. L[Len(L)] # GAP
  <2>1. L[Len(L)] = D[2 + d + SECTOR_SIZE + 2]
    <3>1. /\ Len(L) \in 1 .. 2 + 2 * d + SECTOR_SIZE + 2
          /\ ~(Len(L) <= d) /\ Len(L) - d = 2 + d + SECTOR_SIZE + 2
      BY <1>8, <1>9
    <3>2. L[Len(L)] = D[Len(L) - d]
      BY <3>1, <1>8
    <3> QED
      BY <3>1, <3>2
  <2>2. D[2 + d + SECTOR_SIZE + 2] = crc[2]
    <3> DEFINE e == 2 + d + SECTOR_SIZE + 2
    <3>1. /\ e \in 1 .. 2 + d + SECTOR_SIZE + 2
          /\ ~(e <= 2 + d + SECTOR_SIZE) /\ e - (2 + d + SECTOR_SIZE) = 2
      BY <1>9
    <3>2. D[e] = crc[e - (2 + d + SECTOR_SIZE)]
      BY <3>1, <1>7
    <3> QED
      BY <3>1, <3>2
  <2> QED
    BY <2>1, <2>2, <1>2
<1>14. Ahead(L)
  <2>1. ASSUME NEW n \in 1 .. Len(L), L[n] = GAP
        PROVE  n < Len(L)
    BY <2>1, <1>13, <1>8, <1>9
  <2>2. ASSUME NEW n \in 1 .. Len(L), L[n] = TOKEN,
               \A m \in 1 .. n - 1 : L[m] # TOKEN
        PROVE  DataAt(L, n)
    <3>1. n = 2 + 2 * d
      <4>1. ~(n <= 1 + 2 * d)
        BY <2>2, <1>10, <1>9 DEF TOKEN, GAP
      <4>2. ~(n > 2 + 2 * d)
        BY <2>2, <1>11, <1>9, <1>8
      <4> QED
        BY <4>1, <4>2, <1>9, <1>8
    <3>2. \A i \in 1 .. SECTOR_SIZE : n + i <= Len(L) /\ L[n + i] = card[s][i]
      <4>1. ASSUME NEW i \in 1 .. SECTOR_SIZE
            PROVE  (2 + 2 * d) + i <= Len(L)
        BY <1>8, <1>9
      <4> QED
        BY <3>1, <4>1, <1>12
    <3> QED
      BY <3>2 DEF DataAt
  <2> QED
    BY <2>1, <2>2, <1>8 DEF Ahead
<1> QED
  BY <1>14 DEF A, B, C, D, L

\* The command to read leaves on the line what a read may rely on.
LEMMA StartReadPutsData ==
  ASSUME SInv, GetInv, StartRead
  PROVE  Ahead(out')
<1>1. /\ card \in [Sector -> Block]
      /\ \/ out' = << >>
         \/ Transfer("CMD17", addr)
         \/ Plain("garbled", <<IdleBit + 8>>)
  BY DEF GetInv, StartRead, Receives, Obeys, Argument
<1>2. CASE out' = << >>
  BY <1>2 DEF Ahead
<1>3. CASE Plain("garbled", <<IdleBit + 8>>)
  <2>1. out' = Delay \o <<IdleBit + 8>>
    BY <1>3 DEF Plain, Says
  <2>2. IdleBit + 8 \in {8, 9}
    BY DEF IdleBit
  <2>3. IdleBit + 8 \in Nat /\ IdleBit + 8 # TOKEN /\ IdleBit + 8 # GAP
    BY <2>2 DEF TOKEN, GAP
  <2> QED
    BY <2>1, <2>3, ShortAnswer
<1>4. CASE Transfer("CMD17", addr)
  <2>1. \/ out' = Delay \o <<5>>
        \/ out' = Delay \o <<32>>
        \/ \E s \in Addressed(addr) : ReadBlock(s)
    BY <1>4 DEF Transfer, Plain, Says
  <2>2. 5 # TOKEN /\ 5 # GAP /\ 32 # TOKEN /\ 32 # GAP
    BY DEF TOKEN, GAP
  <2>3. CASE \E s \in Addressed(addr) : ReadBlock(s)
    <3>1. PICK s \in Addressed(addr) : \E crc \in Crcs :
            out' = Delay \o (<<R1_READY_STATE>> \o Delay \o <<TOKEN>> \o card[s] \o crc)
      BY <2>3 DEF ReadBlock, Plain, Says
    <3> QED
      BY <3>1, <1>1, BlockAnswer
  <2> QED
    BY <2>1, <2>2, <2>3, ShortAnswer
<1> QED
  BY <1>1, <1>2, <1>3, <1>4

\* Taking the first bytes off a line, when none of them was a token, or when the last
\* of them was.
LEMMA AheadOfTail ==
  ASSUME NEW line, Ahead(line), line # << >>
  PROVE  /\ Tail(line) \in Seq(Nat) /\ Head(line) = line[1]
         /\ Head(line) = TOKEN => DataAt(Tail(line), 0)
         /\ Head(line) = GAP => Tail(line) # << >>
         /\ Head(line) # TOKEN => Ahead(Tail(line))
<1>1. line \in Seq(Nat) /\ Len(line) \in Nat /\ Len(line) > 0
  BY DEF Ahead
<1>2. /\ Tail(line) \in Seq(Nat) /\ Len(Tail(line)) = Len(line) - 1
      /\ \A i \in 1 .. Len(Tail(line)) : Tail(line)[i] = line[i + 1]
      /\ Head(line) = line[1]
  BY <1>1, HeadTailProperties
<1>3. ASSUME NEW n \in 1 .. Len(line), DataAt(line, n)
      PROVE  DataAt(Tail(line), n - 1)
  <2>1. PICK s \in Addressed(addr) : \A i \in 1 .. SECTOR_SIZE :
          n + i <= Len(line) /\ line[n + i] = card[s][i]
    BY <1>3 DEF DataAt
  <2>2. ASSUME NEW i \in 1 .. SECTOR_SIZE
        PROVE  /\ (n - 1) + i <= Len(Tail(line))
               /\ Tail(line)[(n - 1) + i] = card[s][i]
    <3>1. n + i <= Len(line) /\ line[n + i] = card[s][i]
      BY <2>1
    <3>2. (n - 1) + i \in 1 .. Len(Tail(line)) /\ ((n - 1) + i) + 1 = n + i
      BY <3>1, <1>1, <1>2, CardAssumption
    <3>3. Tail(line)[(n - 1) + i] = line[((n - 1) + i) + 1]
      BY <3>2, <1>2
    <3> QED
      BY <3>1, <3>2, <3>3
  <2> QED
    BY <2>2 DEF DataAt
<1>4. Head(line) = TOKEN => DataAt(Tail(line), 0)
  <2>1. SUFFICES ASSUME Head(line) = TOKEN PROVE DataAt(Tail(line), 0)
    OBVIOUS
  <2>2. DataAt(line, 1)
    BY <2>1, <1>1, <1>2 DEF Ahead
  <2>3. DataAt(Tail(line), 1 - 1)
    BY <2>2, <1>1, <1>3
  <2> QED
    BY <2>3
<1>5. Head(line) = GAP => Tail(line) # << >>
  <2>1. Head(line) = GAP => 1 < Len(line)
    BY <1>1, <1>2 DEF Ahead
  <2>2. \A n \in Nat : 1 < n => n - 1 # 0
    OBVIOUS
  <2>3. Len(<< >>) = 0
    BY EmptySeq
  <2> QED
    BY <1>1, <1>2, <2>1, <2>2, <2>3
<1>6. Head(line) # TOKEN => Ahead(Tail(line))
  <2>1. SUFFICES ASSUME line[1] # TOKEN PROVE Ahead(Tail(line))
    BY <1>2
  <2>2. ASSUME NEW n \in 1 .. Len(Tail(line)), Tail(line)[n] = GAP
        PROVE  n < Len(Tail(line))
    BY <2>2, <1>1, <1>2 DEF Ahead
  <2>3. ASSUME NEW n \in 1 .. Len(Tail(line)), Tail(line)[n] = TOKEN,
               \A m \in 1 .. n - 1 : Tail(line)[m] # TOKEN
        PROVE  DataAt(Tail(line), n)
    <3>1. n + 1 \in 1 .. Len(line) /\ line[n + 1] = TOKEN
      BY <2>3, <1>1, <1>2
    <3>2. ASSUME NEW m \in 1 .. (n + 1) - 1 PROVE line[m] # TOKEN
      <4>1. CASE m = 1
        BY <4>1, <2>1
      <4>2. CASE m # 1
        <5>1. m - 1 \in 1 .. n - 1 /\ m - 1 \in 1 .. Len(Tail(line))
          BY <4>2, <1>1, <1>2
        <5>2. Tail(line)[m - 1] = line[(m - 1) + 1] /\ Tail(line)[m - 1] # TOKEN
          BY <5>1, <2>3, <1>2
        <5>3. (m - 1) + 1 = m
          BY <3>1
        <5> QED
          BY <5>2, <5>3
      <4> QED
        BY <4>1, <4>2
    <3>3. DataAt(line, n + 1)
      BY <3>1, <3>2 DEF Ahead
    <3>4. DataAt(Tail(line), (n + 1) - 1)
      BY <3>1, <3>3, <1>3
    <3> QED
      BY <3>4
  <2> QED
    BY <1>2, <2>2, <2>3 DEF Ahead
<1> QED
  BY <1>2, <1>4, <1>5, <1>6

\* Looking for the token (sd.c:192-207) takes bytes off such a line, and leaves the
\* block behind the first one that looks like a token.
LEMMA AwaitTokenMoves ==
  ASSUME SInv, GetInv, AwaitToken
  PROVE  GetInv'
<1>1. /\ pc = "token" /\ call = "get" /\ cs = "low"
      /\ UNCHANGED <<call, addr, buf, kind, card>>
      /\ card \in [Sector -> Block]
      /\ Ahead(out)
  BY DEF AwaitToken, fixed, SInv, FlowInv, GetInv
<1>2. PICK r \in Line :
        /\ out' = r[2]
        /\ IF IsToken(r[1]) THEN pc' = "bytes" /\ ret' = ret
           ELSE (pc' = "close" /\ ret' = "err") \/ pc' = pc
  BY DEF AwaitToken
<1>3. \/ r[1] = HIGH /\ out' = out
      \/ /\ kind # "none" /\ out # << >>
         /\ r[1] = Head(out) /\ out' = Tail(out)
      \/ r[1] = 0 /\ out' = out
      \/ /\ kind # "none" /\ out # << >> /\ Head(out) = GAP
         /\ r[1] = Head(Tail(out)) /\ out' = Tail(Tail(out))
  <2>1. \/ r = <<HIGH, out>>
        \/ r = <<0, out>>
        \/ kind # "none" /\ out # << >> /\ r = <<Head(out), Tail(out)>>
        \/ /\ kind # "none" /\ out # << >> /\ Head(out) = GAP
           /\ r = <<Head(Tail(out)), Tail(Tail(out))>>
    BY <1>1, <1>2 DEF Line
  <2>2. CASE r = <<HIGH, out>>
    BY <1>2, <2>2
  <2>3. CASE r = <<0, out>>
    BY <1>2, <2>3
  <2>4. CASE kind # "none" /\ out # << >> /\ r = <<Head(out), Tail(out)>>
    BY <1>2, <2>4
  <2>5. CASE /\ kind # "none" /\ out # << >> /\ Head(out) = GAP
             /\ r = <<Head(Tail(out)), Tail(Tail(out))>>
    BY <1>2, <2>5
  <2> QED
    BY <2>1, <2>2, <2>3, <2>4, <2>5, Zenon
<1>4. \/ ~IsToken(r[1]) /\ Ahead(out')
      \/ /\ IsToken(r[1]) /\ kind # "none"
         /\ out' \in Seq(Nat) /\ DataAt(out', 0)
  <2>1. CASE r[1] \in {HIGH, 0} /\ out' = out
    BY <2>1, <1>1 DEF IsToken, TOKEN, HIGH
  <2>2. CASE kind # "none" /\ out # << >> /\ r[1] = Head(out) /\ out' = Tail(out)
    BY <2>2, <1>1, AheadOfTail DEF IsToken
  <2>3. CASE /\ kind # "none" /\ out # << >> /\ Head(out) = GAP
             /\ r[1] = Head(Tail(out)) /\ out' = Tail(Tail(out))
    <3>1. Ahead(Tail(out)) /\ Tail(out) # << >>
      BY <2>3, <1>1, AheadOfTail DEF GAP, TOKEN
    <3> QED
      BY <2>3, <3>1, AheadOfTail DEF IsToken
  <2> QED
    BY <1>3, <2>1, <2>2, <2>3
<1>5. CASE ~IsToken(r[1]) /\ Ahead(out')
  <2>1. pc' \in {"token", "close"} /\ (pc' = "close" => ret' = "err")
    BY <1>1, <1>2, <1>5
  <2>2. \A n : (DataAt(out, n))' <=> DataAt(out', n)
    BY <1>1 DEF DataAt, Addressed
  <2>3. (Ahead(out))'
    BY <1>5, <2>2 DEF Ahead
  <2> QED
    BY <1>1, <2>1, <2>3 DEF GetInv
<1>6. CASE IsToken(r[1]) /\ kind # "none" /\ out' \in Seq(Nat) /\ DataAt(out', 0)
  <2>1. pc' = "bytes"
    BY <1>2, <1>6
  <2>2. (DataAt(out, 0))'
    BY <1>1, <1>6 DEF DataAt, Addressed
  <2> QED
    BY <1>1, <1>6, <2>1, <2>2 DEF GetInv
<1> QED
  BY <1>4, <1>5, <1>6

\* Every step keeps what a read relies on: nothing but the driver takes bytes away.
LEMMA GNext ==
  ASSUME SInv, GetInv, [Next]_vars
  PROVE  GetInv'
<1>1. CASE InitializeSd
  BY <1>1 DEF InitializeSd, Command, Disable, Abort, fixed, device,
     SInv, FlowInv, Commanding, GetInv, DataAt, Addressed
<1>2. CASE Reply
  BY <1>2 DEF Reply, fixed, device,
     SInv, FlowInv, Commanding, GetInv, DataAt, Addressed
<1>3. CASE BusyWait
  BY <1>3 DEF BusyWait, fixed, device,
     SInv, FlowInv, Commanding, GetInv, DataAt, Addressed
<1>4. CASE GoIdleAnswered
  BY <1>4 DEF GoIdleAnswered, Starting, CommandAfterWait, Retry, Command, Failure,
     Disable, Abort, Bus, ctx, fixed, device,
     SInv, FlowInv, Commanding, GetInv, DataAt, Addressed
<1>5. CASE SendIfCondAnswered
  BY <1>5 DEF SendIfCondAnswered, Starting, Command, Retry, Failure, Disable, Abort,
     Bus, ctx, fixed, device,
     SInv, FlowInv, Commanding, GetInv, DataAt, Addressed
<1>6. CASE AppCmdAnswered
  BY <1>6 DEF AppCmdAnswered, Starting, Wait, CommandAfterWait, Bus, ctx, fixed, device,
     SInv, FlowInv, Commanding, GetInv, DataAt, Addressed
<1>7. CASE SendOpCondAnswered
  BY <1>7 DEF SendOpCondAnswered, Starting, Wait, Bus, ctx, fixed, device,
     SInv, FlowInv, Commanding, GetInv, DataAt, Addressed
<1>8. CASE AcommandRetry
  BY <1>8 DEF AcommandRetry, Retry, Command, Failure, Disable, Abort, Bus, ctx, fixed,
     device,
     SInv, FlowInv, Commanding, GetInv, DataAt, Addressed
<1>9. CASE CheckType
  BY <1>9 DEF CheckType, Command, Success, Bus, ctx, fixed, device,
     SInv, FlowInv, Commanding, GetInv, DataAt, Addressed
<1>10. CASE ReadOcrAnswered
  BY <1>10 DEF ReadOcrAnswered, Starting, Retry, Command, Failure, Disable, Abort,
     Bus, ctx, fixed, device,
     SInv, FlowInv, Commanding, GetInv, DataAt, Addressed
<1>11. CASE Close
  BY <1>11 DEF Close, Disable, Abort, fixed, device,
     SInv, FlowInv, Commanding, GetInv, DataAt, Addressed
<1>12. CASE WriteBlockAnswered
  BY <1>12 DEF WriteBlockAnswered, Bus, fixed, device,
     SInv, FlowInv, Commanding, GetInv, DataAt, Addressed
<1>13. CASE CallGet
  BY <1>13 DEF CallGet, Enable, Abort, Wait, fixed, device,
     SInv, FlowInv, Commanding, GetInv, DataAt, Addressed
<1>14. CASE CallPut
  BY <1>14 DEF CallPut, Enable, Abort, CommandAfterWait, fixed, device,
     SInv, FlowInv, Commanding, GetInv, DataAt, Addressed
<1>15. CASE CardDone
  BY <1>15 DEF CardDone, control, fixed,
     SInv, FlowInv, Commanding, GetInv, Ahead, DataAt, Addressed
<1>16. CASE Reset
  BY <1>16 DEF Reset, fixed, device,
     SInv, FlowInv, Commanding, GetInv, DataAt, Addressed
<1>17. CASE Ack
  BY <1>17 DEF Ack, Wait, ctx, fixed, device,
     SInv, FlowInv, Commanding, GetInv, DataAt, Addressed
<1>18. CASE Send
  BY <1>18 DEF Send, ctx, fixed, device,
     SInv, FlowInv, Commanding, GetInv, DataAt, Addressed
<1>19. CASE PutBytes
  BY <1>19 DEF PutBytes, Stores, Rejects, fixed,
     SInv, FlowInv, Commanding, GetInv, DataAt, Addressed, RecvInv
<1>20. CASE UNCHANGED vars
  BY <1>20 DEF vars, control, fixed,
     SInv, FlowInv, Commanding, GetInv, Ahead, DataAt, Addressed
<1>21. CASE GetBytes
  <2>1. /\ Stream = out /\ out \in Seq(Nat) /\ call = "get"
        /\ pc = "bytes" /\ pc' = "busy" /\ buf' = Taken(SECTOR_SIZE)
        /\ UNCHANGED <<call, addr, kind, card>>
    BY <1>21 DEF GetBytes, Wait, fixed, Stream, SInv, FlowInv, GetInv
  <2>2. PICK s \in Addressed(addr) : \A i \in 1 .. SECTOR_SIZE :
          0 + i <= Len(out) /\ out[0 + i] = card[s][i]
    BY <2>1 DEF GetInv, DataAt
  <2>3. card[s] \in Block /\ s \in Sector
    BY DEF GetInv, Addressed
  <2>4. \A i \in 1 .. SECTOR_SIZE : i <= Len(out) /\ out[i] = card[s][i]
    BY <2>2, CardAssumption
  <2>5. buf' = [i \in 1 .. SECTOR_SIZE |-> card[s][i]]
    BY <2>1, <2>4 DEF Taken
  <2>6. buf' = card[s]
    BY <2>3, <2>5 DEF Block
  <2> QED
    BY <2>1, <2>6 DEF GetInv, Addressed
<1>22. CASE StartRead
  <2>1. /\ pc = "read" /\ pc' = "token" /\ call = "get"
        /\ UNCHANGED <<then, call, addr, buf, kind, card>>
    BY <1>22 DEF StartRead, fixed, SInv, FlowInv
  <2>2. \A n : (DataAt(out, n))' <=> DataAt(out', n)
    BY <2>1 DEF DataAt, Addressed
  <2>3. Ahead(out')
    BY <1>22, StartReadPutsData
  <2>4. (Ahead(out))'
    BY <2>2, <2>3 DEF Ahead
  <2> QED
    BY <2>1, <2>4 DEF GetInv
<1>23. CASE AwaitToken
  BY <1>23, AwaitTokenMoves DEF GetInv, Addressed, SInv, FlowInv
<1> QED
  BY <1>1, <1>2, <1>3, <1>4, <1>5, <1>6, <1>7, <1>8, <1>9, <1>10, <1>11, <1>12, <1>13,
     <1>14, <1>15, <1>16, <1>17, <1>18, <1>19, <1>20, <1>21, <1>22, <1>23
  DEF Next, Driver

\* So every read finds the block behind the token, in every behaviour.
THEOREM GInvariance == Spec => []GetInv
  BY SInvariance, GInit, GNext, PTL DEF Spec

-----------------------------------------------------------------------------
(* The shape of the state.                                                 *)

\* Bytes and gaps, with a byte at the end
Symbol == 0 .. GAP
Well(line) == line \in Seq(Symbol) /\ (line # << >> => line[Len(line)] # GAP)

\* Where the counters are before the step that counts
Counters ==
  /\ pc = "reply" => tries < MAX_CMD_TRIALS
  /\ pc = "ack" => tries < MaxAck
  /\ pc = "token" => trials <= MaxToken
  /\ call = "init" /\ pc # "idle" => trials <= MAX_CMD_TRIALS

TInv == SdTypeOK /\ Well(out) /\ Counters

\* What ends well is well, whatever is in front of it.
LEMMA WellConcat ==
  ASSUME NEW s \in Seq(Symbol), NEW t, Well(t), t # << >>
  PROVE  Well(s \o t) /\ s \o t # << >>
<1>1. t \in Seq(Symbol) /\ Len(t) \in Nat /\ Len(t) > 0 /\ Len(s) \in Nat
  BY DEF Well
<1>2. /\ s \o t \in Seq(Symbol) /\ Len(s \o t) = Len(s) + Len(t)
      /\ \A i \in 1 .. Len(s) + Len(t) : (s \o t)[i] =
           IF i <= Len(s) THEN s[i] ELSE t[i - Len(s)]
  BY <1>1, ConcatProperties, Zenon
<1> DEFINE u == s \o t
<1>3. u \in Seq(Symbol) /\ Len(u) = Len(s) + Len(t) /\ u[Len(s) + Len(t)] = t[Len(t)]
  <2> HIDE DEF u
  <2>1. /\ Len(s) + Len(t) \in 1 .. Len(s) + Len(t) /\ ~(Len(s) + Len(t) <= Len(s))
        /\ (Len(s) + Len(t)) - Len(s) = Len(t)
    BY <1>1
  <2>2. u[Len(s) + Len(t)] = t[(Len(s) + Len(t)) - Len(s)]
    BY <1>2, <2>1 DEF u
  <2> QED
    BY <1>2, <2>1, <2>2 DEF u
<1> HIDE DEF u
<1>4. u # << >>
  BY <1>1, <1>3, EmptySeq
<1> QED
  BY <1>1, <1>3, <1>4 DEF Well, u

\* What is left when the first bytes are taken off is well.
LEMMA WellBehind ==
  ASSUME Well(out), NEW n \in Nat
  PROVE  Well(Behind(n))
<1>1. out \in Seq(Symbol) /\ Len(out) \in Nat
  BY DEF Well
<1> DEFINE b == SubSeq(out, n + 1, Len(out))
<1>2. \A i \in n + 1 .. Len(out) : out[i] \in Symbol
  <2> TAKE i \in n + 1 .. Len(out)
  <2>1. i \in 1 .. Len(out)
    BY <1>1
  <2> QED
    BY <1>1, <2>1, ElementOfSeq
<1>3. /\ b \in Seq(Symbol)
      /\ Len(b) = IF n + 1 <= Len(out) THEN Len(out) - (n + 1) + 1 ELSE 0
      /\ \A i \in 1 .. Len(out) - (n + 1) + 1 : b[i] = out[(n + 1) + i - 1]
  <2>1. n + 1 \in Int /\ Len(out) \in Int
    BY <1>1
  <2> DEFINE m == n + 1
             k == Len(out)
  <2> HIDE DEF m, k
  <2>2. m \in Int /\ k \in Int /\ \A i \in m .. k : out[i] \in Symbol
    BY <1>2, <2>1 DEF m, k
  <2>3. /\ SubSeq(out, m, k) \in Seq(Symbol)
        /\ Len(SubSeq(out, m, k)) = IF m <= k THEN k - m + 1 ELSE 0
        /\ \A i \in 1 .. k - m + 1 : SubSeq(out, m, k)[i] = out[m + i - 1]
    BY <2>2, SubSeqProperties
  <2> QED
    BY <2>3 DEF m, k
<1> HIDE DEF b
<1>4. CASE n + 1 <= Len(out)
  <2>1. /\ Len(b) = Len(out) - n /\ Len(b) \in 1 .. Len(out) - (n + 1) + 1
        /\ (n + 1) + Len(b) - 1 = Len(out) /\ out # << >>
    BY <1>1, <1>3, <1>4, EmptySeq
  <2>2. b[Len(b)] = out[(n + 1) + Len(b) - 1]
    BY <1>3, <2>1
  <2> QED
    BY <1>3, <2>1, <2>2 DEF Well, Behind, b
<1>5. CASE ~(n + 1 <= Len(out))
  <2>1. b = << >>
    BY <1>3, <1>5, EmptySeq
  <2> QED
    BY <1>3, <2>1 DEF Well, Behind, b
<1> QED
  BY <1>4, <1>5

\* A byte taken off the line is a byte or, behind a gap, another gap.
LEMMA WellLine ==
  ASSUME Well(out), NEW r \in Line
  PROVE  r[1] \in Symbol /\ Well(r[2])
<1>1. ASSUME NEW line, Well(line), line # << >>
      PROVE  /\ Head(line) \in Symbol /\ Well(Tail(line))
             /\ Head(line) = GAP => Tail(line) # << >>
  <2>1. line \in Seq(Symbol) /\ Len(line) \in Nat /\ Len(line) > 0
    BY <1>1 DEF Well
  <2>2. /\ Head(line) \in Symbol /\ Head(line) = line[1]
        /\ Tail(line) \in Seq(Symbol) /\ Len(Tail(line)) = Len(line) - 1
        /\ \A i \in 1 .. Len(Tail(line)) : Tail(line)[i] = line[i + 1]
    BY <1>1, <2>1, HeadTailProperties
  <2>3. line[Len(line)] # GAP
    BY <1>1 DEF Well
  <2>4. CASE Len(line) = 1
    <3>1. Len(Tail(line)) = 0 /\ Head(line) # GAP
      BY <2>2, <2>3, <2>4
    <3>2. Tail(line) = << >>
      BY <2>2, <3>1, EmptySeq
    <3> QED
      BY <2>2, <3>1, <3>2 DEF Well
  <2>5. CASE Len(line) > 1
    <3>1. /\ Len(Tail(line)) \in 1 .. Len(Tail(line))
          /\ Len(Tail(line)) + 1 = Len(line)
      BY <2>1, <2>2, <2>5
    <3>2. Tail(line)[Len(Tail(line))] = line[Len(line)]
      BY <2>2, <3>1
    <3>3. Tail(line) # << >>
      <4>1. Len(Tail(line)) # 0
        BY <2>1, <2>2, <2>5
      <4> QED
        BY <4>1, EmptySeq
    <3> QED
      BY <2>2, <2>3, <3>2, <3>3 DEF Well
  <2>6. Len(line) = 1 \/ Len(line) > 1
    <3>1. \A n \in Nat : n > 0 => n = 1 \/ n > 1
      OBVIOUS
    <3> QED
      BY <2>1, <3>1
  <2> QED
    BY <2>4, <2>5, <2>6
<1>2. \/ r = <<HIGH, out>>
      \/ r = <<0, out>>
      \/ out # << >> /\ r = <<Head(out), Tail(out)>>
      \/ out # << >> /\ Head(out) = GAP /\ r = <<Head(Tail(out)), Tail(Tail(out))>>
  BY DEF Line
<1>3. CASE r = <<HIGH, out>> \/ r = <<0, out>>
  BY <1>3 DEF HIGH, GAP, Symbol
<1>4. CASE out # << >> /\ r = <<Head(out), Tail(out)>>
  BY <1>1, <1>4
<1>5. CASE out # << >> /\ Head(out) = GAP /\ r = <<Head(Tail(out)), Tail(Tail(out))>>
  <2>1. Well(Tail(out)) /\ Tail(out) # << >>
    BY <1>1, <1>5
  <2>2. Head(Tail(out)) \in Symbol /\ Well(Tail(Tail(out)))
    BY <1>1, <2>1
  <2> QED
    BY <1>5, <2>2
<1> QED
  BY <1>2, <1>3, <1>4, <1>5, Zenon

\* A card that is late sends symbols.
LEMMA WellDelay == Delay \in Seq(Symbol)
<1>1. GAP \in Symbol
  BY DEF GAP, Symbol
<1>2. <<GAP>> \in Seq(Symbol) /\ << >> \in Seq(Symbol)
  BY <1>1
<1> QED
  BY <1>2 DEF Delay

\* An answer of one byte, behind a gap or none
LEMMA WellOne ==
  ASSUME NEW b \in 0 .. 255
  PROVE  Well(<<b>>) /\ Well(Delay \o <<b>>)
<1>1. Well(<<b>>) /\ <<b>> # << >>
  BY DEF Well, GAP, Symbol
<1> QED
  BY <1>1, WellDelay, WellConcat

\* and of five
LEMMA WellFive ==
  ASSUME NEW b \in 0 .. 255, NEW c \in 0 .. 255, NEW d \in 0 .. 255,
         NEW x \in 0 .. 255, NEW y \in 0 .. 255
  PROVE  Well(Delay \o <<b, c, d, x, y>>)
<1>1. Well(<<b, c, d, x, y>>) /\ <<b, c, d, x, y>> # << >>
  BY DEF Well, GAP, Symbol
<1> QED
  BY <1>1, WellDelay, WellConcat

\* and a sector with what is around it
LEMMA WellBlock ==
  ASSUME NEW s \in Sector, card \in [Sector -> Block], NEW crc \in Crcs
  PROVE  Well(Delay \o (<<R1_READY_STATE>> \o Delay \o <<TOKEN>> \o card[s] \o crc))
<1>1. Delay \in Seq(Symbol) /\ <<R1_READY_STATE>> \in Seq(Symbol)
      /\ <<TOKEN>> \in Seq(Symbol)
  BY WellDelay DEF GAP, R1_READY_STATE, TOKEN, Symbol
<1>2. card[s] \in Seq(Symbol)
  <2>1. card[s] \in [1 .. SECTOR_SIZE -> Byte] /\ Byte \subseteq Symbol
    BY ByteAssumption DEF Block, GAP, Symbol
  <2>2. card[s] \in [1 .. SECTOR_SIZE -> Symbol]
    BY <2>1
  <2> QED
    BY <2>2, CardAssumption
<1>3. Well(crc) /\ crc # << >>
  <2>1. crc = <<255, 0>> \/ crc = <<0, 255>>
    BY DEF Crcs, HIGH
  <2>2. CASE crc = <<255, 0>>
    BY <2>2 DEF Well, GAP, Symbol
  <2>3. CASE crc = <<0, 255>>
    BY <2>3 DEF Well, GAP, Symbol
  <2> QED
    BY <2>1, <2>2, <2>3
<1> DEFINE A == <<R1_READY_STATE>> \o Delay
           B == A \o <<TOKEN>>
           C == B \o card[s]
<1>4. A \in Seq(Symbol)
  BY <1>1, ConcatProperties, Zenon
<1> HIDE DEF A
<1>5. B \in Seq(Symbol)
  BY <1>1, <1>4, ConcatProperties, Zenon
<1> HIDE DEF B
<1>6. C \in Seq(Symbol)
  BY <1>2, <1>5, ConcatProperties, Zenon
<1> HIDE DEF C
<1>7. Well(C \o crc) /\ C \o crc # << >>
  BY <1>3, <1>6, WellConcat
<1>8. Well(Delay \o (C \o crc))
  BY <1>1, <1>7, WellConcat
<1> QED
  BY <1>8 DEF A, B, C

\* What a card does with a command keeps the shape of the card.
LEMMA ReceivesTyped ==
  ASSUME TInv, NEW c, NEW a, NEW hcs, Receives(c, a, hcs)
  PROVE  /\ Well(out') /\ recv' \in Sector \cup {Nobody}
         /\ cstate' \in {"off", "native", "idle", "ready"}
         /\ initLeft' \in 0 .. MaxInit /\ app' \in BOOLEAN
<1>1. IdleBit \in 0 .. 1
  BY DEF IdleBit
<1>2. /\ cstate \in {"off", "native", "idle", "ready"} /\ initLeft \in 0 .. MaxInit
      /\ app \in BOOLEAN /\ card \in [Sector -> Block] /\ MaxInit \in Nat
  BY TrialsAssumption DEF TInv, SdTypeOK
<1>3. CASE out' = << >> /\ recv' = Nobody /\ UNCHANGED device
  BY <1>2, <1>3 DEF Well, device
<1>4. ASSUME NEW k, NEW b \in 0 .. 255, Plain(k, <<b>>)
      PROVE  /\ Well(out') /\ recv' = Nobody /\ app' \in BOOLEAN
             /\ UNCHANGED <<cstate, initLeft>>
  <2>1. Well(Delay \o <<b>>)
    BY WellOne
  <2> QED
    BY <1>4, <2>1 DEF Plain, Says
<1>5. CASE GoIdle
  <2>1. Well(Delay \o <<1>>)
    BY WellOne
  <2> QED
    BY <1>2, <1>5, <2>1 DEF GoIdle, Says, R1_IDLE_STATE
<1>6. CASE SendIfCond
  <2>1. CASE kind = "v1"
    <3>1. Plain("CMD8", <<IdleBit + 4>>) /\ IdleBit + 4 \in 0 .. 255
      BY <1>1, <1>6, <2>1 DEF SendIfCond
    <3> QED
      BY <1>2, <1>4, <3>1
  <2>2. CASE kind # "v1"
    <3>1. /\ out' = Delay \o <<IdleBit, 0, 0, 1, CMD8_RESPONSE_PATTERN>>
          /\ recv' = Nobody /\ app' \in BOOLEAN /\ UNCHANGED <<cstate, initLeft>>
      BY <1>6, <2>2 DEF SendIfCond, Plain, Says
    <3>2. /\ IdleBit \in 0 .. 255 /\ CMD8_RESPONSE_PATTERN \in 0 .. 255
          /\ 0 \in 0 .. 255 /\ 1 \in 0 .. 255
      BY <1>1 DEF CMD8_RESPONSE_PATTERN
    <3>3. Well(Delay \o <<IdleBit, 0, 0, 1, CMD8_RESPONSE_PATTERN>>)
      BY <3>2, WellFive, Zenon
    <3> QED
      BY <1>2, <3>1, <3>3
  <2> QED
    BY <2>1, <2>2
<1>7. CASE SendOpCond(hcs)
  <2>1. CASE ~app
    <3>1. Plain("ACMD41", <<IdleBit + 4>>) /\ IdleBit + 4 \in 0 .. 255
      BY <1>1, <1>7, <2>1 DEF SendOpCond
    <3> QED
      BY <1>2, <1>4, <3>1
  <2>2. CASE app
    <3>1. /\ out' = Delay \o <<0>> \/ out' = Delay \o <<1>>
          /\ recv' = Nobody /\ app' = FALSE
          /\ cstate' \in {cstate, "ready"}
          /\ initLeft' = initLeft \/ (initLeft # 0 /\ initLeft' = initLeft - 1)
      BY <1>2, <1>7, <2>2 DEF SendOpCond, Says, R1_READY_STATE, R1_IDLE_STATE
    <3>2. Well(Delay \o <<0>>) /\ Well(Delay \o <<1>>)
      BY WellOne
    <3>3. initLeft' \in 0 .. MaxInit
      BY <1>2, <3>1
    <3> QED
      BY <1>2, <3>1, <3>2, <3>3
  <2> QED
    BY <2>1, <2>2
<1>8. CASE Plain(c, <<IdleBit>>)
  <2>1. IdleBit \in 0 .. 255
    BY <1>1
  <2> QED
    BY <1>2, <1>4, <1>8, <2>1
<1>9. CASE ReadOcr
  <2>1. PICK b \in 0 .. 255 : out' = Delay \o <<IdleBit, b, 255, 128, 0>>
    <3>1. PICK b \in {0, 192, 128} : out' = Delay \o <<IdleBit, b, 255, 128, 0>>
      BY <1>9 DEF ReadOcr, Plain, Says
    <3>2. b \in 0 .. 255
      OBVIOUS
    <3> QED
      BY <3>1, <3>2, Zenon
  <2>2. Well(out')
    <3>1. IdleBit \in 0 .. 255 /\ 255 \in 0 .. 255 /\ 128 \in 0 .. 255 /\ 0 \in 0 .. 255
      BY <1>1
    <3>2. Well(Delay \o <<IdleBit, b, 255, 128, 0>>)
      BY <3>1, WellFive, Zenon
    <3> QED
      BY <2>1, <3>2
  <2> QED
    BY <1>2, <1>9, <2>2 DEF ReadOcr, Plain
<1>10. CASE Transfer(c, a)
  <2>1. \/ Plain(c, <<5>>) \/ Plain(c, <<32>>)
        \/ \E s \in Addressed(a) : ReadBlock(s) \/ WriteBlock(s)
    BY <1>10 DEF Transfer
  <2>2. CASE Plain(c, <<5>>) \/ Plain(c, <<32>>)
    BY <1>2, <1>4, <2>2
  <2>3. ASSUME NEW s \in Addressed(a), ReadBlock(s)
        PROVE  /\ Well(out') /\ recv' = Nobody /\ app' \in BOOLEAN
               /\ UNCHANGED <<cstate, initLeft>>
    <3>1. s \in Sector
      BY DEF Addressed
    <3>2. PICK crc \in Crcs :
            out' = Delay \o (<<R1_READY_STATE>> \o Delay \o <<TOKEN>> \o card[s] \o crc)
      BY <2>3 DEF ReadBlock, Plain, Says
    <3>3. Well(out')
      BY <1>2, <3>1, <3>2, WellBlock
    <3> QED
      BY <2>3, <3>3 DEF ReadBlock, Plain
  <2>4. ASSUME NEW s \in Addressed(a), WriteBlock(s)
        PROVE  /\ Well(out') /\ recv' \in Sector /\ app' \in BOOLEAN
               /\ UNCHANGED <<cstate, initLeft>>
    <3>1. Well(Delay \o <<0>>)
      BY WellOne
    <3> QED
      BY <2>4, <3>1 DEF WriteBlock, Says, R1_READY_STATE, Addressed
  <2> QED
    BY <1>2, <2>1, <2>2, <2>3, <2>4
<1>11. CASE Plain("garbled", <<IdleBit + 8>>)
  <2>1. IdleBit + 8 \in 0 .. 255
    BY <1>1
  <2> QED
    BY <1>2, <1>4, <1>11, <2>1
<1> QED
  BY <1>3, <1>5, <1>6, <1>7, <1>8, <1>9, <1>10, <1>11 DEF Receives, Obeys

\* What a read returns is a block.
LEMMA GetBytesBlock ==
  ASSUME SInv, GetInv, [Next]_vars, GetBytes
  PROVE  buf' \in Block
<1>1. GetInv'
  BY GNext
<1>2. pc' = "busy" /\ then' = "close" /\ call' = "get" /\ ret' = "ok" /\ card' = card
  BY DEF GetBytes, Wait, SInv, FlowInv
<1>3. PICK s \in Sector : buf' = card[s]
  BY <1>1, <1>2 DEF GetInv, Addressed
<1> QED
  BY <1>3 DEF GetInv

\* The state after a power-on has the shape.
LEMMA TInit == Init => TInv
<1> SUFFICES ASSUME Init PROVE TInv
  OBVIOUS
<1>1. out = << >> /\ out \in Seq(0 .. GAP) /\ Well(out)
  BY DEF Init, Well
<1>2. buf \in Block /\ addr \in Sector /\ recv \in Sector \cup {Nobody}
  BY CardAssumption DEF Init, Block, Sector, Nobody
<1>3. /\ trials \in 0 .. MAX_CMD_TRIALS + MaxToken + 1
      /\ tries \in 0 .. MAX_CMD_TRIALS + MaxAck /\ r1 \in 0 .. 255
      /\ initLeft \in 0 .. MaxInit
  BY TrialsAssumption DEF Init
<1> QED
  BY <1>1, <1>2, <1>3 DEF Init, TInv, SdTypeOK, Counters, Commands

\* Every step keeps it.
LEMMA TNext ==
  ASSUME SInv, GetInv, TInv, [Next]_vars
  PROVE  TInv'
<1> USE CardAssumption, TrialsAssumption
<1> USE DEF Commands
<1>0. Well(<< >>) /\ out \in Seq(0 .. GAP) /\ Well(out)
  BY DEF Well, TInv, SdTypeOK
<1>1. CASE InitializeSd
  <2>1. Well(out')
    BY <1>0, <1>1 DEF InitializeSd, Command, Disable, Abort, fixed, device, ctx
  <2> QED
    BY <1>1, <2>1 DEF InitializeSd, Command, Disable, Abort, fixed, device, ctx,
       TInv, SdTypeOK, Counters, SInv, FlowInv, Commanding, Well, Symbol, Sector, Nobody
<1>2. CASE CardDone
  <2>1. Well(out')
    BY <1>0, <1>2 DEF CardDone, control, ctx, fixed, device
  <2>2. /\ UNCHANGED <<pc, then, call, addr, buf, ret, cmd, r1, trials, tries, sd_type>>
        /\ UNCHANGED <<sd_status, cs, kind, rough, card, cstate, initLeft, app, out, recv>>
        /\ busy' \in BOOLEAN
    BY <1>2 DEF CardDone, control, ctx, fixed, device
  <2>3. Counters'
    BY <2>2 DEF TInv, Counters
  <2>4. SdTypeOK'
    BY <2>2 DEF TInv, SdTypeOK
  <2> QED
    BY <2>1, <2>3, <2>4 DEF TInv
<1>3. CASE GoIdleAnswered
  <2>1. Well(out')
    BY <1>0, <1>3 DEF GoIdleAnswered, Starting, CommandAfterWait, Retry, Command,
       Failure, Disable, Abort, Bus, ctx, fixed, device
  <2> QED
    BY <1>3, <2>1 DEF GoIdleAnswered, Starting, CommandAfterWait, Retry, Command,
       Failure, Disable, Abort, Bus, ctx, fixed, device,
       TInv, SdTypeOK, Counters, SInv, FlowInv, Commanding, Well, Symbol, Sector, Nobody
<1>4. CASE AppCmdAnswered
  <2>1. Well(out')
    BY <1>0, <1>4 DEF AppCmdAnswered, Starting, Wait, CommandAfterWait, Bus, ctx,
       fixed, device
  <2> QED
    BY <1>4, <2>1 DEF AppCmdAnswered, Starting, Wait, CommandAfterWait, Bus, ctx,
       fixed, device,
       TInv, SdTypeOK, Counters, SInv, FlowInv, Commanding, Well, Symbol, Sector, Nobody
<1>5. CASE SendOpCondAnswered
  <2>1. Well(out')
    BY <1>0, <1>5 DEF SendOpCondAnswered, Starting, Wait, Bus, ctx, fixed, device
  <2> QED
    BY <1>5, <2>1 DEF SendOpCondAnswered, Starting, Wait, Bus, ctx, fixed, device,
       TInv, SdTypeOK, Counters, SInv, FlowInv, Commanding, Well, Symbol, Sector, Nobody
<1>6. CASE AcommandRetry
  <2>1. Well(out')
    BY <1>0, <1>6 DEF AcommandRetry, Retry, Command, Failure, Disable, Abort, Bus,
       ctx, fixed, device
  <2> QED
    BY <1>6, <2>1 DEF AcommandRetry, Retry, Command, Failure, Disable, Abort, Bus,
       ctx, fixed, device,
       TInv, SdTypeOK, Counters, SInv, FlowInv, Commanding, Well, Symbol, Sector, Nobody
<1>7. CASE CheckType
  <2>1. Well(out')
    BY <1>0, <1>7 DEF CheckType, Command, Success, Bus, ctx, fixed, device
  <2> QED
    BY <1>7, <2>1 DEF CheckType, Command, Success, Bus, ctx, fixed, device,
       TInv, SdTypeOK, Counters, SInv, FlowInv, Commanding, Well, Symbol, Sector, Nobody
<1>8. CASE Close
  <2>1. Well(out')
    BY <1>0, <1>8 DEF Close, Disable, Abort, ctx, fixed, device
  <2> QED
    BY <1>8, <2>1 DEF Close, Disable, Abort, ctx, fixed, device,
       TInv, SdTypeOK, Counters, SInv, FlowInv, Commanding, Well, Symbol, Sector, Nobody
<1>9. CASE WriteBlockAnswered
  <2>1. Well(out')
    BY <1>0, <1>9 DEF WriteBlockAnswered, Bus, ctx, fixed, device
  <2> QED
    BY <1>9, <2>1 DEF WriteBlockAnswered, Bus, ctx, fixed, device,
       TInv, SdTypeOK, Counters, SInv, FlowInv, Commanding, Well, Symbol, Sector, Nobody
<1>10. CASE CallGet
  <2>1. Well(out')
    BY <1>0, <1>10 DEF CallGet, Enable, Abort, Wait, ctx, fixed, device
  <2> QED
    BY <1>10, <2>1 DEF CallGet, Enable, Abort, Wait, ctx, fixed, device,
       TInv, SdTypeOK, Counters, SInv, FlowInv, Commanding, Well, Symbol, Sector, Nobody
<1>11. CASE CallPut
  <2>1. Well(out')
    BY <1>0, <1>11 DEF CallPut, Enable, Abort, CommandAfterWait, ctx, fixed, device
  <2> QED
    BY <1>11, <2>1 DEF CallPut, Enable, Abort, CommandAfterWait, ctx, fixed, device,
       TInv, SdTypeOK, Counters, SInv, FlowInv, Commanding, Well, Symbol, Sector, Nobody
<1>12. CASE Reset
  <2>1. Well(out')
    BY <1>0, <1>12 DEF Reset, fixed, device
  <2> QED
    BY <1>12, <2>1 DEF Reset, fixed, device,
       TInv, SdTypeOK, Counters, SInv, FlowInv, Commanding, Well, Symbol, Sector, Nobody
<1>13. CASE PutBytes
  <2>1. Well(out')
    <3>1. Well(<<5>>) /\ Well(<<11>>) /\ Well(<<13>>)
      BY WellOne
    <3> QED
      BY <1>0, <3>1, <1>13 DEF PutBytes, Stores, Rejects
  <2> QED
    BY <1>13, <2>1 DEF PutBytes, Stores, Rejects, ctx, fixed, device,
       TInv, SdTypeOK, Counters, SInv, FlowInv, Commanding, Well, Symbol, Sector, Nobody
<1>14. CASE Send
  <2>1. Receives(cmd, Argument, HighCapacity)
    BY <1>14 DEF Send
  <2>2. /\ Well(out') /\ recv' \in Sector \cup {Nobody}
        /\ cstate' \in {"off", "native", "idle", "ready"}
        /\ initLeft' \in 0 .. MaxInit /\ app' \in BOOLEAN
    BY <2>1, ReceivesTyped, Zenon
  <2> QED
    BY <1>14, <2>2 DEF Send, ctx, fixed, TInv, SdTypeOK, Counters, SInv, FlowInv,
       Commanding, Well, Symbol
<1>15. CASE StartRead
  <2>1. Receives("CMD17", Argument, FALSE)
    BY <1>15 DEF StartRead
  <2>2. /\ Well(out') /\ recv' \in Sector \cup {Nobody}
        /\ cstate' \in {"off", "native", "idle", "ready"}
        /\ initLeft' \in 0 .. MaxInit /\ app' \in BOOLEAN
    BY <2>1, ReceivesTyped, Zenon
  <2> QED
    BY <1>15, <2>2 DEF StartRead, ctx, fixed, TInv, SdTypeOK, Counters, SInv, FlowInv,
       Commanding, Well, Symbol
<1>16. CASE Reply
  <2>1. PICK r \in Line : Reply!2!(r)
    BY <1>16 DEF Reply
  <2>2. r[1] \in 0 .. GAP /\ Well(r[2])
    BY <1>0, WellLine DEF Symbol
  <2>3. Well(out')
    BY <2>1, <2>2
  <2>4. /\ pc = "reply" /\ cs = "low" /\ tries \in Nat /\ tries < MAX_CMD_TRIALS
        /\ r1 \in 0 .. 255
    BY <1>16 DEF Reply, TInv, SdTypeOK, Counters, SInv, FlowInv
  <2>5. /\ tries' = tries + 1 /\ pc' \in {"reply", "answered"} /\ r1' \in 0 .. 255
        /\ pc' = "reply" => tries' < MAX_CMD_TRIALS
    BY <2>1, <2>2, <2>4 DEF Counted, R1_RESPONSE_ERR
  <2>6. /\ UNCHANGED <<then, call, addr, buf, ret, cmd, trials, sd_type, sd_status, cs>>
        /\ UNCHANGED <<kind, rough, card, cstate, initLeft, app, recv, busy>>
    BY <1>16 DEF Reply, ctx, fixed, device
  <2> QED
    BY <2>3, <2>4, <2>5, <2>6 DEF TInv, SdTypeOK, Counters, Well, Symbol
<1>17. CASE BusyWait
  <2>1. PICK r \in Line : BusyWait!2!(r)
    BY <1>17 DEF BusyWait
  <2>2. r[1] \in 0 .. GAP /\ Well(r[2])
    BY <1>0, WellLine DEF Symbol
  <2>3. Well(out')
    BY <2>1, <2>2
  <2> QED
    BY <1>17, <2>1, <2>2, <2>3 DEF BusyWait, ctx, fixed, device, TInv, SdTypeOK,
       Counters, SInv, FlowInv, Commanding, Well, Symbol
<1>18. CASE AwaitToken
  <2>1. PICK r \in Line : AwaitToken!2!(r)
    BY <1>18 DEF AwaitToken
  <2>2. r[1] \in 0 .. GAP /\ Well(r[2])
    BY <1>0, WellLine DEF Symbol
  <2>3. Well(out')
    BY <2>1, <2>2
  <2> QED
    BY <1>18, <2>1, <2>2, <2>3 DEF AwaitToken, Counted, ctx, fixed, device, TInv,
       SdTypeOK, Counters, SInv, FlowInv, Commanding, Well, Symbol
<1>19. CASE Ack
  <2>1. PICK r \in Line : Ack!2!(r)
    BY <1>19 DEF Ack
  <2>2. r[1] \in 0 .. GAP /\ Well(r[2])
    BY <1>0, WellLine DEF Symbol
  <2>3. Well(out')
    BY <2>1, <2>2
  <2> QED
    BY <1>19, <2>1, <2>2, <2>3 DEF Ack, Counted, Wait, ctx, fixed, device, TInv,
       SdTypeOK, Counters, SInv, FlowInv, Commanding, Well, Symbol
<1>20. CASE SendIfCondAnswered
  <2>1. Well(Behind(8))
    BY <1>0, WellBehind
  <2>2. Well(out')
    BY <1>0, <2>1, <1>20 DEF SendIfCondAnswered, Starting, Command, Retry, Failure,
       Disable, Abort, Bus, ctx, fixed, device
  <2> QED
    BY <1>20, <2>2 DEF SendIfCondAnswered, Starting, Command, Retry, Failure, Disable,
       Abort, Bus, ctx, fixed, device, TInv, SdTypeOK, Counters, SInv, FlowInv,
       Commanding, Well, Symbol, Nobody
<1>21. CASE ReadOcrAnswered
  <2>1. Well(Behind(8))
    BY <1>0, WellBehind
  <2>2. Well(out')
    BY <1>0, <2>1, <1>21 DEF ReadOcrAnswered, Starting, Retry, Command, Failure,
       Disable, Abort, Bus, ctx, fixed, device
  <2> QED
    BY <1>21, <2>2 DEF ReadOcrAnswered, Starting, Retry, Command, Failure, Disable,
       Abort, Bus, ctx, fixed, device, TInv, SdTypeOK, Counters, SInv, FlowInv,
       Commanding, Well, Symbol, Nobody
<1>22. CASE GetBytes
  <2>1. Well(out')
    BY <1>0, CardAssumption, WellBehind, <1>22 DEF GetBytes
  <2>2. buf' \in Block
    BY <1>22, GetBytesBlock
  <2> QED
    BY <1>22, <2>1, <2>2 DEF GetBytes, Wait, ctx, fixed, device, TInv, SdTypeOK,
       Counters, SInv, FlowInv, Commanding, Well, Symbol
<1>23. CASE UNCHANGED vars
  BY <1>23 DEF vars, control, ctx, fixed, device, TInv, SdTypeOK, Counters, SInv,
     FlowInv, Commanding, Well, Symbol
<1> QED
  BY <1>1, <1>2, <1>3, <1>4, <1>5, <1>6, <1>7, <1>8, <1>9, <1>10, <1>11, <1>12, <1>13,
     <1>14, <1>15, <1>16, <1>17, <1>18, <1>19, <1>20, <1>21, <1>22, <1>23
  DEF Next, Driver

\* The state has its shape, with the bounds of the loops, in every behaviour.
THEOREM SdTypeCorrect == Spec => []SdTypeOK
<1>1. TInv => SdTypeOK
  BY DEF TInv
<1> QED
  BY <1>1, SInvariance, GInvariance, TInit, TNext, PTL DEF Spec

-----------------------------------------------------------------------------
(* What the calls promise.                                                 *)

\* A successful sd_get_sector returns the block at the address it was given: no byte
\* of an answer, a checksum or an earlier read is taken for data (sd.c:392-416).
THEOREM GetReturnsBlock == Spec => []GetIsBlock
<1>1. ASSUME SInv, GetInv PROVE GetIsBlock
  <2>1. SUFFICES ASSUME Returned("get", "ok")
                 PROVE  /\ Addressed(addr) # {}
                        /\ \A s \in Addressed(addr) : buf = card[s]
    BY DEF GetIsBlock
  <2>2. PICK s \in Addressed(addr) : buf = card[s]
    BY <1>1, <2>1 DEF GetInv, Returned
  <2> QED
    BY <2>2, OneSector
<1> QED
  BY <1>1, SInvariance, GInvariance, PTL

\* A successful sd_put_sector has stored the block (sd.c:437-485).
THEOREM PutStoresBlock == Spec => []PutIsStored
<1>1. SInv => PutIsStored
  BY DEF SInv, StoredInv, Stored, PutIsStored, Returned
<1> QED
  BY <1>1, SInvariance, PTL

\* The card changes only in the sector being put, whatever goes wrong or is reset.
THEOREM NoOtherSector == Spec => OnlyThatBlock
<1>1. ASSUME SInv, [Next]_vars, card' # card
      PROVE  /\ call = "put"
             /\ \E s \in Addressed(addr) : card' = [card EXCEPT ![s] = buf]
  <2>1. CASE PutBytes
    BY <2>1, <1>1 DEF PutBytes, Stores, Rejects, SInv, FlowInv, RecvInv
  <2>2. CASE ~PutBytes
    BY <2>2, <1>1 DEF Next, Driver, vars, InitializeSd, Send, Reply, BusyWait,
       GoIdleAnswered, SendIfCondAnswered, AppCmdAnswered, SendOpCondAnswered,
       AcommandRetry, CheckType, ReadOcrAnswered, StartRead, AwaitToken, GetBytes,
       Close, WriteBlockAnswered, Ack, CallGet, CallPut, CardDone, Reset, Starting
  <2> QED
    BY <2>1, <2>2
<1> QED
  BY <1>1, SInvariance, PTL DEF Spec, OnlyThatBlock

\* After either call, whatever it returned, the card is not busy (sd.c:479).
THEOREM NotBusyAfter == Spec => []DoneWhenReturned
<1>1. SInv => DoneWhenReturned
  BY DEF SInv, BusyInv, DoneWhenReturned
<1> QED
  BY <1>1, SInvariance, PTL

\* The only ways out of a call with the card still selected (sd.c:381, 446-449).
THEOREM OnlyWaysSelected == Spec => []Deselected
<1>1. SInv => Deselected
  BY DEF SInv
<1> QED
  BY <1>1, SInvariance, PTL

-----------------------------------------------------------------------------
(* initialize_sd: what a started card is known to be, and that a card that  *)
(* answers in time is started.  Both follow the start command by command,  *)
(* with what the card can have on its line after each of them, late or not.*)

\* An answer of one byte and one of five, that may be late
One(line, b) == line = <<b>> \/ (rough /\ line = <<GAP, b>>)
Five(line, a, b, c, d, e) ==
  line = <<a, b, c, d, e>> \/ (rough /\ line = <<GAP, a, b, c, d, e>>)

\* What READ_OCR says of a ready card
Ocr == IF kind = "hc" THEN 192 ELSE 128

\* On the line after a command of initialize_sd: nothing, a refusal, or the answer
Sent ==
  \/ out = << >>
  \/ \E b \in {4, 5, 8, 9} : One(out, b)
  \/ cmd = "CMD0" /\ One(out, 1) /\ cstate = "idle" /\ ~busy
  \/ cmd = "CMD8" /\ Five(out, 1, 0, 0, 1, 170) /\ kind # "v1"
  \/ cmd = "CMD55" /\ \E b \in {0, 1} : One(out, b)
  \/ cmd = "ACMD41" /\ One(out, 1)
  \/ cmd = "ACMD41" /\ One(out, 0) /\ cstate = "ready"
  \/ cmd = "CMD58" /\ Five(out, 0, Ocr, 255, 128, 0)

\* What an answer that lets the start go on says of the card
Told(b, line) ==
  /\ cmd = "CMD0" /\ b = 1 => cstate = "idle" /\ ~busy /\ kind # "none"
  /\ cmd = "CMD8" /\ b = 1 => kind # "v1"
  /\ cmd = "ACMD41" /\ b = 0 => cstate = "ready"
  /\ cmd = "CMD58" /\ b = 0 => kind # "none" /\ line = <<Ocr, 255, 128, 0>>

\* What has been found out of the card when a command of the start is reached
Stage ==
  /\ cmd # "CMD0" => ~busy /\ kind # "none" /\ cstate \in {"idle", "ready"}
  /\ cmd = "CMD8" => cstate = "idle"
  /\ cmd \in {"CMD55", "ACMD41", "CMD58"} =>
       kind # "v1" /\ (pc # "idle" => sd_type = "SD_TYPE_2")
  /\ cmd = "CMD58" => cstate = "ready"
  /\ pc = "retry" \/ (pc = "busy" /\ then = "retry") => cmd \in {"CMD55", "ACMD41"}
  /\ pc = "type" \/ (pc = "busy" /\ then = "type") =>
       cmd = "ACMD41" /\ cstate = "ready"
  /\ pc = "reply" /\ kind # "none" => Sent
  /\ pc = "answered" => Told(r1, out)

ReadyCard ==
  /\ cstate = "ready" /\ kind \in {"sc", "hc"}
  /\ sd_type = IF kind = "hc" THEN "SD_TYPE_SDHC" ELSE "SD_TYPE_2"

StartInv ==
  /\ kind \in {"none", "v1", "sc", "hc"}
  /\ cmd \in Commands
  /\ pc \in {"boot", "idle"} \/ Commanding \/ call # "none"
  /\ pc = "boot" <=> call = "none"
  /\ pc = "boot" => cmd = "CMD0"
  /\ call = "init" => Stage
  /\ sd_status = "SD_ENABLED" /\ (pc = "idle" \/ call \in {"get", "put"}) => ReadyCard

-----------------------------------------------------------------------------
\* A version 2 card that answers in time
Punctual == ~rough /\ kind \in {"sc", "hc"}

\* Its answers are on the line when the driver begins to look for them, and it has
\* enough ACMD41s left.
Good ==
  /\ cstate # "off"
  /\ cmd # "CMD0" => initLeft \in Nat
  /\ pc = "idle" => ret = "ok"
  /\ cmd \in {"CMD0", "CMD8"} => trials = 0
  /\ cmd \in {"CMD55", "ACMD41"} /\ pc \notin {"type", "idle"}
       /\ ~(pc = "busy" /\ then = "type") =>
       trials \in Nat /\ initLeft + trials <= MAX_CMD_TRIALS
  /\ cmd = "ACMD41" /\ (pc = "send" \/ (pc = "busy" /\ then = "send")) => app
  /\ cmd = "CMD55" /\ pc \in {"reply", "answered"} => app
  /\ pc = "reply" => tries = 0 /\ out # << >> /\ out[1] \in 0 .. 127
  /\ pc = "reply" /\ cmd = "CMD0" => out = <<1>>
  /\ pc = "reply" /\ cmd = "CMD8" => out = <<1, 0, 0, 1, 170>>
  /\ pc = "reply" /\ cmd = "CMD55" => out \in {<<0>>, <<1>>}
  /\ pc = "reply" /\ cmd = "ACMD41" => out \in {<<0>>, <<1>>}
  /\ pc = "reply" /\ cmd = "ACMD41" /\ out = <<1>> => initLeft + trials < MAX_CMD_TRIALS
  /\ pc = "reply" /\ cmd = "CMD58" => out = <<0, Ocr, 255, 128, 0>>
  /\ pc = "answered" /\ cmd = "CMD0" => r1 = 1
  /\ pc = "answered" /\ cmd = "CMD8" => r1 = 1 /\ out = <<0, 0, 1, 170>>
  /\ pc = "answered" /\ cmd = "CMD55" => r1 \in {0, 1}
  /\ pc = "answered" /\ cmd = "ACMD41" => r1 \in {0, 1}
  /\ pc = "answered" /\ cmd = "ACMD41" /\ r1 = 1 => initLeft + trials < MAX_CMD_TRIALS
  /\ pc = "answered" /\ cmd = "CMD58" => r1 = 0
  /\ pc = "retry" \/ (pc = "busy" /\ then = "retry") =>
       initLeft + trials < MAX_CMD_TRIALS

GoodInv ==
  Punctual => /\ call \in {"none", "init"} => ~busy
              /\ call = "init" => Good

-----------------------------------------------------------------------------
\* A late answer is the answer behind a gap.
LEMMA Late ==
  ASSUME NEW L \in Seq(Nat)
  PROVE  /\ <<GAP>> \o L \in Seq(Nat) /\ Len(<<GAP>> \o L) = Len(L) + 1
         /\ (<<GAP>> \o L)[1] = GAP
         /\ \A i \in 1 .. Len(L) : (<<GAP>> \o L)[i + 1] = L[i]
<1>1. <<GAP>> \in Seq(Nat) /\ Len(<<GAP>>) = 1 /\ <<GAP>>[1] = GAP
  BY DEF GAP
<1> DEFINE A == <<GAP>>
           C == A \o L
<1>2. A \in Seq(Nat) /\ Len(A) = 1 /\ A[1] = GAP
  BY <1>1
<1> HIDE DEF A
<1>3. /\ C \in Seq(Nat) /\ Len(C) = Len(A) + Len(L)
      /\ \A i \in 1 .. Len(A) + Len(L) :
           C[i] = IF i <= Len(A) THEN A[i] ELSE L[i - Len(A)]
  BY <1>2, ConcatProperties, Zenon
<1>4. Len(L) \in Nat
  OBVIOUS
<1> HIDE DEF C
<1>5. /\ C \in Seq(Nat) /\ Len(C) = Len(L) + 1 /\ C[1] = GAP
      /\ \A i \in 1 .. Len(L) : C[i + 1] = L[i]
  BY <1>2, <1>3, <1>4
<1> QED
  BY <1>5 DEF C, A

\* An answer of one byte
LEMMA SaysOne ==
  ASSUME NEW b \in 0 .. 255
  PROVE  One(Delay \o <<b>>, b)
<1>1. CASE rough
  <2>1. Delay = <<GAP>>
    BY <1>1 DEF Delay
  <2>2. <<GAP>> \o <<b>> = <<GAP, b>>
    <3> DEFINE L == <<b>>
               C == <<GAP>> \o L
    <3>1. L \in Seq(Nat) /\ Len(L) = 1 /\ L[1] = b
      OBVIOUS
    <3> HIDE DEF L
    <3>2. /\ C \in Seq(Nat) /\ Len(C) = Len(L) + 1 /\ C[1] = GAP
          /\ \A i \in 1 .. Len(L) : C[i + 1] = L[i]
      BY <3>1, Late
    <3> HIDE DEF C
    <3>3. C[2] = b /\ Len(C) = 2
      <4>1. C[1 + 1] = b
        BY <3>1, <3>2
      <4> QED
        BY <3>1, <3>2, <4>1
    <3> DEFINE D == <<GAP, b>>
    <3>4. D \in Seq(Nat) /\ Len(D) = 2 /\ D[1] = GAP /\ D[2] = b
      BY DEF GAP
    <3> HIDE DEF D
    <3>5. \A i \in 1 .. 2 : i \in {1, 2}
      OBVIOUS
    <3>6. \A i \in 1 .. Len(C) : C[i] = D[i]
      BY <3>2, <3>3, <3>4, <3>5
    <3>7. C = D
      BY <3>2, <3>3, <3>4, <3>6, SeqEqual, Zenon
    <3> QED
      BY <3>7 DEF C, D, L
  <2> QED
    BY <1>1, <2>1, <2>2 DEF One
<1>2. CASE ~rough
  <2>1. Delay = << >>
    BY <1>2 DEF Delay
  <2>2. << >> \o <<b>> = <<b>>
    OBVIOUS
  <2> QED
    BY <1>2, <2>1, <2>2 DEF One
<1> QED
  BY <1>1, <1>2

\* and one of five
LEMMA SaysFive ==
  ASSUME NEW a \in 0 .. 255, NEW b \in 0 .. 255, NEW c \in 0 .. 255,
         NEW d \in 0 .. 255, NEW e \in 0 .. 255
  PROVE  Five(Delay \o <<a, b, c, d, e>>, a, b, c, d, e)
<1>1. CASE rough
  <2>1. Delay = <<GAP>>
    BY <1>1 DEF Delay
  <2>2. <<GAP>> \o <<a, b, c, d, e>> = <<GAP, a, b, c, d, e>>
    <3> DEFINE L == <<a, b, c, d, e>>
               C == <<GAP>> \o L
    <3>1. /\ L \in Seq(Nat) /\ Len(L) = 5
          /\ L[1] = a /\ L[2] = b /\ L[3] = c /\ L[4] = d /\ L[5] = e
      OBVIOUS
    <3> HIDE DEF L
    <3>2. /\ C \in Seq(Nat) /\ Len(C) = Len(L) + 1 /\ C[1] = GAP
          /\ \A i \in 1 .. Len(L) : C[i + 1] = L[i]
      BY <3>1, Late
    <3> HIDE DEF C
    <3>3. /\ C[2] = a /\ C[3] = b /\ C[4] = c /\ C[5] = d /\ C[6] = e /\ Len(C) = 6
      <4>1. C[1 + 1] = a /\ C[2 + 1] = b /\ C[3 + 1] = c /\ C[4 + 1] = d /\ C[5 + 1] = e
        BY <3>1, <3>2
      <4> QED
        BY <3>1, <3>2, <4>1
    <3> DEFINE D == <<GAP, a, b, c, d, e>>
    <3>4. /\ D \in Seq(Nat) /\ Len(D) = 6 /\ D[1] = GAP
          /\ D[2] = a /\ D[3] = b /\ D[4] = c /\ D[5] = d /\ D[6] = e
      BY DEF GAP
    <3> HIDE DEF D
    <3>5. \A i \in 1 .. 6 : i \in {1, 2, 3, 4, 5, 6}
      OBVIOUS
    <3>6. \A i \in 1 .. Len(C) : C[i] = D[i]
      BY <3>2, <3>3, <3>4, <3>5
    <3>7. C = D
      BY <3>2, <3>3, <3>4, <3>6, SeqEqual, Zenon
    <3> QED
      BY <3>7 DEF C, D, L
  <2> QED
    BY <1>1, <2>1, <2>2 DEF Five
<1>2. CASE ~rough
  <2>1. Delay = << >>
    BY <1>2 DEF Delay
  <2>2. << >> \o <<a, b, c, d, e>> = <<a, b, c, d, e>>
    OBVIOUS
  <2> QED
    BY <1>2, <2>1, <2>2 DEF Five
<1> QED
  BY <1>1, <1>2

\* A byte of an answer, with the rest of it to come, or the answer is late
Got(r, b, rest) == \/ r[1] = b /\ r[2] = rest
                   \/ r[1] = 255 /\ r[2] = out /\ rough

\* No card, no byte but HIGH.
LEMMA ReadAbsent ==
  ASSUME kind = "none", NEW r \in Line
  PROVE  r[1] = 255
  BY DEF Line, HIGH

\* With nothing on the line a busy card reads as 0, one that is not as HIGH.
LEMMA ReadEmpty ==
  ASSUME cs = "low", kind # "none", out = << >>, NEW r \in Line
  PROVE  r[2] = << >> /\ r[1] \in {0, 255} /\ (~busy => r[1] = 255)
  BY DEF Line, HIGH

\* An answer of one byte is read at once, or later,
LEMMA ReadOne ==
  ASSUME cs = "low", kind # "none", NEW b \in 0 .. 255, One(out, b), NEW r \in Line
  PROVE  Got(r, b, << >>)
<1>1. CASE out = <<b>>
  <2>1. out # << >> /\ Head(out) = b /\ Tail(out) = << >> /\ b # GAP
    BY <1>1 DEF GAP
  <2>2. Line = {<<b, << >>>>}
    BY <2>1 DEF Line
  <2> QED
    BY <2>2 DEF Got
<1>2. CASE rough /\ out = <<GAP, b>>
  <2>1. /\ out # << >> /\ Head(out) = GAP /\ Tail(out) = <<b>>
        /\ Head(Tail(out)) = b /\ Tail(Tail(out)) = << >>
    BY <1>2
  <2>2. Line = {<<255, out>>, <<b, << >>>>}
    BY <2>1 DEF Line, HIGH
  <2> QED
    BY <1>2, <2>2 DEF Got
<1> QED
  BY <1>1, <1>2 DEF One

\* and so is the first byte of an answer of five.
LEMMA ReadFive ==
  ASSUME cs = "low", kind # "none", NEW a \in 0 .. 255, NEW b, NEW c, NEW d, NEW e,
         Five(out, a, b, c, d, e), NEW r \in Line
  PROVE  Got(r, a, <<b, c, d, e>>)
<1>1. CASE out = <<a, b, c, d, e>>
  <2>1. out # << >> /\ Head(out) = a /\ Tail(out) = <<b, c, d, e>> /\ a # GAP
    BY <1>1 DEF GAP
  <2>2. Line = {<<a, <<b, c, d, e>>>>}
    BY <2>1 DEF Line
  <2> QED
    BY <2>2 DEF Got
<1>2. CASE rough /\ out = <<GAP, a, b, c, d, e>>
  <2>1. /\ out # << >> /\ Head(out) = GAP /\ Tail(out) = <<a, b, c, d, e>>
        /\ Head(Tail(out)) = a /\ Tail(Tail(out)) = <<b, c, d, e>>
    BY <1>2
  <2>2. Line = {<<255, out>>, <<a, <<b, c, d, e>>>>}
    BY <2>1 DEF Line, HIGH
  <2> QED
    BY <1>2, <2>2 DEF Got
<1> QED
  BY <1>1, <1>2 DEF Five

\* The fourth of eight bytes read is 170, the first 192 or 128.
LEMMA TakenFour ==
  ASSUME cs = "low", kind # "none", NEW a, NEW b, NEW c, NEW d, out = <<a, b, c, d>>
  PROVE  Taken(8)[4] = d /\ Taken(8)[1] = a
  BY DEF Taken, Stream

\* What a card that is there may answer to a command of the start, and when
Refuses == /\ \E b \in {4, 5, 8, 9} : One(out', b)
           /\ UNCHANGED <<cstate, initLeft>>
           /\ rough \/ kind = "v1" \/ (cmd = "ACMD41" /\ ~app)
IsIdle == /\ cmd = "CMD0" /\ One(out', 1) /\ ~busy
          /\ cstate' = "idle" /\ initLeft' \in 0 .. MaxInit
Echoes == /\ cmd = "CMD8" /\ Five(out', IdleBit, 0, 0, 1, 170) /\ kind # "v1"
          /\ UNCHANGED <<cstate, initLeft>>
Listens == /\ cmd = "CMD55" /\ One(out', IdleBit)
           /\ app' = TRUE /\ UNCHANGED <<cstate, initLeft>>
NotYet == /\ cmd = "ACMD41" /\ One(out', 1) /\ cstate' = cstate
          /\ sd_type = "SD_TYPE_2" => initLeft # 0 /\ initLeft' = initLeft - 1
IsReady == /\ cmd = "ACMD41" /\ One(out', 0)
           /\ cstate' = "ready" /\ initLeft' = initLeft
TellsOcr == /\ cmd = "CMD58" /\ UNCHANGED <<cstate, initLeft>>
            /\ \E b \in {0, 128, 192} : /\ cstate = "ready" => b = Ocr
                                        /\ Five(out', IdleBit, b, 255, 128, 0)

\* A card that is there does one of these.
LEMMA Answers ==
  ASSUME kind # "none", cmd \in Commands \ {"CMD24"},
         Receives(cmd, Argument, HighCapacity)
  PROVE  \/ Deaf(cmd) /\ out' = << >> /\ UNCHANGED <<cstate, initLeft, app>>
         \/ Refuses \/ IsIdle \/ Echoes \/ Listens \/ NotYet \/ IsReady \/ TellsOcr
<1> USE DEF Refuses, IsIdle, Echoes, Listens, NotYet, IsReady, TellsOcr
<1>1. IdleBit \in {0, 1}
  BY DEF IdleBit
<1>2. \A b \in 0 .. 255 : out' = Delay \o <<b>> => One(out', b)
  BY SaysOne
<1>3. CASE Deaf(cmd)
  BY <1>3 DEF Receives, device
<1>4. CASE ~Deaf(cmd) /\ rough /\ Plain("garbled", <<IdleBit + 8>>)
  <2>1. IdleBit + 8 \in {8, 9} /\ IdleBit + 8 \in 0 .. 255
    BY <1>1
  <2>2. One(out', IdleBit + 8) /\ UNCHANGED <<cstate, initLeft>>
    BY <1>2, <1>4, <2>1 DEF Plain, Says
  <2>3. Refuses
    BY <1>4, <2>1, <2>2
  <2> QED
    BY <2>3
<1>5. CASE ~Deaf(cmd) /\ cmd = "CMD0" /\ GoIdle
  <2>1. 1 \in 0 .. 255 /\ out' = Delay \o <<1>>
    BY <1>5 DEF GoIdle, Says, R1_IDLE_STATE
  <2>2. One(out', 1)
    BY <1>2, <2>1
  <2>3. cstate' = "idle" /\ initLeft' \in 0 .. MaxInit /\ ~busy
    BY <1>5 DEF GoIdle, Deaf
  <2> QED
    BY <1>5, <2>2, <2>3
<1>6. CASE ~Deaf(cmd) /\ cmd = "CMD8" /\ SendIfCond
  <2>1. CASE kind = "v1"
    <3>1. IdleBit + 4 \in {4, 5} /\ IdleBit + 4 \in 0 .. 255
      BY <1>1
    <3>2. One(out', IdleBit + 4) /\ UNCHANGED <<cstate, initLeft>>
      BY <1>2, <1>6, <2>1, <3>1 DEF SendIfCond, Plain, Says
    <3>3. Refuses
      BY <2>1, <3>1, <3>2
    <3> QED
      BY <3>3
  <2>2. CASE kind # "v1"
    <3>1. out' = Delay \o <<IdleBit, 0, 0, 1, 170>> /\ UNCHANGED <<cstate, initLeft>>
      BY <1>6, <2>2 DEF SendIfCond, Plain, Says, CMD8_RESPONSE_PATTERN
    <3>2. IdleBit \in 0 .. 255 /\ 0 \in 0 .. 255 /\ 1 \in 0 .. 255 /\ 170 \in 0 .. 255
      BY <1>1
    <3>3. Five(Delay \o <<IdleBit, 0, 0, 1, 170>>, IdleBit, 0, 0, 1, 170)
      BY <3>2, SaysFive, Zenon
    <3>4. Five(out', IdleBit, 0, 0, 1, 170)
      BY <3>1, <3>3, Zenon
    <3> QED
      BY <1>6, <2>2, <3>1, <3>4
  <2> QED
    BY <2>1, <2>2
<1>7. CASE ~Deaf(cmd) /\ cmd = "CMD55" /\ Plain(cmd, <<IdleBit>>)
  <2>1. IdleBit \in 0 .. 255
    BY <1>1
  <2>2. One(out', IdleBit)
    BY <1>2, <1>7, <2>1 DEF Plain, Says
  <2>3. app' = TRUE /\ UNCHANGED <<cstate, initLeft>>
    BY <1>7 DEF Plain
  <2> QED
    BY <1>7, <2>2, <2>3
<1>8. CASE ~Deaf(cmd) /\ cmd = "ACMD41" /\ SendOpCond(HighCapacity)
  <2>1. CASE ~app
    <3>1. IdleBit + 4 \in {4, 5} /\ IdleBit + 4 \in 0 .. 255
      BY <1>1
    <3>2. One(out', IdleBit + 4) /\ UNCHANGED <<cstate, initLeft>>
      BY <1>2, <1>8, <2>1, <3>1 DEF SendOpCond, Plain, Says
    <3>3. Refuses
      BY <1>8, <2>1, <3>1, <3>2
    <3> QED
      BY <3>3
  <2>2. CASE app
    <3>1. \/ /\ out' = Delay \o <<0>> /\ cstate' = "ready" /\ initLeft' = initLeft
          \/ /\ out' = Delay \o <<1>> /\ cstate' = cstate
             /\ sd_type = "SD_TYPE_2" => initLeft # 0 /\ initLeft' = initLeft - 1
      BY <1>8, <2>2
      DEF SendOpCond, HighCapacity, Says, R1_READY_STATE, R1_IDLE_STATE
    <3>2. 0 \in 0 .. 255 /\ 1 \in 0 .. 255
      OBVIOUS
    <3>3. out' = Delay \o <<0>> => One(out', 0)
      BY <1>2, <3>2
    <3>4. out' = Delay \o <<1>> => One(out', 1)
      BY <1>2, <3>2
    <3> QED
      BY <1>8, <3>1, <3>3, <3>4
  <2> QED
    BY <2>1, <2>2
<1>9. CASE ~Deaf(cmd) /\ cmd = "CMD58" /\ ReadOcr
  <2>1. ASSUME NEW b \in 0 .. 255
        PROVE  Five(Delay \o <<IdleBit, b, 255, 128, 0>>, IdleBit, b, 255, 128, 0)
    <3>1. IdleBit \in 0 .. 255 /\ 255 \in 0 .. 255 /\ 128 \in 0 .. 255 /\ 0 \in 0 .. 255
      BY <1>1
    <3> QED
      BY <3>1, SaysFive, Zenon
  <2>2. PICK b \in {0, 128, 192} :
          /\ out' = Delay \o <<IdleBit, b, 255, 128, 0>>
          /\ cstate = "ready" => b = Ocr
    <3> DEFINE b == IF cstate # "ready" THEN 0 ELSE IF kind = "hc" THEN 192 ELSE 128
    <3>1. out' = Delay \o <<IdleBit, b, 255, 128, 0>>
      BY <1>9 DEF ReadOcr, Plain, Says
    <3>2. b \in {0, 128, 192} /\ (cstate = "ready" => b = Ocr)
      BY DEF Ocr
    <3> QED
      BY <3>1, <3>2
  <2>3. Five(out', IdleBit, b, 255, 128, 0)
    <3>1. b \in 0 .. 255
      OBVIOUS
    <3> QED
      BY <2>2, <2>1, <3>1
  <2>4. UNCHANGED <<cstate, initLeft>>
    BY <1>9 DEF ReadOcr, Plain
  <2> QED
    BY <1>9, <2>2, <2>3, <2>4
<1> QED
  BY <1>3, <1>4, <1>5, <1>6, <1>7, <1>8, <1>9 DEF Receives, Obeys, Commands

\* A read or a write leaves the card ready.
LEMMA StaysReady ==
  ASSUME NEW c \in {"CMD17", "CMD24"}, NEW a, NEW hcs, Receives(c, a, hcs)
  PROVE  cstate' = cstate
<1>1. CASE Transfer(c, a)
  BY <1>1 DEF Transfer, Plain, ReadBlock, WriteBlock
<1> QED
  BY <1>1 DEF Receives, Obeys, Plain, device

\* The state after a power-on is one of these.
LEMMA StartInit == Init => StartInv
  BY CardsAssumption DEF Init, StartInv, Commands

\* What is on the line for the last command of the start says what is known of the
\* card when it is read.
LEMMA ReplyTold ==
  ASSUME SInv, TInv, StartInv, Reply, call = "init"
  PROVE  Stage'
<1>1. PICK r \in Line : Reply!2!(r)
  BY DEF Reply
<1>0. cs = "low"
  BY DEF Reply, SInv, FlowInv
<1>2. /\ pc = "reply" /\ cs = "low" /\ cmd \in Commands \ {"CMD24"}
      /\ pc' \in {"reply", "answered"}
      /\ UNCHANGED <<then, call, cmd, sd_type, cs, kind, rough, cstate, busy>>
  BY DEF Reply, ctx, fixed, device, SInv, FlowInv, Commanding, StartInv
<1>3. Stage
  BY DEF StartInv
<1>4. ASSUME kind # "none"
      PROVE  \/ r[1] = 255 /\ r[2] = out
             \/ r[1] < 128 /\ Told(r[1], r[2])
  <2>1. Sent
    BY <1>2, <1>3, <1>4 DEF Stage
  <2>2. CASE out = << >>
    <3>1. r[2] = out /\ (r[1] = 255 \/ (r[1] = 0 /\ busy))
      BY <1>2, <1>4, <2>2, ReadEmpty
    <3> QED
      BY <1>3, <3>1 DEF Stage, Told
  <2>3. ASSUME NEW b \in {0, 1, 4, 5, 8, 9}, One(out, b)
        PROVE  (r[1] = 255 /\ r[2] = out) \/ (r[1] = b /\ r[1] < 128)
    <3>1. b \in 0 .. 255 /\ b < 128
      OBVIOUS
    <3>3. Got(r, b, << >>)
      BY <1>0, <1>4, <2>3, <3>1, ReadOne, Zenon
    <3> QED
      BY <3>1, <3>3 DEF Got
  <2>4. CASE \E b \in {4, 5, 8, 9} : One(out, b)
    BY <2>3, <2>4 DEF Told
  <2>5. CASE cmd = "CMD0" /\ One(out, 1) /\ cstate = "idle" /\ ~busy
    BY <1>4, <2>3, <2>5 DEF Told
  <2>6. CASE cmd = "CMD8" /\ Five(out, 1, 0, 0, 1, 170) /\ kind # "v1"
    <3>1. 1 \in 0 .. 255
      OBVIOUS
    <3>2. Got(r, 1, <<0, 0, 1, 170>>)
      BY <1>0, <1>4, <2>6, <3>1, ReadFive, Zenon
    <3> QED
      BY <2>6, <3>2 DEF Got, Told
  <2>7. CASE cmd = "CMD55" /\ \E b \in {0, 1} : One(out, b)
    BY <2>3, <2>7 DEF Told
  <2>8. CASE cmd = "ACMD41" /\ One(out, 1)
    BY <2>3, <2>8 DEF Told
  <2>9. CASE cmd = "ACMD41" /\ One(out, 0) /\ cstate = "ready"
    BY <2>3, <2>9 DEF Told
  <2>10. CASE cmd = "CMD58" /\ Five(out, 0, Ocr, 255, 128, 0)
    <3>1. 0 \in 0 .. 255
      OBVIOUS
    <3>2. Got(r, 0, <<Ocr, 255, 128, 0>>)
      BY <1>0, <1>4, <2>10, <3>1, ReadFive, Zenon
    <3> QED
      BY <1>4, <2>10, <3>2 DEF Got, Told
  <2> QED
    BY <2>1, <2>2, <2>4, <2>5, <2>6, <2>7, <2>8, <2>9, <2>10 DEF Sent
<1>5. kind = "none" => r[1] = 255
  BY ReadAbsent
<1>6. pc' = "reply" /\ kind # "none" => out' = out
  BY <1>1, <1>4
<1>7. pc' = "answered" => Told(r1', out')
  <2>1. \A line : Told(255, line)
    BY DEF Told
  <2>2. pc' = "answered" => r1' = 255 \/ (r1' = r[1] /\ out' = r[2])
    BY <1>1, <1>2 DEF R1_RESPONSE_ERR
  <2>3. r[1] = 255 \/ Told(r[1], r[2])
    BY <1>4, <1>5
  <2> QED
    BY <2>1, <2>2, <2>3
<1>8. pc' = "answered" => Told(r1, out)'
  BY <1>2, <1>7 DEF Told, Ocr
<1>9. pc' = "reply" /\ kind # "none" => Sent'
  BY <1>2, <1>3, <1>6 DEF Stage, Sent, One, Five, Ocr
<1> QED
  BY <1>2, <1>3, <1>8, <1>9 DEF Stage

\* Every step of the driver keeps what has been found out.
LEMMA StartNext ==
  ASSUME SInv, TInv, StartInv, [Next]_vars
  PROVE  StartInv'
<1>1. CASE InitializeSd
  BY <1>1 DEF InitializeSd, Command, Disable, Abort, ctx, fixed,
     StartInv, Stage, Told, ReadyCard, SInv, FlowInv,
     Commanding, Commands
<1>2. CASE BusyWait
  BY <1>2 DEF BusyWait, ctx, fixed, device,
     StartInv, Stage, Told, ReadyCard, SInv, FlowInv,
     Commanding, Commands
<1>3. CASE GoIdleAnswered
  BY <1>3 DEF GoIdleAnswered, Starting, CommandAfterWait, Retry, Command, Failure,
     Disable, Abort,
     Bus, ctx, fixed, device, R1_IDLE_STATE,
     StartInv, Stage, Told, ReadyCard, SInv, FlowInv,
     Commanding, Commands
<1>4. CASE SendIfCondAnswered
  BY <1>4 DEF SendIfCondAnswered, Starting, Command, Retry, Failure, Disable, Abort,
     Bus, ctx, fixed, device, R1_IDLE_STATE,
     StartInv, Stage, Told, ReadyCard, SInv, FlowInv,
     Commanding, Commands
<1>5. CASE AppCmdAnswered
  BY <1>5 DEF AppCmdAnswered, Starting, Wait, CommandAfterWait, Bus, ctx, fixed, device,
     StartInv, Stage, Told, ReadyCard, SInv, FlowInv,
     Commanding, Commands
<1>6. CASE SendOpCondAnswered
  BY <1>6 DEF SendOpCondAnswered, Starting, Wait, Bus, ctx, fixed, device,
     R1_READY_STATE,
     StartInv, Stage, Told, ReadyCard, SInv, FlowInv,
     Commanding, Commands
<1>7. CASE AcommandRetry
  BY <1>7 DEF AcommandRetry, Retry, Command, Failure, Disable, Abort, Bus, ctx,
     fixed, device,
     StartInv, Stage, Told, ReadyCard, SInv, FlowInv,
     Commanding, Commands
<1>8. CASE CheckType
  BY <1>8 DEF CheckType, Command, Success, Bus, ctx, fixed, device,
     StartInv, Stage, Told, ReadyCard, SInv, FlowInv,
     Commanding, Commands
<1>9. CASE AwaitToken
  BY <1>9 DEF AwaitToken, ctx, fixed, device,
     StartInv, Stage, Told, ReadyCard, SInv, FlowInv,
     Commanding, Commands
<1>10. CASE GetBytes
  BY <1>10 DEF GetBytes, Wait, ctx, fixed, device,
     StartInv, Stage, Told, ReadyCard, SInv, FlowInv,
     Commanding, Commands
<1>11. CASE Close
  BY <1>11 DEF Close, Disable, Abort, ctx, fixed, device,
     StartInv, Stage, Told, ReadyCard, SInv, FlowInv,
     Commanding, Commands
<1>12. CASE WriteBlockAnswered
  BY <1>12 DEF WriteBlockAnswered, Bus, ctx, fixed, device,
     StartInv, Stage, Told, ReadyCard, SInv, FlowInv,
     Commanding, Commands
<1>13. CASE CallGet
  BY <1>13 DEF CallGet, Enable, Abort, Wait, ctx, fixed, device,
     StartInv, Stage, Told, ReadyCard, SInv, FlowInv,
     Commanding, Commands
<1>14. CASE CallPut
  BY <1>14 DEF CallPut, Enable, Abort, CommandAfterWait, ctx, fixed, device,
     StartInv, Stage, Told, ReadyCard, SInv, FlowInv,
     Commanding, Commands
<1>15. CASE CardDone
  BY <1>15 DEF CardDone, control, ctx, fixed, device, Sent, One, Five, Ocr,
     StartInv, Stage, Told, ReadyCard, SInv, FlowInv,
     Commanding, Commands
<1>16. CASE Reset
  BY <1>16 DEF Reset, fixed, device,
     StartInv, Stage, Told, ReadyCard, SInv, FlowInv,
     Commanding, Commands
<1>17. CASE PutBytes
  BY <1>17 DEF PutBytes, ctx, fixed, device,
     StartInv, Stage, Told, ReadyCard, SInv, FlowInv,
     Commanding, Commands
<1>18. CASE Ack
  BY <1>18 DEF Ack, Wait, ctx, fixed, device,
     StartInv, Stage, Told, ReadyCard, SInv, FlowInv,
     Commanding, Commands
<1>19. CASE Send
  <2>1. /\ pc = "send" /\ pc' = "reply" /\ cs' = "low"
        /\ UNCHANGED <<then, call, cmd, r1, sd_type, sd_status, kind, rough, busy>>
        /\ Receives(cmd, Argument, HighCapacity)
    BY <1>19 DEF Send, ctx, fixed
  <2>2. CASE call = "put"
    <3>1. cmd = "CMD24"
      BY <2>1, <2>2 DEF SInv, FlowInv, Commanding
    <3>2. cstate' = cstate
      BY <2>1, <3>1, StaysReady
    <3> QED
      BY <2>1, <2>2, <3>2 DEF StartInv, ReadyCard
  <2>3. CASE call = "init"
    <3>1. cmd \in Commands \ {"CMD24"} /\ Stage
      BY <2>1, <2>3 DEF StartInv, SInv, FlowInv, Commanding
    <3>2. CASE kind = "none"
      BY <2>1, <2>3, <3>1, <3>2 DEF Receives, Deaf, device, StartInv, Stage, Sent
    <3>3. CASE kind # "none"
      <4>1. \/ Deaf(cmd) /\ out' = << >> /\ UNCHANGED <<cstate, initLeft, app>>
            \/ Refuses \/ IsIdle \/ Echoes \/ Listens \/ NotYet \/ IsReady \/ TellsOcr
        BY <2>1, <3>1, <3>3, Answers
      <4> DEFINE Known == /\ cmd # "CMD0" => cstate' \in {"idle", "ready"}
                          /\ cmd = "CMD8" => cstate' = "idle"
                          /\ cmd = "CMD58" => cstate' = "ready"
      <4>2. ASSUME Sent', Known PROVE StartInv'
        BY <2>1, <2>3, <3>1, <4>2 DEF StartInv, Stage
      <4>3. CASE Deaf(cmd) /\ out' = << >> /\ UNCHANGED <<cstate, initLeft, app>>
        BY <3>1, <4>2, <4>3 DEF Sent, Stage
      <4>4. CASE Refuses
        BY <2>1, <3>1, <4>2, <4>4 DEF Refuses, Sent, One, Stage
      <4>5. CASE IsIdle
        BY <2>1, <3>1, <4>2, <4>5 DEF IsIdle, Sent, One, Stage
      <4>6. CASE Echoes
        BY <2>1, <3>1, <4>2, <4>6 DEF Echoes, Sent, Five, IdleBit, Stage
      <4>7. CASE Listens
        BY <2>1, <3>1, <4>2, <4>7 DEF Listens, Sent, One, IdleBit, Stage
      <4>8. CASE NotYet
        BY <2>1, <3>1, <4>2, <4>8 DEF NotYet, Sent, One, Stage
      <4>9. CASE IsReady
        BY <2>1, <3>1, <4>2, <4>9 DEF IsReady, Sent, One, Stage
      <4>10. CASE TellsOcr
        BY <2>1, <3>1, <4>2, <4>10 DEF TellsOcr, Sent, Five, Ocr, IdleBit, Stage
      <4> QED
        BY <4>1, <4>3, <4>4, <4>5, <4>6, <4>7, <4>8, <4>9, <4>10
    <3> QED
      BY <3>2, <3>3
  <2> QED
    BY <2>1, <2>2, <2>3 DEF SInv, FlowInv, Commanding
<1>20. CASE Reply
  <2>1. CASE call = "init"
    <3>1. Stage'
      BY <1>20, <2>1, ReplyTold
    <3>2. /\ pc = "reply" /\ pc' \in {"reply", "answered"}
          /\ UNCHANGED <<call, cmd, kind>>
      BY <1>20 DEF Reply, fixed
    <3> QED
      BY <2>1, <3>1, <3>2 DEF StartInv
  <2>2. CASE call # "init"
    BY <1>20, <2>2 DEF Reply, ctx, fixed, device, StartInv, Stage, Told, ReadyCard,
       SInv, FlowInv,
     Commanding, Commands
  <2> QED
    BY <2>1, <2>2
<1>21. CASE ReadOcrAnswered
  <2>1. CASE call = "init" /\ pc = "answered" /\ cmd = "CMD58" /\ r1 = 0
    <3>1. cs = "low" /\ kind # "none" /\ out = <<Ocr, 255, 128, 0>>
      BY <2>1 DEF StartInv, Stage, Told, SInv, FlowInv
    <3>2. Taken(8)[1] = Ocr
      BY <3>1, TakenFour
    <3> QED
      BY <1>21, <2>1, <3>2 DEF ReadOcrAnswered, Starting, ctx, fixed, device,
         R1_READY_STATE, Sdhc, Ocr, StartInv, Stage, Told, ReadyCard, SInv, FlowInv,
     Commanding, Commands
  <2>2. CASE r1 # 0
    BY <1>21, <2>2 DEF ReadOcrAnswered, Starting, Retry, Command, Failure, Disable,
       Abort, Bus, ctx, fixed, device, R1_READY_STATE, StartInv, Stage, Told,
       ReadyCard, SInv, FlowInv,
     Commanding, Commands
  <2>3. call = "init" /\ pc = "answered" /\ cmd = "CMD58"
    BY <1>21 DEF ReadOcrAnswered, Starting, SInv, FlowInv, Commanding
  <2> QED
    BY <2>1, <2>2, <2>3
<1>22. CASE StartRead
  <2>1. /\ pc = "read" /\ call = "get" /\ pc' = "token"
        /\ UNCHANGED <<then, call, cmd, sd_type, sd_status, kind>>
        /\ Receives("CMD17", Argument, FALSE)
    BY <1>22 DEF StartRead, ctx, fixed, SInv, FlowInv
  <2>2. cstate' = cstate
    BY <2>1, StaysReady
  <2> QED
    BY <2>1, <2>2 DEF StartInv, ReadyCard
<1>23. CASE UNCHANGED vars
  BY <1>23 DEF vars, control, ctx, fixed, device, Sent, One, Five, Ocr,
     StartInv, Stage, Told, ReadyCard, SInv, FlowInv,
     Commanding, Commands
<1> QED
  BY <1>1, <1>2, <1>3, <1>4, <1>5, <1>6, <1>7, <1>8, <1>9, <1>10, <1>11, <1>12,
     <1>13, <1>14, <1>15, <1>16, <1>17, <1>18, <1>19, <1>20, <1>21, <1>22,
     <1>23 DEF Next, Driver

-----------------------------------------------------------------------------
\* The state after a power-on is one of these.
LEMMA GoodInit == Init => GoodInv
  BY DEF Init, GoodInv

\* A card that answers in time, sent a command of the start, has its answer on the
\* line.
LEMMA GoodSend ==
  ASSUME SInv, TInv, StartInv, GoodInv, Send, Punctual, call = "init"
  PROVE  Good'
<1>1. /\ pc = "send" /\ pc' = "reply" /\ tries' = 0 /\ cs' = "low"
      /\ UNCHANGED <<then, call, cmd, r1, trials, sd_type, sd_status, kind, rough, busy>>
      /\ Receives(cmd, Argument, HighCapacity)
  BY DEF Send, ctx, fixed
<1>2. cmd \in Commands \ {"CMD24"} /\ Stage /\ Good /\ ~busy /\ ~rough
      /\ kind # "none" /\ kind # "v1" /\ kind' \in {"sc", "hc"}
  BY <1>1 DEF StartInv, SInv, FlowInv, Commanding, GoodInv, Punctual
<1>3. /\ trials \in Nat /\ initLeft \in 0 .. MaxInit /\ MaxInit \in Nat
      /\ MaxInit <= MAX_CMD_TRIALS /\ MAX_CMD_TRIALS \in Nat
  BY TrialsAssumption DEF TInv, SdTypeOK
<1>4. \/ Deaf(cmd) /\ out' = << >> /\ UNCHANGED <<cstate, initLeft, app>>
      \/ Refuses \/ IsIdle \/ Echoes \/ Listens \/ NotYet \/ IsReady \/ TellsOcr
  BY <1>1, <1>2, Answers
<1>5. ~Deaf(cmd)
  BY <1>2 DEF Deaf, Stage, Good
<1>6. ~Refuses
  BY <1>1, <1>2 DEF Refuses, Good
<1>7. CASE IsIdle
  <2>1. out' = <<1>> /\ cmd = "CMD0" /\ cstate' = "idle" /\ initLeft' \in Nat
    BY <1>2, <1>3, <1>7 DEF IsIdle, One
  <2>2. out' # << >> /\ out'[1] \in 0 .. 127
    BY <2>1
  <2> QED
    BY <1>1, <1>2, <2>1, <2>2 DEF Good
<1>8. CASE Echoes
  <2>1. cmd = "CMD8" /\ cstate' = "idle" /\ initLeft' \in Nat
    BY <1>2, <1>3, <1>8 DEF Echoes, Stage
  <2>2. out' = <<1, 0, 0, 1, 170>>
    BY <1>2, <1>8 DEF Echoes, Five, Stage, IdleBit
  <2>3. out' # << >> /\ out'[1] \in 0 .. 127
    BY <2>2
  <2> QED
    BY <1>1, <1>2, <2>1, <2>2, <2>3 DEF Good
<1>9. CASE Listens
  BY <1>1, <1>2, <1>3, <1>9 DEF Listens, Good, One, IdleBit
<1>10. CASE NotYet
  BY <1>1, <1>2, <1>3, <1>10 DEF NotYet, Good, One, Stage
<1>11. CASE IsReady
  BY <1>1, <1>2, <1>3, <1>11 DEF IsReady, Good, One
<1>12. CASE TellsOcr
  BY <1>1, <1>2, <1>3, <1>12 DEF TellsOcr, Good, Five, Stage, IdleBit, Ocr
<1> QED
  BY <1>4, <1>5, <1>6, <1>7, <1>8, <1>9, <1>10, <1>11, <1>12

\* The driver reads it at once.
LEMMA GoodReply ==
  ASSUME MAX_CMD_TRIALS > 1,
         SInv, TInv, StartInv, GoodInv, Reply, Punctual, call = "init"
  PROVE  Good'
<1>1. PICK r \in Line : Reply!2!(r)
  BY DEF Reply
<1>2. /\ pc = "reply" /\ cs = "low" /\ cmd \in Commands \ {"CMD24"}
      /\ UNCHANGED <<then, call, ret, cmd, trials, kind, cstate, initLeft, app>>
  BY DEF Reply, ctx, fixed, device, SInv, FlowInv, Commanding, StartInv
<1>3. Good /\ ~rough /\ kind # "none" /\ MAX_CMD_TRIALS \in Nat
  BY TrialsAssumption DEF GoodInv, Punctual
<1>4. out # << >> /\ out[1] \in 0 .. 127 /\ tries = 0
  BY <1>2, <1>3 DEF Good
<1>5. r[1] = out[1] /\ r[2] = Tail(out)
  <2>1. Head(out) = out[1] /\ Head(out) # GAP
    BY <1>2, <1>3, <1>4 DEF Good, GAP, Commands
  <2>2. Line = {<<Head(out), Tail(out)>>}
    BY <1>2, <1>3, <1>4, <2>1 DEF Line
  <2> QED
    BY <2>1, <2>2
<1>6. pc' = "answered" /\ r1' = out[1] /\ out' = Tail(out)
  <2>1. tries' = 1 /\ ~(tries' >= MAX_CMD_TRIALS)
    BY <1>1, <1>3, <1>4 DEF Counted
  <2>2. r[1] < 128
    <3>1. \A x \in 0 .. 127 : x < 128
      OBVIOUS
    <3>2. r[1] \in 0 .. 127
      BY <1>4, <1>5, Zenon
    <3> QED
      BY <3>1, <3>2
  <2> QED
    BY <1>1, <1>5, <2>1, <2>2
<1>7. CASE cmd = "CMD0"
  BY <1>2, <1>3, <1>6, <1>7 DEF Good
<1>8. CASE cmd = "CMD8"
  <2>1. out = <<1, 0, 0, 1, 170>>
    BY <1>2, <1>3, <1>8 DEF Good
  <2>2. r1' = 1 /\ out' = <<0, 0, 1, 170>>
    BY <1>6, <2>1
  <2> QED
    BY <1>2, <1>3, <1>6, <1>8, <2>2 DEF Good
<1>9. CASE cmd = "CMD55"
  BY <1>2, <1>3, <1>6, <1>9 DEF Good
<1>10. CASE cmd = "ACMD41"
  BY <1>2, <1>3, <1>6, <1>10 DEF Good
<1>11. CASE cmd = "CMD58"
  BY <1>2, <1>3, <1>6, <1>11 DEF Good
<1> QED
  BY <1>2, <1>7, <1>8, <1>9, <1>10, <1>11 DEF Commands

\* Every step keeps a good start good.
LEMMA GoodNext ==
  ASSUME MAX_CMD_TRIALS > 1, SInv, TInv, StartInv, GoodInv, [Next]_vars
  PROVE  GoodInv'
<1>0. /\ trials \in Nat /\ initLeft \in 0 .. MaxInit /\ MaxInit \in Nat
      /\ MaxInit <= MAX_CMD_TRIALS /\ MAX_CMD_TRIALS \in Nat
  BY TrialsAssumption DEF TInv, SdTypeOK
<1>1. CASE InitializeSd
  BY <1>0, <1>1 DEF InitializeSd, Command, Disable, Abort, ctx, fixed,
     GoodInv, Punctual, Good, StartInv, Stage, Told,
     SInv, FlowInv, Commanding, Commands
<1>2. CASE BusyWait
  BY <1>0, <1>2 DEF BusyWait, ctx, fixed, device,
     GoodInv, Punctual, Good, StartInv, Stage, Told,
     SInv, FlowInv, Commanding, Commands
<1>3. CASE GoIdleAnswered
  BY <1>0, <1>3 DEF GoIdleAnswered, Starting, CommandAfterWait, Retry, Command,
     Failure, Disable, Abort,
     Bus, ctx, fixed, device, R1_IDLE_STATE,
     GoodInv, Punctual, Good, StartInv, Stage, Told,
     SInv, FlowInv, Commanding, Commands
<1>4. CASE AppCmdAnswered
  BY <1>0, <1>4 DEF AppCmdAnswered, Starting, Wait, CommandAfterWait, Bus, ctx,
     fixed, device, R1_RESPONSE_ERR,
     GoodInv, Punctual, Good, StartInv, Stage, Told,
     SInv, FlowInv, Commanding, Commands
<1>5. CASE SendOpCondAnswered
  BY <1>0, <1>5 DEF SendOpCondAnswered, Starting, Wait, Bus, ctx, fixed, device,
     R1_READY_STATE,
     GoodInv, Punctual, Good, StartInv, Stage, Told,
     SInv, FlowInv, Commanding, Commands
<1>6. CASE AcommandRetry
  BY <1>0, <1>6 DEF AcommandRetry, Retry, Command, Failure, Disable, Abort, Bus, ctx,
     fixed, device,
     GoodInv, Punctual, Good, StartInv, Stage, Told,
     SInv, FlowInv, Commanding, Commands
<1>7. CASE CheckType
  BY <1>0, <1>7 DEF CheckType, Command, Success, Bus, ctx, fixed, device,
     GoodInv, Punctual, Good, StartInv, Stage, Told,
     SInv, FlowInv, Commanding, Commands
<1>8. CASE ReadOcrAnswered
  BY <1>0, <1>8 DEF ReadOcrAnswered, Starting, Retry, Command, Failure, Disable,
     Abort, Bus, ctx, fixed, device, R1_READY_STATE,
     GoodInv, Punctual, Good, StartInv, Stage, Told,
     SInv, FlowInv, Commanding, Commands
<1>9. CASE StartRead
  BY <1>0, <1>9 DEF StartRead, ctx, fixed,
     GoodInv, Punctual, Good, StartInv, Stage, Told,
     SInv, FlowInv, Commanding, Commands
<1>10. CASE AwaitToken
  BY <1>0, <1>10 DEF AwaitToken, ctx, fixed, device,
     GoodInv, Punctual, Good, StartInv, Stage, Told,
     SInv, FlowInv, Commanding, Commands
<1>11. CASE GetBytes
  BY <1>0, <1>11 DEF GetBytes, Wait, ctx, fixed, device,
     GoodInv, Punctual, Good, StartInv, Stage, Told,
     SInv, FlowInv, Commanding, Commands
<1>12. CASE Close
  BY <1>0, <1>12 DEF Close, Disable, Abort, ctx, fixed, device,
     GoodInv, Punctual, Good, StartInv, Stage, Told,
     SInv, FlowInv, Commanding, Commands
<1>13. CASE WriteBlockAnswered
  BY <1>0, <1>13 DEF WriteBlockAnswered, Bus, ctx, fixed, device,
     GoodInv, Punctual, Good, StartInv, Stage, Told,
     SInv, FlowInv, Commanding, Commands
<1>14. CASE CallGet
  BY <1>0, <1>14 DEF CallGet, Enable, Abort, Wait, ctx, fixed, device,
     GoodInv, Punctual, Good, StartInv, Stage, Told,
     SInv, FlowInv, Commanding, Commands
<1>15. CASE CallPut
  BY <1>0, <1>15 DEF CallPut, Enable, Abort, CommandAfterWait, ctx, fixed, device,
     GoodInv, Punctual, Good, StartInv, Stage, Told,
     SInv, FlowInv, Commanding, Commands
<1>16. CASE CardDone
  BY <1>0, <1>16 DEF CardDone, control, ctx, fixed, device, Ocr,
     GoodInv, Punctual, Good, StartInv, Stage, Told,
     SInv, FlowInv, Commanding, Commands
<1>17. CASE Reset
  BY <1>0, <1>17 DEF Reset, fixed, device,
     GoodInv, Punctual, Good, StartInv, Stage, Told,
     SInv, FlowInv, Commanding, Commands
<1>18. CASE PutBytes
  BY <1>0, <1>18 DEF PutBytes, ctx, fixed, device,
     GoodInv, Punctual, Good, StartInv, Stage, Told,
     SInv, FlowInv, Commanding, Commands
<1>19. CASE Ack
  BY <1>0, <1>19 DEF Ack, Wait, ctx, fixed, device,
     GoodInv, Punctual, Good, StartInv, Stage, Told,
     SInv, FlowInv, Commanding, Commands
<1>20. CASE Send
  <2>1. CASE Punctual /\ call = "init"
    BY <1>20, <2>1, GoodSend DEF Send, fixed, GoodInv, Punctual
  <2>2. CASE ~(Punctual /\ call = "init")
    BY <1>20, <2>2 DEF Send, fixed, GoodInv, Punctual, Good, StartInv, Stage, Told,
     SInv, FlowInv, Commanding, Commands
  <2> QED
    BY <2>1, <2>2
<1>21. CASE Reply
  <2>1. CASE Punctual /\ call = "init"
    BY <1>21, <2>1, GoodReply DEF Reply, fixed, GoodInv, Punctual
  <2>2. CASE ~(Punctual /\ call = "init")
    BY <1>21, <2>2 DEF Reply, fixed, GoodInv, Punctual, Good, StartInv, Stage, Told,
     SInv, FlowInv, Commanding, Commands
  <2> QED
    BY <2>1, <2>2
<1>22. CASE SendIfCondAnswered
  <2>1. CASE Punctual
    <3>1. /\ pc = "answered" /\ cmd = "CMD8" /\ call = "init" /\ Good
          /\ cs = "low" /\ kind # "none" /\ r1 = 1 /\ out = <<0, 0, 1, 170>>
      BY <1>22, <2>1 DEF SendIfCondAnswered, Starting, GoodInv, Good, Punctual,
         SInv, FlowInv, Commanding
    <3>2. Taken(8)[4] = 170
      BY <3>1, TakenFour
    <3> QED
      BY <1>0, <1>22, <2>1, <3>1, <3>2 DEF SendIfCondAnswered, Starting, Command,
         ctx, fixed, device, R1_IDLE_STATE, CMD8_RESPONSE_PATTERN, GoodInv, Punctual, Good
  <2>2. CASE ~Punctual
    BY <1>22, <2>2 DEF SendIfCondAnswered, Starting, fixed, GoodInv, Punctual
  <2> QED
    BY <2>1, <2>2
<1>23. CASE UNCHANGED vars
  BY <1>0, <1>23 DEF vars, control, ctx, fixed, device, Ocr,
     GoodInv, Punctual, Good, StartInv, Stage, Told,
     SInv, FlowInv, Commanding, Commands
<1> QED
  BY <1>1, <1>2, <1>3, <1>4, <1>5, <1>6, <1>7, <1>8, <1>9, <1>10, <1>11, <1>12,
     <1>13, <1>14, <1>15, <1>16, <1>17, <1>18, <1>19, <1>20, <1>21, <1>22,
     <1>23 DEF Next, Driver

-----------------------------------------------------------------------------
\* SD_ENABLED means a version 2 card that is ready, of the type that is noted
\* (sd.c:302-307, 370-379): nothing that is late, garbled, lost or reset, and no
\* later call, makes it untrue.
THEOREM EnabledMeansReady == Spec => []EnabledIsReady
<1>1. StartInv => EnabledIsReady
  BY DEF StartInv, ReadyCard, EnabledIsReady
<1> QED
  BY <1>1, SInvariance, GInvariance, TInit, TNext, StartInit, StartNext, PTL DEF Spec

\* A version 2 card that answers in time is started, however often it has to be
\* asked to get ready (sd.c:331-346), if sd_command reads more than one byte in
\* search of an answer (MAX_CMD_TRIALS is 8): the last it reads it does not look at.
THEOREM PunctualIsStarted ==
  ASSUME MAX_CMD_TRIALS > 1
  PROVE  Spec => []Starts
<1>1. SInv /\ TInv /\ StartInv /\ GoodInv /\ [Next]_vars => GoodInv'
  BY GoodNext
<1>2. StartInv /\ GoodInv => Starts
  BY DEF StartInv, GoodInv, Good, Punctual, Starts, Returned
<1> QED
  BY <1>1, <1>2, SInvariance, GInvariance, TInit, TNext, StartInit, StartNext, GoodInit,
     PTL DEF Spec

=============================================================================

---------------------------- MODULE IOCacheProofs ----------------------------
(***************************************************************************)
(* Proofs about IOCache, for a card of any size up to the ADDR_SPAN        *)
(* sectors that the 16 bit addresses of the context can number, any sector *)
(* size, and a card that may fail at any step.                             *)
(***************************************************************************)
EXTENDS IOCache, TLAPS

\* A loop under way has a byte left to move.
LeftInv == pc = "busy" => left > 0

\* The places of the bytes a loop has moved lie before the place of the next.
Before(p, r) == p[1] < r[1] \/ (p[1] = r[1] /\ p[2] < r[2])
OrderInv == pc = "busy" => \A i \in DOMAIN moved : Before(moved[i][1], pos)

\* While a read is under way, the input buffer is that of the sector the read
\* began in, or was fetched by the read.
FetchedInv ==
  pc = "busy" /\ op = "read" /\ moved # << >> =>
    \/ input_sector_addr = moved[1][1][1]
    \/ input_sector_buf = card[input_sector_addr]

\* Without power the context is cleared memory, and both buffers claim to be
\* sector 0, as initialize_io will have it.
OffInv == pc = "off" => /\ op = "other"
                        /\ input_sector_addr = 0 /\ output_sector_addr = 0

TInv == IOTypeOK /\ LeftInv /\ OffInv

IInv == TInv /\ OrderInv /\ FetchedInv /\ PutBytesStay /\ FreshBeyondFirst

-----------------------------------------------------------------------------
(* Types. *)

\* Up to ADDR_SPAN sectors, the 16 bit field keeps the sector number (io.h).
LEMMA KeptSector ==
  ASSUME NSectors <= ADDR_SPAN, NEW s \in Sector
  PROVE  Kept(s) = s
BY CardAssumption, SpanAssumption DEF Kept, Sector

\* The place after a place is again a place, and later.
LEMMA NextPlaceLater ==
  ASSUME NEW p \in Nat \X Offset
  PROVE  NextPlace(p) \in Nat \X Offset /\ Before(p, NextPlace(p))
BY CardAssumption DEF NextPlace, Offset, Before

\* What the end of a loop leaves behind.
LEMMA LeaveType ==
  ASSUME NEW r \in {"ok", "err"}, Leave(r)
  PROVE  /\ pc' = "idle" /\ ret' \in {"ok", "err"}
         /\ pos' \in Nat \X Offset /\ left' \in 0 .. MaxLen
BY CardAssumption, CallAssumption DEF Leave, Offset

\* Moving a byte, whatever the loop does then, keeps the loop's types.
LEMMA MoveType ==
  ASSUME TInv, pc = "busy", pos[1] \in Sector, NEW v \in Byte, Stored(v)
  PROVE  /\ pc' \in {"idle", "busy"} /\ ret' \in {"ok", "err"}
         /\ pos' \in Nat \X Offset /\ left' \in 0 .. MaxLen
         /\ pc' = "busy" => left' > 0 /\ pos' = NextPlace(pos)
         /\ pos \in Place
         /\ moved' = Append(moved, <<pos, v>>)
         /\ moved' \in Seq(Place \X Byte)
<1>1. pos \in Place
  BY DEF TInv, IOTypeOK, Place
<1>2. moved' = Append(moved, <<pos, v>>)
  BY DEF Stored, Succeed, Record
<1>3. moved' \in Seq(Place \X Byte)
  BY <1>1, <1>2 DEF TInv, IOTypeOK
<1>4. Leave("ok") \/ Leave("err") \/ (Continue /\ left # 1)
  BY DEF Stored, Succeed
<1>5. CASE Leave("ok") \/ Leave("err")
  BY <1>1, <1>2, <1>3, <1>5, LeaveType
<1>6. CASE Continue /\ left # 1
  <2>1. pos' \in Nat \X Offset
    BY <1>6, NextPlaceLater DEF Continue, TInv, IOTypeOK
  <2> QED
    BY <1>1, <1>2, <1>3, <1>6, <2>1, CallAssumption
    DEF Continue, TInv, IOTypeOK, LeftInv
<1> QED
  BY <1>4, <1>5, <1>6

\* The start.
LEMMA InitInv == Init => IInv
<1> SUFFICES ASSUME Init PROVE IInv
  OBVIOUS
<1>1. IOTypeOK
  BY CardAssumption, ByteAssumption, CallAssumption
  DEF Init, IOTypeOK, Sector, Offset, Block, Cleared
<1> QED
  BY <1>1 DEF Init, IInv, TInv, LeftInv, OffInv, OrderInv, FetchedInv, PutBytesStay,
     FreshBeyondFirst

\* Writing the output buffer back gives a card of the same shape.
LEMMA FlushedType ==
  ASSUME IOTypeOK
  PROVE  Flushed \in [Sector -> Block]
BY DEF IOTypeOK, Flushed

\* Every step keeps the types, and with them the buffers' sectors on the card.
LEMMA NextType ==
  ASSUME NSectors <= ADDR_SPAN, TInv, [Next]_vars
  PROVE  TInv'
<1> USE DEF TInv, OffInv, inVars, outVars
<1>1. CASE PowerOn
  BY <1>1, CardAssumption, ByteAssumption
  DEF PowerOn, IOTypeOK, LeftInv, Sector, Block, Cleared
<1>2. CASE PowerCut
  BY <1>2, CardAssumption, ByteAssumption, CallAssumption
  DEF PowerCut, IOTypeOK, LeftInv, Sector, Offset, Block, Cleared
<1>3. CASE Call
  BY <1>3, CallAssumption DEF Call, IOTypeOK, LeftInv, Place, Sector
<1>4. CASE GetByte
  <2>1. CASE GetHit
    <3>1. pos[1] \in Sector /\ input_sector_buf[pos[2]] \in Byte
      BY <2>1 DEF GetHit, InputHit, IOTypeOK, Block
    <3> QED
      BY <1>4, <2>1, <3>1, MoveType
      DEF GetByte, GetHit, Stored, IOTypeOK, LeftInv
  <2>2. CASE GetMiss
    <3>1. card[pos[1]] \in Block /\ card[pos[1]][pos[2]] \in Byte
      BY <2>2 DEF GetMiss, IOTypeOK, Block
    <3>2. input_sector_addr' \in Sector
      BY <2>2, KeptSector DEF GetMiss
    <3> QED
      BY <1>4, <2>2, <3>1, <3>2, MoveType
      DEF GetByte, GetMiss, Stored, IOTypeOK, LeftInv
  <2>3. CASE GetFails
    BY <1>4, <2>3, LeaveType DEF GetByte, GetFails, Fail, IOTypeOK, LeftInv
  <2> QED
    BY <1>4, <2>1, <2>2, <2>3 DEF GetByte
<1>5. ASSUME NEW v \in Byte, PutByte(v) PROVE TInv'
  <2>1. CASE PutHit(v)
    <3>1. output_sector_buf' \in Block
      BY <2>1 DEF PutHit, IOTypeOK, Block
    <3>2. pos[1] \in Sector
      BY <2>1 DEF PutHit, OutputHit, IOTypeOK
    <3> QED
      BY <1>5, <2>1, <3>1, <3>2, MoveType
      DEF PutByte, PutHit, IOTypeOK, LeftInv
  <2>2. CASE FlushFails \/ FetchFails
    BY <1>5, <2>2, LeaveType, FlushedType
    DEF PutByte, FlushFails, FetchFails, Fail, IOTypeOK, LeftInv
  <2>3. CASE PutMiss(v)
    <3>1. Flushed[pos[1]] \in Block
      BY <2>3, FlushedType DEF PutMiss
    <3>2. output_sector_buf' \in Block
      BY <2>3, <3>1 DEF PutMiss, IOTypeOK, Block
    <3>3. output_sector_addr' \in Sector
      BY <2>3, KeptSector DEF PutMiss
    <3> QED
      BY <1>5, <2>3, <3>2, <3>3, MoveType, FlushedType
      DEF PutByte, PutMiss, IOTypeOK, LeftInv
  <2> QED
    BY <1>5, <2>1, <2>2, <2>3 DEF PutByte
<1>6. CASE FlushWrite
  BY <1>6, FlushedType DEF FlushWrite, IOTypeOK, LeftInv
<1>7. CASE FlushRead
  BY <1>7 DEF FlushRead, IOTypeOK, LeftInv
<1>8. CASE UNCHANGED vars
  BY <1>8 DEF vars, job, IOTypeOK, LeftInv
<1> QED
  BY <1>1, <1>2, <1>3, <1>4, <1>5, <1>6, <1>7, <1>8 DEF Next

-----------------------------------------------------------------------------
(* What the store holds. *)

\* Written back, the card holds what the store holds.
LEMMA FlushedIsContents ==
  ASSUME IOTypeOK, pc # "off"
  PROVE  Flushed = Contents
BY DEF IOTypeOK, Flushed, Contents

\* A put changes the byte put and nothing else, whether or not the sectors are
\* changed on the way (io_put_byte).
LEMMA ContentsAfterPut ==
  ASSUME NSectors <= ADDR_SPAN, TInv, pc = "busy", NEW v \in Byte,
         PutHit(v) \/ PutMiss(v)
  PROVE  /\ pos \in Place
         /\ Contents' = [Contents EXCEPT ![pos[1]][pos[2]] = v]
<1>1. pos \in Place /\ pc' # "off"
  <2>1. pos[1] \in Sector /\ Stored(v)
    BY DEF PutHit, PutMiss, OutputHit, TInv, IOTypeOK
  <2> QED
    BY <2>1, MoveType
<1>2. CASE PutHit(v)
  BY <1>1, <1>2 DEF PutHit, OutputHit, Contents
<1>3. CASE PutMiss(v)
  <2>1. output_sector_addr' = pos[1]
    BY <1>3, KeptSector DEF PutMiss
  <2> QED
    BY <1>1, <1>3, <2>1, FlushedIsContents DEF PutMiss, TInv, Contents
<1> QED
  BY <1>1, <1>2, <1>3

\* Nothing else changes what the store holds, except that the power goes or
\* comes; in particular no failing call of sd.c does.
LEMMA ContentsKept ==
  ASSUME TInv, [Next]_vars, ~PowerOn, ~PowerCut,
         \A v \in Byte : PutByte(v) => ~PutHit(v) /\ ~PutMiss(v)
  PROVE  Contents' = Contents
<1> USE DEF inVars, outVars
<1>1. CASE UNCHANGED <<card, outVars>> /\ (pc' = "off") = (pc = "off")
  BY <1>1 DEF Contents
<1>2. CASE Call \/ FlushRead \/ UNCHANGED vars
  BY <1>1, <1>2 DEF Call, FlushRead, vars, job
<1>3. CASE GetByte
  <2>1. pc = "busy" /\ pc' # "off" /\ UNCHANGED <<card, outVars>>
    BY <1>3 DEF GetByte, GetHit, GetMiss, GetFails, Succeed, Continue, Leave,
       Fail
  <2> QED
    BY <1>1, <2>1
<1>4. ASSUME NEW v \in Byte, PutByte(v)
      PROVE  Contents' = Contents
  <2>1. /\ pc = "busy" /\ pc' = "idle"
        /\ card' \in {card, Flushed} /\ UNCHANGED outVars
    BY <1>4 DEF PutByte, FlushFails, FetchFails, Fail, Leave
  <2> QED
    BY <2>1, FlushedIsContents DEF TInv, Contents
<1>5. CASE FlushWrite
  <2>1. /\ pc = "idle" /\ pc' = "idle"
        /\ card' \in {card, Flushed} /\ UNCHANGED outVars
    BY <1>5 DEF FlushWrite
  <2> QED
    BY <2>1, FlushedIsContents DEF TInv, Contents
<1> QED
  BY <1>2, <1>3, <1>4, <1>5 DEF Next

-----------------------------------------------------------------------------
(* The invariant. *)

\* A byte moved at a place keeps the order, as the loop goes on behind it.
LEMMA MoveOrder ==
  ASSUME TInv, OrderInv, pc = "busy", pos[1] \in Sector, NEW v \in Byte,
         Stored(v)
  PROVE  OrderInv'
<1> SUFFICES ASSUME pc' = "busy", NEW i \in DOMAIN moved'
             PROVE  Before(moved'[i][1], pos')
  BY DEF OrderInv
<1>1. /\ pos' = NextPlace(pos) /\ pos \in Place
      /\ moved' = Append(moved, <<pos, v>>)
  BY MoveType
<1>2. pos \in Nat \X Offset /\ pos' \in Nat \X Offset /\ Before(pos, pos')
  BY <1>1, NextPlaceLater DEF TInv, IOTypeOK
<1>3. CASE i = Len(moved) + 1
  BY <1>1, <1>2, <1>3 DEF TInv, IOTypeOK
<1>4. CASE i \in DOMAIN moved
  <2>1. moved'[i] = moved[i] /\ moved[i][1] \in Nat \X Offset
    BY <1>1, <1>4 DEF TInv, IOTypeOK, Place, Sector
  <2>2. Before(moved[i][1], pos)
    BY <1>4 DEF OrderInv
  <2> QED
    BY <1>2, <2>1, <2>2 DEF Before, Offset
<1> QED
  BY <1>1, <1>3, <1>4 DEF TInv, IOTypeOK

\* The four parts of the invariant that are about a loop under way.
LEMMA NextInv ==
  ASSUME NSectors <= ADDR_SPAN, IInv, [Next]_vars
  PROVE  IInv'
<1> USE DEF IInv
<1>1. TInv /\ TInv'
  BY NextType
<1>2. CASE PowerOn
  BY <1>1, <1>2 DEF PowerOn, TInv, OffInv, OrderInv, FetchedInv, PutBytesStay,
     FreshBeyondFirst
<1>3. CASE PowerCut
  BY <1>1, <1>3 DEF PowerCut, OrderInv, FetchedInv, PutBytesStay,
     FreshBeyondFirst
<1>4. CASE Call
  BY <1>1, <1>4 DEF Call, OrderInv, FetchedInv, PutBytesStay, FreshBeyondFirst
<1>5. CASE GetByte
  <2>1. CASE GetFails
    BY <1>1, <1>5, <2>1
    DEF GetByte, GetFails, Fail, Leave, OrderInv, FetchedInv, PutBytesStay,
        FreshBeyondFirst
  <2>2. ASSUME GetHit \/ GetMiss PROVE IInv'
    <3>1. PICK v \in Byte : /\ Stored(v)
                            /\ v = input_sector_buf'[pos[2]]
                            /\ pos[1] \in Sector
                            /\ input_sector_addr' = pos[1]
      <4>1. CASE GetHit
        BY <1>1, <4>1 DEF GetHit, InputHit, Stored, TInv, IOTypeOK, Block,
           inVars
      <4>2. CASE GetMiss
        BY <1>1, <4>2, KeptSector DEF GetMiss, Stored, TInv, IOTypeOK, Block
      <4> QED
        BY <2>2, <4>1, <4>2
    <3>2. OrderInv'
      BY <1>1, <1>5, <3>1, MoveOrder DEF GetByte
    <3>3. /\ moved' = Append(moved, <<pos, v>>) /\ pos \in Place
          /\ moved' \in Seq(Place \X Byte) /\ moved \in Seq(Place \X Byte)
      BY <1>1, <1>5, <3>1, MoveType DEF GetByte, TInv, IOTypeOK
    <3>4. op = "read" /\ op' = "read" /\ pc = "busy" /\ UNCHANGED card
      BY <1>5 DEF GetByte
    <3>5. \/ moved = << >> /\ moved'[1][1][1] = pos[1]
          \/ /\ moved # << >> /\ moved'[1] = moved[1]
             /\ \/ pos[1] = moved[1][1][1]
                \/ input_sector_buf' = card[pos[1]]
      <4>1. CASE moved = << >>
        BY <3>3, <4>1
      <4>2. CASE moved # << >>
        <5>1. moved'[1] = moved[1]
          BY <3>3, <4>2
        <5>2. pos[1] = moved[1][1][1] \/ input_sector_buf' = card[pos[1]]
          BY <2>2, <3>4, <4>2
          DEF GetHit, InputHit, GetMiss, FetchedInv, inVars
        <5> QED
          BY <4>2, <5>1, <5>2
      <4> QED
        BY <4>1, <4>2
    <3>6. FetchedInv'
      BY <3>1, <3>4, <3>5 DEF FetchedInv
    <3>7. FreshBeyondFirst'
      <4> SUFFICES ASSUME NEW i \in DOMAIN moved',
                          moved'[i][1][1] # moved'[1][1][1]
                   PROVE  moved'[i][2] = card[moved'[i][1][1]][moved'[i][1][2]]
        BY <3>4 DEF FreshBeyondFirst
      <4>1. CASE i = Len(moved) + 1
        BY <3>1, <3>3, <3>5, <4>1
      <4>2. CASE i \in DOMAIN moved
        <5>1. moved # << >> /\ moved'[i] = moved[i]
          BY <3>3, <4>2
        <5> QED
          BY <3>4, <3>5, <4>2, <5>1 DEF FreshBeyondFirst
      <4> QED
        BY <3>3, <4>1, <4>2
    <3>8. PutBytesStay'
      BY <3>4 DEF PutBytesStay
    <3> QED
      BY <1>1, <3>2, <3>6, <3>7, <3>8
  <2> QED
    BY <1>5, <2>1, <2>2 DEF GetByte
<1>6. ASSUME NEW v \in Byte, PutByte(v) PROVE IInv'
  <2>1. pc = "busy" /\ op = "write" /\ op' = "write"
    BY <1>6 DEF PutByte
  <2>2. FetchedInv' /\ FreshBeyondFirst'
    BY <2>1 DEF FetchedInv, FreshBeyondFirst
  <2>3. CASE PutHit(v) \/ PutMiss(v)
    <3>1. /\ pos \in Place /\ pos[1] \in Sector /\ pos[2] \in Offset
          /\ Contents' = [Contents EXCEPT ![pos[1]][pos[2]] = v]
      BY <1>1, <2>1, <2>3, ContentsAfterPut DEF Place
    <3>2. Stored(v)
      BY <2>3 DEF PutHit, PutMiss
    <3>3. OrderInv'
      BY <1>1, <2>1, <3>1, <3>2, MoveOrder
    <3>4. /\ moved' = Append(moved, <<pos, v>>)
          /\ moved \in Seq(Place \X Byte)
      BY <1>1, <2>1, <3>1, <3>2, MoveType DEF TInv, IOTypeOK
    <3>5. Contents \in [Sector -> Block]
      BY <1>1 DEF Contents, TInv, IOTypeOK
    <3>6. PutBytesStay'
      <4> SUFFICES ASSUME NEW i \in DOMAIN moved'
                   PROVE  LET p == moved'[i][1]
                          IN  Contents'[p[1]][p[2]] = moved'[i][2]
        BY DEF PutBytesStay
      <4>1. CASE i = Len(moved) + 1
        BY <3>1, <3>4, <3>5, <4>1 DEF Block
      <4>2. CASE i \in DOMAIN moved
        <5> DEFINE p == moved[i][1]
        <5>1. moved'[i] = moved[i] /\ p \in Place
          BY <3>4, <4>2
        <5>2. p[1] \in Sector /\ p[2] \in Offset /\ Before(p, pos)
          BY <2>1, <4>2, <5>1 DEF OrderInv, Place
        <5>3. p[1] # pos[1] \/ p[2] # pos[2]
          BY <3>1, <5>2 DEF Before, Sector, Offset
        <5>4. Contents[p[1]][p[2]] = moved[i][2]
          BY <2>1, <4>2 DEF PutBytesStay
        <5>5. Contents'[p[1]][p[2]] = Contents[p[1]][p[2]]
          BY <3>1, <3>5, <5>2, <5>3 DEF Block
        <5> QED
          BY <5>1, <5>4, <5>5
      <4> QED
        BY <3>4, <4>1, <4>2
    <3> QED
      BY <1>1, <2>2, <3>3, <3>6
  <2>4. CASE FlushFails \/ FetchFails
    <3>1. pc' = "idle" /\ moved' = moved
      BY <2>4 DEF FlushFails, FetchFails, Fail, Leave
    <3>2. card' \in {card, Flushed} /\ UNCHANGED outVars
      BY <2>4 DEF FlushFails, FetchFails
    <3>3. Contents' = Contents
      BY <1>1, <2>1, <3>1, <3>2, FlushedIsContents DEF Contents, outVars, TInv
    <3>4. PutBytesStay'
      BY <2>1, <3>1, <3>3 DEF PutBytesStay
    <3> QED
      BY <1>1, <2>2, <3>1, <3>4 DEF OrderInv
  <2> QED
    BY <1>6, <2>3, <2>4 DEF PutByte
<1>7. CASE FlushWrite \/ FlushRead
  BY <1>1, <1>7 DEF FlushWrite, FlushRead, OrderInv, FetchedInv, PutBytesStay,
     FreshBeyondFirst
<1>8. CASE UNCHANGED vars
  BY <1>1, <1>8 DEF vars, job, inVars, outVars, OrderInv, FetchedInv,
     PutBytesStay, FreshBeyondFirst, Contents
<1> QED
  BY <1>2, <1>3, <1>4, <1>5, <1>6, <1>7, <1>8 DEF Next

-----------------------------------------------------------------------------
(* The theorems. *)

\* The invariant, on a card the context can number.
THEOREM Invariance ==
  ASSUME NSectors <= ADDR_SPAN
  PROVE  Spec => []IInv
<1>1. IInv /\ [Next]_vars => IInv'
  BY NextInv
<1> QED
  BY <1>1, InitInv, PTL DEF Spec

\* The buffers' sectors exist, and the state keeps its shape.
THEOREM TypeCorrect ==
  ASSUME NSectors <= ADDR_SPAN
  PROVE  Spec => []IOTypeOK
<1>1. IInv => IOTypeOK
  BY DEF IInv, TInv
<1> QED
  BY <1>1, Invariance, PTL

\* What io_write_nbytes put is there, also after a failure further on.
THEOREM PutsAreThere ==
  ASSUME NSectors <= ADDR_SPAN
  PROVE  Spec => []PutBytesStay
<1>1. IInv => PutBytesStay
  BY DEF IInv
<1> QED
  BY <1>1, Invariance, PTL

\* io_read_nbytes returns no stale byte from a sector it moved on to.
THEOREM ReadsAreFresh ==
  ASSUME NSectors <= ADDR_SPAN
  PROVE  Spec => []FreshBeyondFirst
<1>1. IInv => FreshBeyondFirst
  BY DEF IInv
<1> QED
  BY <1>1, Invariance, PTL

\* The input buffer gets out of date only by a write of its own sector.
THEOREM OnlyFlushMakesStale ==
  ASSUME NSectors <= ADDR_SPAN
  PROVE  Spec => StaleOnlyByFlush
<1>1. ASSUME IInv, [Next]_vars
      PROVE  [InputStale' => \/ InputStale
                             \/ pc = "off" /\ ret' = "err"
                             \/ /\ card' # card
                                /\ input_sector_addr = output_sector_addr]_vars
  <2> SUFFICES ASSUME InputStale', ~InputStale, ~(pc = "off" /\ ret' = "err")
               PROVE  card' # card /\ input_sector_addr = output_sector_addr
    OBVIOUS
  <2> USE DEF InputStale, inVars, outVars
  <2>1. TInv
    BY <1>1 DEF IInv
  <2>2. ASSUME UNCHANGED inVars, card' \in {card, Flushed}, pc # "off"
        PROVE  card' # card /\ input_sector_addr = output_sector_addr
    BY <2>1, <2>2 DEF Flushed, TInv, IOTypeOK
  <2>3. CASE PowerOn
    BY <2>1, <2>3 DEF PowerOn, TInv, OffInv
  <2>4. CASE PowerCut
    BY <2>4 DEF PowerCut
  <2>5. CASE Call
    BY <2>5 DEF Call
  <2>6. CASE GetByte
    <3>1. CASE GetMiss
      BY <2>6, <3>1, KeptSector DEF GetByte, GetMiss
    <3>2. CASE GetHit \/ GetFails
      BY <2>6, <3>2 DEF GetByte, GetHit, GetFails
    <3> QED
      BY <2>6, <3>1, <3>2 DEF GetByte
  <2>7. CASE \E v \in Byte : PutByte(v)
    BY <2>2, <2>7 DEF PutByte, PutHit, FlushFails, FetchFails, PutMiss
  <2>8. CASE FlushWrite
    BY <2>2, <2>8 DEF FlushWrite
  <2>9. CASE FlushRead
    BY <2>9 DEF FlushRead
  <2>10. CASE UNCHANGED vars
    BY <2>10 DEF vars, job
  <2> QED
    BY <1>1, <2>3, <2>4, <2>5, <2>6, <2>7, <2>8, <2>9, <2>10 DEF Next
<1> QED
  BY <1>1, Invariance, PTL DEF Spec, StaleOnlyByFlush

\* io.c implements the write-back store: for any failures of the card, any
\* power cuts, and any garbage returned by io_put_byte.
THEOREM Implements ==
  ASSUME NSectors <= ADDR_SPAN
  PROVE  Spec => StoreSpec
<1> DEFINE M == [s \in Trusted |-> Contents[s]]
           D == [s \in Trusted |-> card[s]]
<1>1. Init => Store!Init
  BY DEF Init, Store!Init, Trusted, Contents, Sector, Block
<1>2. ASSUME IInv, [Next]_vars
      PROVE  [Store!Next]_<<M, D>>
  <2>1. TInv /\ IOTypeOK
    BY <1>2 DEF IInv, TInv
  <2>2. \A s \in Trusted : s \in Sector
    BY DEF Trusted
  <2>3. CASE PowerOn
    <3>1. \A s \in Trusted : Contents'[s] = card[s] /\ Contents[s] = card[s]
      BY <2>1, <2>3 DEF PowerOn, Contents, Trusted, TInv, OffInv, IOTypeOK
    <3>2. M' = M /\ D' = D
      BY <2>3, <3>1 DEF PowerOn
    <3> QED
      BY <3>2
  <2>4. CASE PowerCut
    <3>1. Contents' = card /\ card' = card
      BY <2>1, <2>4 DEF PowerCut, Contents, IOTypeOK
    <3>2. M' = D /\ D' = D
      BY <3>1
    <3> QED
      BY <3>2 DEF Store!Next, Store!PowerLoss
  <2>5. ASSUME NEW v \in Byte, PutByte(v), PutHit(v) \/ PutMiss(v)
        PROVE  [Store!Next]_<<M, D>>
    <3>1. pc = "busy" /\ pos \in Place
      BY <2>1, <2>5, ContentsAfterPut DEF PutByte
    <3>2. pos[1] \in Sector /\ pos[2] \in Offset
      BY <3>1 DEF Place
    <3>3. Contents' = [Contents EXCEPT ![pos[1]][pos[2]] = v]
      BY <2>1, <2>5, <3>1, ContentsAfterPut
    <3>4. \A s \in Sector :
            card'[s] = IF s = pos[1] THEN card[s] ELSE card'[s]
      BY <2>1, <2>5, <3>1, FlushedIsContents
      DEF PutHit, PutMiss, OutputHit, Flushed, IOTypeOK
    <3>5. card' = card \/ card' = Contents
      BY <2>1, <2>5, <3>1, FlushedIsContents DEF PutHit, PutMiss
    <3>6. \A s \in Sector : s # pos[1] => card'[s] = Contents[s]
      BY <2>1, <2>5, <3>1, FlushedIsContents
      DEF PutHit, PutMiss, OutputHit, Contents
    <3>7. CASE pos[1] \in Trusted
      <4>1. M' = [M EXCEPT ![pos[1]][pos[2]] = v]
        BY <2>2, <3>3, <3>7 DEF Contents
      <4>2. D' = [M EXCEPT ![pos[1]] = D[pos[1]]]
        BY <2>2, <3>4, <3>6, <3>7
      <4>3. Store!Put(pos[1], pos[2], v)
        BY <4>1, <4>2 DEF Store!Put
      <4> QED
        BY <3>2, <3>7, <4>3 DEF Store!Next
    <3>8. CASE pos[1] \notin Trusted
      <4>1. M' = M
        BY <2>2, <3>3, <3>8 DEF Contents
      <4>2. D' = D \/ D' = M
        BY <2>2, <3>5
      <4> QED
        BY <4>1, <4>2 DEF Store!Next, Store!Sync
    <3> QED
      BY <3>7, <3>8
  <2>6. ASSUME ~PowerOn, ~PowerCut,
               \A v \in Byte : PutByte(v) => ~PutHit(v) /\ ~PutMiss(v)
        PROVE  [Store!Next]_<<M, D>>
    <3>1. Contents' = Contents
      BY <1>2, <2>1, <2>6, ContentsKept
    <3>2. card' = card \/ card' = Contents
      BY <1>2, <2>1, <2>6, FlushedIsContents
      DEF Next, vars, Call, GetByte, PutByte, FlushFails, FetchFails,
          FlushWrite, FlushRead
    <3>3. M' = M /\ (D' = D \/ D' = M)
      BY <3>1, <3>2
    <3> QED
      BY <3>3 DEF Store!Next, Store!Sync
  <2> QED
    BY <2>3, <2>4, <2>5, <2>6
<1> QED
  BY <1>1, <1>2, Invariance, PTL DEF Spec, StoreSpec, Store!Spec
=============================================================================

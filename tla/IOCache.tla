------------------------------- MODULE IOCache -------------------------------
(***************************************************************************)
(* The byte layer of io.c over the SD card: one sector buffered for        *)
(* reading, one for writing, neither knowing of the other.  Sector numbers *)
(* are 32 bits wide in the calls, 16 bits in the context (io.h).  A call   *)
(* of sd.c may fail, and the power may go between any two steps.  A byte   *)
(* offset is a pair <<sector, offset in it>>, as io.c splits it.           *)
(*                                                                         *)
(* Definitions named Mut_* are plausible bugs of the definition that       *)
(* follows them, used only to see that the properties can be broken.       *)
(***************************************************************************)
EXTENDS Naturals, Sequences

CONSTANTS
  NSectors, SECTOR_SIZE,   \* the card; SECTOR_SIZE is 512
  ADDR_SPAN,               \* what a sector address of the context can tell
                           \* apart: 2^16
  Byte, Zero,
  MaxLen,                  \* bound on the bytes of one call
  InitMayFail              \* reading sector 0 at start may fail; main goes on

ASSUME CardAssumption == NSectors \in Nat \ {0} /\ SECTOR_SIZE \in Nat \ {0}
ASSUME SpanAssumption == ADDR_SPAN \in Nat \ {0}
ASSUME ByteAssumption == Zero \in Byte
ASSUME CallAssumption == MaxLen \in Nat \ {0} /\ InitMayFail \in BOOLEAN

VARIABLES
  card,                                    \* the sectors on the card
  input_sector_addr, input_sector_buf,     \* struct io_ctx, reading
  output_sector_addr, output_sector_buf,   \* and writing
  pc,      \* off, idle, or busy in a call
  op,      \* the call under way, or the last one: read, write, other
  pos,     \* where the next byte of the call is
  left,    \* how many bytes of the call are left
  moved,   \* the bytes moved by the last call, with their places
  ret      \* what the last call returned: 0 is "ok", -1 is "err"

inVars  == <<input_sector_addr, input_sector_buf>>
outVars == <<output_sector_addr, output_sector_buf>>
job     == <<pc, op, pos, left, moved, ret>>
vars    == <<card, inVars, outVars, job>>

Sector == 0 .. NSectors - 1
Offset == 0 .. SECTOR_SIZE - 1
Place  == Sector \X Offset
Block  == [Offset -> Byte]

Cleared == [o \in Offset |-> Zero]

\* The assignment of a 32 bit sector number to a field of the context
Mut_Kept(s) == 0
Mut_KeptNext(s) == s + 1
Kept(s) == s % ADDR_SPAN

NextPlace(p) == IF p[2] + 1 = SECTOR_SIZE THEN <<p[1] + 1, 0>>
                                          ELSE <<p[1], p[2] + 1>>

Init ==
  /\ card \in [Sector -> Block]
  /\ input_sector_addr = 0 /\ input_sector_buf = Cleared
  /\ output_sector_addr = 0 /\ output_sector_buf = Cleared
  /\ pc = "off" /\ op = "other"
  /\ pos = <<0, 0>> /\ left = 0 /\ moved = << >> /\ ret = "ok"

-----------------------------------------------------------------------------
(* initialize_io, on memory that the reset has cleared.                    *)

PowerOn ==
  /\ pc = "off" /\ pc' = "idle"
  /\ \/ /\ input_sector_buf' = card[0] /\ output_sector_buf' = card[0]
        /\ ret' = "ok"
     \/ /\ InitMayFail
        /\ input_sector_buf' \in {Cleared, card[0]}
        /\ output_sector_buf' = Cleared
        /\ ret' = "err"
  /\ UNCHANGED <<card, input_sector_addr, output_sector_addr, op, pos, left,
                 moved>>

PowerCut ==
  /\ pc # "off" /\ pc' = "off" /\ op' = "other"
  /\ input_sector_addr' = 0 /\ input_sector_buf' = Cleared
  /\ output_sector_addr' = 0 /\ output_sector_buf' = Cleared
  /\ pos' = <<0, 0>> /\ left' = 0 /\ moved' = << >> /\ ret' = "ok"
  /\ UNCHANGED card

-----------------------------------------------------------------------------
(* io_read_nbytes and io_write_nbytes: a loop over the bytes, left at the  *)
(* first one that fails.                                                   *)

Call ==
  /\ pc = "idle" /\ pc' = "busy" /\ op' \in {"read", "write"}
  /\ pos' \in Place /\ left' \in 1 .. MaxLen
  /\ moved' = << >>
  /\ UNCHANGED <<card, inVars, outVars, ret>>

Record(v) == moved' = Append(moved, <<pos, v>>)

Continue == pos' = NextPlace(pos) /\ left' = left - 1 /\ UNCHANGED <<pc, ret>>

Leave(r) == pc' = "idle" /\ ret' = r /\ pos' = <<0, 0>> /\ left' = 0

Succeed(v) == Record(v) /\ IF left = 1 THEN Leave("ok") ELSE Continue

Fail == Leave("err") /\ UNCHANGED moved

\* io_get_byte
Mut_InputHit == pos[1] \in Sector
InputHit == pos[1] = input_sector_addr

GetHit == /\ InputHit
          /\ Succeed(input_sector_buf[pos[2]])
          /\ UNCHANGED inVars

GetMiss == /\ ~InputHit /\ pos[1] \in Sector
           /\ input_sector_buf' = card[pos[1]]
           /\ input_sector_addr' = Kept(pos[1])
           /\ Succeed(card[pos[1]][pos[2]])

GetFails == ~InputHit /\ Fail /\ UNCHANGED inVars

GetByte ==
  /\ pc = "busy" /\ op = "read"
  /\ GetHit \/ GetMiss \/ GetFails
  /\ UNCHANGED <<card, outVars, op>>

\* the card after sd_put_sector(output_sector_addr, output_sector_buf)
Mut_Flushed == card
Flushed == [card EXCEPT ![output_sector_addr] = output_sector_buf]

\* io_put_byte ends without a return statement: its caller goes by whatever
\* is in the register, and leaves the loop if that is negative.
Stored(v) ==
  \/ Succeed(v)
  \/ Record(v) /\ Leave("err")

OutputHit == pos[1] = output_sector_addr

PutHit(v) ==
  /\ OutputHit
  /\ output_sector_buf' = [output_sector_buf EXCEPT ![pos[2]] = v]
  /\ Stored(v)
  /\ UNCHANGED <<card, output_sector_addr>>

\* A write the card does not acknowledge may have happened or not.
Mut_FlushFails == /\ ~OutputHit
                  /\ card' \in {card, Flushed}
                  /\ output_sector_addr' = Kept(pos[1])
                  /\ Fail /\ UNCHANGED output_sector_buf
FlushFails == /\ ~OutputHit
              /\ card' \in {card, Flushed}
              /\ Fail /\ UNCHANGED outVars

\* The buffer is written back, but the new sector cannot be read.
FetchFails == /\ ~OutputHit
              /\ card' = Flushed
              /\ Fail /\ UNCHANGED outVars

PutMiss(v) ==
  /\ ~OutputHit /\ pos[1] \in Sector
  /\ card' = Flushed
  /\ output_sector_buf' = [Flushed[pos[1]] EXCEPT ![pos[2]] = v]
  /\ output_sector_addr' = Kept(pos[1])
  /\ Stored(v)

PutByte(v) ==
  /\ pc = "busy" /\ op = "write"
  /\ PutHit(v) \/ FlushFails \/ FetchFails \/ PutMiss(v)
  /\ UNCHANGED <<inVars, op>>

\* io_flush_write_buffer
FlushWrite ==
  /\ pc = "idle"
  /\ \/ card' = Flushed /\ ret' = "ok"
     \/ card' \in {card, Flushed} /\ ret' = "err"
  /\ op' = "other" /\ moved' = << >>
  /\ UNCHANGED <<inVars, outVars, pc, pos, left>>

\* io_flush_read_buffer
FlushRead ==
  /\ pc = "idle"
  /\ \/ input_sector_buf' = card[input_sector_addr] /\ ret' = "ok"
     \/ UNCHANGED input_sector_buf /\ ret' = "err"
  /\ op' = "other" /\ moved' = << >>
  /\ UNCHANGED <<card, input_sector_addr, outVars, pc, pos, left>>

Next == \/ PowerOn \/ PowerCut \/ Call \/ GetByte
        \/ (\E v \in Byte : PutByte(v)) \/ FlushWrite \/ FlushRead

Spec == Init /\ [][Next]_vars

-----------------------------------------------------------------------------
(* Properties.                                                             *)

\* The shape of the state; the sector a buffer belongs to is one the card has,
\* so that a flush goes to a sector that exists.
IOTypeOK ==
  /\ card \in [Sector -> Block]
  /\ input_sector_addr \in Sector /\ input_sector_buf \in Block
  /\ output_sector_addr \in Sector /\ output_sector_buf \in Block
  /\ pc \in {"off", "idle", "busy"} /\ op \in {"read", "write", "other"}
  /\ pos \in Nat \X Offset /\ left \in 0 .. MaxLen
  /\ moved \in Seq(Place \X Byte) /\ ret \in {"ok", "err"}

\* What the card holds for the writer: the output buffer lies over it.
Contents == [s \in Sector |-> IF pc # "off" /\ s = output_sector_addr
                                THEN output_sector_buf ELSE card[s]]

\* When initialize_io fails, the output buffer is cleared memory that claims to
\* be sector 0, and is written there with the first change of sector.
Trusted == IF InitMayFail THEN Sector \ {0} ELSE Sector

\* io_put_byte, the flushes and the failures of either half of a sector change
\* together are a write-back store: no put is lost to another, and a failed
\* flush or fetch loses nothing that was put before (io.c:118-162).  A failed
\* initialize_io, which main ignores (main.c:109), harms no sector but 0.
Store == INSTANCE WriteBackStore
           WITH Sector <- Trusted,
                mem <- [s \in Trusted |-> Contents[s]],
                disk <- [s \in Trusted |-> card[s]]
StoreSpec == Store!Spec

\* "placing ... bytes" over "the entire SD card" (io.c:15-18): the bytes a call
\* of io_write_nbytes has put are at their places, also when it fails later on
\* and whatever it returns.
PutBytesStay ==
  op = "write" =>
    \A i \in DOMAIN moved :
      LET p == moved[i][1] IN Contents[p[1]][p[2]] = moved[i][2]

\* The two buffers are not coherent, but the input buffer gets out of date only
\* by a write of that very sector, or is so from the start if initialize_io
\* failed: no other step, no failure and no change of sector leaves it with data
\* of another sector or of two.
InputStale == pc # "off" /\ input_sector_buf # card[input_sector_addr]
StaleOnlyByFlush ==
  [][InputStale' => \/ InputStale
                    \/ pc = "off" /\ ret' = "err"
                    \/ /\ card' # card
                       /\ input_sector_addr = output_sector_addr]_vars

\* A read is stale at most in the sector it began in: every byte io_read_nbytes
\* takes from a later sector is what the card holds (io.c:73-81).
FreshBeyondFirst ==
  op = "read" =>
    \A i \in DOMAIN moved :
      LET p == moved[i][1]
      IN  p[1] # moved[1][1][1] => moved[i][2] = card[p[1]][p[2]]
=============================================================================

------------------------------ MODULE SdDriver ------------------------------
(***************************************************************************)
(* sd.c over spi.c: starting the card, reading and writing one sector, on  *)
(* a bus where every byte sent is a byte read.  The card is what sd.c      *)
(* takes it for: it answers commands, is busy after a block, forgets what  *)
(* it was sending when it is deselected, and may be late, refuse, or be    *)
(* absent.  The processor may be reset while the card keeps its state.     *)
(*                                                                         *)
(* Bytes are numbers.  Definitions named Mut_* are plausible bugs of the   *)
(* definition that follows them, used only to see that the properties can  *)
(* be broken.                                                              *)
(***************************************************************************)
EXTENDS Naturals, Sequences

CONSTANTS
  Cards,             \* the cards there may be: "none", "v1", "sc", "hc", for
                     \* no card, version 1, standard and high capacity
  NSectors,          \* sectors of the card
  SECTOR_SIZE,       \* 512
  Byte,              \* byte values of the data
  MAX_CMD_TRIALS,    \* 8
  MaxToken,          \* 1000 bytes are read in search of the data token
  MaxAck,            \* 128 bytes are read in search of the data response
  MaxInit            \* ACMD41s a card needs at most to get ready

ASSUME CardsAssumption == Cards \subseteq {"none", "v1", "sc", "hc"}
ASSUME CardAssumption == NSectors \in Nat \ {0} /\ SECTOR_SIZE \in Nat \ {0}
ASSUME ByteAssumption == Byte \subseteq 0 .. 255 /\ Byte # {}
ASSUME TrialsAssumption == /\ MAX_CMD_TRIALS \in Nat \ {0}
                           /\ MaxToken \in Nat /\ MaxAck \in Nat \ {0}
                           /\ MaxInit \in 0 .. MAX_CMD_TRIALS

VARIABLES
  pc, then,             \* where the driver is, and where after a busy wait
  call, addr, buf,      \* the call under way or the last one: its arguments
  ret,                  \* and its result
  cmd, r1,              \* the last command of sd_command, and what it returned
  trials, tries,        \* the counters of the outer and of the inner loops
  sd_type, sd_status,   \* struct sd_ctx
  cs,                   \* the chip select pin
  kind, rough,          \* the card; it and the processor may misbehave
  card,                 \* the sectors on the card
  cstate, initLeft, app,  \* its state, ACMD41s it still needs, CMD55 received
  out, recv, busy       \* what it sends next, the sector it awaits a block for

ctx     == <<sd_type, sd_status>>
control == <<pc, then, call, addr, buf, ret, cmd, r1, trials, tries>>
device  == <<cstate, initLeft, app>>
fixed   == <<kind, rough>>
vars    == <<control, ctx, cs, fixed, card, device, out, recv, busy>>

Sector == 0 .. NSectors - 1
Block  == [1 .. SECTOR_SIZE -> Byte]

HIGH  == 255          \* what an idle or absent card sends
TOKEN == 254          \* what precedes a block
GAP   == 256          \* not a byte: any number of HIGH, maybe for ever
Nobody == NSectors    \* no sector

R1_READY_STATE == 0
R1_IDLE_STATE == 1
R1_RESPONSE_ERR == 255
CMD8_RESPONSE_PATTERN == 170

Commands == {"CMD0", "CMD8", "CMD55", "ACMD41", "CMD58", "CMD24"}

Init ==
  /\ pc = "boot" /\ then = "idle" /\ cmd = "CMD0" /\ r1 = 0
  /\ call = "none" /\ addr = 0 /\ ret = "none"
  /\ buf \in {[i \in 1 .. SECTOR_SIZE |-> b] : b \in Byte}
  /\ trials = 0 /\ tries = 0
  /\ sd_type = "SD_TYPE_1" /\ sd_status = "SD_ENABLED"      \* cleared memory
  /\ cs = "high" /\ kind \in Cards /\ rough \in BOOLEAN
  /\ card \in [Sector -> Block]
  /\ cstate = "off" /\ initLeft = 0 /\ app = FALSE
  /\ out = << >> /\ recv = Nobody /\ busy = FALSE

-----------------------------------------------------------------------------
(* The card.                                                               *)

Delay == IF rough THEN <<GAP>> ELSE << >>

\* Pairs of a byte that may be read next, and what is sent after it
Line ==
  IF cs = "high" \/ kind = "none" THEN {<<HIGH, out>>}
  ELSE IF out = << >> THEN {<<IF busy THEN 0 ELSE HIGH, out>>}
  ELSE IF Head(out) # GAP THEN {<<Head(out), Tail(out)>>}
  ELSE {<<HIGH, out>>, <<Head(Tail(out)), Tail(Tail(out))>>}

IdleBit == IF cstate = "idle" THEN 1 ELSE 0

\* The sector a card takes an address for: a version 1 or standard capacity
\* card counts bytes.
Addressed(a) ==
  IF kind = "hc" THEN {s \in Sector : s = a}
                 ELSE {s \in Sector : s * SECTOR_SIZE = a}

Says(answer) == out' = Delay \o answer

\* A command that changes nothing but that it was the last one
Plain(c, answer) ==
  /\ Says(answer)
  /\ app' = (c = "CMD55") /\ recv' = Nobody
  /\ UNCHANGED <<cstate, initLeft>>

Deaf(c) == \/ kind = "none" \/ busy \/ cstate = "off"
           \/ cstate = "native" /\ c # "CMD0"

GoIdle == /\ cstate' = "idle" /\ initLeft' \in 0 .. MaxInit
          /\ app' = FALSE /\ recv' = Nobody
          /\ Says(<<R1_IDLE_STATE>>)

SendIfCond == Plain("CMD8", IF kind = "v1" THEN <<IdleBit + 4>>
                            ELSE <<IdleBit, 0, 0, 1, CMD8_RESPONSE_PATTERN>>)

\* A high capacity card gets ready only for a host that says it can use it.
SendOpCond(hcs) ==
  IF ~app THEN Plain("ACMD41", <<IdleBit + 4>>)
  ELSE IF cstate = "ready" \/ (initLeft = 0 /\ (kind = "hc" => hcs))
    THEN /\ cstate' = "ready" /\ Says(<<R1_READY_STATE>>)
         /\ app' = FALSE /\ recv' = Nobody /\ UNCHANGED initLeft
    ELSE /\ initLeft' = IF initLeft = 0 THEN 0 ELSE initLeft - 1
         /\ Says(<<R1_IDLE_STATE>>)
         /\ app' = FALSE /\ recv' = Nobody /\ UNCHANGED cstate

ReadOcr == Plain("CMD58",
             <<IdleBit, IF cstate # "ready" THEN 0
                        ELSE IF kind = "hc" THEN 192 ELSE 128, 255, 128, 0>>)

\* The checksum behind a block, the last byte of it HIGH or not
Crcs == {<<HIGH, 0>>, <<0, HIGH>>}

ReadBlock(s) ==
  \E crc \in Crcs :
    Plain("CMD17", <<R1_READY_STATE>> \o Delay \o <<TOKEN>> \o card[s] \o crc)

WriteBlock(s) == /\ Says(<<R1_READY_STATE>>) /\ recv' = s
                 /\ app' = FALSE /\ UNCHANGED <<cstate, initLeft>>

Transfer(c, a) ==
  IF cstate = "idle" THEN Plain(c, <<5>>)
  ELSE IF Addressed(a) = {} THEN Plain(c, <<32>>)
  ELSE \E s \in Addressed(a) : IF c = "CMD17" THEN ReadBlock(s)
                                              ELSE WriteBlock(s)

Obeys(c, a, hcs) ==
  \/ c = "CMD0" /\ GoIdle
  \/ c = "CMD8" /\ SendIfCond
  \/ c = "CMD55" /\ Plain(c, <<IdleBit>>)
  \/ c = "ACMD41" /\ SendOpCond(hcs)
  \/ c = "CMD58" /\ ReadOcr
  \/ c \in {"CMD17", "CMD24"} /\ Transfer(c, a)

\* What a selected card does with the six bytes of a command
Receives(c, a, hcs) ==
  IF Deaf(c) THEN out' = << >> /\ recv' = Nobody /\ UNCHANGED device
  ELSE Obeys(c, a, hcs) \/ (rough /\ Plain("garbled", <<IdleBit + 8>>))

CardDone == busy /\ busy' = FALSE
            /\ UNCHANGED <<control, ctx, cs, fixed, card, device, out, recv>>

-----------------------------------------------------------------------------
(* The pins and the bytes: spi.c.                                          *)

\* A card that is deselected gives up what it was sending or waiting for.
Mut_Abort == UNCHANGED <<out, recv>>
Abort == out' = << >> /\ recv' = Nobody

Enable == cs' = "low" /\ Abort        \* the pin goes high before it goes low
Mut_Disable == UNCHANGED <<cs, out, recv>>
Disable == cs' = "high" /\ Abort

\* n bytes read one after the other, as sd_get_bytes does
Stream == IF cs = "high" \/ kind = "none" THEN << >> ELSE out
Taken(n) == [i \in 1 .. n |-> IF i <= Len(Stream) THEN Stream[i] ELSE HIGH]
Behind(n) == SubSeq(out, n + 1, Len(out))

-----------------------------------------------------------------------------
(* sd.c: the loops shared by the calls.                                    *)

\* The argument of ACMD41
Mut_HighCapacity == FALSE
HighCapacity == sd_type = "SD_TYPE_2"

\* The number of the sector goes out as the address, whatever the card counts.
Mut_Argument == 0
Argument == addr

\* sd_command: select anew, send six bytes, read until one has its top bit
\* clear; the last byte of MAX_CMD_TRIALS is read but not looked at.  The
\* card stays selected.
Send ==
  /\ pc = "send" /\ pc' = "reply" /\ tries' = 0
  /\ cs' = "low"
  /\ Receives(cmd, Argument, HighCapacity)
  /\ UNCHANGED <<then, call, addr, buf, ret, cmd, r1, trials, ctx, fixed, card,
                 busy>>

Mut_Counted(n) == n
Counted(n) == n + 1

Reply ==
  /\ pc = "reply"
  /\ \E r \in Line :
       /\ out' = r[2] /\ tries' = Counted(tries)
       /\ IF tries' >= MAX_CMD_TRIALS
            THEN pc' = "answered" /\ r1' = R1_RESPONSE_ERR
            ELSE IF r[1] < 128 THEN pc' = "answered" /\ r1' = r[1]
                               ELSE UNCHANGED <<pc, r1>>
  /\ UNCHANGED <<then, call, addr, buf, ret, cmd, trials, ctx, cs, fixed, card,
                 device, recv, busy>>

\* while (sd_is_busy())
Mut_Quiet(b) == TRUE
Quiet(b) == b = HIGH

BusyWait ==
  /\ pc = "busy"
  /\ \E r \in Line : /\ out' = r[2]
                     /\ pc' = IF Quiet(r[1]) THEN then ELSE "busy"
  /\ UNCHANGED <<then, call, addr, buf, ret, cmd, r1, trials, tries, ctx, cs,
                 fixed, card, device, recv, busy>>

\* Going on with a command, at once or when the card is no longer busy
Command(c) == pc' = "send" /\ cmd' = c /\ UNCHANGED then
CommandAfterWait(c) == pc' = "busy" /\ then' = "send" /\ cmd' = c
Wait(next) == pc' = "busy" /\ then' = next

Bus == <<cs, out, recv>>

-----------------------------------------------------------------------------
(* initialize_sd.                                                          *)

Starting == /\ pc = "answered"
            /\ UNCHANGED <<call, addr, buf, r1, tries, fixed, card, device,
                           busy>>

\* sd_wake_up: 80 clocks with the card deselected
InitializeSd ==
  /\ pc = "boot"
  /\ Command("CMD0") /\ trials' = 0 /\ call' = "init"
  /\ Disable
  /\ cstate' = IF cstate = "off" THEN "native" ELSE cstate
  /\ UNCHANGED <<addr, buf, ret, r1, tries, ctx, fixed, card, initLeft, app,
                 busy>>

Failure == /\ pc' = "idle" /\ ret' = "err"
           /\ sd_status' = "SD_DISABLED" /\ UNCHANGED sd_type
           /\ Disable

\* The card is still selected.
Success(type) == /\ pc' = "idle" /\ ret' = "ok"
                 /\ sd_status' = "SD_ENABLED" /\ sd_type' = type
                 /\ UNCHANGED Bus

\* if (++trials > MAX_CMD_TRIALS) goto failure
Mut_Retry(c) == /\ trials' = trials + 1
                /\ Command(c) /\ UNCHANGED <<ret, ctx, Bus>>
Retry(c) == /\ trials' = trials + 1
            /\ IF trials' > MAX_CMD_TRIALS
                 THEN Failure /\ UNCHANGED <<then, cmd>>
                 ELSE Command(c) /\ UNCHANGED <<ret, ctx, Bus>>

GoIdleAnswered ==
  /\ cmd = "CMD0" /\ Starting
  /\ IF r1 = R1_IDLE_STATE
       THEN /\ CommandAfterWait("CMD8") /\ trials' = 0
            /\ UNCHANGED <<ret, ctx, Bus>>
       ELSE Retry("CMD0")

\* The branch for version 1 cards is behind a loop that ends with r1 = 1 only.
SendIfCondAnswered ==
  /\ cmd = "CMD8" /\ Starting
  /\ IF r1 # R1_IDLE_STATE THEN Retry("CMD8")
     ELSE IF Taken(8)[4] # CMD8_RESPONSE_PATTERN
       THEN Failure /\ UNCHANGED <<trials, then, cmd>>
       ELSE /\ Command("CMD55") /\ trials' = 0
            /\ sd_type' = "SD_TYPE_2" /\ out' = Behind(8)
            /\ UNCHANGED <<ret, sd_status, cs, recv>>

\* sd_acommand
AppCmdAnswered ==
  /\ cmd = "CMD55" /\ Starting
  /\ IF r1 = R1_RESPONSE_ERR THEN Wait("retry") /\ UNCHANGED cmd
                             ELSE CommandAfterWait("ACMD41")
  /\ UNCHANGED <<trials, ret, ctx, Bus>>

SendOpCondAnswered ==
  /\ cmd = "ACMD41" /\ Starting
  /\ IF r1 = R1_READY_STATE THEN Wait("type") /\ trials' = 0
                            ELSE Wait("retry") /\ UNCHANGED trials
  /\ UNCHANGED <<cmd, ret, ctx, Bus>>

AcommandRetry ==
  /\ pc = "retry" /\ Retry("CMD55")
  /\ UNCHANGED <<call, addr, buf, r1, tries, fixed, card, device, busy>>

CheckType ==
  /\ pc = "type"
  /\ IF sd_type = "SD_TYPE_2" THEN Command("CMD58") /\ UNCHANGED <<ret, ctx, Bus>>
                              ELSE Success(sd_type) /\ UNCHANGED <<then, cmd>>
  /\ UNCHANGED <<call, addr, buf, r1, trials, tries, fixed, card, device, busy>>

\* (ocr & SDHC_OCR_MASK) == SDHC_OCR_MASK
Mut_Sdhc(ocr) == ocr >= 128
Sdhc(ocr) == ocr >= 192

ReadOcrAnswered ==
  /\ cmd = "CMD58" /\ Starting
  /\ IF r1 # R1_READY_STATE THEN Retry("CMD58")
     ELSE /\ pc' = "idle" /\ ret' = "ok" /\ sd_status' = "SD_ENABLED"
          /\ sd_type' = IF Sdhc(Taken(8)[1]) THEN "SD_TYPE_SDHC" ELSE sd_type
          /\ out' = Behind(8)
          /\ UNCHANGED <<trials, then, cmd, cs, recv>>

-----------------------------------------------------------------------------
(* sd_get_sector.                                                          *)

CallGet ==
  /\ pc = "idle" /\ call' = "get" /\ addr' \in Sector
  /\ Enable /\ Wait("read")
  /\ UNCHANGED <<buf, ret, cmd, r1, trials, tries, ctx, fixed, card, device,
                 busy>>

\* The command is sent without selecting the card anew.
StartRead ==
  /\ pc = "read" /\ pc' = "token" /\ trials' = 0
  /\ Receives("CMD17", Argument, FALSE)
  /\ UNCHANGED <<then, call, addr, buf, ret, cmd, r1, tries, ctx, cs, fixed,
                 card, busy>>

\* The answer to the command is passed over like any other byte.
Mut_IsToken(b) == b # HIGH
IsToken(b) == b = TOKEN

AwaitToken ==
  /\ pc = "token"
  /\ \E r \in Line :
       /\ out' = r[2]
       /\ IF IsToken(r[1]) THEN pc' = "bytes" /\ UNCHANGED <<trials, ret>>
          ELSE /\ trials' = Counted(trials)
               /\ IF trials' > MaxToken THEN pc' = "close" /\ ret' = "err"
                                        ELSE UNCHANGED <<pc, ret>>
  /\ UNCHANGED <<then, call, addr, buf, cmd, r1, tries, ctx, cs, fixed, card,
                 device, recv, busy>>

\* sd_get_bytes; the checksum is left for the busy wait that follows.
GetBytes ==
  /\ pc = "bytes" /\ Wait("close") /\ ret' = "ok"
  /\ buf' = Taken(SECTOR_SIZE) /\ out' = Behind(SECTOR_SIZE)
  /\ UNCHANGED <<call, addr, cmd, r1, trials, tries, ctx, cs, fixed, card,
                 device, recv, busy>>

Close ==
  /\ pc = "close" /\ pc' = "idle" /\ Disable
  /\ UNCHANGED <<then, call, addr, buf, ret, cmd, r1, trials, tries, ctx, fixed,
                 card, device, busy>>

-----------------------------------------------------------------------------
(* sd_put_sector.                                                          *)

CallPut ==
  /\ pc = "idle" /\ call' = "put" /\ addr' \in Sector /\ buf' \in Block
  /\ Enable /\ CommandAfterWait("CMD24")
  /\ UNCHANGED <<ret, r1, trials, tries, ctx, fixed, card, device, busy>>

\* A refusal returns with the card selected.
WriteBlockAnswered ==
  /\ cmd = "CMD24" /\ pc = "answered"
  /\ IF r1 = R1_READY_STATE THEN pc' = "block" /\ UNCHANGED ret
                            ELSE pc' = "idle" /\ ret' = "err"
  /\ UNCHANGED <<then, call, addr, buf, cmd, r1, trials, tries, ctx, Bus, fixed,
                 card, device, busy>>

\* The data response: accepted, checksum error, write error, or lost
Stores == /\ recv # Nobody
          /\ card' = [card EXCEPT ![recv] = buf] /\ busy' = TRUE
          /\ out' = <<5>> \/ (rough /\ out' = << >>)
Rejects == (rough \/ recv = Nobody) /\ out' \in {<<11>>, <<13>>, << >>}
           /\ UNCHANGED <<card, busy>>

PutBytes ==
  /\ pc = "block" /\ pc' = "ack" /\ tries' = 0
  /\ Stores \/ Rejects
  /\ recv' = Nobody
  /\ UNCHANGED <<then, call, addr, buf, ret, cmd, r1, trials, ctx, cs, fixed,
                 device>>

\* (b & 0x11) == 0x01, and (b & 0x0E) == 0x04
IsResponse(b) == b % 2 = 1 /\ (b \div 16) % 2 = 0
Mut_Accepted(b) == TRUE
Accepted(b) == (b \div 2) % 8 = 2

Ack ==
  /\ pc = "ack"
  /\ \E r \in Line :
       /\ out' = r[2]
       /\ IF IsResponse(r[1])
            THEN /\ Wait("close") /\ UNCHANGED tries
                 /\ ret' = IF Accepted(r[1]) THEN "ok" ELSE "err"
            ELSE /\ tries' = Counted(tries)
                 /\ IF tries' = MaxAck THEN Wait("close") /\ ret' = "err"
                                       ELSE UNCHANGED <<pc, then, ret>>
  /\ UNCHANGED <<call, addr, buf, cmd, r1, trials, ctx, cs, fixed, card, device,
                 recv, busy>>

-----------------------------------------------------------------------------

\* The processor is reset, the card is not.
Reset ==
  /\ rough /\ pc # "boot"
  /\ pc' = "boot" /\ then' = "idle" /\ cmd' = "CMD0" /\ r1' = 0
  /\ call' = "none" /\ addr' = 0 /\ ret' = "none" /\ trials' = 0 /\ tries' = 0
  /\ sd_type' = "SD_TYPE_1" /\ sd_status' = "SD_ENABLED"
  /\ cs' = "high" /\ out' = << >> /\ recv' = Nobody
  /\ UNCHANGED <<buf, fixed, card, device, busy>>

Driver == \/ InitializeSd \/ Send \/ Reply \/ BusyWait
          \/ GoIdleAnswered \/ SendIfCondAnswered \/ AppCmdAnswered
          \/ SendOpCondAnswered \/ AcommandRetry \/ CheckType \/ ReadOcrAnswered
          \/ StartRead \/ AwaitToken \/ GetBytes \/ Close
          \/ WriteBlockAnswered \/ PutBytes \/ Ack

Next == Driver \/ CallGet \/ CallPut \/ CardDone \/ Reset

Spec == Init /\ [][Next]_vars

\* The program goes on, and no card is busy for ever.
FairSpec == Spec /\ WF_vars(Driver) /\ WF_vars(CardDone)
-----------------------------------------------------------------------------
(* Properties.                                                             *)

\* The shape of the state, with the bounds of the loops; the card is selected
\* whenever bytes are read in search of an answer.
SdTypeOK ==
  /\ pc \in {"boot", "idle", "send", "reply", "answered", "busy", "retry",
             "type", "read", "token", "bytes", "close", "block", "ack"}
  /\ then \in {"idle", "send", "retry", "type", "read", "close"}
  /\ call \in {"none", "init", "get", "put"} /\ ret \in {"none", "ok", "err"}
  /\ addr \in Sector /\ buf \in Block /\ cmd \in Commands /\ r1 \in 0 .. 255
  /\ trials \in 0 .. MAX_CMD_TRIALS + MaxToken + 1
  /\ tries \in 0 .. MAX_CMD_TRIALS + MaxAck
  /\ sd_type \in {"SD_TYPE_1", "SD_TYPE_2", "SD_TYPE_SDHC"}
  /\ sd_status \in {"SD_ENABLED", "SD_DISABLED"}
  /\ cs \in {"low", "high"} /\ kind \in Cards /\ rough \in BOOLEAN
  /\ card \in [Sector -> Block]
  /\ cstate \in {"off", "native", "idle", "ready"} /\ initLeft \in 0 .. MaxInit
  /\ app \in BOOLEAN /\ busy \in BOOLEAN
  /\ out \in Seq(0 .. GAP) /\ recv \in Sector \cup {Nobody}
  /\ pc \in {"reply", "busy", "token", "bytes", "block", "ack"} => cs = "low"

Returned(c, r) == pc = "idle" /\ call = c /\ ret = r

\* A successful sd_get_sector returns the block the card holds at the address
\* it was given: no byte of the command's answer, of the checksum or of an
\* earlier read that was given up is taken for data (sd.c:184-212, 408).
GetIsBlock ==
  Returned("get", "ok") =>
    /\ Addressed(addr) # {}
    /\ \A s \in Addressed(addr) : buf = card[s]

\* A successful sd_put_sector has stored the block; "data acknowledged" is not
\* concluded from any other byte (sd.c:457-469).
PutIsStored ==
  Returned("put", "ok") =>
    /\ Addressed(addr) # {}
    /\ \A s \in Addressed(addr) : buf = card[s]

\* Whatever is refused, late or lost, and wherever the processor is reset, the
\* card changes only in the sector being put, and to the block being put.
OnlyThatBlock ==
  [][card' # card => /\ call = "put"
                     /\ \E s \in Addressed(addr) :
                          card' = [card EXCEPT ![s] = buf]]_vars

\* "guarantee that the device is done writing when the func returns"
\* (sd.c:479): after either call, whatever it returned, the card is not busy.
DoneWhenReturned == pc = "idle" /\ call \in {"get", "put"} => ~busy

\* A version 2 card that answers in time is started, however often it has to be
\* asked to get ready (sd.c:331-346).
Starts == Returned("init", "err") => rough \/ kind \in {"none", "v1"}

\* SD_ENABLED means a version 2 card that is ready, with its type; nothing a later
\* call does makes it untrue (sd.c:302-307, 370-379).
EnabledIsReady ==
  pc = "idle" /\ sd_status = "SD_ENABLED" =>
    /\ cstate = "ready" /\ kind \in {"sc", "hc"}
    /\ sd_type = IF kind = "hc" THEN "SD_TYPE_SDHC" ELSE "SD_TYPE_2"

\* The card is deselected on every way out of a call but two: a successful
\* start (sd.c:381) and a refused write (sd.c:446-449).
Deselected ==
  pc = "idle" /\ cs = "low" =>
    \/ Returned("init", "ok")
    \/ Returned("put", "err") /\ r1 # R1_READY_STATE

\* Every call returns, also without a card, as long as no card is busy for ever:
\* the waits for a card that is not busy are the only ones without a bound.
CallsEnd == pc \notin {"boot", "idle"} ~> pc \in {"boot", "idle"}

\* sd.c:464, "sd: wrote block at sector": the block is at the sector of that
\* number, for every card that was started.
WroteAtSector == Returned("put", "ok") => card[addr] = buf
=============================================================================

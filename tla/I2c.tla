--------------------------------- MODULE I2c ---------------------------------
(***************************************************************************)
(* i2c_io (i2c.c): one transfer over the two-wire bus as its master, first *)
(* the bytes to write, then, behind a repeated START, the bytes to read.   *)
(* Every condition and byte is handed to the interface (TWI), which answers*)
(* with a status; i2c_io goes on only with the status it expects, and      *)
(* sends STOP only after a NAK and at the end.                             *)
(*                                                                         *)
(* Definitions named Mut_* are plausible bugs of the definition that       *)
(* follows them, used only to see that the properties can be broken.       *)
(***************************************************************************)
EXTENDS Naturals, Sequences

CONSTANTS Byte,      \* what is transferred
          Messages,  \* what a caller writes: the ap bytes, then the wp bytes
          MaxRead    \* bound on the bytes a caller reads

ASSUME MessageAssumption == Messages \subseteq Seq(Byte)
ASSUME ReadAssumption == MaxRead \in Nat

VARIABLES
  ipc,      \* idle, or what i2c_io waits for: start, address, data, restart,
            \* readAddress, read
  out,      \* the bytes of this transfer to write
  rn,       \* how many bytes to read
  got,      \* the bytes read
  status,   \* what i2c_io returned
  bus,      \* external: free for a START, ours, or in error
  acked     \* external: the bytes the devices acknowledged in this transfer

i2cVars == <<ipc, out, rn, got, status, bus, acked>>

\* The statuses i2c_io returns when it gets one that it does not expect
START == 8
RESTART == 16
ADDRESS_NAK == 32
DATA_NAK == 48
READ_NAK == 72
LOST == 56
BUS_ERROR == 0

I2cInit ==
  /\ ipc = "idle" /\ out = << >> /\ rn = 0 /\ got = << >> /\ status = 0
  /\ bus = "free" /\ acked = << >>

Wait(where) == ipc' = where /\ UNCHANGED <<status, bus>>

Return(s) == ipc' = "idle" /\ status' = s

\* nakstop: the STOP condition, then return
Mut_Stop(s) == Return(s) /\ bus' = IF s = DATA_NAK THEN bus ELSE "free"
Stop(s) == Return(s) /\ bus' = "free"

\* Another master is on the bus, or a misplaced START or STOP: i2c_io returns
\* the status as it is, and sends no STOP.
Disturbed == \/ Return(LOST) /\ bus' = "free"
             \/ Return(BUS_ERROR) /\ bus' = "error"

I2cIo(message, n) ==
  /\ ipc = "idle"
  /\ out' = message /\ rn' = n
  /\ ipc' = IF message # << >> THEN "start"
            ELSE IF n > 0 THEN "restart" ELSE "idle"
  /\ status' = 0 /\ got' = << >> /\ acked' = << >>
  /\ UNCHANGED bus

\* What a call that has returned leaves behind on the stack
Forgotten == /\ out' = << >> /\ rn' = 0 /\ got' = << >> /\ status' = 0
             /\ acked' = << >> /\ UNCHANGED <<ipc, bus>>

\* A START waits for a free bus and is a repeated one on a bus that is ours.  The
\* interface is got out of an error by a STOP only, so it may report it again.
StartStatus == IF bus = "ours" THEN RESTART ELSE START

StartThen(expected, where) ==
  \/ /\ bus' = "ours"
     /\ IF StartStatus = expected THEN ipc' = where /\ UNCHANGED status
                                  ELSE Return(StartStatus)
  \/ bus = "error" /\ Return(BUS_ERROR) /\ UNCHANGED bus

SendStart ==
  /\ ipc = "start" /\ StartThen(START, "address")
  /\ UNCHANGED <<out, rn, got, acked>>

SendAddress ==
  /\ ipc = "address"
  /\ Wait("data") \/ Stop(ADDRESS_NAK) \/ Disturbed
  /\ UNCHANGED <<out, rn, got, acked>>

\* The loops over ap and wp differ only in the pointer.
Mut_MoreToWrite == Len(acked') + 1 < Len(out)
MoreToWrite == Len(acked') < Len(out)

Wrote == IF MoreToWrite THEN Wait("data")
         ELSE IF rn > 0 THEN Wait("restart") ELSE Stop(0)

SendData ==
  /\ ipc = "data"
  /\ \/ acked' = Append(acked, out[Len(acked) + 1]) /\ Wrote
     \/ (Stop(DATA_NAK) \/ Disturbed) /\ UNCHANGED acked
  /\ UNCHANGED <<out, rn, got>>

\* start_stat: repeated if something was written
SendRestart ==
  /\ ipc = "restart"
  /\ StartThen(IF out # << >> THEN RESTART ELSE START, "readAddress")
  /\ UNCHANGED <<out, rn, got, acked>>

SendReadAddress ==
  /\ ipc = "readAddress"
  /\ Wait("read") \/ Stop(READ_NAK) \/ Disturbed
  /\ UNCHANGED <<out, rn, got, acked>>

\* All but the last byte are acknowledged, the last one is not.
ReadData ==
  /\ ipc = "read"
  /\ \/ \E b \in Byte :
          /\ got' = Append(got, b)
          /\ IF Len(got') < rn THEN Wait("read") ELSE Stop(0)
     \/ Disturbed /\ UNCHANGED got
  /\ UNCHANGED <<out, rn, acked>>

WriteStep == SendStart \/ SendAddress \/ SendData
ReadStep  == SendRestart \/ SendReadAddress \/ ReadData

I2cNext == \/ \E m \in Messages, n \in 0 .. MaxRead : I2cIo(m, n)
           \/ WriteStep \/ ReadStep

I2cSpec == I2cInit /\ [][I2cNext]_i2cVars

-----------------------------------------------------------------------------
(* Properties.                                                             *)

I2cTypeOK ==
  /\ ipc \in {"idle", "start", "address", "data", "restart", "readAddress",
              "read"}
  /\ out \in Seq(Byte) /\ rn \in Nat /\ got \in Seq(Byte) /\ status \in Nat
  /\ bus \in {"free", "ours", "error"}
  /\ acked \in Seq(Byte)

\* Whatever happened in a transfer, the bus is not held when i2c_io returns:
\* with a repeated START instead of a START every later transfer would be
\* refused (i2c.c:31,95), and main has no other way to get the display back.
BusReleased == ipc = "idle" => bus # "ours"

\* "Set status value to successful" (i2c.c:76,126): unless the bus is in error,
\* 0 is returned after all bytes were acknowledged and read, and only then.
\* The status of a bus error is 0 too (i2c.c:57,117).  A transfer without bytes is
\* none.
ResultIsOutcome ==
  ipc = "idle" /\ bus # "error" =>
    (status = 0) = (acked = out /\ Len(got) = rn)
=============================================================================

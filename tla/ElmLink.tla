------------------------------- MODULE ElmLink -------------------------------
(***************************************************************************)
(* The exchange with the ELM327: elm_command (elm.c) sends a command and   *)
(* collects the answer through the receive FIFO of RxFifo, byte by byte,   *)
(* until the prompt '>' or until the buffer is full.  It knows an answer   *)
(* only by its prompt: what it reads is attributed to the command it sent  *)
(* last, and nothing is discarded before a command.                        *)
(***************************************************************************)
EXTENDS RxFifo

CONSTANTS
  NCmds,         \* the commands sent in turn (main.c:149-205)
  Answers,       \* what the device may answer: sequences of kinds of bytes
  ReadSize,      \* the size elm_read is given
  ArraySize,     \* the size of the array it fills (64 and 64 in obd_command)
  PollMayStick   \* the build may load f_status once for the polling loop:
                 \* elm.c sees the FIFO through a pointer without volatile

Cmds  == 0 .. NCmds - 1
Kinds == {"data", "prompt", "nul"}

ASSUME CmdsAssumption == NCmds \in Nat \ {0}
ASSUME ByteAssumption == Byte = Cmds \X Kinds   \* whose answer, what byte
ASSUME AnswersAssumption == Answers \subseteq Seq(Kinds)
ASSUME SizeAssumption == ReadSize \in Nat \ {0} /\ ArraySize \in Nat
ASSUME PollAssumption == PollMayStick \in BOOLEAN

VARIABLES
  mpc,   \* where the main program is: send, poll, call, done or stuck
  cmd,   \* the command being executed
  buf,   \* the bytes elm_read has stored
  dev    \* the bytes the device has still to send

elmVars == <<mpc, cmd, buf, dev>>
allVars == <<vars, elmVars>>

ElmInit == Init /\ mpc = "send" /\ cmd = 0 /\ buf = << >> /\ dev = << >>

-----------------------------------------------------------------------------
(* The device.  It sends nothing on its own, and answers one command after *)
(* the other.                                                              *)

DevSend ==
  /\ dev # << >>
  /\ Arrive(Head(dev))
  /\ dev' = Tail(dev)
  /\ UNCHANGED <<mpc, cmd, buf>>

DevAnswer(answer) == dev \o [i \in DOMAIN answer |-> <<cmd, answer[i]>>]

-----------------------------------------------------------------------------
(* elm.c                                                                   *)

\* elm_response_complete: strstr(buf, ">") sees nothing behind a NUL byte.
Mut_ResponseComplete(b) == b[1][2] = "prompt"
ResponseComplete(b) ==
  \E i \in DOMAIN b : /\ b[i][2] = "prompt"
                      /\ \A j \in 1 .. i - 1 : b[j][2] # "nul"

Mut_Blank == buf
Blank == << >>

\* elm_write, and the memset that begins elm_read
ElmWrite ==
  /\ mpc = "send" /\ rpc = "idle"
  /\ \E answer \in Answers : dev' = DevAnswer(answer)
  /\ buf' = Blank
  /\ mpc' = "poll"
  /\ UNCHANGED <<vars, cmd>>

\* the test of f_status in elm_read; a poll that finds nothing is repeated
Mut_DataReady == TRUE
DataReady == f_status # "EMPTY"

ElmPoll ==
  /\ mpc = "poll" /\ rpc = "idle" /\ DataReady
  /\ mpc' = "call"
  /\ UNCHANGED <<vars, cmd, buf, dev>>

ElmPollSticks ==
  /\ PollMayStick
  /\ mpc = "poll" /\ rpc = "idle" /\ ~DataReady
  /\ mpc' = "stuck"
  /\ UNCHANGED <<vars, cmd, buf, dev>>

ElmCall ==
  /\ mpc = "call"
  /\ \/ ReadTest \/ ReadLoad \/ ReadBump \/ ReadWrap \/ ReadCompare \/ ReadClear
  /\ UNCHANGED elmVars

\* Leaves the loop after ReadSize bytes whether or not the prompt was seen.
Mut_Leaves(b) == Len(b) = ReadSize - 2 \/ ResponseComplete(b)
Leaves(b) == Len(b) = ReadSize \/ ResponseComplete(b)

ElmStore ==
  /\ mpc = "call" /\ ReadReturn
  /\ buf' = Append(buf, ch)
  /\ mpc' = IF Leaves(buf') THEN "done" ELSE "poll"
  /\ UNCHANGED <<cmd, dev>>

\* The caller uses the bytes and comes back with the next command.
ElmReturn ==
  /\ mpc = "done"
  /\ mpc' = "send"
  /\ cmd' = (cmd + 1) % NCmds
  /\ UNCHANGED <<vars, buf, dev>>

Main == \/ InitializeFifo /\ UNCHANGED elmVars
        \/ ElmWrite \/ ElmPoll \/ ElmCall \/ ElmStore \/ ElmReturn

ElmIsr == Isr /\ UNCHANGED elmVars

ElmNext == Main \/ ElmPollSticks \/ ElmIsr \/ DevSend

ElmSpec == ElmInit /\ [][ElmNext]_allVars

\* One thread of control, an interrupt that is served, a device that answers.
\* That the poll sticks is possible, never necessary.
ElmFairSpec == /\ ElmSpec
               /\ WF_allVars(Main) /\ WF_allVars(ElmIsr) /\ WF_allVars(DevSend)

-----------------------------------------------------------------------------
\* The shape of the state.  fifo_read_byte runs only inside elm_read's call, and
\* the '\0' elm_read stores behind the bytes read stays in the array (elm.c:84;
\* obd.c gives it the size of the whole array).
ElmTypeOK ==
  /\ TypeOK
  /\ mpc \in {"send", "poll", "call", "done", "stuck"}
  /\ cmd \in Cmds /\ buf \in Seq(Byte) /\ dev \in Seq(Byte)
  /\ Len(buf) < ArraySize
  /\ rpc \notin {"boot", "idle"} => mpc = "call"

\* What elm_command returns is the answer to its own command, up to and with
\* the prompt: "send the command and then get the raw bytes until the '>'"
\* (elm.c:95).
Attribution ==
  mpc = "done" => /\ ResponseComplete(buf)
                  /\ \A i \in DOMAIN buf : buf[i][1] = cmd

\* "send the command and then get the raw bytes until the '>'" (elm.c:95): whatever
\* elm_command returns, cut or not, was sent in answer to its own command.
OwnBytes == mpc = "done" => \A i \in DOMAIN buf : buf[i][1] = cmd

\* Nothing of an earlier answer is left in the FIFO, in the USART or in the
\* device when a command is sent; elm_command does not discard it, so the next
\* answer would be read from there (elm.c:93-102).
LineQuiet ==
  mpc = "send" => Pending = << >> /\ rx = << >> /\ dev = << >>

\* The FIFO does not become empty between elm_read's poll and the test of
\* f_status in fifo_read_byte, whose -1 elm_read ignores (elm.c:71-76).
PollHolds == mpc = "call" /\ rpc = "idle" => f_status # "EMPTY"

\* The FIFO is never too small, nor FULL too long, for one answer.
NothingLost == ~overrun

\* Every byte of the answer has arrived, and one of them is in the FIFO behind
\* a status of EMPTY (fifo.c:82-83).
Stranded == /\ dev = << >> /\ rx = << >>
            /\ rpc = "idle" /\ f_status = "EMPTY" /\ Count > 0

\* elm_read ends unless its polling loop was compiled to load f_status once,
\* or the interrupt came between fifo.c:82 and fifo.c:83 for the last byte.
EndsUnlessStranded == mpc = "poll" ~> mpc \in {"done", "stuck"} \/ Stranded
=============================================================================

------------------------------- MODULE Logger --------------------------------
(***************************************************************************)
(* The cycle of main.c: initialize_obd, then for ever each supported       *)
(* command in turn, its answer decoded and the numbers shown on the        *)
(* display, whose driver is that of module I2c.  One array, buf, is the    *)
(* answer of the car and the commands to the display.                      *)
(*                                                                         *)
(* The car and the ELM327 are their answers; that an answer or a prompt    *)
(* comes at all is the subject of module ElmLink.                          *)
(*                                                                         *)
(* Definitions named Mut_* are plausible bugs of the definition that       *)
(* follows them, used only to see that the properties can be broken.       *)
(***************************************************************************)
EXTENDS I2c, Obd, FiniteSets

CONSTANTS Announcements,  \* the sets of PIDs a car may announce, within 1 .. 32
          Values,         \* the data bytes a car may send
          Garbage,        \* what an array on the stack may hold
          Cursors         \* where the display, which is not reset with the
                          \* program, may have its cursor at the start

ASSUME AnnouncementAssumption ==
  \A pids \in Announcements : pids \subseteq 1 .. 32
\* Bytes, and the symbols that stand for the texts
ASSUME ByteAssumption == 0 .. 287 \subseteq Byte
ASSUME ValueAssumption == Values \subseteq 0 .. 255 /\ Garbage \subseteq 0 .. 255

VARIABLES
  pc,         \* boot, setup, cycle, poll, refused, decoded, text
  list,       \* obd.linked_list
  ptr,        \* the rest of it in this cycle
  buf,        \* buf[0 .. 3] of main, the bytes anybody looks at
  shown,      \* the number that is printed
  said,       \* ghost: the PID and the data of an answer that was complete
  announced,  \* ghost: what the car announced, {0} if that was not complete
  cursor,     \* external: where the display puts what it is sent next
  placed      \* ghost: the command for the text under way was reported sent

screen == <<cursor, placed>>
vars   == <<i2cVars, pc, list, ptr, buf, shown, said, announced, screen>>

\* The rows of the display by the addresses of their first characters.  A row has
\* twenty, the length of a text, and a text is sent in two halves.
LcdRow == {0, 64, 20, 84}
HalfRow == 10
Cell == LcdRow \cup {r + HalfRow : r \in LcdRow}
ASSUME CursorAssumption == Cursors \subseteq Cell

Init ==
  /\ I2cInit
  /\ pc = "boot" /\ list = << >> /\ ptr = << >> /\ buf = [i \in 0 .. 3 |-> 0]
  /\ shown = 0 /\ said = << >> /\ announced = {0}
  /\ cursor \in Cursors /\ placed = FALSE

-----------------------------------------------------------------------------
(* The car.                                                                *)

\* Answers to the command of PID n, each with what it says: complete ones, from
\* one control unit or two; cut ones; a late one to PID m; a refusal.
Answers(n) ==
  LET Data(a, b) == <<65, n>> \o SubSeq(<<a, b>>, 1, obd_cmds(n).resp_bytes)
      About(a, b) ==
        { <<Data(a, b), <<n, a, b>> >>,
          <<(<<PADDING>> \o Data(a, b)) \o (<<PADDING>> \o Data(b, a)), <<n, a, b>> >>,
          << <<65, n, 256 + (a % 16)>>, << >> >>,
          << <<65, n + 1, a>>, << >> >> }
  IN  (UNION {About(a, b) : a \in Values, b \in Values})
      \cup { << <<65, n>>, << >> >>, << <<NO_DATA>>, << >> >> }

\* The same for PID 00, which says a set of PIDs
BootAnswers ==
  { << <<65, 0>> \o Announcement(pids), pids>> : pids \in Announcements }
  \cup { << <<65, 0>>, {0}>>, << <<NO_CONNECT>>, {0}>> }

-----------------------------------------------------------------------------
(* The main program.                                                       *)

\* initialize_obd: dat is not initialised, and all of the first six bytes are
\* taken.
Boot ==
  /\ pc = "boot" /\ pc' = "setup"
  /\ \E answer \in BootAnswers, g \in Garbage :
       LET bytes == obd_command(answer[1])
           dat   == Over([i \in 0 .. 5 |-> g], bytes)
       IN  /\ announced' = answer[2]
           /\ list' = IF bytes = << >> THEN list
                      ELSE linked_list([k \in 1 .. 4 |-> dat[k + 1]])
  /\ UNCHANGED <<i2cVars, ptr, buf, shown, said, screen>>

\* A call of i2c_io with the first bytes of buf; main ignores what it returns.
Send(message) ==
  /\ buf' = Over(buf, message)
  /\ I2cIo(message, 0)

\* The first message is the whole array, of which two bytes are a command.  What the
\* zeros behind them do to the display does not matter: no text follows before Home.
Setup ==
  /\ pc = "setup" /\ pc' = "cycle"
  /\ Send(<<254, 84>>)
  /\ UNCHANGED <<list, ptr, shown, said, announced, screen>>

Home ==
  /\ pc = "cycle" /\ pc' = "poll"
  /\ Send(<<254, 70>>)
  /\ ptr' = list
  /\ UNCHANGED <<list, shown, said, announced, screen>>

\* (struct obd_cmd *) ptr->data
cmd == obd_cmds(Head(ptr))

Polling == pc = "poll" /\ ipc = "idle"

EndOfCycle ==
  /\ Polling /\ ptr = << >>
  /\ pc' = "cycle"
  /\ UNCHANGED <<i2cVars, list, ptr, buf, shown, said, announced, screen>>

\* a command without a handler
Skip ==
  /\ Polling /\ ptr # << >> /\ cmd.handle_data = "NULL"
  /\ ptr' = Tail(ptr)
  /\ Forgotten
  /\ UNCHANGED <<pc, list, buf, shown, said, announced, screen>>

Refused == pc' = "refused" /\ UNCHANGED <<buf, shown, said>>

Decoded(bytes, saying) ==
  /\ buf' = Over(buf, bytes)
  /\ \E sum \in Sums(buf'[2], buf'[3]) :
       shown' = handle_data(cmd.handle_data, buf'[2], sum)
  /\ said' = saying
  /\ pc' = "decoded"

Command ==
  /\ Polling /\ ptr # << >> /\ cmd.handle_data # "NULL"
  /\ \E answer \in Answers(cmd.obd_cmd) :
       LET bytes == obd_command(answer[1])
       IN  IF bytes = << >> THEN Refused ELSE Decoded(bytes, answer[2])
  /\ Forgotten
  /\ UNCHANGED <<list, ptr, announced, screen>>

\* Where the four numbers on the display are
Mut_Place == [ENGINE_RPM |-> 0, CALCULATED_ENGINE_LOAD |-> 64,
              ENGINE_COOLANT_TEMP_1 |-> 64, VEHICLE_SPEED |-> 84]
Place == [ENGINE_RPM |-> 0, CALCULATED_ENGINE_LOAD |-> 64,
          ENGINE_COOLANT_TEMP_1 |-> 20, VEHICLE_SPEED |-> 84]

Unshown == pc = "decoded" /\ cmd.obd_pid \notin DOMAIN Place

\* ptr = ptr->next, at once if obd_command has returned -1
Mut_NextNode == ptr' = IF pc = "refused" THEN ptr ELSE Tail(ptr)
NextNode == ptr' = Tail(ptr)

Continue ==
  /\ pc = "refused" \/ Unshown
  /\ pc' = "poll" /\ NextNode /\ shown' = 0 /\ said' = << >>
  /\ UNCHANGED <<i2cVars, list, buf, announced, screen>>

PlaceCursor ==
  /\ pc = "decoded" /\ cmd.obd_pid \in DOMAIN Place
  /\ Send(<<254, 69, Place[cmd.obd_pid]>>)
  /\ pc' = "text" /\ shown' = 0 /\ said' = << >> /\ placed' = FALSE
  /\ UNCHANGED <<list, ptr, announced, cursor>>

\* The text is sent whatever became of the command before it.  Its halves stand
\* for themselves by symbols that are no bytes of buf.
ShowText ==
  /\ pc = "text" /\ pc' = "poll" /\ ptr' = Tail(ptr)
  /\ LET t == 256 + cmd.obd_cmd IN I2cIo(<<t, t>>, 0)
  /\ placed' = (status = 0 /\ bus # "error")
  /\ UNCHANGED <<list, buf, shown, said, announced, cursor>>

Main == \/ Boot \/ Setup \/ Home \/ EndOfCycle \/ Skip \/ Command \/ Continue
        \/ PlaceCursor \/ ShowText

-----------------------------------------------------------------------------
(* The display obeys a command when its last byte has come, and forgets one*)
(* that is cut off; a text it shows where its cursor is, wherever that was *)
(* left.                                                                   *)

\* Behind the end of a row comes the row with the next address.
Onward == CASE cursor = 30 -> 64 [] cursor = 94 -> 0 [] OTHER -> cursor + HalfRow

Shows == acked' # acked /\ acked'[1] >= 256

Obeyed == CASE acked' = <<254, 70>> -> 0
            [] Len(acked') = 3      -> acked'[3]
            [] OTHER                -> cursor

Display ==
  /\ cursor' = IF acked' = acked THEN cursor ELSE IF Shows THEN Onward ELSE Obeyed
  /\ UNCHANGED placed

Transfer == /\ WriteStep /\ Display
            /\ UNCHANGED <<pc, list, ptr, buf, shown, said, announced>>

Next == Main \/ Transfer

Spec == Init /\ [][Next]_vars

\* One thread, whose calls all end: elm_read with a prompt, and every operation
\* of the two-wire interface with a status.
FairSpec == Spec /\ WF_vars(Next)

-----------------------------------------------------------------------------
(* Properties.                                                             *)

\* The shape of the state; the list is made of numbers of commands.
LoggerTypeOK ==
  /\ I2cTypeOK
  /\ pc \in {"boot", "setup", "cycle", "poll", "refused", "decoded", "text"}
  /\ list \in Seq(1 .. 31)
  /\ IsSuffix(ptr, list)
  /\ buf \in [0 .. 3 -> 0 .. 255] /\ shown \in Int
  /\ cursor \in Cell /\ placed \in BOOLEAN

\* The cycle asks for what the car announced by "[A7..D0] == [PID $01..PID $20]"
\* (obd.h:40), each PID of the table once and no other: the mask of
\* obd_set_supported_ops, the bytes put together by initialize_obd, and the texts
\* in the table fit together (obd.c:23-313, 430-459, 612-629).  Without a complete
\* answer there is still no command twice.
Asked(k) == obd_cmds(list[k]).obd_cmd
AskedOnce == \A j, k \in DOMAIN list : Asked(j) = Asked(k) => j = k
PolledIsAnnounced ==
  /\ AskedOnce
  /\ announced # {0} /\ pc # "boot" =>
       { Asked(k) : k \in DOMAIN list } = announced \cap 1 .. 31

\* What is printed for a complete answer is the documented value of the PID asked
\* for (obd.h:44-67), whatever the array held before: an earlier answer, longer
\* ones too, or a command to the display (main.c:159-202).  Known not to be so, and
\* left out: sums above 32767, and the oxygen sensors.
Deviates(n, a) == (n \in {12, 16} /\ a >= 128) \/ n \in 19 .. 27
Decodes ==
  pc = "decoded" /\ said # << >> /\ ~Deviates(said[1], said[2]) =>
    Agrees(said[1], said[2], said[3], shown)

\* A text lands in the row of its own PID, which is no other PID's, whichever
\* transfers failed before it, unless the command to place the cursor for this very
\* text has failed (main.c:170-201).  i2c_io has then told so, or the bus was in
\* error; main throws the result away, and the text is put where the last one ended.
RowOf(c) == CHOOSE r \in LcdRow : c \in {r, r + HalfRow}
TextInItsRow ==
  [][Transfer /\ Shows /\ placed =>
       { p \in DOMAIN Place : Place[p] = RowOf(cursor) } = {Pids[acked'[1] - 255]}
    ]_vars

\* The cycle comes round for ever: neither a command that the car refuses each
\* time nor a display that never acknowledges stops it (main.c:142-210).
CyclesOn == []<>(pc = "cycle")

\* "CALC1:[A/200][0-1.275][volts]", "(256A + B)/4 [rpm] [0-16,383.75]" (obd.h:52,60):
\* what is printed for a complete answer is the documented value.
AsDocumented ==
  pc = "decoded" /\ said # << >> => Agrees(said[1], said[2], said[3], shown)
=============================================================================

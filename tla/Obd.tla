--------------------------------- MODULE Obd ---------------------------------
(***************************************************************************)
(* obd.c without its state: the table of commands, the search for the data *)
(* in an answer of the ELM327, and the decoding of each parameter (PID)    *)
(* into the number that is displayed.                                      *)
(*                                                                         *)
(* An answer is a sequence of tokens: 0 .. 255 for two hex digits,         *)
(* 256 + d for a digit d left over, PADDING for what is no digit, and the  *)
(* two refusals.  A displayed number is kept in hundredths.                *)
(*                                                                         *)
(* Definitions named Mut_* are plausible bugs of the definition that       *)
(* follows them, used only to see that the properties can be broken.       *)
(***************************************************************************)
EXTENDS Integers, Sequences, FiniteSets, SequencesExt

PADDING == -1
NO_DATA == -2
NO_CONNECT == -3

\* The enumeration of obd.h as far as the table goes: PID n is Pids[n + 1].
Pids == <<
  "PIDS_SUPPORTED_01_02", "MONITOR_STATUS_SINCE_DTCS_CLEARED", "FREEZE_DTC",
  "FUEL_SYSTEM_STATUS", "CALCULATED_ENGINE_LOAD", "ENGINE_COOLANT_TEMP_1",
  "SHORT_TERM_FUEL_TRIM_1", "LONG_TERM_FUEL_TRIM_1", "SHORT_TERM_FUEL_TRIM_2",
  "LONG_TERM_FUEL_TRIM_2", "FUEL_PRESSURE", "INTAKE_MANIFOLD_ABS_PRESSURE_1",
  "ENGINE_RPM", "VEHICLE_SPEED", "TIMING_ADVANCE", "INTAKE_AIR_TEMP_1",
  "MAF_RATE", "THROTTLE_POSITION_1", "COMMANDED_SECONDARY_AIR_STAT",
  "TOTAL_OXYGEN_SENSORS_2_BANKS", "OXYGEN_SENSOR_1_2_BANK",
  "OXYGEN_SENSOR_2_2_BANK", "OXYGEN_SENSOR_3_2_BANK", "OXYGEN_SENSOR_4_2_BANK",
  "OXYGEN_SENSOR_5_2_BANK", "OXYGEN_SENSOR_6_2_BANK", "OXYGEN_SENSOR_7_2_BANK",
  "OXYGEN_SENSOR_8_2_BANK", "OBD_STANDARDS", "TOTAL_OXYGEN_SENSORS_4_BANKS",
  "AUXILIARY_INPUT_STATUS", "RUN_TIME_ENGINE_START" >>

\* struct obd_cmd: the PID it is for, the bytes of data, the PID in the text that
\* is sent, and the handler ("NULL" for none)
Cmd(obd_pid, resp_bytes, obd_cmd, handle_data) ==
  [obd_pid |-> obd_pid, resp_bytes |-> resp_bytes, obd_cmd |-> obd_cmd,
   handle_data |-> handle_data]

\* obd_cmds, PIDs 00 to 0F
LowCommands == <<
  Cmd("PIDS_SUPPORTED_01_02", 4, 0, "set_supported_ops"),
  Cmd("MONITOR_STATUS_SINCE_DTCS_CLEARED", 4, 1, "NULL"),
  Cmd("FREEZE_DTC", 2, 2, "NULL"),
  Cmd("FUEL_SYSTEM_STATUS", 2, 3, "NULL"),
  Cmd("CALCULATED_ENGINE_LOAD", 1, 4, "engine_load"),
  Cmd("ENGINE_COOLANT_TEMP_1", 1, 5, "coolant_temp"),
  Cmd("SHORT_TERM_FUEL_TRIM_1", 1, 6, "fuel_trim"),
  Cmd("LONG_TERM_FUEL_TRIM_1", 1, 7, "fuel_trim"),
  Cmd("SHORT_TERM_FUEL_TRIM_2", 1, 8, "fuel_trim"),
  Cmd("LONG_TERM_FUEL_TRIM_2", 1, 9, "fuel_trim"),
  Cmd("FUEL_PRESSURE", 1, 10, "fuel_pressure"),
  Cmd("INTAKE_MANIFOLD_ABS_PRESSURE_1", 1, 11, "manifold_pressure"),
  Cmd("ENGINE_RPM", 2, 12, "engine_rpm"),
  Cmd("VEHICLE_SPEED", 1, 13, "vehicle_speed"),
  Cmd("TIMING_ADVANCE", 1, 14, "timing_advance"),
  Cmd("INTAKE_AIR_TEMP_1", 1, 15, "air_temp") >>

\* obd_cmds, PIDs 10 to 1F
HighCommands == <<
  Cmd("MAF_RATE", 2, 16, "maf_rate"),
  Cmd("THROTTLE_POSITION_1", 1, 17, "throttle_pos"),
  Cmd("COMMANDED_SECONDARY_AIR_STAT", 1, 18, "NULL"),
  Cmd("TOTAL_OXYGEN_SENSORS_2_BANKS", 1, 19, "oxygen_sensors"),
  Cmd("OXYGEN_SENSOR_1_2_BANK", 2, 20, "oxygen_data"),
  Cmd("OXYGEN_SENSOR_2_2_BANK", 2, 21, "oxygen_data"),
  Cmd("OXYGEN_SENSOR_3_2_BANK", 2, 22, "oxygen_data"),
  Cmd("OXYGEN_SENSOR_4_2_BANK", 2, 23, "oxygen_data"),
  Cmd("OXYGEN_SENSOR_5_2_BANK", 2, 24, "oxygen_data"),
  Cmd("OXYGEN_SENSOR_6_2_BANK", 2, 25, "oxygen_data"),
  Cmd("OXYGEN_SENSOR_7_2_BANK", 2, 26, "oxygen_data"),
  Cmd("OXYGEN_SENSOR_8_2_BANK", 2, 27, "oxygen_data"),
  Cmd("OBD_STANDARDS", 1, 28, "NULL"),
  Cmd("TOTAL_OXYGEN_SENSORS_4_BANKS", 1, 29, "NULL"),
  Cmd("AUXILIARY_INPUT_STATUS", 1, 30, "NULL"),
  Cmd("RUN_TIME_ENGINE_START", 2, 31, "NULL") >>

Commands == LowCommands \o HighCommands

\* counted from 0
obd_cmds(i) == Commands[i + 1]

-----------------------------------------------------------------------------
(* The handlers: the number printed, from the data bytes a = res[2] and    *)
(* b = res[3].  A quotient is cut towards 0.                               *)

\* res[2] * 256 + res[3] in an int of 16 bits: an overflow is undefined, and the
\* quotient comes out as that of a wrapped sum or of the full one.
Mut_Sums(a, b) == {b * 256 + a}
Sums(a, b) == LET n == a * 256 + b
              IN  {n, ((n + 32768) % 65536) - 32768}

Cut(n, d) == IF n < 0 THEN -((-n) \div d) ELSE n \div d

\* "%.2f" of n / d, and "%d"
Fixed(n, d) == (200 * n + d) \div (2 * d)
Whole(n) == 100 * n

obd_get_engine_load(a)       == Fixed(100 * a, 255)
obd_get_coolant_temp(a)      == Whole(a - 40)
obd_get_fuel_trim(a)         == Fixed(100 * a - 12800, 128)
obd_get_fuel_pressure(a)     == Whole(a * 3)
obd_get_manifold_pressure(a) == Whole(a)
obd_get_engine_rpm(sum)      == Whole(Cut(sum, 4))
obd_get_vehicle_speed(a)     == Whole(a)
obd_get_timing_advance(a)    == Whole((a \div 2) - 64)
obd_get_air_temp(a)          == Whole(a - 40)
obd_get_maf_rate(sum)        == Whole(Cut(sum, 100))
obd_get_throttle_pos(a)      == Fixed(100 * a, 255)
obd_get_oxygen_sensors(a)    == Whole((a % 16) + (a \div 16))
obd_get_oxygen_data(a)       == Whole(a \div 200)

\* (*handle_data)(...)
handle_data(h, a, sum) ==
  [engine_load    |-> obd_get_engine_load(a),
   coolant_temp   |-> obd_get_coolant_temp(a),
   fuel_trim      |-> obd_get_fuel_trim(a),
   fuel_pressure  |-> obd_get_fuel_pressure(a),
   manifold_pressure |-> obd_get_manifold_pressure(a),
   engine_rpm     |-> obd_get_engine_rpm(sum),
   vehicle_speed  |-> obd_get_vehicle_speed(a),
   timing_advance |-> obd_get_timing_advance(a),
   air_temp       |-> obd_get_air_temp(a),
   maf_rate       |-> obd_get_maf_rate(sum),
   throttle_pos   |-> obd_get_throttle_pos(a),
   oxygen_sensors |-> obd_get_oxygen_sensors(a),
   oxygen_data    |-> obd_get_oxygen_data(a)][h]

-----------------------------------------------------------------------------
\* Some numbers in ascending order: the k-th one has k - 1 before it.
InOrder(S) ==
  [k \in 1 .. Cardinality(S) |->
     CHOOSE i \in S : Cardinality({m \in S : m < i}) = k - 1]

-----------------------------------------------------------------------------
(* obd_set_supported_ops: res is the four bytes of the bit mask, the most  *)
(* significant first; a copy of every command is pushed to the head of the *)
(* list, which is here the list of their numbers.                          *)

Mut_MaskBit(i) == 7 - (i % 8)
MaskBit(i) == 7 - ((i - 1) % 8)

Supported(res, i) == (res[((i - 1) \div 8) + 1] \div (2 ^ MaskBit(i))) % 2 = 1

Mut_linked_list(res) == Reverse(InOrder({i \in 1 .. 32 : Supported(res, i)}))
linked_list(res) == Reverse(InOrder({i \in 1 .. 31 : Supported(res, i)}))

-----------------------------------------------------------------------------
(* obd_command: what it does with the answer of the ELM327.                *)

\* obd_resp: the answer from its first byte that is 0x40 plus the mode, 01
obd_resp(answer) ==
  LET at == SelectInSeq(answer, LAMBDA t : t = 65)
  IN  IF at = 0 THEN << >> ELSE SubSeq(answer, at, Len(answer))

\* obd_fmt_resp: the hex digits, whatever stands between them.  Token k has its
\* first digit at 2 * k and its second one, or a single one, at 2 * k + 1.
HasDigit(t, at) == t >= 0 /\ (at % 2 = 0 => t < 256)
DigitOf(t, at) == IF t >= 256 THEN t - 256
                  ELSE IF at % 2 = 0 THEN t \div 16 ELSE t % 16
obd_fmt_resp(data) ==
  LET at == InOrder({i \in 2 .. 2 * Len(data) + 1 : HasDigit(data[i \div 2], i)})
  IN  [k \in 1 .. Len(at) |-> DigitOf(data[at[k] \div 2], at[k])]

\* the bytes obd_command stores, or << >> when it returns -1
obd_command(answer) ==
  LET digits  == obd_fmt_resp(obd_resp(answer))
      refused == \E k \in DOMAIN answer : answer[k] \in {NO_DATA, NO_CONNECT}
  IN  IF refused \/ Len(digits) % 2 = 1 THEN << >>
      ELSE [k \in 1 .. (Len(digits) \div 2) |->
              16 * digits[2 * k - 1] + digits[2 * k]]

\* The bytes go over the beginning of an array, the rest of it stays.
Over(dat, bytes) ==
  [i \in DOMAIN dat |-> IF i < Len(bytes) THEN bytes[i + 1] ELSE dat[i]]

-----------------------------------------------------------------------------
(* The documentation of the parameters in obd.h.                           *)

\* "Bit encoded [A7..D0] == [PID $01..PID $20]": the answer that announces pids
Announcement(pids) ==
  LET Bit(i) == IF i \in pids THEN 1 ELSE 0
  IN  [k \in 1 .. 4 |->
         128 * Bit(8 * k - 7) + 64 * Bit(8 * k - 6) + 32 * Bit(8 * k - 5)
         + 16 * Bit(8 * k - 4) + 8 * Bit(8 * k - 3) + 4 * Bit(8 * k - 2)
         + 2 * Bit(8 * k - 1) + Bit(8 * k)]

Count(a) == FoldFunction(+, 0, [j \in 0 .. 7 |-> (a \div (2 ^ j)) % 2])

\* The formula of PID n as <<numerator, denominator>>; that of the fuel trims is
\* taken with the range [-100, 99.2] that stands next to it.
Documented(n, a, b) ==
  CASE n \in {4, 17}         -> <<100 * a, 255>>
    [] n \in {5, 15}         -> <<a - 40, 1>>
    [] n \in 6 .. 9          -> <<100 * a - 12800, 128>>
    [] n = 10                -> <<3 * a, 1>>
    [] n \in {11, 13}        -> <<a, 1>>
    [] n = 12                -> <<256 * a + b, 4>>
    [] n = 14                -> <<a - 128, 2>>
    [] n = 16                -> <<256 * a + b, 100>>
    [] n = 19                -> <<Count(a), 1>>
    [] n \in 20 .. 27        -> <<a, 200>>

\* Percentages and volts are printed with two digits behind the point, the rest
\* with none.
LastDigit(n) == IF n \in {4, 17} \cup 6 .. 9 \cup 20 .. 27 THEN 1 ELSE 100

\* shown is the documented value, up to one unit of the last digit printed.
Agrees(n, a, b, shown) ==
  LET d == Documented(n, a, b)
      e == shown * d[2] - 100 * d[1]
  IN  e <= LastDigit(n) * d[2] /\ -e <= LastDigit(n) * d[2]
=============================================================================

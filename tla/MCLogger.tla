------------------------------- MODULE MCLogger ------------------------------
(* The instances of Logger that TLC checks.                                 *)
EXTENDS Logger

\* Bytes, and the symbols of the texts
MCByte == 0 .. 287

\* All the table has but the numbers of the display; the four of them;
\* one of them with the two ends of the bit mask; none.
MCAnnouncements ==
  { 1 .. 32 \ {4, 5, 12, 13}, {4, 5, 12, 13}, {1, 4, 31, 32}, {} }

\* The sensors whose voltage is printed
OxygenAnnouncements == { 20 .. 27 }
==============================================================================

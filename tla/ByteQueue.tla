----------------------------- MODULE ByteQueue -----------------------------
(***************************************************************************)
(* What fifo.c promises to the code around it: a bounded first-in          *)
(* first-out queue of bytes.  The interrupt handler appends, the main      *)
(* program removes, nothing is lost, repeated or reordered in between.     *)
(***************************************************************************)
EXTENDS Naturals, Sequences

CONSTANTS Byte,      \* the values a byte may have
          Capacity   \* how many bytes the queue holds

VARIABLES q,     \* the bytes accepted and not yet handed out, oldest first
          out    \* the byte the last read handed out

Init == q = << >> /\ out \in Byte

Write == \E b \in Byte : /\ Len(q) < Capacity
                         /\ q' = Append(q, b)
                         /\ UNCHANGED out

Read == /\ q # << >>
        /\ out' = Head(q)
        /\ q' = Tail(q)

Next == Write \/ Read

Spec == Init /\ [][Next]_<<q, out>>
=============================================================================

--------------------------- MODULE WriteBackStore ---------------------------
(***************************************************************************)
(* What io.c promises for writing: a store of bytes with a write-back      *)
(* cache of one sector.  A byte that was put is there for whoever asks the *)
(* store; it reaches the card at the latest when another sector is put to, *)
(* and only what has not reached the card is lost with the power.          *)
(***************************************************************************)
CONSTANTS Sector, Offset, Byte

VARIABLES mem,    \* the contents of the store
          disk    \* the contents of the card

Init == mem \in [Sector -> [Offset -> Byte]] /\ disk = mem

\* Putting to sector s writes back what was put to any other sector.
Put(s, o, v) == /\ mem' = [mem EXCEPT ![s][o] = v]
                /\ disk' = [mem EXCEPT ![s] = disk[s]]

Sync == mem' = mem /\ disk' = mem

PowerLoss == mem' = disk /\ disk' = disk

Next == \/ \E s \in Sector, o \in Offset, v \in Byte : Put(s, o, v)
        \/ Sync
        \/ PowerLoss

Spec == Init /\ [][Next]_<<mem, disk>>
=============================================================================

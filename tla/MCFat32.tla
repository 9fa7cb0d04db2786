------------------------------- MODULE MCFat32 -------------------------------
(* The instances of Fat32 that TLC checks: a card of fourteen sectors with  *)
(* two cells each.  Sector 0 ends in the partition table, sector 1 begins   *)
(* the volume, 2 to 5 are the FAT, 6 and 7 are cluster 2 and the root       *)
(* directory, and three more clusters follow.                               *)
EXTENDS Fat32

MCLast == 15
MCFar == 14
MCZero == [kind |-> "zero"]

Partition(type) == [kind |-> "partition", type |-> type, start_sector |-> 1]
BootSector == [kind |-> "boot", reserved_sectors |-> 1, number_of_fats |-> 1,
               sectors_per_fat_32 |-> 4, sectors_per_cluster |-> 2,
               cluster_number_root_dir |-> 2]
FatEntry(next) == [kind |-> "fat", next |-> next]

MCNames == {"log"}
MCMarks == {"live", "lfn", "deleted", "unused"}

MCCells ==
  {MCZero, BootSector} \cup {Partition(t) : t \in {6, 11, 12}}
  \cup {FatEntry(n) : n \in 0 .. 15}
  \cup [kind : {"entry"}, mark : MCMarks, name : MCNames \cup {"junk", "label", "pc"},
        first : 0 .. 7, size : 0 .. MaxSize]
  \cup [kind : {"data"}, of : MCNames, at : 1 .. MaxSize]

\* A volume with these directory entries; the FAT has a free cluster where it
\* names none, and begins with two entries that end every walk.
SectorOf(cells, s) ==
  [o \in Offset |-> IF 2 * s + o < Len(cells) THEN cells[2 * s + o + 1] ELSE MCZero]
Volume(type, fat, entries) ==
  LET Fat(c) == IF c \in {0, 1, 2} THEN FatEntry(MCLast)
                ELSE IF c \in DOMAIN fat THEN FatEntry(fat[c]) ELSE FatEntry(0)
  IN  [s \in Sector |->
         CASE s = 0 -> SectorOf(<<MCZero, Partition(type)>>, 0)
           [] s = 1 -> SectorOf(<<BootSector>>, 0)
           [] s \in 2 .. 5 -> [o \in Offset |-> Fat(2 * (s - 2) + o)]
           [] s \in 6 .. 7 -> SectorOf(entries, s - 6)
           [] OTHER -> SectorOf(<< >>, 0)]

Label == Entry("live", "label", 0, 0)
LongName == Entry("lfn", "pc", 0, 0)
Deleted == Entry("deleted", "pc", 0, 0)
PcFile == Entry("live", "pc", 3, 1)

MCVolumes ==
  { Volume(12, << >>, <<Label>>),
    Volume(11, [c \in {3, 5} |-> IF c = 3 THEN 15 ELSE 6],
           <<Label, LongName, PcFile>>),
    Volume(12, [c \in {3} |-> 15], <<Label, Deleted, PcFile>>),
    Volume(12, [c \in {5, 6} |-> 11 - c], <<Label, PcFile>>),
    Volume(6, << >>, <<Label>>) }

\* A file written by another system
SharedVolumes == { Volume(12, [c \in {3} |-> 15], <<Label, PcFile>>) }
==============================================================================

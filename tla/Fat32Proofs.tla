---------------------------- MODULE Fat32Proofs -----------------------------
(***************************************************************************)
(* Proofs about the file system layer: what fat.c reads of a volume, where it *)
(* puts what it writes, and that the shape of its state is invariant.  The *)
(* constants' part is Cells: what a cell of the card may be.               *)
(***************************************************************************)
EXTENDS Fat32, IOCacheProofs, FiniteSetTheorems, WellFoundedInduction

Marks == {"live", "lfn", "deleted", "unused"}
Labels == Names \cup {"junk"} \cup {c.name : c \in {x \in Byte : x.kind = "entry"}}
EntryRec == [kind : {"entry"}, mark : Marks, name : Labels, first : Nat,
             size : 0 .. MaxSize]
Clusters == {c \in SUBSET Nat : IsFiniteSet(c)}
GeoOK(g) ==
  /\ g.cluster_begin_sector \in Nat \ {0} /\ g.fat_begin_sector \in Nat
  /\ g.root_dir_sector = g.cluster_begin_sector
  /\ g.sectors_per_cluster \in Nat \ {0}
  /\ MaxEntries <= g.sectors_per_cluster * SECTOR_SIZE
  /\ g.cluster_begin_sector + g.sectors_per_cluster <= NSectors
Cells ==
  /\ "junk" \notin Names /\ "none" \notin Names /\ \A a, b \in Names : a = b
  /\ EntryRec \subseteq Byte
  /\ \A n \in Names, i \in 1 .. MaxSize : Datum(n, i) \in Byte
  /\ \A c \in Byte : c.kind = "entry" => c \in EntryRec
  /\ \A c \in Byte : c.kind = "fat" => c.next \in Nat
  /\ Zero.kind \notin {"entry", "fat", "partition"}
  /\ FAR \in Nat

\* A set of natural numbers that is not empty has a least member.
LEMMA Least ==
  ASSUME NEW S, S \subseteq Nat, S # {}
  PROVE  \E m \in S : \A k \in S : m <= k
<1>1. \E m \in S : \A k \in S : <<k, m>> \notin OpToRel(<, Nat)
  BY NatLessThanWellFounded, WFMin, Zenon
<1>2. PICK m \in S : \A k \in S : <<k, m>> \notin OpToRel(<, Nat)
  BY <1>1
<1>3. ASSUME NEW k \in S PROVE m <= k
  <2>1. k \in Nat /\ m \in Nat
    OBVIOUS
  <2>2. ~(k < m)
    BY <1>2, <2>1 DEF OpToRel
  <2> QED
    BY <2>1, <2>2
<1> QED
  BY <1>3

\* The loops of fat32_get_next_cluster and fat32_get_next_root_dir_loc end at the
\* first number that is not in use, and there is one (fat.c:440-466, 488-503).
LEMMA LowestIs ==
  ASSUME NEW n \in Nat, NEW used, IsFiniteSet(used)
  PROVE  /\ Lowest(n, used) \in n .. n + Cardinality(used)
         /\ Lowest(n, used) \notin used
         /\ \A k \in n .. Lowest(n, used) - 1 : k \in used
<1> DEFINE I == n .. n + Cardinality(used)
           F == I \ used
<1>1. Cardinality(used) \in Nat
  BY FS_CardinalityType
<1>2. F # {}
  <2> SUFFICES ASSUME I \subseteq used PROVE FALSE
    OBVIOUS
  <2>1. Cardinality(I) = Cardinality(used) + 1
    BY <1>1, FS_Interval
  <2>2. Cardinality(I) <= Cardinality(used)
    BY FS_Subset
  <2> QED
    BY <1>1, <2>1, <2>2
<1>3. F \subseteq Nat
  BY <1>1
<1>4. PICK m \in F : \A k \in F : m <= k
  <2> HIDE DEF F
  <2> QED
    BY <1>2, <1>3, Least, Zenon
<1>5. m \in I /\ m \notin used /\ \A k \in n .. m - 1 : k \in used
  BY <1>1, <1>4
<1>6. \E x \in n .. n + Cardinality(used) :
         x \notin used /\ \A k \in n .. x - 1 : k \in used
  BY <1>5
<1> QED
  BY <1>6, Zenon DEF Lowest

\* Whatever cell fat32_parse_entry looks at, it sees an entry of the right shape.
LEMMA EntryOf ==
  ASSUME Cells, NEW c \in Byte
  PROVE  AsEntry(c) \in EntryRec
<1>1. CASE c.kind = "entry"
  BY <1>1 DEF AsEntry, Cells
<1>2. CASE c.kind # "entry"
  <2>1. "junk" \in Labels
    BY DEF Labels
  <2>2. ASSUME NEW m \in Marks PROVE Entry(m, "junk", 0, 0) \in EntryRec
    <3>1. 0 \in 0 .. MaxSize
      BY EntriesAssumption
    <3> QED
      BY <2>1, <3>1 DEF Entry, EntryRec
  <2>3. AsEntry(c) = Entry("unused", "junk", 0, 0) \/ AsEntry(c) = Entry("live", "junk", 0, 0)
    BY <1>2 DEF AsEntry
  <2> QED
    BY <2>2, <2>3 DEF Marks
<1> QED
  BY <1>1, <1>2

\* An entry that was written is read as it was.
LEMMA EntryItself ==
  ASSUME NEW d \in EntryRec
  PROVE  AsEntry(d) = d
BY DEF AsEntry, EntryRec

\* What fat32_get_fat reads is a number, whatever the cell is.
LEMMA FatOf ==
  ASSUME Cells, NEW c \in Byte
  PROVE  AsFat(c) \in Nat
BY DEF AsFat, Cells

\* A number of an entry as a number of sectors and an offset.
LEMMA Division ==
  ASSUME NEW n \in Nat
  PROVE  /\ n \div SECTOR_SIZE \in Nat /\ n % SECTOR_SIZE \in Offset
         /\ n = SECTOR_SIZE * (n \div SECTOR_SIZE) + (n % SECTOR_SIZE)
BY CardAssumption DEF Offset

\* A multiple is no smaller than what it is a multiple of.
LEMMA AtLeast ==
  ASSUME NEW a \in Nat, NEW b \in Nat, a >= 1
  PROVE  a * b \in Nat /\ a * b >= b
<1>1. (a - 1) * b \in Nat
  BY SMT
<1>2. a * b = (a - 1) * b + b
  BY SMT
<1> QED
  BY <1>1, <1>2

\* An entry of the root directory is in the first cluster, and on the card.
LEMMA EntryPlaceIn ==
  ASSUME NEW g, GeoOK(g), NEW s \in Nat
  PROVE  /\ EntryPlace(g, s) \in Nat \X Offset
         /\ EntryPlace(g, s)[1] >= g.cluster_begin_sector
         /\ s \in Slots => /\ EntryPlace(g, s)[1] \in Sector
                           /\ EntryPlace(g, s)[1] < g.cluster_begin_sector + g.sectors_per_cluster
<1> DEFINE q == s \div SECTOR_SIZE
           spc == g.sectors_per_cluster
<1>1. /\ q \in Nat /\ s % SECTOR_SIZE \in Offset
      /\ s = SECTOR_SIZE * q + (s % SECTOR_SIZE)
  BY Division
<1>2. EntryPlace(g, s) = <<g.cluster_begin_sector + q, s % SECTOR_SIZE>>
  BY DEF EntryPlace, GeoOK
<1>3. g.cluster_begin_sector \in Nat /\ spc \in Nat /\ MaxEntries <= spc * SECTOR_SIZE
      /\ g.cluster_begin_sector + spc <= NSectors
  BY DEF GeoOK
<1>4. ASSUME s \in Slots PROVE q < spc
  <2> SUFFICES ASSUME q >= spc PROVE FALSE
    BY <1>1, <1>3
  <2>1. SECTOR_SIZE * q >= SECTOR_SIZE * spc
    BY <1>1, <1>3, CardAssumption, SMT
  <2>2. s >= SECTOR_SIZE * q
    BY <1>1, CardAssumption DEF Offset
  <2>3. /\ SECTOR_SIZE * spc = spc * SECTOR_SIZE /\ SECTOR_SIZE * spc \in Nat
        /\ SECTOR_SIZE * q \in Nat
    BY <1>1, <1>3, CardAssumption, SMT
  <2> HIDE DEF q, spc
  <2> QED
    BY <1>3, <1>4, <2>1, <2>2, <2>3, EntriesAssumption DEF Slots
<1> HIDE DEF q, spc
<1> QED
  BY <1>1, <1>2, <1>3, <1>4, CardAssumption DEF Sector, spc

\* Two entries have two places.
LEMMA EntryPlacesDiffer ==
  ASSUME NEW g, GeoOK(g), NEW s \in Nat, NEW t \in Nat,
         EntryPlace(g, s) = EntryPlace(g, t)
  PROVE  s = t
<1>1. s \div SECTOR_SIZE = t \div SECTOR_SIZE /\ s % SECTOR_SIZE = t % SECTOR_SIZE
  <2>1. s \div SECTOR_SIZE \in Nat /\ t \div SECTOR_SIZE \in Nat
    BY Division
  <2> QED
  BY <2>1 DEF EntryPlace, GeoOK
<1> QED
  BY <1>1, Division

\* The bytes of a file are in the clusters, and behind the first one unless they
\* are in cluster 2 (start_byte_offset, fat.c:681-695).
LEMMA DataPlaceIn ==
  ASSUME GeoOK(geo), NEW c \in Nat, c >= 2, NEW n \in Nat
  PROVE  /\ DataPlace(c, n) \in Nat \X Offset
         /\ DataPlace(c, n)[1] >= geo.cluster_begin_sector
         /\ c >= 3 => DataPlace(c, n)[1] >= geo.cluster_begin_sector + geo.sectors_per_cluster
<1> DEFINE q == n \div SECTOR_SIZE
           spc == geo.sectors_per_cluster
           r == (c - 2) * spc
<1>1. q \in Nat /\ n % SECTOR_SIZE \in Offset
  BY Division
<1>2. spc \in Nat /\ geo.cluster_begin_sector \in Nat
  BY DEF GeoOK
<1>3. r \in Nat /\ (c >= 3 => r >= spc)
  <2>1. c - 2 \in Nat /\ (c >= 3 => c - 2 >= 1)
    OBVIOUS
  <2>2. r \in Nat
    BY <1>2, <2>1
  <2> QED
    BY <1>2, <2>1, <2>2, AtLeast
<1>4. DataPlace(c, n) = <<geo.cluster_begin_sector + r + q, n % SECTOR_SIZE>>
  BY DEF DataPlace
<1> HIDE DEF q, r, spc
<1> QED
  BY <1>1, <1>2, <1>3, <1>4 DEF spc

\* Every number has its place in the FAT.
LEMMA FatPlaceIn ==
  ASSUME GeoOK(geo), NEW c \in Nat
  PROVE  FatPlace(geo, c) \in Nat \X Offset
<1>1. c \div SECTOR_SIZE \in Nat /\ c % SECTOR_SIZE \in Offset
  BY Division
<1> QED
  BY <1>1 DEF FatPlace, GeoOK

-----------------------------------------------------------------------------
FileCopy == [name : Labels, slot : Nat, cluster : Nat, fat_list : Clusters]
FileRec == [name : Labels \cup {"none"}, slot : 0 .. MaxEntries, cluster : Nat, at : 0 .. MaxSize]

\* The calls of io.c that are under way at a step of fat.c.
Reading == {"partition", "boot", "entry", "fat", "size"}
Writing == {"data", "flush", "flushed", "size", "resize"}
Phases == Mounting \cup {"off", "idle", "creat"} \cup Writing

PhaseInv ==
  /\ fpc \in Phases /\ sound \in BOOLEAN /\ failures \in 0 .. MaxFailures
  /\ (fpc = "off") = (pc = "off")
  /\ pc = "busy" => \/ fpc \in Reading /\ op = "read" /\ left = 1 /\ moved = << >>
                    \/ fpc \in {"creat", "resize"} /\ op = "write" /\ left = 1
                       /\ moved = << >>
                    \/ fpc = "data" /\ op = "write" /\ Len(moved) + left = nbytes
  /\ pc = "idle" /\ ret = "ok" /\ fpc \in Reading => Len(moved) = 1
  /\ fpc \in {"off", "on", "partition", "boot"} => geo = NoGeo
  /\ fpc \in {"entry", "fat", "creat"} \cup Writing => geo # NoGeo

WalkInv ==
  /\ j \in 0 .. MaxEntries /\ curr \in Nat /\ chain \in Clusters /\ e \in EntryRec
  /\ local \in FileCopy /\ (local.name \in Names => local.cluster >= 2)
  /\ cache \in Seq(FileCopy)
  /\ \A k \in DOMAIN cache : /\ cache[k].slot \in Slots
                             /\ cache[k].name \in Names => cache[k].cluster >= 2
  /\ \A k, l \in DOMAIN cache : k < l => cache[k].slot < cache[l].slot
  /\ fpc \in {"entry", "fat"} => /\ j \in Slots
                                 /\ \A k \in DOMAIN cache : cache[k].slot < j
  /\ geo = NoGeo => cache = << >>

UserInv ==
  /\ file \in FileRec /\ nbytes \in 0 .. MaxLen /\ base \in 0 .. MaxSize
  /\ base + file.at + nbytes <= MaxSize /\ made \subseteq 0 .. MaxEntries
  /\ file # NoFile => geo # NoGeo /\ file.name \in Names /\ file.cluster >= 2
  /\ fpc \in {"creat"} \cup Writing => file # NoFile
  /\ fpc \notin Writing => nbytes = 0
  /\ fpc \in Mounting \cup {"off"} => file = NoFile /\ made = {}
  /\ fpc = "resize" => e.size + nbytes <= MaxSize

\* Where things are: nothing the program writes moves them.
Placed(sectors) ==
  Mountable(sectors) => Sited(sectors) /\ (geo # NoGeo => geo = GeoOf(sectors))
GeoInv ==
  /\ geo # NoGeo => GeoOK(geo)
  /\ Placed(card) /\ Placed(Contents)
  /\ pc = "busy" /\ op = "write" => pos[1] >= geo.cluster_begin_sector

\* While the volume is read nothing is written, and what is read is on the card.
MountInv ==
  fpc \in Mounting =>
    /\ output_sector_addr = 0 /\ output_sector_buf \in {Cleared, card[0]}
    /\ input_sector_addr # 0 => input_sector_buf = card[input_sector_addr]
    /\ fpc \in {"on", "partition"} =>
         input_sector_addr = 0 /\ input_sector_buf \in {Cleared, card[0]}
    /\ fpc = "partition" /\ pc = "busy" => pos = <<0, SECTOR_SIZE - 1>>
    /\ fpc = "partition" /\ pc = "idle" /\ ret = "ok" =>
         Got = input_sector_buf[SECTOR_SIZE - 1]
    /\ fpc = "boot" \/ geo # NoGeo => Mountable(card)
    /\ fpc = "boot" /\ pc = "busy" => pos = <<StartOf(card), 0>>
    /\ fpc = "boot" /\ pc = "idle" /\ ret = "ok" =>
         /\ moved[1][1][1] = StartOf(card)
         /\ Got = card[StartOf(card)][0]
    /\ fpc = "entry" /\ pc = "busy" => pos = EntryPlace(geo, j)
    /\ fpc = "entry" /\ pc = "idle" /\ ret = "ok" => AsEntry(Got) = Dir(geo, card)[j]
    /\ fpc = "fat" => e = Dir(geo, card)[j] /\ e.mark = "live"

TypeInv == TInv /\ PhaseInv /\ WalkInv /\ UserInv /\ GeoInv /\ MountInv

\* Beginning a call of io.c moves no byte.
LEMMA CallEffect ==
  ASSUME TInv, NEW o \in {"read", "write"}, NEW p \in Nat \X Offset,
         NEW n \in 1 .. MaxLen,
         IoCall(o, p, n)
  PROVE  TInv' /\ Contents' = Contents
BY CallAssumption DEF IoCall, TInv, IOTypeOK, LeftInv, OffInv, inVars, outVars, Contents

\* A step that leaves the byte layer alone keeps what is known of it.
LEMMA StillEffect ==
  ASSUME TInv, UNCHANGED <<job, card, inVars, outVars>>
  PROVE  TInv' /\ Contents' = Contents
BY DEF TInv, IOTypeOK, LeftInv, OffInv, inVars, outVars, job, Contents

\* What io_get_byte does: it fails, or it brings the byte from its buffer, which
\* is the sector of the card or was so before (io.c:78-115).
LEMMA GetEffect ==
  ASSUME NSectors <= ADDR_SPAN, TInv, GetByte
  PROVE  /\ TInv' /\ Contents' = Contents /\ UNCHANGED <<card, outVars, op>>
         /\ pc = "busy" /\ op = "read" /\ pc' # "off"
         /\ \/ pc' = "idle" /\ ret' = "err" /\ moved' = moved /\ UNCHANGED inVars
            \/ /\ pos \in Place
               /\ moved' = Append(moved, <<pos, input_sector_buf'[pos[2]]>>)
               /\ input_sector_addr' = pos[1]
               /\ \/ input_sector_buf' = card[pos[1]]
                  \/ input_sector_addr = pos[1] /\ input_sector_buf' = input_sector_buf
               /\ left = 1 => pc' = "idle" /\ ret' = "ok"
<1>1. TInv'
  BY NextType DEF Next
<1>2. UNCHANGED <<card, outVars, op>> /\ pc = "busy" /\ op = "read"
  BY DEF GetByte
<1>3. pc' # "off"
  BY <1>2 DEF GetByte, GetHit, GetMiss, GetFails, Succeed, Fail, Leave, Continue
<1>4. Contents' = Contents
  BY <1>2, <1>3 DEF Contents, outVars
<1>5. CASE GetHit
  <2>1. pos \in Place
    BY <1>5 DEF GetHit, InputHit, TInv, IOTypeOK, Place
  <2> QED
    BY <1>1, <1>2, <1>3, <1>4, <1>5, <2>1
    DEF GetHit, InputHit, Succeed, Record, Leave, inVars
<1>6. CASE GetMiss
  <2>1. pos \in Place /\ Kept(pos[1]) = pos[1]
    BY <1>6, KeptSector DEF GetMiss, TInv, IOTypeOK, Place
  <2> QED
    BY <1>1, <1>2, <1>3, <1>4, <1>6, <2>1 DEF GetMiss, Succeed, Record, Leave
<1>7. CASE GetFails
  BY <1>1, <1>2, <1>3, <1>4, <1>7 DEF GetFails, Fail, Leave
<1> QED
  BY <1>5, <1>6, <1>7 DEF GetByte

\* What io_put_byte does: one byte changes, or none, and the card gets at most
\* what the program sees of it (io.c:118-162).
LEMMA PutEffect ==
  ASSUME NSectors <= ADDR_SPAN, TInv, NEW v \in Byte, PutByte(v)
  PROVE  /\ TInv' /\ UNCHANGED <<inVars, op>>
         /\ pc = "busy" /\ op = "write" /\ pc' # "off"
         /\ card' = card \/ card' = Contents
         /\ \/ /\ pc' = "idle" /\ ret' = "err" /\ moved' = moved
               /\ Contents' = Contents /\ UNCHANGED outVars
            \/ /\ pos \in Place /\ moved' = Append(moved, <<pos, v>>)
               /\ Contents' = [Contents EXCEPT ![pos[1]][pos[2]] = v]
               /\ output_sector_addr' = pos[1]
               /\ \/ pc' = "idle"
                  \/ pc' = "busy" /\ left # 1 /\ left' = left - 1 /\ pos' = NextPlace(pos)
<1>1. TInv'
  BY NextType DEF Next
<1>2. UNCHANGED <<inVars, op>> /\ pc = "busy" /\ op = "write"
  BY DEF PutByte
<1>3. Flushed = Contents
  BY <1>2, FlushedIsContents DEF TInv
<1>4. CASE PutHit(v) \/ PutMiss(v)
  <2>1. pos \in Place /\ Contents' = [Contents EXCEPT ![pos[1]][pos[2]] = v]
    BY <1>2, <1>4, ContentsAfterPut
  <2>2. output_sector_addr' = pos[1]
    BY <1>4, <2>1, KeptSector DEF PutHit, PutMiss, OutputHit, Place
  <2>3. Stored(v) /\ (card' = card \/ card' = Contents)
    BY <1>3, <1>4 DEF PutHit, PutMiss
  <2>4. /\ moved' = Append(moved, <<pos, v>>)
        /\ pc' = "idle" \/ (pc' = "busy" /\ left # 1 /\ left' = left - 1 /\ pos' = NextPlace(pos))
    BY <1>2, <2>3 DEF Stored, Succeed, Record, Leave, Continue
  <2> QED
    BY <1>1, <1>2, <2>1, <2>2, <2>3, <2>4
<1>5. CASE FlushFails \/ FetchFails
  <2>1. /\ pc' = "idle" /\ ret' = "err" /\ moved' = moved /\ UNCHANGED outVars
        /\ card' \in {card, Contents}
    BY <1>3, <1>5 DEF FlushFails, FetchFails, Fail, Leave
  <2>2. Contents' = Contents
    BY <1>2, <2>1 DEF Contents, outVars
  <2> QED
    BY <1>1, <1>2, <2>1, <2>2
<1> QED
  BY <1>4, <1>5 DEF PutByte

\* What is written in the clusters moves nothing of the volume.
LEMMA PutPlaced ==
  ASSUME geo # NoGeo, GeoOK(geo), NEW c \in [Sector -> Block], Placed(c),
         NEW s \in Sector, NEW o \in Offset, NEW v \in Byte,
         s >= geo.cluster_begin_sector
  PROVE  Placed([c EXCEPT ![s][o] = v])
<1> DEFINE c2 == [c EXCEPT ![s][o] = v]
<1>1. 0 \in Sector /\ s # 0
  BY CardAssumption DEF Sector, GeoOK
<1>2. PartitionOf(c2) = PartitionOf(c) /\ StartOf(c2) = StartOf(c)
  <2>1. c2[0] = c[0]
    BY <1>1
  <2> QED
    BY <2>1 DEF PartitionOf, StartOf
<1>3. ASSUME Mountable(c2) PROVE Sited(c2) /\ geo = GeoOf(c2)
  <2>1. Mountable(c) /\ Sited(c) /\ geo = GeoOf(c)
    BY <1>2, <1>3 DEF Mountable, Placed
  <2> DEFINE b == StartOf(c)
             bs == c[b][0]
  <2>2. b \in Sector /\ b < geo.cluster_begin_sector
    <3>1. /\ b \in Sector /\ bs.reserved_sectors \in Nat \ {0}
          /\ bs.number_of_fats \in Nat
          /\ bs.sectors_per_fat_32 \in Nat
      BY <2>1 DEF Sited
    <3>2. geo.cluster_begin_sector = b + bs.reserved_sectors + bs.number_of_fats * bs.sectors_per_fat_32
      BY <2>1 DEF GeoOf, Geometry
    <3>3. bs.number_of_fats * bs.sectors_per_fat_32 \in Nat
      BY <3>1
    <3> HIDE DEF b, bs
    <3> QED
      BY <3>1, <3>2, <3>3 DEF Sector
  <2>3. c2[b] = c[b]
    BY <2>2 DEF Sector, GeoOK
  <2>4. GeoOf(c2) = GeoOf(c)
    BY <1>2, <2>3 DEF GeoOf
  <2>5. c2[StartOf(c2)][0] = c[StartOf(c)][0]
    BY <1>2, <2>3
  <2> HIDE DEF c2, b, bs
  <2>6. Sited(c2)
    BY <1>2, <2>1, <2>4, <2>5 DEF Sited
  <2> QED
    BY <2>1, <2>4, <2>6
<1> HIDE DEF c2
<1>4. Placed(c2)
  BY <1>3 DEF Placed
<1> QED
  BY <1>4 DEF c2

-----------------------------------------------------------------------------
\* fat32_set_context gets numbers that are on the card from the boot sector.
LEMMA SitedGeo ==
  ASSUME NEW c, Sited(c)
  PROVE  GeoOK(GeoOf(c)) /\ GeoOf(c) # NoGeo
<1> DEFINE b == StartOf(c)
           bs == c[b][0]
           g == GeoOf(c)
<1>1. /\ b \in Sector \ {0} /\ bs.reserved_sectors \in Nat \ {0}
      /\ bs.number_of_fats \in Nat
      /\ bs.sectors_per_fat_32 \in Nat /\ bs.sectors_per_cluster \in Nat \ {0}
      /\ bs.cluster_number_root_dir = 2
      /\ MaxEntries <= bs.sectors_per_cluster * SECTOR_SIZE
      /\ g.cluster_begin_sector + bs.sectors_per_cluster <= NSectors
  BY DEF Sited
<1>2. bs.number_of_fats * bs.sectors_per_fat_32 \in Nat
  BY <1>1
<1>3. (bs.cluster_number_root_dir - 2) * bs.sectors_per_cluster = 0
  BY <1>1
<1>4. /\ g.cluster_begin_sector = b + bs.reserved_sectors + bs.number_of_fats * bs.sectors_per_fat_32
      /\ g.root_dir_sector = g.cluster_begin_sector + (bs.cluster_number_root_dir - 2) * bs.sectors_per_cluster
      /\ g.fat_begin_sector = b + bs.reserved_sectors
      /\ g.sectors_per_cluster = bs.sectors_per_cluster
  BY DEF GeoOf, Geometry
<1> HIDE DEF b, bs, g
<1>5. g.cluster_begin_sector \in Nat \ {0}
  BY <1>1, <1>2, <1>4 DEF Sector
<1>6. GeoOK(g)
  BY <1>1, <1>3, <1>4, <1>5 DEF GeoOK, Sector
<1>7. g # NoGeo
  BY <1>5 DEF NoGeo
<1> QED
  BY <1>6, <1>7 DEF g

\* A step that reads, and one that only begins to write, move nothing.
LEMMA GeoKept ==
  ASSUME GeoInv, geo' = geo, card' = card, Contents' = Contents,
         pc' = "busy" /\ op' = "write" => pos'[1] >= geo.cluster_begin_sector
  PROVE  GeoInv'
BY DEF GeoInv, Placed

\* The records the program starts with have their types.
LEMMA NoRecordType == NoRecord \in FileCopy /\ NoFile \in FileRec /\ {} \in Clusters
<1>1. {} \in Clusters
  BY FS_EmptySet DEF Clusters
<1> QED
  BY <1>1, EntriesAssumption DEF NoRecord, FileCopy, NoFile, FileRec, Labels

\* The shape of the state holds at power-on.
LEMMA TypeInit ==
  ASSUME Cells, FatInit
  PROVE  TypeInv
<1>1. TInv
  BY InitInv DEF FatInit, IInv
<1>2. AsEntry(Zero) \in EntryRec
  BY EntryOf, ByteAssumption
<1>3. Contents = card
  BY DEF FatInit, Init, Contents
<1>4. Placed(card)
  BY VolumesAssumption DEF FatInit, Placed
<1>5. GeoInv
  BY <1>3, <1>4 DEF FatInit, Init, GeoInv
<1>6. PhaseInv
  BY EntriesAssumption DEF FatInit, Init, PhaseInv, Phases, Mounting, Reading, Writing
<1>7. WalkInv
  BY <1>2, NoRecordType, EntriesAssumption DEF FatInit, WalkInv, NoRecord, Cells
<1>8. UserInv
  BY NoRecordType, EntriesAssumption, CallAssumption
     DEF FatInit, UserInv, Mounting, Writing, NoFile
<1>9. MountInv
  BY DEF FatInit, MountInv, Mounting
<1> QED
  BY <1>1, <1>5, <1>6, <1>7, <1>8, <1>9 DEF TypeInv

\* A card that only a failed initialize_io makes differ is not one to mount.
LEMMA MountedIsCard ==
  ASSUME Cells, NEW c, NEW d, c \in [Sector -> Block], d \in [Sector -> Block],
         c[0] \in {Cleared, d[0]}, \A s \in Sector \ {0} : c[s] = d[s], Mountable(c)
  PROVE  c = d
<1>1. CASE c[0] = d[0]
  BY <1>1, CardAssumption DEF Sector
<1>2. CASE c[0] = Cleared
  <2>1. c[0][SECTOR_SIZE - 1] = Zero
    BY <1>2, CardAssumption DEF Cleared, Offset
  <2>2. AsPartition(Zero).type = 0
    BY DEF Cells, AsPartition
  <2> QED
    BY <2>1, <2>2 DEF Mountable, PartitionOf
<1> QED
  BY <1>1, <1>2

\* What the program sees of the card is as the types have it.
LEMMA ContentsType == ASSUME IOTypeOK PROVE Contents \in [Sector -> Block]
BY DEF IOTypeOK, Contents

\* initialize_io keeps the shape of the state, also when it fails.
LEMMA TypeBoot ==
  ASSUME NSectors <= ADDR_SPAN, Cells, TypeInv, Boot
  PROVE  TypeInv'
<1> USE DEF Boot, walk, user
<1>1. TInv'
  BY NextType DEF TypeInv, Next
<1>2. pc = "off" /\ fpc = "off" /\ fpc' = "on" /\ pc' = "idle" /\ geo = NoGeo
  BY DEF PowerOn, TypeInv, PhaseInv
<1>3. card' = card /\ output_sector_addr' = 0 /\ input_sector_addr' = 0
      /\ input_sector_buf' \in {Cleared, card[0]}
      /\ output_sector_buf' \in {Cleared, card[0]}
  BY <1>2 DEF PowerOn, TypeInv, TInv, OffInv
<1>4. PhaseInv'
  BY <1>2, EntriesAssumption DEF TypeInv, PhaseInv, Noted, Phases, Mounting, Writing,
     Reading
<1>5. WalkInv'
  BY <1>2 DEF TypeInv, WalkInv
<1>6. UserInv'
  BY <1>2 DEF TypeInv, UserInv, Mounting, Writing
<1>7. MountInv'
  BY <1>2, <1>3 DEF MountInv
<1>8. Placed(card)'
  BY <1>3 DEF TypeInv, GeoInv, Placed
<1>9. Placed(Contents)'
  <2>1. output_sector_buf' \in {Cleared, card[0]}
    BY DEF PowerOn
  <2>2. /\ Contents' \in [Sector -> Block] /\ card' \in [Sector -> Block]
        /\ Contents'[0] \in {Cleared, card'[0]}
        /\ \A s \in Sector \ {0} : Contents'[s] = card'[s]
    BY <1>1, <1>2, <1>3, <2>1, CardAssumption DEF TInv, IOTypeOK, Contents, Sector
  <2>3. Mountable(Contents') => Contents' = card'
    BY <2>2, MountedIsCard
  <2> QED
    BY <1>8, <2>3 DEF Placed
<1>10. GeoInv'
  BY <1>2, <1>8, <1>9 DEF GeoInv
<1> QED
  BY <1>1, <1>4, <1>5, <1>6, <1>7, <1>10 DEF TypeInv

\* A power cut keeps the shape of the state.
LEMMA TypeCut ==
  ASSUME NSectors <= ADDR_SPAN, Cells, TypeInv, Cut
  PROVE  TypeInv'
<1> USE DEF Cut, ResetFat
<1>1. TInv'
  BY NextType DEF TypeInv, Next
<1>2. pc' = "off" /\ fpc' = "off" /\ geo' = NoGeo /\ card' = card
  BY DEF PowerCut
<1>3. PhaseInv'
  BY <1>2 DEF TypeInv, PhaseInv, Phases, Mounting, Writing, Reading
<1>4. WalkInv'
  <2>1. AsEntry(Zero) \in EntryRec
    BY EntryOf, ByteAssumption
  <2> QED
    BY <2>1, NoRecordType, EntriesAssumption DEF WalkInv, NoRecord, Cells
<1>5. UserInv'
  BY NoRecordType, EntriesAssumption, CallAssumption
     DEF UserInv, Mounting, Writing, NoFile
<1>6. MountInv'
  BY <1>2 DEF MountInv, Mounting
<1>7. Contents' = card
  BY <1>2 DEF Contents, TypeInv, TInv, IOTypeOK
<1>8. GeoInv'
  BY <1>2, <1>7 DEF TypeInv, GeoInv, Placed
<1> QED
  BY <1>1, <1>3, <1>4, <1>5, <1>6, <1>8 DEF TypeInv

-----------------------------------------------------------------------------
\* initialize_fat32 begins: the shape of the state is kept.
LEMMA TypeMount ==
  ASSUME NSectors <= ADDR_SPAN, Cells, TypeInv, Mount
  PROVE  TypeInv'
<1> USE DEF Mount, walk, user
<1>1. fpc = "on" /\ geo = NoGeo /\ geo' = geo /\ pc = "idle"
  BY DEF TypeInv, TInv, IOTypeOK, PhaseInv, Reading
<1>2. CASE Done
  <2>1. TInv' /\ Contents' = Contents
    BY <1>2, StillEffect DEF Done, TypeInv
  <2>2. pc' = pc /\ card' = card /\ fpc' = "idle"
    BY <1>2 DEF Done, job
  <2>3. PhaseInv'
    BY <1>1, <1>2, <2>2 DEF Done, TypeInv, PhaseInv, Phases, Reading, Writing, Mounting
  <2>4. WalkInv'
    BY <1>1, <2>2 DEF TypeInv, WalkInv
  <2>5. UserInv'
    BY <1>1, <2>2 DEF TypeInv, UserInv, Mounting, Writing
  <2>6. GeoInv'
    BY <1>1, <2>1, <2>2, GeoKept DEF TypeInv
  <2>7. MountInv'
    BY <2>2 DEF MountInv, Mounting
  <2> QED
    BY <2>1, <2>3, <2>4, <2>5, <2>6, <2>7 DEF TypeInv
<1>3. CASE IoCall("read", <<0, SECTOR_SIZE - 1>>, 1) /\ fpc' = "partition"
  <2>1. TInv' /\ Contents' = Contents
    <3>1. <<0, SECTOR_SIZE - 1>> \in Nat \X Offset /\ 1 \in 1 .. MaxLen
      BY CardAssumption, CallAssumption DEF Offset
    <3> QED
      BY <1>3, <3>1, CallEffect DEF TypeInv
  <2>2. /\ pc' = "busy" /\ card' = card /\ fpc' = "partition" /\ op' = "read" /\ left' = 1
        /\ moved' = << >>
        /\ pos' = <<0, SECTOR_SIZE - 1>> /\ UNCHANGED <<inVars, outVars, ret, failures>>
    BY <1>3 DEF IoCall
  <2>3. PhaseInv'
    BY <1>1, <2>2 DEF TypeInv, PhaseInv, Phases, Reading, Writing, Mounting
  <2>4. WalkInv'
    BY <1>1, <2>2 DEF TypeInv, WalkInv
  <2>5. UserInv'
    BY <1>1, <2>2 DEF TypeInv, UserInv, Mounting, Writing
  <2>6. GeoInv'
    BY <1>1, <2>1, <2>2, GeoKept DEF TypeInv
  <2>7. MountInv'
    BY <1>1, <2>2 DEF TypeInv, MountInv, Mounting, inVars, outVars
  <2> QED
    BY <2>1, <2>3, <2>4, <2>5, <2>6, <2>7 DEF TypeInv
<1> QED
  BY <1>2, <1>3

\* fat32_set_partition keeps the shape of the state: what it has read is the
\* entry of the card, or a cleared one that it refuses.
LEMMA TypeReadPartition ==
  ASSUME NSectors <= ADDR_SPAN, Cells, TypeInv, ReadPartition
  PROVE  TypeInv'
<1> USE DEF ReadPartition, Returned, walk, user
<1>1. fpc = "partition" /\ geo = NoGeo /\ geo' = geo /\ pc = "idle"
  BY DEF TypeInv, PhaseInv
<1>2. CASE Done
  <2>1. TInv' /\ Contents' = Contents
    BY <1>2, StillEffect DEF Done, TypeInv
  <2>2. pc' = pc /\ card' = card /\ fpc' = "idle"
    BY <1>2 DEF Done, job
  <2>3. PhaseInv'
    BY <1>1, <1>2, <2>2 DEF Done, TypeInv, PhaseInv, Phases, Reading, Writing, Mounting
  <2>4. WalkInv'
    BY <1>1, <2>2 DEF TypeInv, WalkInv
  <2>5. UserInv'
    BY <1>1, <2>2 DEF TypeInv, UserInv, Mounting, Writing
  <2>6. GeoInv'
    BY <1>1, <2>1, <2>2, GeoKept DEF TypeInv
  <2>7. MountInv'
    BY <2>2 DEF MountInv, Mounting
  <2> QED
    BY <2>1, <2>3, <2>4, <2>5, <2>6, <2>7 DEF TypeInv
<1>3. CASE /\ ret = "ok" /\ AsPartition(Got).type \in {11, 12}
           /\ IoCall("read", <<AsPartition(Got).start_sector, 0>>, 1) /\ fpc' = "boot"
  <2>1. Got = card[0][SECTOR_SIZE - 1]
    <3>1. /\ Got = input_sector_buf[SECTOR_SIZE - 1]
          /\ input_sector_buf \in {Cleared, card[0]}
      BY <1>1, <1>3 DEF TypeInv, MountInv, Mounting
    <3>2. input_sector_buf # Cleared
      <4> SUFFICES ASSUME input_sector_buf = Cleared PROVE FALSE
        OBVIOUS
      <4>1. Got = Zero
        BY <3>1, CardAssumption DEF Cleared, Offset
      <4>2. AsPartition(Zero).type = 0
        BY DEF Cells, AsPartition
      <4> QED
        BY <1>3, <4>1, <4>2
    <3> QED
      BY <3>1, <3>2
  <2>2. AsPartition(Got).start_sector = StartOf(card) /\ Mountable(card)
    BY <1>3, <2>1 DEF StartOf, PartitionOf, Mountable
  <2>3. StartOf(card) \in Nat
    BY <2>2 DEF TypeInv, GeoInv, Placed, Sited, Sector
  <2>4. TInv' /\ Contents' = Contents
    <3>1. <<StartOf(card), 0>> \in Nat \X Offset /\ 1 \in 1 .. MaxLen
      BY <2>3, CardAssumption, CallAssumption DEF Offset
    <3> QED
      BY <1>3, <2>2, <3>1, CallEffect DEF TypeInv
  <2>5. /\ pc' = "busy" /\ card' = card /\ fpc' = "boot" /\ op' = "read" /\ left' = 1
        /\ moved' = << >>
        /\ pos' = <<StartOf(card), 0>> /\ UNCHANGED <<inVars, outVars, ret, failures>>
    BY <1>3, <2>2 DEF IoCall
  <2>6. PhaseInv'
    BY <1>1, <2>5 DEF TypeInv, PhaseInv, Phases, Reading, Writing, Mounting
  <2>7. WalkInv'
    BY <1>1, <2>5 DEF TypeInv, WalkInv
  <2>8. UserInv'
    BY <1>1, <2>5 DEF TypeInv, UserInv, Mounting, Writing
  <2>9. GeoInv'
    BY <1>1, <2>4, <2>5, GeoKept DEF TypeInv
  <2>10. MountInv'
    BY <1>1, <2>2, <2>5 DEF TypeInv, MountInv, Mounting, inVars, outVars
  <2> QED
    BY <2>4, <2>6, <2>7, <2>8, <2>9, <2>10 DEF TypeInv
<1> QED
  BY <1>2, <1>3

\* The loop of fat32_cache_root_dir goes on, or ends.
LEMMA NextEffect ==
  ASSUME NSectors <= ADDR_SPAN, Cells, TInv, GeoInv, pc = "idle", fpc \in Mounting,
         NEW g, GeoOK(g), NEW k \in 0 .. MaxEntries, CacheEntry(k, g)
  PROVE  /\ TInv' /\ Contents' = Contents
         /\ UNCHANGED <<card, inVars, outVars, failures, ret>>
         /\ j' = k
         /\ \/ k = MaxEntries /\ fpc' = "idle" /\ pc' = "idle"
            \/ /\ k \in Slots /\ fpc' = "entry" /\ pc' = "busy" /\ op' = "read" /\ left' = 1
               /\ moved' = << >> /\ pos' = EntryPlace(g, k)
<1>1. CASE k < MaxEntries
  <2>1. EntryPlace(g, k) \in Nat \X Offset /\ 1 \in 1 .. MaxLen
    BY EntryPlaceIn, CallAssumption
  <2>2. IoCall("read", EntryPlace(g, k), 1) /\ fpc' = "entry" /\ j' = k
    BY <1>1 DEF CacheEntry
  <2>3. TInv' /\ Contents' = Contents
    BY <2>1, <2>2, CallEffect
  <2> QED
    BY <1>1, <2>2, <2>3, EntriesAssumption DEF IoCall, Slots
<1>2. CASE ~(k < MaxEntries)
  <2>1. Done /\ j' = k
    BY <1>2 DEF CacheEntry
  <2>2. TInv' /\ Contents' = Contents
    BY <2>1, StillEffect DEF Done
  <2> QED
    BY <1>2, <2>1, <2>2, EntriesAssumption DEF Done, job
<1> QED
  BY <1>1, <1>2

\* fat32_set_context keeps the shape of the state, and its numbers are the card's.
LEMMA TypeReadBootSector ==
  ASSUME NSectors <= ADDR_SPAN, Cells, TypeInv, ReadBootSector
  PROVE  TypeInv'
<1> USE DEF ReadBootSector, Returned, user
<1>1. fpc = "boot" /\ geo = NoGeo /\ pc = "idle" /\ cache = << >>
  BY DEF TypeInv, PhaseInv, WalkInv
<1>2. CASE ret # "ok"
  <2>0. Done /\ UNCHANGED <<geo, j>>
    BY <1>2
  <2>1. TInv' /\ Contents' = Contents
    BY <2>0, StillEffect DEF Done, TypeInv
  <2>2. pc' = pc /\ card' = card /\ fpc' = "idle" /\ geo' = geo
    BY <2>0 DEF Done, job
  <2>3. PhaseInv'
    BY <1>1, <2>0, <2>2 DEF Done, TypeInv, PhaseInv, Phases, Reading, Writing, Mounting
  <2>4. WalkInv'
    BY <1>1, <2>0, <2>2 DEF TypeInv, WalkInv
  <2>5. UserInv'
    BY <1>1, <2>2 DEF TypeInv, UserInv, Mounting, Writing
  <2>6. GeoInv'
    BY <1>1, <2>1, <2>2, GeoKept DEF TypeInv
  <2>7. MountInv'
    BY <2>2 DEF MountInv, Mounting
  <2> QED
    BY <2>1, <2>3, <2>4, <2>5, <2>6, <2>7 DEF TypeInv
<1>3. CASE ret = "ok"
  <2> DEFINE g == GeoOf(card)
  <2>1. /\ moved[1][1][1] = StartOf(card) /\ Got = card[StartOf(card)][0]
        /\ Mountable(card)
        /\ output_sector_addr = 0 /\ output_sector_buf \in {Cleared, card[0]}
        /\ input_sector_addr # 0 => input_sector_buf = card[input_sector_addr]
    BY <1>1, <1>3 DEF TypeInv, MountInv, Mounting
  <2>2. geo' = g /\ CacheEntry(0, g)
    BY <1>3, <2>1 DEF GeoOf
  <2>3. Sited(card) /\ GeoOK(g) /\ g # NoGeo
    BY <2>1, SitedGeo DEF TypeInv, GeoInv, Placed
  <2> HIDE DEF g
  <2>4. 0 \in 0 .. MaxEntries /\ fpc \in Mounting
    BY <1>1, EntriesAssumption DEF Mounting
  <2>5. /\ TInv' /\ Contents' = Contents
        /\ UNCHANGED <<card, inVars, outVars, failures, ret>>
        /\ j' = 0 /\ 0 \in Slots /\ fpc' = "entry" /\ pc' = "busy" /\ op' = "read"
        /\ left' = 1
        /\ moved' = << >> /\ pos' = EntryPlace(g, 0)
    BY <1>1, <2>2, <2>3, <2>4, NextEffect, EntriesAssumption DEF TypeInv
  <2>6. PhaseInv'
    BY <1>1, <2>2, <2>3, <2>5 DEF TypeInv, PhaseInv, Phases, Reading, Writing, Mounting
  <2>7. WalkInv'
    BY <1>1, <2>5, <2>4 DEF TypeInv, WalkInv
  <2>8. UserInv'
    BY <1>1, <2>2, <2>5 DEF TypeInv, UserInv, Mounting, Writing
  <2>9. Placed(Contents)'
    <3>1. Mountable(Contents) => Contents = card
      <4>1. /\ Contents \in [Sector -> Block] /\ card \in [Sector -> Block]
            /\ Contents[0] \in {Cleared, card[0]}
            /\ \A s \in Sector \ {0} : Contents[s] = card[s]
        BY <1>1, <2>1, CardAssumption DEF TypeInv, TInv, IOTypeOK, Contents, Sector
      <4> QED
        BY <4>1, MountedIsCard
    <3> QED
      BY <2>2, <2>3, <2>5, <3>1 DEF Placed, g
  <2>10. GeoInv'
    BY <2>1, <2>2, <2>3, <2>5, <2>9 DEF TypeInv, GeoInv, Placed, g
  <2>11. MountInv'
    BY <1>1, <2>1, <2>2, <2>3, <2>5 DEF MountInv, Mounting, inVars, outVars
  <2> QED
    BY <2>5, <2>6, <2>7, <2>8, <2>10, <2>11 DEF TypeInv
<1> QED
  BY <1>2, <1>3

-----------------------------------------------------------------------------
\* A read that succeeded has brought a cell.
LEMMA GotType ==
  ASSUME TInv, PhaseInv, fpc \in Reading, pc = "idle", ret = "ok"
  PROVE  Got \in Byte
<1>1. Len(moved) = 1 /\ moved \in Seq(Place \X Byte)
  BY DEF TInv, IOTypeOK, PhaseInv
<1>2. moved[1] \in Place \X Byte
  BY <1>1
<1> QED
  BY <1>2 DEF Got

\* A list of clusters stays one.
LEMMA ClusterAdded ==
  ASSUME NEW c \in Clusters, NEW n \in Nat
  PROVE  c \cup {n} \in Clusters
BY FS_AddElement DEF Clusters

\* fat32_cache_root_dir appends a record behind those of the entries before.
LEMMA PushEffect ==
  ASSUME WalkInv, fpc \in {"entry", "fat"}, NEW f \in FileCopy, f.name \in Names => f.cluster >= 2,
         cache' = Append(cache, [f EXCEPT !.slot = j])
  PROVE  /\ cache' \in Seq(FileCopy)
         /\ \A k \in DOMAIN cache' : /\ cache'[k].slot \in Slots /\ cache'[k].slot < j + 1
                                     /\ cache'[k].name \in Names => cache'[k].cluster >= 2
         /\ \A k, l \in DOMAIN cache' : k < l => cache'[k].slot < cache'[l].slot
<1> DEFINE r == [f EXCEPT !.slot = j]
<1>1. j \in Slots /\ j \in Nat /\ cache \in Seq(FileCopy) /\ \A k \in DOMAIN cache : cache[k].slot < j
  BY DEF WalkInv, Slots
<1>2. r \in FileCopy /\ r.slot = j /\ r.name = f.name /\ r.cluster = f.cluster
  BY <1>1 DEF FileCopy
<1>3. cache' = Append(cache, r)
  OBVIOUS
<1> HIDE DEF r
<1>4. /\ cache' \in Seq(FileCopy) /\ Len(cache') = Len(cache) + 1
      /\ DOMAIN cache' = 1 .. Len(cache) + 1
      /\ DOMAIN cache = 1 .. Len(cache) /\ Len(cache) \in Nat
  BY <1>1, <1>2, <1>3
<1>5. cache'[Len(cache) + 1] = r /\ \A k \in DOMAIN cache : cache'[k] = cache[k]
  BY <1>1, <1>2, <1>3
<1>6. \A k \in DOMAIN cache' : k \in DOMAIN cache \/ k = Len(cache) + 1
  BY <1>4
<1>7. ASSUME NEW k \in DOMAIN cache'
      PROVE  /\ cache'[k].slot \in Slots /\ cache'[k].slot < j + 1
             /\ cache'[k].name \in Names => cache'[k].cluster >= 2
  <2>1. CASE k \in DOMAIN cache
    BY <1>1, <1>5, <2>1 DEF WalkInv, Slots
  <2>2. CASE k = Len(cache) + 1
    BY <1>1, <1>2, <1>5, <2>2
  <2> QED
    BY <1>6, <2>1, <2>2
<1>8. ASSUME NEW k \in DOMAIN cache', NEW l \in DOMAIN cache', k < l
      PROVE  cache'[k].slot < cache'[l].slot
  <2>1. CASE l \in DOMAIN cache
    <3>1. k \in DOMAIN cache
      BY <1>4, <1>8, <2>1
    <3> QED
      BY <1>5, <1>8, <2>1, <3>1 DEF WalkInv
  <2>2. CASE l = Len(cache) + 1
    <3>1. k \in DOMAIN cache
      BY <1>4, <1>8, <2>2
    <3> QED
      BY <1>1, <1>2, <1>5, <2>2, <3>1
  <2> QED
    BY <1>6, <2>1, <2>2
<1> QED
  BY <1>4, <1>7, <1>8

\* fat32_parse_entry keeps the shape of the state.
LEMMA TypeReadEntry ==
  ASSUME NSectors <= ADDR_SPAN, Cells, TypeInv, ReadEntry
  PROVE  TypeInv'
<1> USE DEF ReadEntry, Returned, user
<1> DEFINE d == AsEntry(Got)
<1>1. /\ fpc = "entry" /\ geo # NoGeo /\ geo' = geo /\ pc = "idle" /\ GeoOK(geo)
      /\ j \in Slots
      /\ fpc \in Mounting /\ cache' = cache /\ local' = local
      /\ j + 1 \in 0 .. MaxEntries
      /\ file' = file /\ nbytes' = nbytes /\ base' = base /\ made' = made
  BY EntriesAssumption DEF TypeInv, PhaseInv, WalkInv, GeoInv, Mounting, Slots
<1>2. CASE Done /\ UNCHANGED <<j, curr, chain>> /\ e' \in EntryRec /\ sound' \in BOOLEAN
  <2>1. TInv' /\ Contents' = Contents
    BY <1>2, StillEffect DEF Done, TypeInv
  <2>2. /\ pc' = pc /\ card' = card /\ fpc' = "idle" /\ ret' = ret /\ failures' = failures
        /\ op' = op
    BY <1>2 DEF Done, job
  <2>3. PhaseInv'
    BY <1>1, <1>2, <2>2 DEF TypeInv, PhaseInv, Phases, Reading, Writing, Mounting
  <2>4. WalkInv'
    BY <1>1, <1>2, <2>2 DEF TypeInv, WalkInv
  <2>5. UserInv'
    BY <1>1, <2>2 DEF TypeInv, UserInv, Mounting, Writing
  <2>6. GeoInv'
    BY <1>1, <2>1, <2>2, GeoKept DEF TypeInv
  <2>7. MountInv'
    BY <2>2 DEF MountInv, Mounting
  <2> QED
    BY <2>1, <2>3, <2>4, <2>5, <2>6, <2>7 DEF TypeInv
<1>3. CASE ret = "ok" /\ e' = d /\ UNCHANGED <<sound, curr, chain>> /\ NextEntry
  <2>1. d \in EntryRec
    BY <1>1, <1>3, GotType, EntryOf DEF Reading, TypeInv
  <2> HIDE DEF d
  <2>2. /\ TInv' /\ Contents' = Contents
        /\ UNCHANGED <<card, inVars, outVars, failures, ret>>
        /\ j' = j + 1
        /\ \/ j + 1 = MaxEntries /\ fpc' = "idle" /\ pc' = "idle"
           \/ /\ j + 1 \in Slots /\ fpc' = "entry" /\ pc' = "busy" /\ op' = "read" /\ left' = 1
              /\ moved' = << >> /\ pos' = EntryPlace(geo, j + 1)
    BY <1>1, <1>3, NextEffect DEF TypeInv, NextEntry
  <2>3. PhaseInv'
    BY <1>1, <1>3, <2>2 DEF TypeInv, PhaseInv, Phases, Reading, Writing, Mounting
  <2>4. WalkInv'
    <3>1. \A k \in DOMAIN cache : cache[k].slot < j + 1
      BY <1>1 DEF TypeInv, WalkInv, Slots
    <3> QED
      BY <1>1, <1>3, <2>1, <2>2, <3>1 DEF TypeInv, WalkInv
  <2>5. UserInv'
    BY <1>1, <2>2 DEF TypeInv, UserInv, Mounting, Writing
  <2>6. GeoInv'
    BY <1>1, <2>2, GeoKept DEF TypeInv
  <2>7. MountInv'
    BY <1>1, <2>2 DEF TypeInv, MountInv, Mounting, inVars, outVars
  <2> QED
    BY <2>2, <2>3, <2>4, <2>5, <2>6, <2>7 DEF TypeInv
<1>4. CASE /\ ret = "ok" /\ e' = d /\ UNCHANGED sound /\ d.mark = "live"
           /\ curr' = d.first + 2 /\ chain' = {} /\ fpc' = "fat" /\ UNCHANGED j
           /\ IoCall("read", FatPlace(geo, d.first + 2), 1)
  <2>1. d \in EntryRec /\ d.first + 2 \in Nat /\ d = Dir(geo, card)[j]
    <3>1. d \in EntryRec
      BY <1>1, <1>4, GotType, EntryOf DEF Reading, TypeInv
    <3>2. d = Dir(geo, card)[j]
      BY <1>1, <1>4 DEF TypeInv, MountInv
    <3> QED
      BY <3>1, <3>2 DEF EntryRec
  <2> HIDE DEF d
  <2>2. TInv' /\ Contents' = Contents
    <3>1. FatPlace(geo, d.first + 2) \in Nat \X Offset /\ 1 \in 1 .. MaxLen
      BY <1>1, <2>1, FatPlaceIn, CallAssumption
    <3> QED
      BY <1>4, <3>1, CallEffect DEF TypeInv
  <2>3. /\ pc' = "busy" /\ card' = card /\ fpc' = "fat" /\ op' = "read" /\ left' = 1
        /\ moved' = << >>
        /\ UNCHANGED <<inVars, outVars, ret, failures>>
    BY <1>4 DEF IoCall
  <2>4. PhaseInv'
    BY <1>1, <1>4, <2>3 DEF TypeInv, PhaseInv, Phases, Reading, Writing, Mounting
  <2>5. WalkInv'
    BY <1>1, <1>4, <2>1, <2>3, NoRecordType DEF TypeInv, WalkInv
  <2>6. UserInv'
    BY <1>1, <2>3 DEF TypeInv, UserInv, Mounting, Writing
  <2>7. GeoInv'
    BY <1>1, <2>2, <2>3, GeoKept DEF TypeInv
  <2>8. MountInv'
    BY <1>1, <1>4, <2>1, <2>3 DEF TypeInv, MountInv, Mounting, inVars, outVars
  <2> QED
    BY <2>2, <2>4, <2>5, <2>6, <2>7, <2>8 DEF TypeInv
<1>5. ASSUME ret = "ok" PROVE d \in EntryRec
  BY <1>1, <1>5, GotType, EntryOf DEF Reading, TypeInv
<1>6. e \in EntryRec /\ sound \in BOOLEAN
  BY DEF TypeInv, WalkInv, PhaseInv
<1>7. CASE ret = "err"
  <2>1. Done /\ UNCHANGED <<j, curr, chain, e>> /\ sound' = FALSE
    BY <1>7
  <2> QED
    BY <1>2, <1>6, <2>1
<1>8. CASE ret = "ok"
  <2>1. \/ d.mark = "unused" /\ Done /\ UNCHANGED <<j, curr, chain>>
        \/ Skipped(d) /\ Skip /\ UNCHANGED <<curr, chain>>
        \/ /\ d.mark = "live" /\ curr' = d.first + 2 /\ chain' = {}
           /\ IoCall("read", FatPlace(geo, d.first + 2), 1) /\ fpc' = "fat"
           /\ UNCHANGED j
    BY <1>8
  <2>2. e' = d /\ UNCHANGED sound
    BY <1>8
  <2> HIDE DEF d
  <2> QED
    BY <1>2, <1>3, <1>4, <1>5, <1>6, <1>8, <2>1, <2>2 DEF Skip
<1>9. ret \in {"ok", "err"}
  BY DEF TypeInv, TInv, IOTypeOK
<1> QED
  BY <1>7, <1>8, <1>9

\* fat32_get_fat keeps the shape of the state.
LEMMA TypeReadFat ==
  ASSUME NSectors <= ADDR_SPAN, Cells, TypeInv, ReadFat
  PROVE  TypeInv'
<1> USE DEF ReadFat, Returned, user
<1>1. /\ fpc = "fat" /\ geo # NoGeo /\ geo' = geo /\ pc = "idle" /\ GeoOK(geo)
      /\ j \in Slots
      /\ fpc \in Mounting /\ j + 1 \in 0 .. MaxEntries /\ e' = e
      /\ file' = file /\ nbytes' = nbytes /\ base' = base /\ made' = made
  BY EntriesAssumption DEF TypeInv, PhaseInv, WalkInv, GeoInv, Mounting, Slots
<1>2. /\ e \in EntryRec /\ sound \in BOOLEAN /\ curr \in Nat /\ chain \in Clusters
      /\ chain \cup {curr} \in Clusters /\ local \in FileCopy
      /\ local.name \in Names => local.cluster >= 2
  BY ClusterAdded DEF TypeInv, WalkInv, PhaseInv
<1>3. ASSUME NEW f \in FileCopy, f.name \in Names => f.cluster >= 2, Push(f), NextEntry,
             local' \in FileCopy, local'.name \in Names => local'.cluster >= 2,
             curr' = curr, chain' \in Clusters, sound' \in BOOLEAN
      PROVE  TypeInv'
  <2>1. cache' = Append(cache, [f EXCEPT !.slot = j])
    BY <1>3 DEF Push
  <2>2. /\ TInv' /\ Contents' = Contents
        /\ UNCHANGED <<card, inVars, outVars, failures, ret>>
        /\ j' = j + 1
        /\ \/ j + 1 = MaxEntries /\ fpc' = "idle" /\ pc' = "idle"
           \/ /\ j + 1 \in Slots /\ fpc' = "entry" /\ pc' = "busy" /\ op' = "read" /\ left' = 1
              /\ moved' = << >> /\ pos' = EntryPlace(geo, j + 1)
    BY <1>1, <1>3, NextEffect DEF TypeInv, NextEntry
  <2>3. PhaseInv'
    BY <1>1, <1>3, <2>2 DEF TypeInv, PhaseInv, Phases, Reading, Writing, Mounting
  <2>4. WalkInv'
    <3>1. /\ cache' \in Seq(FileCopy)
          /\ \A k \in DOMAIN cache' : /\ cache'[k].slot \in Slots /\ cache'[k].slot < j + 1
                                      /\ cache'[k].name \in Names => cache'[k].cluster >= 2
          /\ \A k, l \in DOMAIN cache' : k < l => cache'[k].slot < cache'[l].slot
      BY <1>1, <1>3, <2>1, PushEffect DEF TypeInv
    <3> QED
      BY <1>1, <1>2, <1>3, <2>2, <3>1 DEF WalkInv
  <2>5. UserInv'
    BY <1>1, <2>2 DEF TypeInv, UserInv, Mounting, Writing
  <2>6. GeoInv'
    BY <1>1, <2>2, GeoKept DEF TypeInv
  <2>7. MountInv'
    BY <1>1, <2>2 DEF TypeInv, MountInv, Mounting, inVars, outVars
  <2> QED
    BY <2>2, <2>3, <2>4, <2>5, <2>6, <2>7 DEF TypeInv
<1>4. CASE /\ ret = "err" /\ sound' = FALSE /\ Push(local) /\ NextEntry
           /\ UNCHANGED <<local, curr, chain>>
  BY <1>2, <1>3, <1>4
<1>5. CASE /\ local' = [name |-> e.name, slot |-> j, cluster |-> e.first + 2, fat_list |-> chain']
           /\ chain' = chain \cup {curr} /\ UNCHANGED <<sound, curr>>
           /\ Push(local') /\ NextEntry
  <2>1. local' \in FileCopy /\ local'.cluster >= 2
    BY <1>1, <1>2, <1>5 DEF FileCopy, EntryRec, Slots
  <2> QED
    BY <1>2, <1>3, <1>5, <2>1
<1>6. CASE /\ ret = "ok" /\ chain' = chain \cup {curr} /\ UNCHANGED sound
           /\ curr' = AsFat(Got)
           /\ IoCall("read", FatPlace(geo, AsFat(Got)), 1)
           /\ UNCHANGED <<fpc, j, local, cache>>
  <2>1. AsFat(Got) \in Nat
    BY <1>1, <1>6, GotType, FatOf DEF Reading, TypeInv
  <2>2. TInv' /\ Contents' = Contents
    <3>1. FatPlace(geo, AsFat(Got)) \in Nat \X Offset /\ 1 \in 1 .. MaxLen
      BY <1>1, <2>1, FatPlaceIn, CallAssumption
    <3> QED
      BY <1>6, <3>1, CallEffect DEF TypeInv
  <2>3. /\ pc' = "busy" /\ card' = card /\ op' = "read" /\ left' = 1 /\ moved' = << >>
        /\ UNCHANGED <<inVars, outVars, ret, failures>>
    BY <1>6 DEF IoCall
  <2>4. PhaseInv'
    BY <1>1, <1>6, <2>3 DEF TypeInv, PhaseInv, Phases, Reading, Writing, Mounting
  <2>5. WalkInv'
    BY <1>1, <1>2, <1>6, <2>1 DEF TypeInv, WalkInv
  <2>6. UserInv'
    BY <1>1, <1>6 DEF TypeInv, UserInv, Mounting, Writing
  <2>7. GeoInv'
    BY <1>1, <2>2, <2>3, GeoKept DEF TypeInv
  <2>8. MountInv'
    BY <1>1, <1>6, <2>3 DEF TypeInv, MountInv, Mounting, inVars, outVars
  <2> QED
    BY <2>2, <2>4, <2>5, <2>6, <2>7, <2>8 DEF TypeInv
<1> QED
  BY <1>1, <1>4, <1>5, <1>6

-----------------------------------------------------------------------------
\* A call of io.c counts its failure, if it fails.
LEMMA NotedType ==
  ASSUME failures \in 0 .. MaxFailures, Noted
  PROVE  failures' \in 0 .. MaxFailures /\ failures' >= failures
         /\ (pc' = "idle" /\ ret' = "err" => failures' = failures + 1)
BY EntriesAssumption DEF Noted

\* The one byte that a call of one byte has moved.
LEMMA OneMoved ==
  ASSUME NEW p, NEW x
  PROVE  /\ Append(<< >>, <<p, x>>)[1][1] = p /\ Append(<< >>, <<p, x>>)[1][2] = x
         /\ Len(Append(<< >>, <<p, x>>)) = 1
OBVIOUS

\* Reading a byte keeps the shape of the state.
LEMMA TypeGet ==
  ASSUME NSectors <= ADDR_SPAN, Cells, TypeInv, GetByte, Noted,
         UNCHANGED <<fpc, geo, cache, walk, e, user, sound>>
  PROVE  TypeInv'
<1> USE DEF walk, user
<1>1. /\ TInv' /\ Contents' = Contents /\ UNCHANGED <<card, outVars, op>>
      /\ pc = "busy" /\ op = "read" /\ pc' # "off"
  BY GetEffect DEF TypeInv
<1>2. fpc \in Reading /\ left = 1 /\ moved = << >>
  BY <1>1 DEF TypeInv, PhaseInv
<1>3. \/ pc' = "idle" /\ ret' = "err" /\ moved' = moved /\ UNCHANGED inVars
      \/ /\ pos \in Place /\ pc' = "idle" /\ ret' = "ok"
         /\ moved' = Append(<< >>, <<pos, input_sector_buf'[pos[2]]>>)
         /\ input_sector_addr' = pos[1]
         /\ \/ input_sector_buf' = card[pos[1]]
            \/ input_sector_addr = pos[1] /\ input_sector_buf' = input_sector_buf
  BY <1>2, GetEffect DEF TypeInv
<1>4. pc' = "idle"
  BY <1>3
<1>5. failures' \in 0 .. MaxFailures
  BY NotedType DEF TypeInv, PhaseInv
<1>6. PhaseInv'
  <2>1. ret' = "ok" => Len(moved') = 1
    BY <1>3
  <2> QED
    BY <1>1, <1>2, <1>4, <1>5, <2>1 DEF TypeInv, PhaseInv, Phases, Reading, Writing,
       Mounting
<1>7. WalkInv'
  BY DEF TypeInv, WalkInv
<1>8. UserInv'
  BY DEF TypeInv, UserInv
<1>9. GeoInv'
  BY <1>1, <1>4, GeoKept DEF TypeInv
<1>10. MountInv'
  <2> SUFFICES ASSUME fpc \in Mounting PROVE MountInv'
    BY DEF MountInv
  <2>1. MountInv /\ fpc' = fpc /\ fpc \in Mounting
    BY DEF TypeInv
  <2>2. CASE ret' = "err" /\ UNCHANGED inVars
    BY <1>1, <1>4, <2>1, <2>2 DEF MountInv, inVars, outVars
  <2>3. CASE /\ pos \in Place /\ ret' = "ok"
             /\ moved' = Append(<< >>, <<pos, input_sector_buf'[pos[2]]>>)
             /\ input_sector_addr' = pos[1]
             /\ \/ input_sector_buf' = card[pos[1]]
                \/ input_sector_addr = pos[1] /\ input_sector_buf' = input_sector_buf
    <3>1. /\ moved'[1][1] = pos /\ moved'[1][2] = input_sector_buf'[pos[2]]
          /\ Got' = input_sector_buf'[pos[2]]
      BY <2>3, OneMoved DEF Got
    <3>2. input_sector_addr' # 0 => input_sector_buf' = card[pos[1]]
      BY <2>1, <2>3 DEF MountInv
    <3>3. ASSUME fpc = "partition"
          PROVE  /\ input_sector_addr' = 0 /\ input_sector_buf' \in {Cleared, card[0]}
                 /\ Got' = input_sector_buf'[SECTOR_SIZE - 1]
      <4>1. pos = <<0, SECTOR_SIZE - 1>>
        BY <1>1, <2>1, <3>3 DEF MountInv
      <4> QED
        BY <2>1, <2>3, <3>1, <3>3, <4>1 DEF MountInv
    <3>4. ASSUME fpc = "boot"
          PROVE  moved'[1][1][1] = StartOf(card) /\ Got' = card[StartOf(card)][0]
      <4>1. pos = <<StartOf(card), 0>> /\ Mountable(card)
        BY <1>1, <2>1, <3>4 DEF MountInv
      <4>2. StartOf(card) # 0
        BY <4>1 DEF TypeInv, GeoInv, Placed, Sited
      <4> QED
        BY <2>3, <3>1, <3>2, <4>1, <4>2
    <3>5. ASSUME fpc = "entry"
          PROVE  AsEntry(Got') = Dir(geo, card)[j]
      <4>1. /\ pos = EntryPlace(geo, j) /\ geo # NoGeo /\ GeoOK(geo) /\ j \in Slots
            /\ j \in Nat
        BY <1>1, <2>1, <3>5 DEF MountInv, TypeInv, GeoInv, PhaseInv, WalkInv, Slots
      <4>2. pos[1] # 0
        <5>1. pos[1] >= geo.cluster_begin_sector /\ pos \in Nat \X Offset
          BY <4>1, EntryPlaceIn
        <5> QED
          BY <4>1, <5>1 DEF GeoOK
      <4>3. Got' = card[pos[1]][pos[2]]
        BY <2>3, <3>1, <3>2, <4>2
      <4> QED
        BY <4>1, <4>3 DEF Dir
    <3>6. /\ output_sector_addr' = 0 /\ output_sector_buf' \in {Cleared, card[0]}
          /\ fpc = "boot" \/ geo # NoGeo => Mountable(card)
          /\ fpc = "fat" => e = Dir(geo, card)[j] /\ e.mark = "live"
      BY <1>1, <2>1 DEF MountInv, outVars
    <3>7. input_sector_addr' # 0 => input_sector_buf' = card[input_sector_addr']
      BY <2>3, <3>2
    <3> QED
      BY <1>1, <1>2, <1>4, <2>1, <3>3, <3>4, <3>5, <3>6, <3>7 DEF MountInv, Reading
  <2> QED
    BY <1>3, <2>2, <2>3
<1> QED
  BY <1>1, <1>6, <1>7, <1>8, <1>9, <1>10 DEF TypeInv

\* What is written is a cell: an entry whose size has not overflowed, or a byte.
LEMMA OutputType ==
  ASSUME Cells, TypeInv, pc = "busy", op = "write"
  PROVE  Output \in Byte
<1>1. \/ fpc = "creat" \/ fpc = "resize"
      \/ fpc = "data" /\ Len(moved) + left = nbytes
  BY DEF TypeInv, PhaseInv
<1>2. file \in FileRec /\ file # NoFile /\ file.name \in Names /\ file.cluster \in Nat
  BY <1>1 DEF TypeInv, UserInv, FileRec, Writing
<1>3. CASE fpc = "creat"
  <2>1. Entry("live", file.name, file.cluster, 0) \in EntryRec
    BY <1>2, EntriesAssumption DEF Entry, EntryRec, Marks, Labels
  <2> QED
    BY <1>3, <2>1 DEF Output, Cells
<1>4. CASE fpc = "resize"
  <2>1. e \in EntryRec /\ nbytes \in Nat /\ e.size + nbytes <= MaxSize
    BY <1>4 DEF TypeInv, WalkInv, UserInv
  <2>2. e.size + nbytes \in 0 .. MaxSize
    BY <2>1, EntriesAssumption DEF EntryRec
  <2>3. [e EXCEPT !.size = e.size + nbytes] \in EntryRec
    BY <2>1, <2>2 DEF EntryRec
  <2> QED
    BY <1>4, <2>3 DEF Output, Cells
<1>5. CASE fpc = "data" /\ Len(moved) + left = nbytes
  <2>1. Len(moved) \in Nat /\ left \in Nat /\ left > 0
    BY DEF TypeInv, TInv, IOTypeOK, LeftInv
  <2>2. file.at \in Nat /\ base \in Nat /\ base + file.at + nbytes <= MaxSize
    BY <1>2 DEF TypeInv, UserInv, FileRec
  <2>3. file.at + Len(moved) + 1 \in 1 .. MaxSize
    BY <1>5, <2>1, <2>2, EntriesAssumption
  <2> QED
    BY <1>2, <1>5, <2>3 DEF Output, Cells
<1> QED
  BY <1>1, <1>3, <1>4, <1>5

\* Writing a byte keeps the shape of the state.
LEMMA TypePut ==
  ASSUME NSectors <= ADDR_SPAN, Cells, TypeInv, PutByte(Output), Noted,
         UNCHANGED <<fpc, geo, cache, walk, e, user, sound>>
  PROVE  TypeInv'
<1> USE DEF walk, user
<1>1. pc = "busy" /\ op = "write"
  BY DEF PutByte
<1> DEFINE v == Output
<1>2. v \in Byte
  BY <1>1, OutputType
<1>3. PutByte(v)
  OBVIOUS
<1> HIDE DEF v
<1>4. /\ TInv' /\ UNCHANGED <<inVars, op>>
      /\ pc' # "off" /\ (card' = card \/ card' = Contents)
      /\ \/ /\ pc' = "idle" /\ ret' = "err" /\ moved' = moved
            /\ Contents' = Contents /\ UNCHANGED outVars
         \/ /\ pos \in Place /\ moved' = Append(moved, <<pos, v>>)
            /\ Contents' = [Contents EXCEPT ![pos[1]][pos[2]] = v]
            /\ output_sector_addr' = pos[1]
            /\ \/ pc' = "idle"
               \/ pc' = "busy" /\ left # 1 /\ left' = left - 1 /\ pos' = NextPlace(pos)
  BY <1>2, <1>3, PutEffect DEF TypeInv
<1>5. /\ fpc \in {"creat", "resize", "data"} /\ geo # NoGeo /\ GeoOK(geo)
      /\ pos[1] >= geo.cluster_begin_sector
      /\ fpc # "data" => left = 1 /\ moved = << >>
      /\ fpc = "data" => Len(moved) + left = nbytes
  BY <1>1 DEF TypeInv, PhaseInv, GeoInv, Writing, Reading
<1>6. failures' \in 0 .. MaxFailures
  BY NotedType DEF TypeInv, PhaseInv
<1>7. PhaseInv'
  <2>1. ASSUME pc' = "busy" PROVE fpc = "data" /\ Len(moved') + left' = nbytes
    <3>1. left # 1 /\ left' = left - 1 /\ moved' = Append(moved, <<pos, v>>)
      BY <1>4, <2>1
    <3>2. Len(moved') = Len(moved) + 1 /\ Len(moved) \in Nat /\ left \in Nat
      BY <3>1 DEF TypeInv, TInv, IOTypeOK
    <3> QED
      BY <1>5, <3>1, <3>2
  <2>2. pc' \in {"idle", "busy"}
    BY <1>4
  <2> QED
    BY <1>1, <1>4, <1>5, <1>6, <2>1, <2>2
       DEF TypeInv, PhaseInv, Phases, Reading, Writing, Mounting
<1>8. WalkInv'
  BY DEF TypeInv, WalkInv
<1>9. UserInv'
  BY DEF TypeInv, UserInv
<1>10. MountInv'
  BY <1>5 DEF MountInv, Mounting
<1>11. Placed(Contents)' /\ Placed(card)'
  <2>1. Placed(Contents) /\ Placed(card) /\ Contents \in [Sector -> Block]
    BY ContentsType DEF TypeInv, GeoInv, TInv
  <2>2. CASE Contents' = Contents
    BY <1>4, <2>1, <2>2 DEF Placed
  <2>3. CASE pos \in Place /\ Contents' = [Contents EXCEPT ![pos[1]][pos[2]] = v]
    <3>1. Placed([Contents EXCEPT ![pos[1]][pos[2]] = v])
      BY <1>2, <1>5, <2>1, <2>3, PutPlaced DEF Place
    <3> QED
      BY <1>4, <2>1, <2>3, <3>1 DEF Placed
  <2> QED
    BY <1>4, <2>2, <2>3
<1>12. ASSUME pc' = "busy" PROVE pos'[1] >= geo.cluster_begin_sector
  <2>1. pos' = NextPlace(pos) /\ pos \in Place
    BY <1>4, <1>12
  <2> QED
    BY <1>5, <2>1, CardAssumption DEF NextPlace, Place, Sector, Offset, GeoOK
<1>13. GeoInv'
  BY <1>5, <1>11, <1>12 DEF GeoInv
<1> QED
  BY <1>4, <1>7, <1>8, <1>9, <1>10, <1>13 DEF TypeInv

-----------------------------------------------------------------------------
\* The list of cached records, and what the program looks up in it.
ListOK(cc) == cc \in Seq(FileCopy) /\ \A k \in DOMAIN cc : cc[k].slot \in Slots
SlotsIn(cc) == {cc[k].slot : k \in DOMAIN cc}
ClustersIn(cc) == UNION {cc[k].fat_list : k \in DOMAIN cc}
Holding(cc, name) == {k \in DOMAIN cc : cc[k].name = name}
FirstIn(cc, name) == CHOOSE k \in Holding(cc, name) : \A i \in Holding(cc, name) : k <= i

\* A list has finitely many values.
LEMMA ImageFinite ==
  ASSUME NEW n \in Nat, NEW f, NEW S, f \in [1 .. n -> S]
  PROVE  IsFiniteSet({f[k] : k \in 1 .. n})
<1> DEFINE T == {f[k] : k \in 1 .. n}
<1>1. IsFiniteSet(1 .. n)
  BY FS_Interval
<1>2. f \in Surjection(1 .. n, T)
  BY DEF Surjection
<1> HIDE DEF T
<1>3. IsFiniteSet(T)
  BY <1>1, <1>2, FS_Surjection
<1> QED
  BY <1>3 DEF T

\* fat32_get_next_root_dir_loc returns the first slot that is not on the list;
\* when all are, it is the one behind the directory (fat.c:488-503).
LEMMA NextLocIs ==
  ASSUME NEW cc, ListOK(cc)
  PROVE  LET n == Lowest(0, SlotsIn(cc))
         IN  /\ n \in 0 .. MaxEntries /\ n \notin SlotsIn(cc)
             /\ \A k \in 0 .. n - 1 : k \in SlotsIn(cc)
<1>1. SlotsIn(cc) \subseteq Slots
  BY DEF ListOK, SlotsIn
<1>2. IsFiniteSet(Slots) /\ Cardinality(Slots) = MaxEntries
  <2>1. MaxEntries - 1 \in Int /\ 0 \in Int /\ ~(0 > MaxEntries - 1)
    BY EntriesAssumption
  <2>2. /\ IsFiniteSet(0 .. MaxEntries - 1)
        /\ Cardinality(0 .. MaxEntries - 1) = MaxEntries - 1 - 0 + 1
    BY <2>1, FS_Interval
  <2> QED
    BY <2>2, EntriesAssumption DEF Slots
<1>3. /\ IsFiniteSet(SlotsIn(cc)) /\ Cardinality(SlotsIn(cc)) \in Nat
      /\ Cardinality(SlotsIn(cc)) <= MaxEntries
  <2>1. IsFiniteSet(SlotsIn(cc)) /\ Cardinality(SlotsIn(cc)) <= Cardinality(Slots)
    BY <1>1, <1>2, FS_Subset
  <2> QED
    BY <1>2, <2>1, FS_CardinalityType
<1>4. /\ Lowest(0, SlotsIn(cc)) \in 0 .. 0 + Cardinality(SlotsIn(cc))
      /\ Lowest(0, SlotsIn(cc)) \notin SlotsIn(cc)
      /\ \A k \in 0 .. Lowest(0, SlotsIn(cc)) - 1 : k \in SlotsIn(cc)
  BY <1>3, LowestIs
<1>5. Lowest(0, SlotsIn(cc)) \in 0 .. MaxEntries
  BY <1>3, <1>4, EntriesAssumption
<1> QED
  BY <1>4, <1>5

\* fat32_get_next_cluster returns a number that is on no list (fat.c:440-466).
LEMMA NextClusterIs ==
  ASSUME NEW cc, ListOK(cc)
  PROVE  LET n == Lowest(2, ClustersIn(cc))
         IN  n \in Nat /\ n >= 2 /\ n \notin ClustersIn(cc)
<1> DEFINE f == [k \in 1 .. Len(cc) |-> cc[k].fat_list]
           T == {f[k] : k \in 1 .. Len(cc)}
<1>1. cc \in Seq(FileCopy) /\ Len(cc) \in Nat /\ DOMAIN cc = 1 .. Len(cc)
  BY DEF ListOK
<1>2. \A k \in 1 .. Len(cc) : cc[k].fat_list \in Clusters
  <2>1. \A k \in 1 .. Len(cc) : cc[k] \in FileCopy
    BY <1>1
  <2> QED
    BY <2>1 DEF FileCopy
<1>3. f \in [1 .. Len(cc) -> Clusters]
  BY <1>2
<1>4. ClustersIn(cc) = UNION T
  BY <1>1 DEF ClustersIn
<1>5. \A U \in T : IsFiniteSet(U)
  BY <1>2 DEF Clusters
<1> HIDE DEF f
<1>6. IsFiniteSet(T)
  BY <1>1, <1>3, ImageFinite
<1> HIDE DEF T
<1>7. IsFiniteSet(ClustersIn(cc))
  BY <1>4, <1>5, <1>6, FS_UNION
<1>8. /\ Lowest(2, ClustersIn(cc)) \in 2 .. 2 + Cardinality(ClustersIn(cc))
      /\ Lowest(2, ClustersIn(cc)) \notin ClustersIn(cc)
  BY <1>7, LowestIs
<1>9. Cardinality(ClustersIn(cc)) \in Nat
  BY <1>7, FS_CardinalityType
<1> QED
  BY <1>8, <1>9

\* fat32_file_exists finds the first record of that name (fat.c:505-541).
LEMMA FirstIs ==
  ASSUME NEW cc, ListOK(cc), NEW name, Holding(cc, name) # {}
  PROVE  /\ FirstIn(cc, name) \in DOMAIN cc /\ cc[FirstIn(cc, name)].name = name
         /\ cc[FirstIn(cc, name)] \in FileCopy
<1>1. Holding(cc, name) \subseteq Nat
  BY DEF Holding, ListOK
<1>2. \E m \in Holding(cc, name) : \A k \in Holding(cc, name) : m <= k
  BY <1>1, Least, Zenon
<1>3. FirstIn(cc, name) \in Holding(cc, name)
  BY <1>2 DEF FirstIn
<1> QED
  BY <1>3 DEF Holding, ListOK

\* A slot of the directory holds an entry, whatever the card holds.
LEMMA DirType ==
  ASSUME Cells, NEW g, GeoOK(g), NEW c \in [Sector -> Block], NEW s \in Slots
  PROVE  Dir(g, c)[s] \in EntryRec
<1> DEFINE p == EntryPlace(g, s)
<1>1. s \in Nat
  BY DEF Slots
<1>2. p[1] \in Sector /\ p[2] \in Offset
  BY <1>1, EntryPlaceIn
<1>3. c[p[1]][p[2]] \in Byte
  BY <1>2 DEF Block
<1> HIDE DEF p
<1>4. AsEntry(c[p[1]][p[2]]) \in EntryRec
  BY <1>3, EntryOf
<1> QED
  BY <1>4 DEF Dir, p

\* The directory at the place the mount has found.
LEMMA RootIsDir ==
  ASSUME NEW c, NEW s \in Slots
  PROVE  Root(c, s) = Dir(geo, c)[s]
BY DEF Root, Dir

\* The two flushes of fat32_update_file_size keep the shape of the state.
LEMMA TypeFlush ==
  ASSUME NSectors <= ADDR_SPAN, Cells, TypeInv, FlushInput \/ FlushOutput
  PROVE  TypeInv'
<1> USE DEF FlushInput, FlushOutput, Returned, walk, user
<1>1. /\ fpc \in {"data", "flush"} /\ fpc' \in {"flush", "flushed"} /\ pc = "idle"
      /\ pc' = "idle"
      /\ FlushRead \/ FlushWrite
      /\ UNCHANGED <<geo, cache, j, local, curr, chain, e, file, nbytes, base, made, sound>>
  BY DEF FlushRead, FlushWrite
<1>2. TInv'
  BY <1>1, NextType DEF TypeInv, Next
<1>3. Contents' = Contents
  <2>1. ~PowerOn /\ ~PowerCut /\ [Next]_vars /\ \A v \in Byte : ~PutByte(v)
    BY <1>1 DEF PowerOn, PowerCut, PutByte, Next
  <2> QED
    BY <2>1, ContentsKept DEF TypeInv
<1>4. card' = card \/ card' = Contents
  BY <1>1, FlushedIsContents DEF FlushRead, FlushWrite, TypeInv, TInv
<1>5. failures' \in 0 .. MaxFailures
  BY NotedType DEF TypeInv, PhaseInv
<1>6. PhaseInv'
  BY <1>1, <1>5 DEF TypeInv, PhaseInv, Phases, Reading, Writing, Mounting
<1>7. WalkInv'
  BY <1>1 DEF TypeInv, WalkInv
<1>8. UserInv'
  BY <1>1 DEF TypeInv, UserInv, Writing, Mounting
<1>9. GeoInv'
  BY <1>1, <1>3, <1>4 DEF TypeInv, GeoInv, Placed
<1>10. MountInv'
  BY <1>1 DEF MountInv, Mounting
<1> QED
  BY <1>2, <1>6, <1>7, <1>8, <1>9, <1>10 DEF TypeInv

\* Reading and writing the size keep the shape of the state.
LEMMA TypeSize ==
  ASSUME NSectors <= ADDR_SPAN, Cells, TypeInv, ReadSize \/ WriteSize
  PROVE  TypeInv'
<1> USE DEF Returned, walk, user
<1>1. /\ fpc \in {"flushed", "size"} /\ pc = "idle" /\ geo # NoGeo /\ GeoOK(geo)
      /\ file # NoFile
      /\ UNCHANGED <<geo, cache, j, local, curr, chain, file, nbytes, base, made, sound>>
  BY DEF TypeInv, PhaseInv, GeoInv, UserInv, ReadSize, WriteSize, Writing
<1>2. /\ EntryPlace(geo, file.slot) \in Nat \X Offset /\ 1 \in 1 .. MaxLen
      /\ EntryPlace(geo, file.slot)[1] >= geo.cluster_begin_sector
  <2>1. file.slot \in Nat
    BY <1>1 DEF TypeInv, UserInv, FileRec
  <2> QED
    BY <1>1, <2>1, EntryPlaceIn, CallAssumption
<1>3. CASE ReadSize
  <2> USE <1>3 DEF ReadSize
  <2>1. TInv' /\ Contents' = Contents
    BY <1>2, CallEffect DEF TypeInv
  <2>2. /\ pc' = "busy" /\ op' = "read" /\ left' = 1 /\ moved' = << >> /\ fpc' = "size"
        /\ e' = e
        /\ UNCHANGED <<card, failures>>
    BY DEF IoCall
  <2>3. PhaseInv'
    BY <1>1, <2>2 DEF TypeInv, PhaseInv, Phases, Reading, Writing, Mounting
  <2>4. WalkInv'
    BY <1>1, <2>2 DEF TypeInv, WalkInv
  <2>5. UserInv'
    BY <1>1, <2>2 DEF TypeInv, UserInv, Writing, Mounting
  <2>6. GeoInv'
    BY <1>1, <2>1, <2>2, GeoKept DEF TypeInv
  <2>7. MountInv'
    BY <2>2 DEF MountInv, Mounting
  <2> QED
    BY <2>1, <2>3, <2>4, <2>5, <2>6, <2>7 DEF TypeInv
<1>4. CASE WriteSize
  <2> USE <1>4 DEF WriteSize
  <2>1. TInv' /\ Contents' = Contents
    BY <1>2, CallEffect DEF TypeInv
  <2>2. /\ pc' = "busy" /\ op' = "write" /\ left' = 1 /\ moved' = << >>
        /\ fpc' = "resize"
        /\ UNCHANGED <<card, failures>> /\ pos' = EntryPlace(geo, file.slot)
        /\ fpc = "size"
        /\ e'.size + nbytes <= MaxSize
    BY DEF IoCall
  <2>3. e' \in EntryRec
    <3>1. ret = "ok" => AsEntry(Got) \in EntryRec
      BY <1>1, <2>2, GotType, EntryOf DEF TypeInv, Reading
    <3>2. Entry("live", "junk", 0, 0) \in EntryRec
      BY EntriesAssumption DEF Entry, EntryRec, Marks, Labels
    <3>3. e \in EntryRec
      BY DEF TypeInv, WalkInv
    <3> QED
      BY <3>1, <3>2, <3>3
  <2>4. PhaseInv'
    BY <1>1, <2>2 DEF TypeInv, PhaseInv, Phases, Reading, Writing, Mounting
  <2>5. WalkInv'
    BY <1>1, <2>2, <2>3 DEF TypeInv, WalkInv
  <2>6. UserInv'
    BY <1>1, <2>2 DEF TypeInv, UserInv, Writing, Mounting
  <2>7. GeoInv'
    BY <1>1, <1>2, <2>1, <2>2, GeoKept DEF TypeInv
  <2>8. MountInv'
    BY <2>2 DEF MountInv, Mounting
  <2> QED
    BY <2>1, <2>4, <2>5, <2>6, <2>7, <2>8 DEF TypeInv
<1> QED
  BY <1>3, <1>4

\* The end of a call keeps the shape of the state.
LEMMA TypeFinish ==
  ASSUME NSectors <= ADDR_SPAN, Cells, TypeInv, Finish
  PROVE  TypeInv'
<1> USE DEF Finish, Returned, walk, vars
<1>1. /\ fpc \in {"creat", "resize"} /\ fpc' = "idle" /\ geo # NoGeo /\ file # NoFile
      /\ pc = "idle" /\ nbytes \in Nat
  BY DEF TypeInv, PhaseInv, UserInv, Writing
<1>2. TInv' /\ Contents' = Contents
  BY StillEffect DEF TypeInv
<1>3. UNCHANGED <<card, pc, op, left, moved, ret, geo, cache, j, local, curr, chain, e, base, made, sound, failures>>
  BY DEF job
<1>4. PhaseInv'
  BY <1>1, <1>3 DEF TypeInv, PhaseInv, Phases, Reading, Writing, Mounting
<1>5. WalkInv'
  BY <1>1, <1>3 DEF TypeInv, WalkInv
<1>6. UserInv'
  <2>1. /\ file \in FileRec /\ nbytes \in 0 .. MaxLen /\ base \in 0 .. MaxSize
        /\ base + file.at + nbytes <= MaxSize /\ file.name \in Names
        /\ file.cluster >= 2
        /\ file.at \in Nat
    BY <1>1 DEF TypeInv, UserInv, FileRec
  <2>2. file.at + nbytes \in 0 .. MaxSize
    BY <1>1, <2>1, EntriesAssumption
  <2>3. /\ file' \in FileRec /\ file'.at = file.at + nbytes /\ file'.name = file.name
        /\ file'.cluster = file.cluster
    BY <2>1, <2>2 DEF FileRec
  <2> QED
    BY <1>1, <1>3, <2>1, <2>3, CallAssumption DEF TypeInv, UserInv, Writing, Mounting
<1>7. GeoInv'
  BY <1>1, <1>2, <1>3, GeoKept DEF TypeInv
<1>8. MountInv'
  BY <1>1 DEF MountInv, Mounting
<1> QED
  BY <1>2, <1>4, <1>5, <1>6, <1>7, <1>8 DEF TypeInv

\* fat32_write_file_nbytes begins: the shape of the state is kept.
LEMMA TypeWrite ==
  ASSUME NSectors <= ADDR_SPAN, Cells, TypeInv, NEW n \in 1 .. MaxLen, Write(n)
  PROVE  TypeInv'
<1> USE DEF Write, Ready, walk
<1>1. /\ pc = "idle" /\ geo # NoGeo /\ GeoOK(geo) /\ file # NoFile
      /\ file.cluster \in Nat /\ file.cluster >= 2
      /\ file.at \in Nat /\ base + file.at + n <= MaxSize
      /\ UNCHANGED <<geo, cache, j, local, curr, chain, e, file, base, made, sound>>
  BY DEF TypeInv, GeoInv, UserInv, FileRec
<1>2. /\ DataPlace(file.cluster, file.at) \in Nat \X Offset
      /\ DataPlace(file.cluster, file.at)[1] >= geo.cluster_begin_sector
  BY <1>1, DataPlaceIn
<1>3. TInv' /\ Contents' = Contents
  BY <1>2, CallEffect DEF TypeInv
<1>4. /\ pc' = "busy" /\ op' = "write" /\ left' = n /\ moved' = << >> /\ fpc' = "data"
      /\ nbytes' = n
      /\ UNCHANGED <<card, failures>> /\ pos' = DataPlace(file.cluster, file.at)
  BY DEF IoCall
<1>5. PhaseInv'
  BY <1>1, <1>4 DEF TypeInv, PhaseInv, Phases, Reading, Writing, Mounting
<1>6. WalkInv'
  BY <1>1, <1>4 DEF TypeInv, WalkInv
<1>7. UserInv'
  BY <1>1, <1>4, CallAssumption DEF TypeInv, UserInv, Writing, Mounting
<1>8. GeoInv'
  BY <1>1, <1>2, <1>3, <1>4, GeoKept DEF TypeInv
<1>9. MountInv'
  BY <1>4 DEF MountInv, Mounting
<1> QED
  BY <1>3, <1>5, <1>6, <1>7, <1>8, <1>9 DEF TypeInv

\* fat32_creat_file keeps the shape of the state.
LEMMA TypeCreat ==
  ASSUME NSectors <= ADDR_SPAN, Cells, TypeInv, NEW name \in Names, Creat(name)
  PROVE  TypeInv'
<1> USE DEF Creat, Ready, walk
<1>1. /\ fpc = "idle" /\ pc = "idle" /\ geo # NoGeo /\ GeoOK(geo) /\ nbytes = 0
      /\ UNCHANGED <<geo, cache, j, local, curr, chain, e, nbytes, sound>>
      /\ name # "none" /\ WalkInv /\ made \subseteq 0 .. MaxEntries
  BY DEF TypeInv, GeoInv, UserInv, Cells, Writing
<1>2. CASE Cached(name) # {} /\ OpenCached(name)
  <2> DEFINE f == cache[FirstIn(cache, name)]
  <2>1. f \in FileCopy /\ f.name = name /\ f.slot \in Slots /\ f.cluster >= 2
    <3>1. Holding(cache, name) # {} /\ ListOK(cache)
      BY <1>1, <1>2 DEF Holding, Cached, WalkInv, ListOK
    <3> QED
      BY <1>1, <3>1, FirstIs DEF WalkInv
  <2>2. /\ file' = [name |-> name, slot |-> f.slot, cluster |-> f.cluster, at |-> 0]
        /\ base' = Root(Contents, f.slot).size
        /\ UNCHANGED <<fpc, job, card, inVars, outVars, made, failures>>
    BY <1>2 DEF OpenCached, FirstIn, Holding, Cached
  <2> HIDE DEF f
  <2>3. base' \in 0 .. MaxSize
    <3>1. Contents \in [Sector -> Block]
      BY ContentsType DEF TypeInv, TInv
    <3>2. Root(Contents, f.slot) \in EntryRec
      BY <1>1, <2>1, <3>1, DirType, RootIsDir
    <3> QED
      BY <2>2, <3>2 DEF EntryRec
  <2>4. TInv' /\ Contents' = Contents
    BY <2>2, StillEffect DEF TypeInv
  <2>5. pc' = pc /\ op' = op /\ left' = left /\ moved' = moved /\ ret' = ret
    BY <2>2 DEF job
  <2>6. PhaseInv'
    BY <1>1, <2>2, <2>5 DEF TypeInv, PhaseInv
  <2>7. WalkInv'
    BY <1>1, <2>2 DEF WalkInv
  <2>8. UserInv'
    <3>1. file' \in FileRec
      BY <2>1, <2>2, EntriesAssumption DEF FileRec, FileCopy, Slots, Labels
    <3>2. file'.at = 0 /\ file'.name = name /\ file'.cluster = f.cluster
      BY <2>2
    <3> QED
      BY <1>1, <2>1, <2>2, <2>3, <3>1, <3>2, EntriesAssumption
         DEF TypeInv, UserInv, Writing, Mounting
  <2>9. GeoInv'
    BY <1>1, <2>2, <2>4, <2>5, GeoKept DEF TypeInv
  <2>10. MountInv'
    BY <1>1, <2>2 DEF MountInv, Mounting
  <2> QED
    BY <2>4, <2>6, <2>7, <2>8, <2>9, <2>10 DEF TypeInv
<1>3. CASE CreateNew(name)
  <2> DEFINE n == next_root_dir_loc
             c == next_cluster
  <2>1. n \in 0 .. MaxEntries /\ n \in Nat /\ c \in Nat /\ c >= 2
    <3>1. ListOK(cache)
      BY <1>1 DEF WalkInv, ListOK
    <3> QED
      BY <3>1, NextLocIs, NextClusterIs, EntriesAssumption
      DEF next_root_dir_loc, next_cluster, SlotsIn, ClustersIn
  <2>2. /\ file' = [name |-> name, slot |-> n, cluster |-> c, at |-> 0]
        /\ base' = 0 /\ made' = made \cup {n} /\ fpc' = "creat"
        /\ IoCall("write", EntryPlace(geo, n), 1)
    BY <1>3 DEF CreateNew
  <2> HIDE DEF n, c
  <2>3. /\ EntryPlace(geo, n) \in Nat \X Offset /\ 1 \in 1 .. MaxLen
        /\ EntryPlace(geo, n)[1] >= geo.cluster_begin_sector
    BY <1>1, <2>1, EntryPlaceIn, CallAssumption
  <2>4. TInv' /\ Contents' = Contents
    BY <2>2, <2>3, CallEffect DEF TypeInv
  <2>5. /\ pc' = "busy" /\ op' = "write" /\ left' = 1 /\ moved' = << >>
        /\ UNCHANGED <<card, failures>> /\ pos' = EntryPlace(geo, n)
    BY <2>2 DEF IoCall
  <2>6. PhaseInv'
    BY <1>1, <2>2, <2>5 DEF TypeInv, PhaseInv, Phases, Reading, Writing, Mounting
  <2>7. WalkInv'
    BY <1>1, <2>2 DEF WalkInv
  <2>8. UserInv'
    <3>1. file' \in FileRec
      BY <2>1, <2>2, EntriesAssumption DEF FileRec, Labels
    <3>2. file'.at = 0 /\ file'.name = name /\ file'.cluster = c /\ file' # NoFile
      BY <1>1, <2>2 DEF NoFile
    <3> QED
      BY <1>1, <2>1, <2>2, <3>1, <3>2, EntriesAssumption, CallAssumption
         DEF UserInv, Writing, Mounting
  <2>9. GeoInv'
    BY <1>1, <2>3, <2>4, <2>5, GeoKept DEF TypeInv
  <2>10. MountInv'
    BY <2>2 DEF MountInv, Mounting
  <2> QED
    BY <2>4, <2>6, <2>7, <2>8, <2>9, <2>10 DEF TypeInv
<1> QED
  BY <1>2, <1>3

\* Every step keeps the shape of the state.
LEMMA TypeNext ==
  ASSUME NSectors <= ADDR_SPAN, Cells, TypeInv, [FatNext]_<<vars, fatVars>>
  PROVE  TypeInv'
<1>1. CASE IoStep
  BY <1>1, TypeGet, TypePut DEF IoStep
<1>2. CASE Initialize
  BY <1>2, TypeMount, TypeReadPartition, TypeReadBootSector, TypeReadEntry,
     TypeReadFat DEF Initialize
<1>3. CASE Append_to_log
  BY <1>3, TypeFlush, TypeSize, TypeFinish DEF Append_to_log
<1>4. CASE UNCHANGED <<vars, fatVars>>
  <2>1. TInv' /\ Contents' = Contents
    BY <1>4, StillEffect DEF TypeInv, vars
  <2> USE <1>4 DEF TypeInv, vars, fatVars, walk, user, job
  <2>2. PhaseInv'
    BY DEF PhaseInv
  <2>3. WalkInv'
    BY DEF WalkInv
  <2>4. UserInv'
    BY DEF UserInv
  <2>5. GeoInv'
    BY <2>1 DEF GeoInv, Placed
  <2>6. MountInv'
    BY DEF MountInv, inVars, outVars, Got
  <2> QED
    BY <2>1, <2>2, <2>3, <2>4, <2>5, <2>6
<1> QED
  BY <1>1, <1>2, <1>3, <1>4, TypeBoot, TypeCut, TypeCreat, TypeWrite DEF FatNext

\* The shape of the state, with where things are on the card, is invariant
\* for every card, every number of entries and every pattern of failures.
THEOREM TypeInvariance ==
  ASSUME NSectors <= ADDR_SPAN, Cells
  PROVE  FatSpec => []TypeInv
<1>1. TypeInv /\ [FatNext]_<<vars, fatVars>> => TypeInv'
  BY TypeNext
<1> QED
  BY <1>1, TypeInit, PTL DEF FatSpec

\* fat.c keeps the shape of its state (FatTypeOK): the walk along the FAT stays in
\* numbers, the cached directory has one record for an entry, in the order of the
\* entries (fat.c:201-341), and no size, count or place leaves its range.
THEOREM FatTypeCorrect ==
  ASSUME NSectors <= ADDR_SPAN, Cells
  PROVE  FatSpec => []FatTypeOK
<1>1. TypeInv => FatTypeOK
  <2> SUFFICES ASSUME TypeInv PROVE FatTypeOK
    OBVIOUS
  <2>1. IOTypeOK
    BY DEF TypeInv, TInv
  <2>2. fpc \in Mounting \cup {"off", "idle", "creat", "data", "flush", "flushed", "size", "resize"}
    BY DEF TypeInv, PhaseInv, Phases, Writing
  <2>3. \A k \in DOMAIN cache : cache[k].slot \in Slots /\ cache[k].cluster \in Nat
    <3>1. \A k \in DOMAIN cache : cache[k] \in FileCopy
      BY DEF TypeInv, WalkInv
    <3> QED
      BY <3>1 DEF TypeInv, WalkInv, FileCopy
  <2> QED
    BY <2>1, <2>2, <2>3 DEF FatTypeOK, TypeInv, PhaseInv, WalkInv, UserInv, FileRec,
       Clusters
<1> QED
  BY <1>1, TypeInvariance, PTL
=============================================================================

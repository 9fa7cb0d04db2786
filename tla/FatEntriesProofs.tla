-------------------------- MODULE FatEntriesProofs --------------------------
(***************************************************************************)
(* Proofs about the root directory in Fat32: no step destroys the entry of *)
(* another file (EntriesKept).  The invariant says what the directory still *)
(* has, what the cached list says of it, and how far a write has got.      *)
(***************************************************************************)
EXTENDS Fat32Proofs

\* The cached part of the root directory has MaxEntries slots.
LEMMA SlotsFinite == IsFiniteSet(Slots) /\ Cardinality(Slots) = MaxEntries
<1>1. MaxEntries - 1 \in Int /\ 0 \in Int /\ ~(0 > MaxEntries - 1)
  BY EntriesAssumption
<1>2. /\ IsFiniteSet(0 .. MaxEntries - 1)
      /\ Cardinality(0 .. MaxEntries - 1) = MaxEntries - 1 - 0 + 1
  BY <1>1, FS_Interval
<1> QED
  BY <1>2, EntriesAssumption DEF Slots

Vacant(d) == {s \in Slots : Live(d, s) => Own(d, s)}

\* The room in a directory is a number.
LEMMA VacantFinite ==
  ASSUME NEW d
  PROVE  /\ IsFiniteSet(Vacant(d)) /\ RoomIn(d) = Cardinality(Vacant(d))
         /\ RoomIn(d) \in Nat
<1>1. Vacant(d) \in SUBSET Slots /\ RoomIn(d) = Cardinality(Vacant(d))
  BY DEF Vacant, RoomIn
<1>2. IsFiniteSet(Vacant(d))
  BY <1>1, SlotsFinite, FS_Subset
<1> QED
  BY <1>1, <1>2, FS_CardinalityType

Dirs == [Slots -> EntryRec]
Clustered(x) == x.mark = "live" /\ x.name \in Names => x.first # 0
Taken(x) == x.mark = "live" /\ x.name \notin Names

\* One entry that is written takes the room of one at most, and none when it is the
\* program's own or replaces one of the same kind.
LEMMA RoomAfter ==
  ASSUME NEW d \in Dirs, NEW s \in Slots, NEW x
  PROVE  /\ RoomIn([d EXCEPT ![s] = x]) + 1 >= RoomIn(d)
         /\ ~Taken(x) \/ Taken(d[s]) => RoomIn([d EXCEPT ![s] = x]) >= RoomIn(d)
<1> DEFINE d2 == [d EXCEPT ![s] = x]
           V == Vacant(d)
           W == Vacant(d2)
<1>1. /\ IsFiniteSet(V) /\ RoomIn(d) = Cardinality(V) /\ RoomIn(d) \in Nat
      /\ IsFiniteSet(W) /\ RoomIn(d2) = Cardinality(W) /\ RoomIn(d2) \in Nat
  BY VacantFinite
<1>2. \A t \in Slots \ {s} : t \in W <=> t \in V
  BY DEF Vacant, Live, Own, Dirs
<1>3. V \ {s} \subseteq W
  BY <1>2 DEF Vacant
<1>4. ASSUME ~Taken(x) \/ Taken(d[s]) PROVE V \subseteq W
  <2>1. s \in V => s \in W
    BY <1>4 DEF Vacant, Live, Own, Taken, Dirs
  <2> QED
    BY <1>3, <2>1
<1> HIDE DEF d2, V, W
<1>5. Cardinality(V \ {s}) + 1 >= Cardinality(V) /\ Cardinality(V \ {s}) \in Nat
  <2>1. IsFiniteSet(V \ {s}) /\ Cardinality(V \ {s}) = IF s \in V THEN Cardinality(V) - 1 ELSE Cardinality(V)
    BY <1>1, FS_RemoveElement
  <2>2. Cardinality(V \ {s}) \in Nat
    BY <2>1, FS_CardinalityType
  <2> QED
    BY <1>1, <2>1, <2>2
<1>6. Cardinality(V \ {s}) <= Cardinality(W)
  BY <1>1, <1>3, FS_Subset
<1>7. V \subseteq W => Cardinality(V) <= Cardinality(W)
  BY <1>1, FS_Subset
<1> QED
  BY <1>1, <1>4, <1>5, <1>6, <1>7 DEF d2

\* The label stays first, and the files keep their clusters.
LEMMA LabelAfter ==
  ASSUME NEW d \in Dirs, Labelled(d), NEW s \in Slots \ {0}, NEW x, Clustered(x)
  PROVE  Labelled([d EXCEPT ![s] = x])
<1> DEFINE d2 == [d EXCEPT ![s] = x]
<1>1. 0 \in Slots
  BY EntriesAssumption DEF Slots
<1>2. d2[0] = d[0] /\ \A t \in Slots : d2[t] = IF t = s THEN x ELSE d[t]
  BY <1>1 DEF Dirs
<1> HIDE DEF d2
<1>3. Labelled(d2)
  BY <1>2 DEF Labelled, Live, Own, Clustered
<1> QED
  BY <1>3 DEF d2

\* What is cached as the root directory has the shape of one.
LEMMA DirsType ==
  ASSUME Cells, NEW g, GeoOK(g), NEW c \in [Sector -> Block]
  PROVE  Dir(g, c) \in Dirs
<1>1. \A s \in Slots : Dir(g, c)[s] \in EntryRec
  BY DirType
<1>2. Dir(g, c) = [s \in Slots |-> Dir(g, c)[s]]
  BY DEF Dir
<1> QED
  BY <1>1, <1>2 DEF Dirs

\* A byte of a file is not in the directory; an entry is in its slot only.
LEMMA DirAfterData ==
  ASSUME NEW g, GeoOK(g), NEW c \in [Sector -> Block], NEW p \in Place, NEW v,
         p[1] >= g.cluster_begin_sector + g.sectors_per_cluster
  PROVE  Dir(g, [c EXCEPT ![p[1]][p[2]] = v]) = Dir(g, c)
<1> DEFINE c2 == [c EXCEPT ![p[1]][p[2]] = v]
<1>1. ASSUME NEW s \in Slots
      PROVE  c2[EntryPlace(g, s)[1]] = c[EntryPlace(g, s)[1]]
  <2>1. s \in Nat
    BY DEF Slots
  <2>2. /\ EntryPlace(g, s)[1] \in Sector
        /\ EntryPlace(g, s)[1] < g.cluster_begin_sector + g.sectors_per_cluster
    BY <2>1, EntryPlaceIn
  <2>3. EntryPlace(g, s)[1] # p[1]
    BY <2>2 DEF Place, Sector, GeoOK
  <2> QED
    BY <2>2, <2>3
<1> HIDE DEF c2
<1>2. Dir(g, c2) = Dir(g, c)
  BY <1>1 DEF Dir
<1> QED
  BY <1>2 DEF c2

\* An entry that is written is in its slot, and in no other.
LEMMA DirAfterEntry ==
  ASSUME NEW g, GeoOK(g), NEW c, NEW t \in Slots, NEW v, NEW p, p = EntryPlace(g, t),
         NEW c2, c2[p[1]][p[2]] = v,
         \A a \in Sector, o \in Offset : a # p[1] \/ o # p[2] => c2[a][o] = c[a][o]
  PROVE  Dir(g, c2)[t] = AsEntry(v) /\ \A s \in Slots \ {t} : Dir(g, c2)[s] = Dir(g, c)[s]
<1>1. t \in Nat /\ p \in Nat \X Offset /\ p[1] \in Sector
  BY EntryPlaceIn DEF Slots
<1>2. ASSUME NEW s \in Slots, s # t
      PROVE  c2[EntryPlace(g, s)[1]][EntryPlace(g, s)[2]] = c[EntryPlace(g, s)[1]][EntryPlace(g, s)[2]]
  <2> DEFINE q == EntryPlace(g, s)
  <2>1. s \in Nat /\ q \in Nat \X Offset /\ q[1] \in Sector
    BY EntryPlaceIn DEF Slots
  <2>2. q # p
    BY <1>1, <1>2, <2>1, EntryPlacesDiffer
  <2>3. q[1] # p[1] \/ q[2] # p[2]
    BY <1>1, <2>1, <2>2
  <2> HIDE DEF q
  <2>4. c2[q[1]][q[2]] = c[q[1]][q[2]]
    BY <1>1, <2>1, <2>3
  <2> QED
    BY <2>4 DEF q
<1> QED
  BY <1>2 DEF Dir

\* What initialize_io does to sector 0 is not in the directory.
LEMMA DirSame ==
  ASSUME NEW g, GeoOK(g), NEW c, NEW d, \A s \in Sector \ {0} : c[s] = d[s]
  PROVE  Dir(g, c) = Dir(g, d)
<1>1. ASSUME NEW s \in Slots PROVE c[EntryPlace(g, s)[1]] = d[EntryPlace(g, s)[1]]
  <2>1. /\ s \in Nat /\ EntryPlace(g, s) \in Nat \X Offset
        /\ EntryPlace(g, s)[1] \in Sector
        /\ EntryPlace(g, s)[1] >= g.cluster_begin_sector
    BY EntryPlaceIn DEF Slots
  <2>2. EntryPlace(g, s)[1] # 0
    BY <2>1 DEF GeoOK
  <2> QED
    BY <2>1, <2>2
<1> QED
  BY <1>1 DEF Dir

-----------------------------------------------------------------------------
SlotIn(cc, name) == IF Holding(cc, name) # {} THEN cc[FirstIn(cc, name)].slot
                    ELSE Lowest(0, SlotsIn(cc))
ClusterIn(cc, name) == IF Holding(cc, name) # {} THEN cc[FirstIn(cc, name)].cluster
                       ELSE Lowest(2, ClustersIn(cc))

\* The list has the entries before slot m of directory d.
Scanned(cc, d, m) ==
  /\ \A k \in DOMAIN cc : Live(d, cc[k].slot) /\ d[cc[k].slot].name = cc[k].name
  /\ \A s \in 0 .. m - 1 : Live(d, s) => s \in SlotsIn(cc)
  /\ m > 0 => \E k \in DOMAIN cc : 2 \in cc[k].fat_list
  /\ \A k \in DOMAIN cc : cc[k].name \in Names => cc[k].cluster >= 3

\* Where a file will go.
Aimed(cc, name) == SlotIn(cc, name) \in Slots \ {0} /\ ClusterIn(cc, name) >= 3
Spared(cc, d, name) == Live(d, SlotIn(cc, name)) => d[SlotIn(cc, name)].name = name

\* When the scan of the root directory ends, at the entry that ends it or after the
\* last one, the place of a file is its own entry or one not in use, never that of
\* the label, and its cluster is not the directory's (fat.c:293-341, 440-503).
LEMMA ScanEnds ==
  ASSUME Cells, NEW cc, ListOK(cc), NEW d \in Dirs, NEW m \in 1 .. MaxEntries,
         Scanned(cc, d, m),
         m = MaxEntries \/ ~Live(d, m), Labelled(d), RoomIn(d) > 0, NEW name \in Names
  PROVE  Aimed(cc, name) /\ Spared(cc, d, name)
<1>1. 0 \in Slots /\ 0 \in SlotsIn(cc) /\ m \in Nat
  <2>1. 0 \in 0 .. m - 1 /\ 0 \in Slots
    BY EntriesAssumption DEF Slots
  <2> QED
    BY <2>1 DEF Scanned, Labelled
<1>2. CASE Holding(cc, name) # {}
  <2> DEFINE f == cc[FirstIn(cc, name)]
  <2>1. /\ FirstIn(cc, name) \in DOMAIN cc /\ f.name = name /\ f \in FileCopy
        /\ f.slot \in Slots
    BY <1>2, FirstIs DEF ListOK
  <2>2. Live(d, f.slot) /\ d[f.slot].name = name /\ f.cluster >= 3
    BY <2>1 DEF Scanned
  <2>3. f.slot # 0
    BY <2>2 DEF Labelled, Own
  <2> HIDE DEF f
  <2>4. SlotIn(cc, name) = f.slot /\ ClusterIn(cc, name) = f.cluster
    BY <1>2 DEF SlotIn, ClusterIn, f
  <2> QED
    BY <2>1, <2>2, <2>3, <2>4 DEF Aimed, Spared
<1>3. CASE Holding(cc, name) = {}
  <2> DEFINE n == Lowest(0, SlotsIn(cc))
             u == Lowest(2, ClustersIn(cc))
  <2>1. /\ n \in 0 .. MaxEntries /\ n \notin SlotsIn(cc) /\ \A k \in 0 .. n - 1 : k \in SlotsIn(cc)
        /\ u \in Nat /\ u >= 2 /\ u \notin ClustersIn(cc)
    BY NextLocIs, NextClusterIs
  <2> HIDE DEF n, u
  <2>2. SlotIn(cc, name) = n /\ ClusterIn(cc, name) = u
    BY <1>3 DEF SlotIn, ClusterIn, n, u
  <2>3. u # 2
    <3>1. 2 \in ClustersIn(cc)
      BY <1>1 DEF Scanned, ClustersIn
    <3> QED
      BY <2>1, <3>1
  <2>4. n # 0
    BY <1>1, <2>1
  <2>5. n # MaxEntries
    <3> SUFFICES ASSUME n = MaxEntries PROVE FALSE
      OBVIOUS
    <3>1. PICK s \in Slots : Live(d, s) => Own(d, s)
      <4>1. Vacant(d) # {}
        <5>1. RoomIn(d) = Cardinality(Vacant(d)) /\ IsFiniteSet(Vacant(d))
          BY VacantFinite
        <5> QED
          BY <5>1, FS_EmptySet
      <4> QED
        BY <4>1 DEF Vacant
    <3>2. s \in SlotsIn(cc)
      BY <2>1 DEF Slots
    <3>3. PICK k \in DOMAIN cc : cc[k].slot = s
      BY <3>2 DEF SlotsIn
    <3>4. Own(d, s) /\ d[s].name = cc[k].name
      BY <3>1, <3>3 DEF Scanned
    <3>5. cc[k].name = name
      BY <3>4 DEF Own, Cells
    <3> QED
      BY <1>3, <3>5 DEF Holding
  <2>6. n \in Slots \ {0}
    BY <2>1, <2>4, <2>5, EntriesAssumption DEF Slots
  <2>7. ~Live(d, n)
    <3> SUFFICES ASSUME Live(d, n) PROVE FALSE
      OBVIOUS
    <3>1. n >= m
      BY <1>1, <2>1, <2>6 DEF Scanned, Slots
    <3>2. m # MaxEntries /\ m # n
      BY <2>6, <3>1, EntriesAssumption DEF Slots
    <3>3. m \in 0 .. n - 1
      BY <1>1, <2>6, <3>1, <3>2 DEF Slots
    <3>4. m \in SlotsIn(cc)
      BY <2>1, <3>3
    <3> QED
      BY <3>2, <3>4 DEF SlotsIn, Scanned
  <2> QED
    BY <2>1, <2>2, <2>3, <2>6, <2>7 DEF Aimed, Spared
<1> QED
  BY <1>2, <1>3

-----------------------------------------------------------------------------
\* A directory with its label, its files with clusters, and more room than failures to come.
DirOK(d, n) == Labelled(d) /\ RoomIn(d) + n > MaxFailures
DiskOK(c, g, n) ==
  /\ Mountable(c) => DirOK(Dir(GeoOf(c), c), n)
  /\ g # NoGeo => DirOK(Dir(g, c), n)
DirInv == DiskOK(card, geo, failures) /\ DiskOK(Contents, geo, failures)

\* What an entry's sector holds
Good(g, sector, block) ==
  \A s \in Slots : EntryPlace(g, s)[1] = sector => Clustered(AsEntry(block[EntryPlace(g, s)[2]]))
EntryInv ==
  /\ Clustered(e)
  /\ geo # NoGeo => Good(geo, input_sector_addr, input_sector_buf)
  /\ fpc = "size" /\ pc = "idle" /\ ret = "ok" => Clustered(AsEntry(Got))

\* The scan has ended, at slot m.
Ended(cc, d, m) == Scanned(cc, d, m) /\ (m = MaxEntries \/ d[m].mark = "unused")
ScanInv ==
  /\ fpc \in {"entry", "fat"} =>
       /\ Scanned(cache, Dir(geo, card), j)
       /\ fpc = "fat" => e.first + 2 \in chain \cup {curr}
  /\ fpc = "idle" /\ geo # NoGeo /\ file = NoFile =>
       output_sector_addr = 0 /\ \E m \in 1 .. MaxEntries : Ended(cache, Dir(geo, card), m)

CacheInv ==
  /\ geo # NoGeo /\ fpc \notin Mounting =>
       \A name \in Names : /\ Aimed(cache, name)
                           /\ file = NoFile => Spared(cache, Dir(geo, Contents), name)
  /\ file # NoFile => /\ file.slot = SlotIn(cache, file.name)
                      /\ file.cluster = ClusterIn(cache, file.name)

Here == EntryPlace(geo, file.slot)
Current(d) == d = Dir(geo, Contents)[file.slot]
Fresh ==
  /\ fpc \in {"data", "flush", "flushed"} \/ (fpc = "size" /\ pc = "busy") =>
       output_sector_addr # Here[1]
  /\ fpc \in {"flush", "flushed"} \/ (fpc = "size" /\ pc = "busy") =>
       (input_sector_addr = Here[1] => input_sector_buf = card[Here[1]])
  /\ fpc = "size" /\ pc = "idle" => ret = "ok" /\ Current(AsEntry(Got))
  /\ fpc = "resize" => Current(e)
InWrite == \/ fpc = "data" /\ pc = "idle"
           \/ fpc \in {"flush", "flushed", "size"}
           \/ fpc = "resize" /\ pc = "busy"
Paid == failures # 0 /\ RoomIn(Dir(geo, Contents)) + failures > MaxFailures + 1
WriteInv ==
  file # NoFile =>
    /\ fpc \in {"creat", "resize", "size"} /\ pc = "busy" => pos = Here
    /\ fpc = "data" /\ pc = "busy" =>
         pos[1] >= geo.cluster_begin_sector + geo.sectors_per_cluster
    /\ InWrite => Fresh \/ Paid

KeepBody == DirInv /\ EntryInv /\ ScanInv /\ CacheInv /\ WriteInv
KeepInv == sound => KeepBody

-----------------------------------------------------------------------------
\* A failure more asks for no more room.
LEMMA MoreFailures ==
  ASSUME NEW c, NEW g, NEW n \in Nat, NEW m \in Nat, m >= n, DiskOK(c, g, n)
  PROVE  DiskOK(c, g, m)
<1>1. ASSUME NEW d, DirOK(d, n) PROVE DirOK(d, m)
  <2>1. RoomIn(d) \in Nat
    BY VacantFinite
  <2> QED
    BY <1>1, <2>1, EntriesAssumption DEF DirOK
<1> QED
  BY <1>1 DEF DiskOK

\* A card that is mounted is judged by the directory of the mount.
LEMMA OneDisk ==
  ASSUME NEW c, Placed(c), geo # NoGeo, NEW n, DirOK(Dir(geo, c), n)
  PROVE  DiskOK(c, geo, n)
BY DEF Placed, DiskOK

\* A step that writes nothing keeps what is known of the directory.
LEMMA DirFrame ==
  ASSUME DirInv, TypeInv, card' = card, Contents' = Contents, geo' = geo,
         failures' \in Nat, failures' >= failures
  PROVE  DirInv'
<1>1. failures \in Nat
  BY EntriesAssumption DEF TypeInv, PhaseInv
<1>2. DiskOK(card, geo, failures') /\ DiskOK(Contents, geo, failures')
  BY <1>1, MoreFailures DEF DirInv
<1> QED
  BY <1>2 DEF DirInv

\* A sector of the directory that was read holds entries with their clusters.
LEMMA EntriesGood ==
  ASSUME NEW g, GeoOK(g), NEW c, Labelled(Dir(g, c)), NEW a, NEW b, a # 0 => b = c[a]
  PROVE  Good(g, a, b)
<1>1. ASSUME NEW s \in Slots, EntryPlace(g, s)[1] = a
      PROVE  Clustered(AsEntry(b[EntryPlace(g, s)[2]]))
  <2>1. /\ s \in Nat /\ EntryPlace(g, s) \in Nat \X Offset
        /\ EntryPlace(g, s)[1] >= g.cluster_begin_sector
    BY EntryPlaceIn DEF Slots
  <2>2. b = c[a]
    BY <1>1, <2>1 DEF GeoOK
  <2>3. Dir(g, c)[s] = AsEntry(b[EntryPlace(g, s)[2]])
    BY <1>1, <2>2 DEF Dir
  <2>4. Clustered(Dir(g, c)[s])
    BY DEF Labelled, Own, Live, Clustered
  <2> QED
    BY <2>3, <2>4
<1> QED
  BY <1>1 DEF Good

\* A step that reads nothing keeps what is known of what was read.
LEMMA EntryFrame ==
  ASSUME EntryInv, geo' = geo, UNCHANGED inVars, Clustered(e'),
         ~(fpc' = "size" /\ pc' = "idle" /\ ret' = "ok")
  PROVE  EntryInv'
BY DEF EntryInv, inVars

\* A step that leaves the list and the file alone keeps what is known of them.
LEMMA CacheFrame ==
  ASSUME CacheInv, geo' = geo, cache' = cache, file' = file, Contents' = Contents \/ file # NoFile,
         fpc \in Mounting => fpc' \in Mounting
  PROVE  CacheInv'
BY DEF CacheInv

\* What may be on the stack is no file of the program.
LEMMA JunkClustered ==
  ASSUME Cells
  PROVE  Clustered(Entry("live", "junk", 0, 0)) /\ Clustered(AsEntry(Zero))
BY DEF Cells, Clustered, Entry, AsEntry

-----------------------------------------------------------------------------
\* The invariant holds at power-on.
LEMMA KeepInit ==
  ASSUME Cells, FatInit
  PROVE  KeepInv
<1>1. TypeInv /\ Contents = card
  BY TypeInit DEF FatInit, Init, Contents
<1>2. /\ geo = NoGeo /\ file = NoFile /\ fpc = "off" /\ failures = 0 /\ card \in Volumes
      /\ e = AsEntry(Zero)
  BY DEF FatInit
<1>3. ASSUME Mountable(card) PROVE DirOK(Dir(GeoOf(card), card), 0)
  <2> DEFINE d == Dir(GeoOf(card), card)
  <2>1. Labelled(d) /\ RoomIn(d) > MaxFailures
    BY <1>2, <1>3, VolumesAssumption
  <2>2. RoomIn(d) \in Nat
    BY VacantFinite
  <2> HIDE DEF d
  <2>3. DirOK(d, 0)
    BY <2>1, <2>2, EntriesAssumption DEF DirOK
  <2> QED
    BY <2>3 DEF d
<1>4. DirInv
  BY <1>1, <1>2, <1>3 DEF DirInv, DiskOK
<1>5. EntryInv
  BY <1>2, JunkClustered DEF EntryInv
<1> QED
  BY <1>2, <1>4, <1>5 DEF KeepInv, KeepBody, ScanInv, CacheInv, WriteInv

\* A power cut loses what was not yet on the card, and keeps the invariant.
LEMMA KeepCut ==
  ASSUME NSectors <= ADDR_SPAN, Cells, TypeInv, KeepBody, Cut
  PROVE  KeepBody'
<1> USE DEF Cut, ResetFat
<1>1. /\ geo' = NoGeo /\ file' = NoFile /\ fpc' = "off" /\ failures' = failures
      /\ card' = card /\ e' = AsEntry(Zero)
  BY DEF PowerCut
<1>2. Contents' = card
  BY DEF PowerCut, Contents, TypeInv, TInv, IOTypeOK
<1>3. DirInv'
  BY <1>1, <1>2 DEF KeepBody, DirInv, DiskOK
<1>4. EntryInv'
  BY <1>1, JunkClustered DEF EntryInv
<1> QED
  BY <1>1, <1>3, <1>4 DEF KeepBody, ScanInv, CacheInv, WriteInv

\* initialize_io keeps the invariant, also when it fails.
LEMMA KeepBoot ==
  ASSUME NSectors <= ADDR_SPAN, Cells, TypeInv, KeepBody, Boot
  PROVE  KeepBody'
<1> USE DEF Boot, walk, user
<1>0. TypeInv'
  BY TypeBoot
<1>1. /\ pc = "off" /\ fpc' = "on" /\ pc' = "idle" /\ geo = NoGeo /\ geo' = NoGeo
      /\ file = NoFile /\ file' = NoFile
      /\ e' = e
  BY DEF PowerOn, TypeInv, PhaseInv, UserInv
<1>2. /\ card' = card /\ output_sector_addr' = 0
      /\ output_sector_buf' \in {Cleared, card[0]}
  BY <1>1 DEF PowerOn, TypeInv, TInv, OffInv
<1>3. Mountable(Contents') => Contents' = card
  <2>1. /\ Contents' \in [Sector -> Block] /\ card \in [Sector -> Block]
        /\ Contents'[0] \in {Cleared, card[0]}
        /\ \A s \in Sector \ {0} : Contents'[s] = card[s]
    BY <1>0, <1>1, <1>2, CardAssumption DEF TypeInv, TInv, IOTypeOK, Contents, Sector
  <2> QED
    BY <2>1, MountedIsCard
<1>4. failures \in Nat /\ failures' \in Nat /\ failures' >= failures
  BY NotedType, EntriesAssumption DEF TypeInv, PhaseInv
<1>5. DiskOK(card, NoGeo, failures')
  BY <1>1, <1>4, MoreFailures DEF KeepBody, DirInv
<1>6. DirInv'
  BY <1>1, <1>2, <1>3, <1>5 DEF DirInv, DiskOK
<1>7. EntryInv'
  BY <1>1 DEF KeepBody, EntryInv
<1> QED
  BY <1>1, <1>6, <1>7 DEF KeepBody, ScanInv, CacheInv, WriteInv

\* The steps before the volume is known, and those that change nothing.
LEMMA KeepUnmounted ==
  ASSUME NSectors <= ADDR_SPAN, Cells, TypeInv, KeepBody, Mount \/ ReadPartition
  PROVE  KeepBody'
<1> USE DEF Returned, walk, user
<1>1. /\ fpc \in {"on", "partition"} /\ fpc' \in {"idle", "partition", "boot"}
      /\ geo = NoGeo /\ file = NoFile
      /\ UNCHANGED <<geo, e, file>> /\ GeoInv
  BY DEF Mount, ReadPartition, Done, TypeInv, PhaseInv, UserInv, Mounting
<1>2. Contents' = Contents /\ UNCHANGED <<card, failures>>
  BY DEF Mount, ReadPartition, Done, job, IoCall, Contents, outVars, TypeInv, PhaseInv
<1>3. failures \in Nat
  BY EntriesAssumption DEF TypeInv, PhaseInv
<1>4. DirInv'
  BY <1>1, <1>2, <1>3, DirFrame DEF KeepBody
<1>5. EntryInv'
  BY <1>1 DEF KeepBody, EntryInv
<1> QED
  BY <1>1, <1>4, <1>5 DEF KeepBody, ScanInv, CacheInv, WriteInv

\* fat32_set_context keeps the invariant.
LEMMA KeepReadBootSector ==
  ASSUME NSectors <= ADDR_SPAN, Cells, TypeInv, KeepBody, ReadBootSector
  PROVE  KeepBody'
<1> USE DEF ReadBootSector, Returned, user
<1>1. /\ fpc = "boot" /\ geo = NoGeo /\ pc = "idle" /\ cache = << >> /\ cache' = << >>
      /\ file = NoFile
      /\ file' = file /\ e' = e
  BY DEF TypeInv, PhaseInv, WalkInv, UserInv, Mounting
<1>2. failures \in Nat
  BY EntriesAssumption DEF TypeInv, PhaseInv
<1>3. CASE ret # "ok"
  <2>1. Done /\ geo' = geo
    BY <1>3
  <2>2. Contents' = Contents /\ UNCHANGED <<card, failures, inVars>> /\ fpc' = "idle"
    BY <2>1 DEF Done, job, Contents, outVars
  <2>3. DirInv'
    BY <1>2, <2>1, <2>2, DirFrame DEF KeepBody
  <2>4. EntryInv'
    BY <1>1, <2>1, <2>2, EntryFrame DEF KeepBody, EntryInv
  <2> QED
    BY <1>1, <2>1, <2>2, <2>3, <2>4 DEF KeepBody, ScanInv, CacheInv, WriteInv
<1>4. CASE ret = "ok"
  <2> DEFINE g == GeoOf(card)
  <2>1. /\ moved[1][1][1] = StartOf(card) /\ Got = card[StartOf(card)][0]
        /\ Mountable(card)
        /\ output_sector_addr = 0 /\ output_sector_buf \in {Cleared, card[0]}
        /\ input_sector_addr # 0 => input_sector_buf = card[input_sector_addr]
    BY <1>1, <1>4 DEF TypeInv, MountInv, Mounting
  <2>2. geo' = g /\ CacheEntry(0, g)
    BY <1>4, <2>1 DEF GeoOf
  <2>3. GeoOK(g) /\ g # NoGeo
    BY <2>1, SitedGeo DEF TypeInv, GeoInv, Placed
  <2>4. DirOK(Dir(g, card), failures)
    BY <2>1 DEF KeepBody, DirInv, DiskOK
  <2>5. Dir(g, Contents) = Dir(g, card)
    <3>1. \A s \in Sector \ {0} : Contents[s] = card[s]
      BY <1>1, <2>1 DEF Contents
    <3> QED
      BY <2>3, <3>1, DirSame
  <2>6. Mountable(Contents) => GeoOf(Contents) = g
    <3>1. Mountable(Contents) => Contents = card
      <4>1. /\ Contents \in [Sector -> Block] /\ card \in [Sector -> Block]
            /\ Contents[0] \in {Cleared, card[0]}
            /\ \A s \in Sector \ {0} : Contents[s] = card[s]
        BY <1>1, <2>1, CardAssumption DEF TypeInv, TInv, IOTypeOK, Contents, Sector
      <4> QED
        BY <4>1, MountedIsCard
    <3> QED
      BY <3>1
  <2> HIDE DEF g
  <2>7. DiskOK(card, g, failures) /\ DiskOK(Contents, g, failures)
    BY <2>1, <2>4, <2>5, <2>6 DEF DiskOK, g
  <2>8. Good(g, input_sector_addr, input_sector_buf)
    BY <2>1, <2>3, <2>4, EntriesGood DEF DirOK
  <2>9. 0 \in 0 .. MaxEntries /\ fpc \in Mounting
    BY <1>1, EntriesAssumption DEF Mounting
  <2>10. /\ Contents' = Contents /\ UNCHANGED <<card, inVars, outVars, failures, ret>>
         /\ j' = 0 /\ fpc' = "entry" /\ pc' = "busy"
    BY <1>1, <2>2, <2>3, <2>9, NextEffect, EntriesAssumption DEF TypeInv
  <2>11. DirInv'
    BY <2>2, <2>7, <2>10 DEF DirInv
  <2>12. EntryInv'
    BY <1>1, <2>2, <2>8, <2>10 DEF KeepBody, EntryInv, inVars
  <2>13. ScanInv'
    BY <1>1, <2>10 DEF ScanInv, Scanned
  <2>14. CacheInv' /\ WriteInv'
    BY <1>1, <2>10 DEF CacheInv, WriteInv, Mounting
  <2> QED
    BY <2>11, <2>12, <2>13, <2>14 DEF KeepBody
<1> QED
  BY <1>3, <1>4

-----------------------------------------------------------------------------
\* Appending what the walk found keeps the list in step with the directory.
LEMMA ScannedMore ==
  ASSUME NEW cc, ListOK(cc), NEW d, NEW m \in Slots, Scanned(cc, d, m),
         NEW f \in FileCopy, m # 0 \/ 2 \in f.fat_list, f.slot = m, Live(d, m), f.name = d[m].name,
         f.name \in Names => f.cluster >= 3
  PROVE  Scanned(Append(cc, f), d, m + 1)
<1> DEFINE c2 == Append(cc, f)
           n == Len(cc) + 1
<1>1. /\ Len(cc) \in Nat /\ DOMAIN cc = 1 .. Len(cc) /\ DOMAIN c2 = 1 .. n
      /\ c2[n] = f /\ \A k \in DOMAIN cc : c2[k] = cc[k]
  BY DEF ListOK
<1>2. n \in DOMAIN c2 /\ \A k \in DOMAIN c2 : k \in DOMAIN cc \/ k = n
  BY <1>1
<1>3. DOMAIN cc \subseteq DOMAIN c2
  BY <1>1
<1> HIDE DEF c2, n
<1>4. /\ \A k \in DOMAIN c2 : Live(d, c2[k].slot) /\ d[c2[k].slot].name = c2[k].name
      /\ \A k \in DOMAIN c2 : c2[k].name \in Names => c2[k].cluster >= 3
  BY <1>1, <1>2 DEF Scanned
<1>5. SlotsIn(c2) = SlotsIn(cc) \cup {m}
  <2>1. SlotsIn(cc) \subseteq SlotsIn(c2)
    BY <1>1, <1>3 DEF SlotsIn
  <2>2. m \in SlotsIn(c2)
    BY <1>1, <1>2 DEF SlotsIn
  <2>3. SlotsIn(c2) \subseteq SlotsIn(cc) \cup {m}
    BY <1>1, <1>2 DEF SlotsIn
  <2> QED
    BY <2>1, <2>2, <2>3
<1>6. \A s \in 0 .. (m + 1) - 1 : Live(d, s) => s \in SlotsIn(c2)
  <2>1. m \in Nat
    BY DEF Slots
  <2>2. \A s \in 0 .. (m + 1) - 1 : s \in 0 .. m - 1 \/ s = m
    BY <2>1
  <2> QED
    BY <1>5, <2>2 DEF Scanned
<1>7. \E k \in DOMAIN c2 : 2 \in c2[k].fat_list
  <2>1. CASE m # 0
    <3>1. PICK k \in DOMAIN cc : 2 \in cc[k].fat_list
      BY <2>1 DEF Scanned, Slots
    <3> QED
      BY <1>1, <1>3, <3>1
  <2>2. CASE 2 \in f.fat_list
    BY <1>1, <1>2, <2>2
  <2> QED
    BY <2>1, <2>2
<1>8. Scanned(c2, d, m + 1)
  BY <1>4, <1>6, <1>7, Zenon DEF Scanned
<1> QED
  BY <1>8 DEF c2

\* An entry that is not in use adds nothing.
LEMMA ScannedSkip ==
  ASSUME NEW cc, NEW d, NEW m \in Slots, Scanned(cc, d, m), ~Live(d, m), Live(d, 0)
  PROVE  Scanned(cc, d, m + 1)
<1>1. m \in Nat /\ m # 0
  BY DEF Slots
<1>2. \A s \in 0 .. (m + 1) - 1 : s \in 0 .. m - 1 \/ s = m
  BY <1>1
<1> QED
  BY <1>1, <1>2 DEF Scanned

\* The scan goes on with the next slot, or it is over and the files can be aimed.
LEMMA ScanNext ==
  ASSUME Cells, TypeInv, DirInv, geo # NoGeo, GeoOK(geo), fpc' \in {"entry", "idle"},
         ListOK(cache'), file' = NoFile, geo' = geo, Contents' = Contents, card' = card,
         output_sector_addr' = 0, Dir(geo, Contents) = Dir(geo, card),
         NEW m \in 1 .. MaxEntries, Scanned(cache', Dir(geo, card), m),
         fpc' = "entry" => j' = m,
         fpc' = "idle" => m = MaxEntries \/ Dir(geo, card)[m].mark = "unused"
  PROVE  ScanInv' /\ CacheInv'
<1>1. ScanInv'
  BY DEF ScanInv, Ended
<1>2. CASE fpc' = "entry"
  BY <1>1, <1>2 DEF CacheInv, Mounting
<1>3. CASE fpc' = "idle"
  <2> DEFINE d == Dir(geo, card)
  <2>1. d \in Dirs /\ Labelled(d) /\ RoomIn(d) > 0
    <3>1. card \in [Sector -> Block]
      BY DEF TypeInv, TInv, IOTypeOK
    <3>2. DirOK(d, failures) /\ failures \in 0 .. MaxFailures
      BY DEF DirInv, DiskOK, TypeInv, PhaseInv
    <3>3. d \in Dirs /\ RoomIn(d) \in Nat
      BY <3>1, DirsType, VacantFinite
    <3> HIDE DEF d
    <3> QED
      BY <3>2, <3>3, EntriesAssumption DEF DirOK
  <2>2. m = MaxEntries \/ ~Live(d, m)
    BY <1>3 DEF Live
  <2>3. Scanned(cache', d, m)
    OBVIOUS
  <2>4. Dir(geo, Contents)' = d
    OBVIOUS
  <2> HIDE DEF d
  <2>5. \A name \in Names : Aimed(cache', name) /\ Spared(cache', d, name)
    BY <2>1, <2>2, <2>3, ScanEnds
  <2> QED
    BY <1>1, <2>4, <2>5 DEF CacheInv
<1> QED
  BY <1>1, <1>2, <1>3

\* What is read while the volume is scanned
LEMMA ScanView ==
  ASSUME TypeInv, fpc \in {"entry", "fat"}
  PROVE  /\ geo # NoGeo /\ GeoOK(geo) /\ file = NoFile /\ j \in Slots
         /\ j + 1 \in 1 .. MaxEntries
         /\ ListOK(cache) /\ Dir(geo, Contents) = Dir(geo, card)
         /\ output_sector_addr = 0
         /\ fpc \in Mounting /\ WalkInv /\ failures \in Nat
<1>1. /\ geo # NoGeo /\ GeoOK(geo) /\ file = NoFile /\ j \in Slots
      /\ j + 1 \in 1 .. MaxEntries
      /\ output_sector_addr = 0 /\ fpc \in Mounting /\ WalkInv /\ failures \in Nat
  BY EntriesAssumption DEF TypeInv, PhaseInv, GeoInv, UserInv, WalkInv, MountInv,
     Mounting, Slots
<1>2. ListOK(cache)
  BY <1>1 DEF ListOK, WalkInv
<1>3. \A s \in Sector \ {0} : Contents[s] = card[s]
  BY <1>1 DEF Contents
<1> QED
  BY <1>1, <1>2, <1>3, DirSame

-----------------------------------------------------------------------------
\* fat32_parse_entry keeps the invariant: every entry in use is going to be listed.
LEMMA KeepReadEntry ==
  ASSUME NSectors <= ADDR_SPAN, Cells, TypeInv, KeepBody, sound', ReadEntry
  PROVE  KeepBody'
<1> USE DEF ReadEntry, Returned, user
<1> DEFINE d == AsEntry(Got)
           D == Dir(geo, card)
<1>1. /\ fpc = "entry" /\ pc = "idle" /\ geo # NoGeo /\ GeoOK(geo) /\ file = NoFile
      /\ j \in Slots
      /\ j + 1 \in 1 .. MaxEntries /\ ListOK(cache) /\ Dir(geo, Contents) = D
      /\ output_sector_addr = 0 /\ fpc \in Mounting /\ failures \in Nat
      /\ geo' = geo /\ cache' = cache /\ file' = file
  BY ScanView
<1>2. ret = "ok" /\ e' = d /\ d = D[j]
  <2>1. ret = "ok" /\ e' = d
    OBVIOUS
  <2> QED
    BY <1>1, <2>1 DEF TypeInv, MountInv
<1>3. Scanned(cache, D, j) /\ Labelled(D) /\ Live(D, 0)
  BY <1>1 DEF KeepBody, ScanInv, DirInv, DiskOK, DirOK, Labelled
<1>4. \/ d.mark = "unused" /\ Done /\ UNCHANGED <<j, curr, chain>>
      \/ Skipped(d) /\ NextEntry
      \/ /\ d.mark = "live" /\ curr' = d.first + 2 /\ chain' = {} /\ fpc' = "fat" /\ j' = j
         /\ IoCall("read", FatPlace(geo, d.first + 2), 1)
  BY <1>2 DEF Skip
<1>5. Clustered(d)
  BY <1>1, <1>2, <1>3 DEF Labelled, Own, Live, Clustered
<1> HIDE DEF d, D
<1>6. ASSUME Contents' = Contents, UNCHANGED <<card, inVars, failures>>,
             fpc' \in {"idle", "entry", "fat"}
      PROVE  DirInv' /\ EntryInv' /\ WriteInv'
  <2>1. DirInv'
    BY <1>1, <1>6, DirFrame DEF KeepBody
  <2>2. EntryInv'
    BY <1>1, <1>2, <1>5, <1>6, EntryFrame DEF KeepBody
  <2> QED
    BY <1>1, <2>1, <2>2 DEF WriteInv
<1>7. CASE d.mark = "unused" /\ Done /\ UNCHANGED <<j, curr, chain>>
  <2>1. Contents' = Contents /\ UNCHANGED <<card, inVars, failures>> /\ fpc' = "idle"
    BY <1>7 DEF Done, job, Contents, outVars
  <2>2. j \in 1 .. MaxEntries /\ D[j].mark = "unused"
    <3>1. D[j].mark = "unused" /\ ~Live(D, j)
      BY <1>2, <1>7 DEF Live
    <3> QED
      BY <1>1, <1>3, <3>1, EntriesAssumption DEF Slots
  <2>3. /\ Scanned(cache', Dir(geo, card), j) /\ ListOK(cache')
        /\ Dir(geo, Contents) = Dir(geo, card)
        /\ Dir(geo, card)[j].mark = "unused"
        /\ output_sector_addr' = 0
    BY <1>1, <1>3, <1>7, <2>2 DEF D, Done, outVars
  <2>4. ScanInv' /\ CacheInv'
    BY <1>1, <2>1, <2>2, <2>3, ScanNext DEF KeepBody
  <2> QED
    BY <1>6, <2>1, <2>4 DEF KeepBody
<1>8. CASE Skipped(d) /\ NextEntry
  <2>1. /\ Contents' = Contents /\ UNCHANGED <<card, inVars, outVars, failures, ret>>
        /\ j' = j + 1
        /\ \/ j + 1 = MaxEntries /\ fpc' = "idle"
           \/ fpc' = "entry"
    BY <1>1, <1>8, NextEffect, EntriesAssumption DEF TypeInv, NextEntry
  <2>2. ~Live(D, j)
    BY <1>2, <1>8 DEF Live, Skipped
  <2>3. Scanned(cache, D, j + 1)
    BY <1>1, <1>3, <2>2, ScannedSkip
  <2>4. /\ Scanned(cache', Dir(geo, card), j + 1) /\ ListOK(cache')
        /\ Dir(geo, Contents) = Dir(geo, card) /\ output_sector_addr' = 0
    BY <1>1, <2>1, <2>3 DEF D, outVars
  <2>5. ScanInv' /\ CacheInv'
    BY <1>1, <2>1, <2>4, ScanNext DEF KeepBody
  <2> QED
    BY <1>6, <2>1, <2>5 DEF KeepBody
<1>9. CASE /\ d.mark = "live" /\ curr' = d.first + 2 /\ chain' = {} /\ fpc' = "fat"
           /\ j' = j
           /\ IoCall("read", FatPlace(geo, d.first + 2), 1)
  <2>1. Contents' = Contents /\ UNCHANGED <<card, inVars, failures>>
    BY <1>1, <1>9 DEF IoCall, Contents, outVars
  <2>2. ScanInv'
    BY <1>1, <1>2, <1>3, <1>9, <2>1 DEF ScanInv, D
  <2>3. CacheInv'
    BY <1>1, <1>9 DEF CacheInv, Mounting
  <2> QED
    BY <1>6, <1>9, <2>1, <2>2, <2>3 DEF KeepBody
<1> QED
  BY <1>4, <1>7, <1>8, <1>9

\* fat32_get_fat keeps the invariant: the entry is listed with the clusters of its
\* chain, cluster 2 with the label.
LEMMA KeepReadFat ==
  ASSUME NSectors <= ADDR_SPAN, Cells, TypeInv, KeepBody, sound', ReadFat
  PROVE  KeepBody'
<1> USE DEF ReadFat, Returned, user
<1> DEFINE D == Dir(geo, card)
           next == AsFat(Got)
<1>1. /\ fpc = "fat" /\ pc = "idle" /\ geo # NoGeo /\ GeoOK(geo) /\ file = NoFile
      /\ j \in Slots
      /\ j + 1 \in 1 .. MaxEntries /\ ListOK(cache) /\ Dir(geo, Contents) = D
      /\ output_sector_addr = 0 /\ fpc \in Mounting /\ failures \in Nat /\ WalkInv
      /\ geo' = geo /\ file' = file /\ e' = e
  BY ScanView
<1>2. /\ chain' = chain \cup {curr}
      /\ \/ /\ local' = [name |-> e.name, slot |-> j, cluster |-> e.first + 2, fat_list |-> chain']
            /\ Push(local') /\ NextEntry
         \/ /\ curr' = next /\ UNCHANGED <<fpc, j, cache>>
            /\ IoCall("read", FatPlace(geo, next), 1)
  OBVIOUS
<1>3. /\ Scanned(cache, D, j) /\ Labelled(D) /\ Live(D, 0) /\ e = D[j]
      /\ e.mark = "live"
      /\ e.first + 2 \in chain \cup {curr} /\ Clustered(e)
  BY <1>1 DEF KeepBody, ScanInv, DirInv, DiskOK, DirOK, Labelled, EntryInv, TypeInv,
     MountInv
<1> HIDE DEF D, next
<1>4. ASSUME Contents' = Contents, UNCHANGED <<card, inVars, failures>>,
             fpc' \in {"idle", "entry", "fat"}
      PROVE  DirInv' /\ EntryInv' /\ WriteInv'
  <2>1. DirInv'
    BY <1>1, <1>4, DirFrame DEF KeepBody
  <2>2. EntryInv'
    BY <1>1, <1>3, <1>4, EntryFrame DEF KeepBody
  <2> QED
    BY <1>1, <2>1, <2>2 DEF WriteInv
<1>5. CASE /\ local' = [name |-> e.name, slot |-> j, cluster |-> e.first + 2, fat_list |-> chain']
           /\ Push(local') /\ NextEntry
  <2> DEFINE f == [name |-> e.name, slot |-> j, cluster |-> e.first + 2, fat_list |-> chain']
  <2>1. cache' = Append(cache, f)
    BY <1>5 DEF Push
  <2>2. /\ f \in FileCopy /\ f.slot = j /\ f.name = e.name /\ f.cluster = e.first + 2
        /\ f.fat_list = chain'
    <3>1. e \in EntryRec /\ chain' \in Clusters
      BY <1>1, <1>2, ClusterAdded DEF WalkInv
    <3> QED
      BY <1>1, <3>1 DEF FileCopy, EntryRec, Slots
  <2> HIDE DEF f
  <2>3. f.name \in Names => f.cluster >= 3
    BY <1>1, <1>3, <2>2 DEF Clustered, WalkInv, EntryRec
  <2>4. j # 0 \/ 2 \in f.fat_list
    BY <1>2, <1>3, <2>2 DEF Labelled
  <2>5. Live(D, j) /\ f.name = D[j].name
    BY <1>3, <2>2 DEF Live
  <2>6. Scanned(Append(cache, f), D, j + 1)
    BY <1>1, <1>3, <2>2, <2>3, <2>4, <2>5, ScannedMore
  <2>7. ListOK(cache')
    <3>1. cache' \in Seq(FileCopy) /\ \A k \in DOMAIN cache' : k \in DOMAIN cache \/ cache'[k] = f
      BY <1>1, <2>1, <2>2 DEF ListOK
    <3>2. \A k \in DOMAIN cache : k \in DOMAIN cache' /\ cache'[k] = cache[k]
      BY <1>1, <2>1, <2>2 DEF ListOK
    <3> QED
      BY <1>1, <2>2, <3>1, <3>2 DEF ListOK
  <2>8. /\ Contents' = Contents /\ UNCHANGED <<card, inVars, outVars, failures, ret>>
        /\ j' = j + 1
        /\ \/ j + 1 = MaxEntries /\ fpc' = "idle"
           \/ fpc' = "entry"
    BY <1>1, <1>5, NextEffect, EntriesAssumption DEF TypeInv, NextEntry
  <2>9. /\ Scanned(cache', Dir(geo, card), j + 1) /\ Dir(geo, Contents) = Dir(geo, card)
        /\ output_sector_addr' = 0
    BY <1>1, <2>1, <2>6, <2>8 DEF D, outVars
  <2>10. ScanInv' /\ CacheInv'
    BY <1>1, <2>7, <2>8, <2>9, ScanNext DEF KeepBody
  <2> QED
    BY <1>4, <2>8, <2>10 DEF KeepBody
<1>6. CASE /\ curr' = next /\ UNCHANGED <<fpc, j, cache>>
           /\ IoCall("read", FatPlace(geo, next), 1)
  <2>1. Contents' = Contents /\ UNCHANGED <<card, inVars, failures>>
    BY <1>1, <1>6 DEF IoCall, Contents, outVars
  <2>2. ScanInv'
    BY <1>1, <1>2, <1>3, <1>6, <2>1 DEF ScanInv, D
  <2>3. CacheInv'
    BY <1>1, <1>6 DEF CacheInv
  <2> QED
    BY <1>1, <1>4, <1>6, <2>1, <2>2, <2>3 DEF KeepBody
<1> QED
  BY <1>2, <1>5, <1>6

-----------------------------------------------------------------------------
\* The caller's file is in the directory, and not in the place of the label.
LEMMA FileView ==
  ASSUME Cells, TypeInv, KeepBody, file # NoFile
  PROVE  /\ geo # NoGeo /\ GeoOK(geo) /\ fpc \notin Mounting /\ fpc # "off"
         /\ pc # "off"
         /\ file.slot \in Slots \ {0} /\ file.slot \in Nat /\ file.cluster \in Nat
         /\ file.cluster >= 3
         /\ file.name \in Names /\ file.at \in Nat
         /\ Here \in Nat \X Offset /\ Here[1] \in Sector
         /\ Here[1] < geo.cluster_begin_sector + geo.sectors_per_cluster
         /\ DirOK(Dir(geo, Contents), failures) /\ DirOK(Dir(geo, card), failures)
         /\ Dir(geo, Contents) \in Dirs /\ RoomIn(Dir(geo, Contents)) \in Nat
         /\ failures \in Nat
<1>1. /\ geo # NoGeo /\ GeoOK(geo) /\ fpc \notin Mounting /\ fpc # "off" /\ pc # "off"
      /\ file.name \in Names
      /\ file \in FileRec
  BY DEF TypeInv, UserInv, GeoInv, PhaseInv, Mounting
<1>2. file.slot \in Slots \ {0} /\ file.cluster >= 3
  BY <1>1 DEF KeepBody, CacheInv, Aimed
<1>3. file.slot \in Nat /\ file.cluster \in Nat /\ file.at \in Nat
  BY <1>1 DEF FileRec
<1>4. Here \in Nat \X Offset /\ Here[1] \in Sector
      /\ Here[1] < geo.cluster_begin_sector + geo.sectors_per_cluster
  BY <1>1, <1>2, <1>3, EntryPlaceIn DEF Here
<1>5. DirOK(Dir(geo, Contents), failures) /\ DirOK(Dir(geo, card), failures)
  BY <1>1 DEF KeepBody, DirInv, DiskOK
<1>6. Dir(geo, Contents) \in Dirs
  BY <1>1, ContentsType, DirsType DEF TypeInv, TInv
<1>7. RoomIn(Dir(geo, Contents)) \in Nat /\ failures \in Nat
  BY VacantFinite, EntriesAssumption DEF TypeInv, PhaseInv
<1> QED
  BY <1>1, <1>2, <1>3, <1>4, <1>5, <1>6, <1>7

\* Where the output buffer is elsewhere, the card holds what the program sees.
LEMMA SeenOnCard ==
  ASSUME geo # NoGeo, file.slot \in Slots, Here[1] \in Sector,
         output_sector_addr # Here[1]
  PROVE  /\ Contents[Here[1]] = card[Here[1]]
         /\ \A b : b = card[Here[1]] => Current(AsEntry(b[Here[2]]))
<1>1. Contents[Here[1]] = card[Here[1]]
  BY DEF Contents
<1>2. Dir(geo, Contents)[file.slot] = AsEntry(Contents[Here[1]][Here[2]])
  BY DEF Dir, Here
<1> QED
  BY <1>1, <1>2 DEF Current

\* A call that failed pays for the entry it may have spoilt.
LEMMA NowPaid ==
  ASSUME NEW d, NEW n \in Nat, DirOK(d, n), RoomIn(d) \in Nat
  PROVE  RoomIn(d) + (n + 1) > MaxFailures + 1
BY EntriesAssumption DEF DirOK

\* Reading a byte keeps the invariant: the size is read as it is, or a call has
\* failed.
LEMMA KeepGet ==
  ASSUME NSectors <= ADDR_SPAN, Cells, TypeInv, KeepBody, GetByte, Noted,
         UNCHANGED <<fpc, geo, cache, walk, e, user, sound>>
  PROVE  KeepBody'
<1> USE DEF walk, user
<1>1. /\ Contents' = Contents /\ UNCHANGED <<card, outVars, op>>
      /\ pc = "busy" /\ op = "read" /\ pc' # "off"
  BY GetEffect DEF TypeInv
<1>2. fpc \in Reading /\ left = 1 /\ moved = << >>
  BY <1>1 DEF TypeInv, PhaseInv
<1>3. \/ pc' = "idle" /\ ret' = "err" /\ moved' = moved /\ UNCHANGED inVars
      \/ /\ pos \in Place /\ pc' = "idle" /\ ret' = "ok"
         /\ Got' = input_sector_buf'[pos[2]]
         /\ input_sector_addr' = pos[1]
         /\ \/ input_sector_buf' = card[pos[1]]
            \/ input_sector_addr = pos[1] /\ input_sector_buf' = input_sector_buf
  BY <1>2, GetEffect, OneMoved DEF TypeInv, Got
<1>4. failures \in Nat /\ failures' \in Nat /\ failures' >= failures
      /\ (ret' = "err" => failures' = failures + 1)
  BY <1>3, NotedType, EntriesAssumption DEF TypeInv, PhaseInv
<1>5. DirInv'
  BY <1>1, <1>4, DirFrame DEF KeepBody
<1>6. ASSUME geo # NoGeo PROVE Good(geo, input_sector_addr', input_sector_buf')
  <2>1. Good(geo, input_sector_addr, input_sector_buf)
    BY <1>6 DEF KeepBody, EntryInv
  <2>2. CASE UNCHANGED inVars
    BY <2>1, <2>2 DEF inVars
  <2>3. CASE input_sector_addr' = pos[1] /\ input_sector_buf' = card[pos[1]]
    <3>1. GeoOK(geo) /\ Labelled(Dir(geo, card))
      BY <1>6 DEF TypeInv, GeoInv, KeepBody, DirInv, DiskOK, DirOK
    <3> QED
      BY <2>3, <3>1, EntriesGood
  <2> QED
    BY <1>3, <2>1, <2>2, <2>3 DEF inVars
<1>7. ASSUME fpc = "size" PROVE file # NoFile /\ geo # NoGeo /\ pos = Here
  BY <1>1, <1>7 DEF TypeInv, UserInv, PhaseInv, Writing, KeepBody, WriteInv
<1>8. EntryInv'
  <2>1. ASSUME fpc = "size", ret' = "ok" PROVE Clustered(AsEntry(Got'))
    <3>1. file.slot \in Slots /\ Here = EntryPlace(geo, file.slot)
      BY <1>7, <2>1, FileView DEF Here
    <3>2. input_sector_addr' = Here[1] /\ Got' = input_sector_buf'[Here[2]]
      BY <1>3, <1>7, <2>1
    <3> QED
      BY <1>6, <1>7, <2>1, <3>1, <3>2 DEF Good
  <2> QED
    BY <1>6, <2>1 DEF KeepBody, EntryInv
<1>9. ScanInv'
  BY <1>1, <1>2 DEF KeepBody, ScanInv, Reading
<1>10. CacheInv'
  BY <1>1, CacheFrame DEF KeepBody
<1>11. WriteInv'
  <2> SUFFICES ASSUME file # NoFile, fpc = "size" PROVE (Fresh \/ Paid)'
    <3>1. pc' = "idle"
      BY <1>3
    <3> QED
      BY <1>2, <3>1 DEF WriteInv, InWrite, Reading
  <2>1. Fresh \/ Paid
    BY DEF KeepBody, WriteInv, InWrite
  <2>2. /\ RoomIn(Dir(geo, Contents)) \in Nat /\ DirOK(Dir(geo, Contents), failures)
        /\ file.slot \in Slots
        /\ Here[1] \in Sector
    BY FileView
  <2>3. CASE Paid
    <3>1. failures' # 0 /\ RoomIn(Dir(geo, Contents)) + failures' > MaxFailures + 1
      BY <1>4, <2>2, <2>3, EntriesAssumption DEF Paid
    <3> QED
      BY <1>1, <3>1 DEF Paid
  <2>4. CASE ret' = "err"
    <3>1. failures' # 0 /\ RoomIn(Dir(geo, Contents)) + failures' > MaxFailures + 1
      BY <1>4, <2>2, <2>4, NowPaid
    <3> QED
      BY <1>1, <3>1 DEF Paid
  <2>5. CASE Fresh /\ ret' = "ok"
    <3>1. /\ output_sector_addr # Here[1]
          /\ input_sector_addr = Here[1] => input_sector_buf = card[Here[1]]
      BY <1>1, <2>5 DEF Fresh
    <3>2. Got' = input_sector_buf'[Here[2]] /\ input_sector_buf' = card[Here[1]]
      BY <1>3, <1>7, <2>5, <3>1
    <3>3. Current(AsEntry(Got'))
      BY <1>7, <2>2, <3>1, <3>2, SeenOnCard
    <3>4. Current(AsEntry(Got))'
      BY <1>1, <3>3 DEF Current
    <3>5. pc' = "idle" /\ fpc' = "size"
      BY <1>3
    <3> QED
      BY <2>5, <3>4, <3>5 DEF Fresh
  <2> QED
    BY <1>3, <2>1, <2>3, <2>4, <2>5
<1> QED
  BY <1>5, <1>8, <1>9, <1>10, <1>11 DEF KeepBody

\* What is written in the place of an entry is an entry with a cluster, and takes
\* no room, unless what was read of it failed.
LEMMA OutputEntry ==
  ASSUME Cells, TypeInv, KeepBody, fpc \in {"creat", "resize"}, pc = "busy",
         file # NoFile
  PROVE  /\ AsEntry(Output) = Output /\ Clustered(Output)
         /\ ~Taken(Output) \/ Taken(Dir(geo, Contents)[file.slot]) \/ Paid
<1>1. file.name \in Names /\ file.cluster \in Nat /\ file.cluster >= 3
  BY FileView
<1>2. CASE fpc = "creat"
  <2> DEFINE x == Entry("live", file.name, file.cluster, 0)
  <2>1. /\ Output = x /\ x.kind = "entry" /\ x.mark = "live" /\ x.name = file.name
        /\ x.first = file.cluster
    BY <1>2 DEF Output, Entry
  <2> HIDE DEF x
  <2> QED
    BY <1>1, <2>1 DEF AsEntry, Clustered, Taken
<1>3. CASE fpc = "resize"
  <2> DEFINE x == [e EXCEPT !.size = e.size + nbytes]
  <2>1. e \in EntryRec /\ Clustered(e)
    BY DEF TypeInv, WalkInv, KeepBody, EntryInv
  <2>2. /\ Output = x /\ x.kind = "entry" /\ x.mark = e.mark /\ x.name = e.name
        /\ x.first = e.first
    BY <1>3, <2>1 DEF Output, EntryRec
  <2>3. Current(e) \/ Paid
    BY <1>3 DEF KeepBody, WriteInv, InWrite, Fresh
  <2> HIDE DEF x
  <2> QED
    BY <2>1, <2>2, <2>3 DEF AsEntry, Clustered, Taken, Current
<1> QED
  BY <1>2, <1>3

\* One byte that is written leaves the directory as it should be.
LEMMA DirAfterPut ==
  ASSUME NSectors <= ADDR_SPAN, Cells, TypeInv, KeepBody, file # NoFile, pc = "busy",
         op = "write",
         pos \in Place, Contents' = [Contents EXCEPT ![pos[1]][pos[2]] = Output]
  PROVE  /\ DirOK(Dir(geo, Contents'), failures)
         /\ \A s \in Slots \ {file.slot} : Dir(geo, Contents')[s] = Dir(geo, Contents)[s]
         /\ fpc = "data" => Dir(geo, Contents') = Dir(geo, Contents)
         /\ fpc # "data" => Dir(geo, Contents')[file.slot] = Output
<1> DEFINE d == Dir(geo, Contents)
           v == Output
<1>1. fpc \in {"creat", "resize", "data"}
  BY DEF TypeInv, PhaseInv
<1>2. /\ geo # NoGeo /\ GeoOK(geo) /\ file.slot \in Slots \ {0} /\ file.slot \in Slots
      /\ DirOK(d, failures) /\ d \in Dirs /\ RoomIn(d) \in Nat /\ failures \in Nat
  BY FileView
<1>3. Contents \in [Sector -> Block]
  BY ContentsType DEF TypeInv, TInv
<1>4. CASE fpc = "data"
  <2>1. pos[1] >= geo.cluster_begin_sector + geo.sectors_per_cluster
    BY <1>4 DEF KeepBody, WriteInv
  <2> HIDE DEF v
  <2>2. Dir(geo, [Contents EXCEPT ![pos[1]][pos[2]] = v]) = d
    BY <1>2, <1>3, <2>1, DirAfterData
  <2>3. Dir(geo, Contents') = d
    BY <2>2 DEF v
  <2> QED
    BY <1>2, <1>4, <2>3
<1>5. CASE fpc \in {"creat", "resize"}
  <2>1. pos = EntryPlace(geo, file.slot)
    BY <1>5 DEF KeepBody, WriteInv, Here
  <2>2. /\ AsEntry(v) = v /\ Clustered(v)
        /\ ~Taken(v) \/ Taken(d[file.slot]) \/ Paid
    BY <1>5, OutputEntry
  <2>3. Contents' = [Contents EXCEPT ![pos[1]][pos[2]] = v]
    OBVIOUS
  <2> DEFINE d2 == [d EXCEPT ![file.slot] = v]
  <2> HIDE DEF v
  <2>4. Dir(geo, Contents') = d2
    <3>1. /\ Contents'[pos[1]][pos[2]] = v
          /\ \A a \in Sector, o \in Offset :
               a # pos[1] \/ o # pos[2] => Contents'[a][o] = Contents[a][o]
      BY <1>3, <2>3 DEF Place, Block
    <3>2. /\ Dir(geo, Contents')[file.slot] = v
          /\ \A s \in Slots \ {file.slot} : Dir(geo, Contents')[s] = d[s]
      <4> DEFINE c == Contents
                 c2 == Contents'
                 t == file.slot
      <4>1. GeoOK(geo) /\ t \in Slots /\ AsEntry(v) = v /\ pos = EntryPlace(geo, t)
        BY <1>2, <2>1, <2>2
      <4>2. /\ c2[pos[1]][pos[2]] = v
            /\ \A a \in Sector, o \in Offset :
                 a # pos[1] \/ o # pos[2] => c2[a][o] = c[a][o]
        BY <3>1
      <4> HIDE DEF c, c2, t
      <4>3. Dir(geo, c2)[t] = AsEntry(v) /\ \A s \in Slots \ {t} : Dir(geo, c2)[s] = Dir(geo, c)[s]
        BY <4>1, <4>2, DirAfterEntry
      <4> QED
        BY <4>1, <4>3 DEF c, c2, t
    <3>3. Dir(geo, Contents') = [s \in Slots |-> Dir(geo, Contents')[s]]
      BY DEF Dir
    <3>4. d2 = [s \in Slots |-> IF s = file.slot THEN v ELSE d[s]]
      BY <1>2 DEF Dirs
    <3> HIDE DEF d2, d
    <3> QED
      BY <3>2, <3>3, <3>4
  <2>5. Labelled(d2)
    BY <1>2, <2>2, LabelAfter DEF DirOK
  <2>6. /\ RoomIn(d2) + 1 >= RoomIn(d)
        /\ ~Taken(v) \/ Taken(d[file.slot]) => RoomIn(d2) >= RoomIn(d)
    <3> HIDE DEF d
    <3> QED
      BY <1>2, RoomAfter
  <2>7. RoomIn(d2) + failures > MaxFailures
    <3>1. RoomIn(d2) \in Nat
      BY VacantFinite
    <3>2. Paid => RoomIn(d) + failures > MaxFailures + 1
      BY DEF Paid
    <3>3. RoomIn(d) + failures > MaxFailures
      BY <1>2 DEF DirOK
    <3> HIDE DEF d, d2
    <3> QED
      BY <1>2, <2>2, <2>6, <3>1, <3>2, <3>3, EntriesAssumption
  <2>8. d2[file.slot] = v /\ \A s \in Slots \ {file.slot} : d2[s] = d[s]
    BY <1>2 DEF Dirs
  <2> QED
    BY <1>5, <2>4, <2>5, <2>7, <2>8 DEF DirOK, v
<1> QED
  BY <1>1, <1>4, <1>5

-----------------------------------------------------------------------------
\* Writing a byte keeps the invariant and changes no entry but the file's own.
LEMMA KeepPut ==
  ASSUME NSectors <= ADDR_SPAN, Cells, TypeInv, KeepBody, PutByte(Output), Noted,
         UNCHANGED <<fpc, geo, cache, walk, e, user, sound>>
  PROVE  /\ KeepBody'
         /\ \A s \in Slots \ {file.slot} : Dir(geo, Contents')[s] = Dir(geo, Contents)[s]
<1> USE DEF walk, user
<1>1. pc = "busy" /\ op = "write"
  BY DEF PutByte
<1> DEFINE v == Output
<1>2. v \in Byte
  BY <1>1, OutputType
<1>3. PutByte(v) /\ v = Output
  OBVIOUS
<1> HIDE DEF v
<1>4. /\ UNCHANGED <<inVars, op>>
      /\ pc' # "off" /\ (card' = card \/ card' = Contents)
      /\ \/ pc' = "idle" /\ ret' = "err" /\ Contents' = Contents
         \/ /\ pos \in Place /\ Contents' = [Contents EXCEPT ![pos[1]][pos[2]] = v]
            /\ output_sector_addr' = pos[1]
            /\ \/ pc' = "idle"
               \/ pc' = "busy" /\ left # 1 /\ pos' = NextPlace(pos)
  BY <1>2, <1>3, PutEffect DEF TypeInv
<1>5. /\ fpc \in {"creat", "resize", "data"} /\ file # NoFile
      /\ fpc # "data" => left = 1
  BY <1>1 DEF TypeInv, PhaseInv, UserInv, Writing, Reading
<1>6. /\ geo # NoGeo /\ GeoOK(geo) /\ DirOK(Dir(geo, Contents), failures)
      /\ DirOK(Dir(geo, card), failures)
      /\ Here[1] \in Nat /\ Here[1] < geo.cluster_begin_sector + geo.sectors_per_cluster
      /\ RoomIn(Dir(geo, Contents)) \in Nat
  BY <1>5, FileView DEF Sector
<1>7. failures \in Nat /\ failures' \in Nat /\ failures' >= failures
      /\ (pc' = "idle" /\ ret' = "err" => failures' = failures + 1)
  BY NotedType, EntriesAssumption DEF TypeInv, PhaseInv
<1>8. TypeInv'
  BY TypePut
<1>9. /\ DirOK(Dir(geo, Contents'), failures)
      /\ \A s \in Slots \ {file.slot} : Dir(geo, Contents')[s] = Dir(geo, Contents)[s]
  <2>1. CASE Contents' = Contents
    BY <1>6, <2>1
  <2>2. CASE pos \in Place /\ Contents' = [Contents EXCEPT ![pos[1]][pos[2]] = v]
    BY <1>1, <1>3, <1>5, <2>2, DirAfterPut
  <2> QED
    BY <1>4, <2>1, <2>2
<1>10. DirInv'
  <2>1. Placed(card') /\ Placed(Contents')
    BY <1>8 DEF TypeInv, GeoInv, Placed
  <2>2. DirOK(Dir(geo, card'), failures)
    BY <1>4, <1>6
  <2>3. DiskOK(card', geo, failures) /\ DiskOK(Contents', geo, failures)
    BY <1>6, <1>9, <2>1, <2>2, OneDisk
  <2>4. DiskOK(card', geo, failures') /\ DiskOK(Contents', geo, failures')
    BY <1>7, <2>3, MoreFailures
  <2> QED
    BY <2>4 DEF DirInv
<1>11. EntryInv'
  BY <1>4, <1>5, EntryFrame DEF KeepBody, EntryInv
<1>12. ScanInv'
  BY <1>5 DEF ScanInv
<1>13. CacheInv'
  BY <1>5, CacheFrame DEF KeepBody
<1>14. WriteInv'
  <2>1. ASSUME pc' = "busy" PROVE fpc = "data" /\ pos'[1] >= geo.cluster_begin_sector + geo.sectors_per_cluster
    <3>1. fpc = "data" /\ pos' = NextPlace(pos) /\ pos \in Place
      BY <1>4, <1>5, <2>1
    <3>2. pos[1] >= geo.cluster_begin_sector + geo.sectors_per_cluster
      BY <1>1, <1>5, <3>1 DEF KeepBody, WriteInv
    <3> QED
      BY <1>6, <3>1, <3>2, CardAssumption DEF NextPlace, Place, Sector, Offset, GeoOK
  <2>2. ASSUME pc' = "idle", fpc = "data" PROVE (Fresh \/ Paid)'
    <3>1. CASE ret' = "err" /\ Contents' = Contents
      <4>1. failures' # 0 /\ RoomIn(Dir(geo, Contents)) + failures' > MaxFailures + 1
        BY <1>6, <1>7, <2>2, <3>1, NowPaid
      <4> QED
        BY <3>1, <4>1 DEF Paid
    <3>2. CASE output_sector_addr' = pos[1] /\ pos \in Place
      <4>1. pos[1] >= geo.cluster_begin_sector + geo.sectors_per_cluster
        BY <1>1, <1>5, <2>2 DEF KeepBody, WriteInv
      <4>2. output_sector_addr' # Here[1]
        BY <1>6, <3>2, <4>1 DEF Place, Sector, GeoOK
      <4>3. Here' = Here /\ fpc' = "data"
        BY <2>2 DEF Here
      <4> QED
        BY <2>2, <4>2, <4>3 DEF Fresh
    <3> QED
      BY <1>4, <3>1, <3>2
  <2> QED
    BY <1>4, <1>5, <2>1, <2>2 DEF WriteInv, InWrite
<1> QED
  BY <1>9, <1>10, <1>11, <1>12, <1>13, <1>14 DEF KeepBody

\* The two flushes keep the invariant: the sector of the entry is read anew.
LEMMA KeepFlush ==
  ASSUME NSectors <= ADDR_SPAN, Cells, TypeInv, KeepBody, FlushInput \/ FlushOutput
  PROVE  KeepBody'
<1> USE DEF FlushInput, FlushOutput, Returned, walk, user
<1>0. /\ fpc \in {"data", "flush"} /\ pc = "idle"
      /\ UNCHANGED <<geo, cache, e, file>>
  OBVIOUS
<1>1. /\ pc = "idle" /\ pc' = "idle" /\ file # NoFile
      /\ \/ fpc = "data" /\ fpc' = "flush" /\ FlushRead
         \/ fpc = "flush" /\ fpc' = "flushed" /\ FlushWrite
      /\ UNCHANGED <<geo, cache, e, file, outVars, input_sector_addr>>
  <2>1. file # NoFile
    BY <1>0 DEF TypeInv, UserInv, Writing
  <2>2. \/ fpc = "data" /\ fpc' = "flush" /\ FlushRead
        \/ fpc = "flush" /\ fpc' = "flushed" /\ FlushWrite
    OBVIOUS
  <2>3. pc' = "idle" /\ UNCHANGED <<outVars, input_sector_addr>>
    BY <2>2 DEF FlushRead, FlushWrite, inVars
  <2> QED
    BY <1>0, <2>1, <2>2, <2>3
<1>2. Contents' = Contents
  <2>1. ~PowerOn /\ ~PowerCut /\ [Next]_vars /\ \A v \in Byte : ~PutByte(v)
    BY <1>1 DEF PowerOn, PowerCut, PutByte, Next
  <2> QED
    BY <2>1, ContentsKept DEF TypeInv
<1>3. card' = card \/ card' = Contents
  BY <1>1, FlushedIsContents DEF FlushRead, FlushWrite, TypeInv, TInv
<1>4. failures \in Nat /\ failures' \in Nat /\ failures' >= failures
      /\ (ret' = "err" => failures' = failures + 1)
  BY <1>1, NotedType, EntriesAssumption DEF TypeInv, PhaseInv
<1>5. /\ geo # NoGeo /\ GeoOK(geo) /\ file.slot \in Slots /\ Here[1] \in Sector
      /\ DirOK(Dir(geo, Contents), failures) /\ RoomIn(Dir(geo, Contents)) \in Nat
      /\ Labelled(Dir(geo, card))
  BY <1>1, FileView DEF DirOK
<1>6. DirInv'
  <2>1. DiskOK(card', geo, failures') /\ DiskOK(Contents, geo, failures')
    BY <1>3, <1>4, MoreFailures DEF KeepBody, DirInv
  <2> QED
    BY <1>1, <1>2, <2>1 DEF DirInv
<1>7. EntryInv'
  <2>1. Good(geo, input_sector_addr, input_sector_buf')
    <3>1. CASE input_sector_buf' = card[input_sector_addr]
      BY <1>5, <3>1, EntriesGood
    <3>2. CASE input_sector_buf' = input_sector_buf
      BY <1>5, <3>2 DEF KeepBody, EntryInv
    <3> QED
      BY <1>1, <3>1, <3>2 DEF FlushRead, FlushWrite, inVars
  <2> QED
    BY <1>1, <2>1 DEF KeepBody, EntryInv
<1>8. ScanInv' /\ CacheInv'
  BY <1>1, <1>2, CacheFrame DEF KeepBody, ScanInv, Mounting
<1>9. WriteInv'
  <2>1. Fresh \/ Paid
    BY <1>1 DEF KeepBody, WriteInv, InWrite
  <2>2. CASE Paid
    <3>1. failures' # 0 /\ RoomIn(Dir(geo, Contents)) + failures' > MaxFailures + 1
      BY <1>4, <1>5, <2>2, EntriesAssumption DEF Paid
    <3>2. Paid'
      BY <1>1, <1>2, <3>1 DEF Paid
    <3> QED
      BY <1>1, <3>2 DEF WriteInv
  <2>3. CASE ret' = "err"
    <3>1. failures' # 0 /\ RoomIn(Dir(geo, Contents)) + failures' > MaxFailures + 1
      BY <1>4, <1>5, <2>3, NowPaid
    <3>2. Paid'
      BY <1>1, <1>2, <3>1 DEF Paid
    <3> QED
      BY <1>1, <3>2 DEF WriteInv
  <2>4. CASE Fresh /\ ret' = "ok"
    <3>1. output_sector_addr # Here[1]
      BY <1>1, <2>4 DEF Fresh
    <3>2. Contents[Here[1]] = card[Here[1]]
      BY <1>5, <3>1, SeenOnCard
    <3>3. card'[Here[1]] = card[Here[1]]
      BY <1>3, <3>2
    <3>4. input_sector_addr = Here[1] => input_sector_buf' = card[Here[1]]
      <4>1. CASE FlushRead
        BY <2>4, <4>1 DEF FlushRead
      <4>2. CASE fpc = "flush" /\ FlushWrite
        BY <2>4, <4>2 DEF FlushWrite, inVars, Fresh
      <4> QED
        BY <1>1, <4>1, <4>2
    <3>5. Here' = Here /\ output_sector_addr' = output_sector_addr
      BY <1>1 DEF Here, outVars
    <3>6. Fresh'
      BY <1>1, <3>1, <3>3, <3>4, <3>5 DEF Fresh
    <3> QED
      BY <1>1, <3>6 DEF WriteInv
  <2>5. ret' \in {"ok", "err"}
    BY <1>1 DEF FlushRead, FlushWrite
  <2> QED
    BY <2>1, <2>2, <2>3, <2>4, <2>5
<1> QED
  BY <1>6, <1>7, <1>8, <1>9 DEF KeepBody

-----------------------------------------------------------------------------
\* fat32_update_file_size keeps the invariant, also when it writes what is on the
\* stack because the read has failed (fat.c:602-624).
LEMMA KeepSize ==
  ASSUME NSectors <= ADDR_SPAN, Cells, TypeInv, KeepBody, ReadSize \/ WriteSize
  PROVE  KeepBody'
<1> USE DEF Returned, walk, user
<1>1. /\ fpc \in {"flushed", "size"} /\ pc = "idle" /\ file # NoFile
      /\ UNCHANGED <<geo, cache, file>>
  BY DEF TypeInv, UserInv, Writing, ReadSize, WriteSize
<1>2. /\ Contents' = Contents /\ UNCHANGED <<card, inVars, outVars, failures>>
      /\ pc' = "busy" /\ pos' = Here
  BY <1>1 DEF ReadSize, WriteSize, IoCall, Contents, outVars, Here
<1>3. failures \in Nat
  BY EntriesAssumption DEF TypeInv, PhaseInv
<1>4. DirInv'
  BY <1>1, <1>2, <1>3, DirFrame DEF KeepBody
<1>5. ScanInv' /\ CacheInv'
  BY <1>1, <1>2, CacheFrame DEF KeepBody, ScanInv, Mounting, ReadSize, WriteSize
<1>6. Fresh \/ Paid
  BY <1>1 DEF KeepBody, WriteInv, InWrite
<1>7. Paid => Paid'
  BY <1>1, <1>2 DEF Paid
<1>8. Here' = Here
  BY <1>1 DEF Here
<1>9. CASE ReadSize
  <2>1. fpc = "flushed" /\ fpc' = "size" /\ e' = e
    BY <1>9 DEF ReadSize
  <2>2. EntryInv'
    BY <1>1, <1>2, <2>1, EntryFrame DEF KeepBody, EntryInv
  <2>3. Fresh => Fresh'
    BY <1>2, <1>8, <2>1 DEF Fresh, inVars, outVars
  <2> QED
    BY <1>1, <1>2, <1>4, <1>5, <1>6, <1>7, <1>8, <2>1, <2>2, <2>3 DEF KeepBody, WriteInv
<1>10. CASE WriteSize
  <2>1. /\ fpc = "size" /\ fpc' = "resize"
        /\ e' \in IF ret = "ok" THEN {AsEntry(Got)} ELSE {e, Entry("live", "junk", 0, 0)}
    BY <1>10 DEF WriteSize
  <2>2. Clustered(e')
    BY <1>1, <2>1, JunkClustered DEF KeepBody, EntryInv
  <2>3. EntryInv'
    BY <1>1, <1>2, <2>1, <2>2, EntryFrame DEF KeepBody
  <2>4. Fresh => Fresh'
    <3>1. Fresh => e' = AsEntry(Got) /\ Current(AsEntry(Got))
      BY <1>1, <2>1 DEF Fresh
    <3>2. Fresh => Current(e)'
      BY <1>1, <1>2, <3>1 DEF Current
    <3> QED
      BY <2>1, <3>2 DEF Fresh
  <2> QED
    BY <1>1, <1>2, <1>4, <1>5, <1>6, <1>7, <1>8, <2>1, <2>3, <2>4 DEF KeepBody, WriteInv
<1> QED
  BY <1>9, <1>10

\* The end of a call keeps the invariant.
LEMMA KeepFinish ==
  ASSUME NSectors <= ADDR_SPAN, Cells, TypeInv, KeepBody, Finish
  PROVE  KeepBody'
<1> USE DEF Finish, Returned, walk, vars
<1>1. fpc \in {"creat", "resize"} /\ fpc' = "idle" /\ pc = "idle" /\ file # NoFile
  BY DEF TypeInv, UserInv, Writing
<1>2. /\ UNCHANGED <<card, inVars, outVars, failures, pc, geo, cache, e>>
      /\ file' = [file EXCEPT !.at = file.at + nbytes]
  BY DEF job
<1>3. Contents' = Contents /\ failures \in Nat
  BY <1>2, EntriesAssumption DEF Contents, outVars, TypeInv, PhaseInv
<1>4. /\ file'.name = file.name /\ file'.slot = file.slot /\ file'.cluster = file.cluster
      /\ file' # NoFile
  <2>1. file \in FileRec /\ file.name \in Names
    BY <1>1 DEF TypeInv, UserInv
  <2>2. file'.name = file.name /\ file'.slot = file.slot /\ file'.cluster = file.cluster
    BY <1>2, <2>1 DEF FileRec
  <2> QED
    BY <2>1, <2>2 DEF NoFile, Cells
<1>5. DirInv'
  BY <1>2, <1>3, DirFrame DEF KeepBody
<1>6. EntryInv'
  BY <1>1, <1>2, EntryFrame DEF KeepBody, EntryInv
<1>7. ScanInv' /\ CacheInv'
  BY <1>1, <1>2, <1>4 DEF KeepBody, ScanInv, CacheInv, Mounting
<1>8. WriteInv'
  BY <1>1, <1>2 DEF WriteInv, InWrite
<1> QED
  BY <1>5, <1>6, <1>7, <1>8 DEF KeepBody

\* A file gets the place that its name has in the list.
LEMMA CreatPlace ==
  ASSUME TypeInv, NEW name \in Names, Creat(name)
  PROVE  /\ file'.name = name /\ file'.slot = SlotIn(cache, name)
         /\ file'.cluster = ClusterIn(cache, name)
         /\ \/ fpc' = "idle" /\ pc' = "idle" /\ UNCHANGED <<job, failures>>
            \/ /\ fpc' = "creat" /\ pc' = "busy" /\ failures' = failures
               /\ pos' = EntryPlace(geo, SlotIn(cache, name))
         /\ UNCHANGED <<card, inVars, outVars, geo, cache, e>> /\ Contents' = Contents
         /\ fpc = "idle" /\ pc = "idle" /\ geo # NoGeo
<1> USE DEF Creat, Ready, walk
<1>1. fpc = "idle" /\ pc = "idle" /\ geo # NoGeo /\ UNCHANGED <<geo, cache, e>>
      /\ Cached(name) = Holding(cache, name)
  BY DEF Cached, Holding
<1>2. CASE Cached(name) # {} /\ OpenCached(name)
  <2> DEFINE f == cache[FirstIn(cache, name)]
  <2>1. /\ file' = [name |-> name, slot |-> f.slot, cluster |-> f.cluster, at |-> 0]
        /\ UNCHANGED <<fpc, job, card, inVars, outVars, failures>>
    BY <1>2 DEF OpenCached, FirstIn, Holding, Cached
  <2>2. SlotIn(cache, name) = f.slot /\ ClusterIn(cache, name) = f.cluster
    BY <1>1, <1>2 DEF SlotIn, ClusterIn
  <2>3. pc' = pc /\ Contents' = Contents
    BY <2>1 DEF job, Contents, outVars
  <2> HIDE DEF f
  <2> QED
    BY <1>1, <2>1, <2>2, <2>3
<1>3. CASE Cached(name) = {} /\ CreateNew(name)
  <2> DEFINE n == next_root_dir_loc
             c == next_cluster
  <2>1. SlotIn(cache, name) = n /\ ClusterIn(cache, name) = c
    BY <1>1, <1>3 DEF SlotIn, ClusterIn, next_root_dir_loc, next_cluster, SlotsIn,
       ClustersIn
  <2>2. /\ file' = [name |-> name, slot |-> n, cluster |-> c, at |-> 0]
        /\ fpc' = "creat" /\ IoCall("write", EntryPlace(geo, n), 1)
    BY <1>3 DEF CreateNew
  <2> HIDE DEF n, c
  <2>3. /\ pc' = "busy" /\ pos' = EntryPlace(geo, n)
        /\ UNCHANGED <<card, inVars, outVars, failures>>
    BY <2>2 DEF IoCall
  <2>4. Contents' = Contents
    BY <1>1, <2>3 DEF Contents, outVars
  <2> QED
    BY <1>1, <2>1, <2>2, <2>3, <2>4
<1> QED
  BY <1>2, <1>3

\* fat32_creat_file keeps the invariant.
LEMMA KeepCreat ==
  ASSUME NSectors <= ADDR_SPAN, Cells, TypeInv, KeepBody, NEW name \in Names,
         Creat(name)
  PROVE  KeepBody'
<1>1. /\ file'.name = name /\ file'.slot = SlotIn(cache, name)
      /\ file'.cluster = ClusterIn(cache, name)
      /\ \/ fpc' = "idle" /\ pc' = "idle" /\ UNCHANGED <<job, failures>>
         \/ /\ fpc' = "creat" /\ pc' = "busy" /\ failures' = failures
            /\ pos' = EntryPlace(geo, SlotIn(cache, name))
      /\ UNCHANGED <<card, inVars, outVars, geo, cache, e>> /\ Contents' = Contents
      /\ fpc = "idle" /\ pc = "idle" /\ geo # NoGeo
  BY CreatPlace
<1>2. failures' = failures /\ failures \in Nat /\ file' # NoFile
  BY <1>1, EntriesAssumption DEF TypeInv, PhaseInv, NoFile, Cells
<1>3. DirInv'
  BY <1>1, <1>2, DirFrame DEF KeepBody
<1>4. EntryInv'
  BY <1>1, EntryFrame DEF KeepBody, EntryInv
<1>5. ScanInv' /\ CacheInv'
  BY <1>1, <1>2 DEF KeepBody, ScanInv, CacheInv, Mounting
<1>6. WriteInv'
  <2>1. Here' = EntryPlace(geo, SlotIn(cache, name))
    BY <1>1 DEF Here
  <2> QED
    BY <1>1, <2>1 DEF WriteInv, InWrite
<1> QED
  BY <1>3, <1>4, <1>5, <1>6 DEF KeepBody

\* fat32_write_file_nbytes begins, behind the cluster of the directory.
LEMMA KeepWrite ==
  ASSUME NSectors <= ADDR_SPAN, Cells, TypeInv, KeepBody, NEW n \in 1 .. MaxLen,
         Write(n)
  PROVE  KeepBody'
<1> USE DEF Write, Ready, walk
<1>1. /\ fpc = "idle" /\ fpc' = "data" /\ pc' = "busy" /\ file # NoFile
      /\ UNCHANGED <<geo, cache, e, file>>
  BY DEF IoCall
<1>2. Contents' = Contents /\ UNCHANGED <<card, inVars, outVars, failures>>
      /\ pos' = DataPlace(file.cluster, file.at)
  BY DEF IoCall, Contents, outVars
<1>3. DirInv'
  BY <1>1, <1>2, FileView, DirFrame DEF KeepBody
<1>4. EntryInv'
  BY <1>1, <1>2, EntryFrame DEF KeepBody, EntryInv
<1>5. ScanInv' /\ CacheInv'
  BY <1>1, <1>2, CacheFrame DEF KeepBody, ScanInv, Mounting
<1>6. pos'[1] >= geo.cluster_begin_sector + geo.sectors_per_cluster
  <2>1. /\ GeoOK(geo) /\ file.cluster \in Nat /\ file.cluster >= 3 /\ file.cluster >= 2
        /\ file.at \in Nat
    BY <1>1, FileView
  <2> QED
    BY <1>2, <2>1, DataPlaceIn
<1>7. WriteInv'
  BY <1>1, <1>6 DEF WriteInv, InWrite
<1> QED
  BY <1>3, <1>4, <1>5, <1>7 DEF KeepBody

\* What nobody touches stays.
LEMMA KeepStill ==
  ASSUME KeepBody, UNCHANGED <<vars, fatVars>>
  PROVE  KeepBody'
<1> USE DEF vars, fatVars, walk, user, job, inVars, outVars
<1>1. Contents' = Contents /\ Here' = Here /\ Got' = Got
  BY DEF Contents, Here, Got
<1>2. DirInv' /\ EntryInv'
  BY <1>1 DEF KeepBody, DirInv, EntryInv
<1>3. ScanInv' /\ CacheInv'
  BY <1>1 DEF KeepBody, ScanInv, CacheInv
<1>4. Fresh' = Fresh /\ Paid' = Paid /\ InWrite' = InWrite
  BY <1>1 DEF Fresh, Paid, InWrite, Current
<1>5. WriteInv'
  BY <1>1, <1>4 DEF KeepBody, WriteInv
<1> QED
  BY <1>2, <1>3, <1>5 DEF KeepBody

\* Every step keeps the invariant.
LEMMA KeepNext ==
  ASSUME NSectors <= ADDR_SPAN, Cells, TypeInv, KeepInv, [FatNext]_<<vars, fatVars>>
  PROVE  KeepInv'
<1> SUFFICES ASSUME sound', KeepBody PROVE KeepBody'
  <2>1. sound' => sound
    BY DEF TypeInv, PhaseInv, FatNext, Boot, Cut, IoStep, Initialize, Mount,
       ReadPartition, ReadBootSector, ReadEntry, ReadFat, Append_to_log, FlushInput,
       FlushOutput, ReadSize, WriteSize, Finish, Creat, Write, fatVars
  <2> QED
    BY <2>1 DEF KeepInv
<1>1. CASE IoStep
  BY <1>1, KeepGet, KeepPut DEF IoStep
<1>2. CASE Initialize
  BY <1>2, KeepUnmounted, KeepReadBootSector, KeepReadEntry, KeepReadFat DEF Initialize
<1>3. CASE Append_to_log
  BY <1>3, KeepFlush, KeepSize, KeepFinish DEF Append_to_log
<1>4. CASE UNCHANGED <<vars, fatVars>>
  BY <1>4, KeepStill
<1> QED
  BY <1>1, <1>2, <1>3, <1>4, KeepBoot, KeepCut, KeepCreat, KeepWrite DEF FatNext

\* As long as no mount had a read failure, the program's file has a place of its own
\* in the directory: invariant for every card and every pattern of failures.
THEOREM KeepInvariance ==
  ASSUME NSectors <= ADDR_SPAN, Cells
  PROVE  FatSpec => []KeepInv
<1>1. TypeInv /\ KeepInv /\ [FatNext]_<<vars, fatVars>> => KeepInv'
  BY KeepNext
<1> QED
  BY <1>1, KeepInit, TypeInvariance, PTL DEF FatSpec

-----------------------------------------------------------------------------
\* Only a byte that is put changes what the program sees, and only the creation
\* of a file changes where it is.
LEMMA OthersStay ==
  ASSUME NSectors <= ADDR_SPAN, Cells, TypeInv, geo # NoGeo,
         Initialize \/ Append_to_log \/ (\E n \in 1 .. MaxLen : Write(n))
           \/ (IoStep /\ GetByte) \/ UNCHANGED <<vars, fatVars>>
  PROVE  Contents' = Contents /\ geo' = geo /\ file'.slot = file.slot
<1> USE DEF walk, user, fatVars
<1>1. fpc \notin {"off", "on", "partition", "boot"} /\ file \in FileRec
  BY DEF TypeInv, PhaseInv, UserInv
<1>2. CASE Initialize
  <2>1. /\ geo' = geo /\ file' = file
        /\ ReadEntry \/ ReadFat
    BY <1>1, <1>2 DEF Initialize, Mount, ReadPartition, ReadBootSector, Returned,
       ReadEntry, ReadFat
  <2>2. UNCHANGED outVars /\ card' = card /\ pc = "idle" /\ pc' # "off"
    BY <2>1 DEF ReadEntry, ReadFat, Returned, Done, job, IoCall, Skip, NextEntry,
       CacheEntry
  <2> QED
    BY <2>1, <2>2 DEF Contents, outVars
<1>3. CASE Append_to_log
  <2>1. CASE FlushInput \/ FlushOutput
    <3>1. /\ pc = "idle" /\ pc' = "idle" /\ UNCHANGED <<geo, file>>
          /\ FlushRead \/ FlushWrite
      BY <2>1 DEF FlushInput, FlushOutput, FlushRead, FlushWrite
    <3>2. ~PowerOn /\ ~PowerCut /\ [Next]_vars /\ \A v \in Byte : ~PutByte(v)
      BY <3>1 DEF PowerOn, PowerCut, PutByte, Next
    <3> QED
      BY <3>1, <3>2, ContentsKept DEF TypeInv
  <2>2. CASE ReadSize \/ WriteSize
    BY <2>2 DEF ReadSize, WriteSize, Returned, IoCall, Contents, outVars
  <2>3. CASE Finish
    <3>1. file'.slot = file.slot
      BY <1>1, <2>3 DEF Finish, FileRec
    <3> QED
      BY <2>3, <3>1 DEF Finish, vars, job, Contents, outVars
  <2> QED
    BY <1>3, <2>1, <2>2, <2>3 DEF Append_to_log
<1>4. CASE \E n \in 1 .. MaxLen : Write(n)
  BY <1>4 DEF Write, Ready, IoCall, Contents, outVars
<1>5. CASE IoStep /\ GetByte
  <2>1. Contents' = Contents
    BY <1>5, GetEffect DEF TypeInv
  <2> QED
    BY <1>5, <2>1 DEF IoStep
<1>6. CASE UNCHANGED <<vars, fatVars>>
  BY <1>6 DEF vars, job, Contents, outVars
<1> QED
  BY <1>2, <1>3, <1>4, <1>5, <1>6

\* What a step may do to the directory
EntriesStep ==
  sound /\ geo # NoGeo /\ pc' # "off" =>
    /\ \A s \in Slots \ {file.slot} :
         Root(Contents, s).mark = "live" => Root(Contents, s)' = Root(Contents, s)
    /\ LET old == Root(Contents, file'.slot)
       IN  \/ file'.slot = file.slot \/ file'.slot \in made
           \/ old.name = file'.name \/ old.mark # "live"

\* A file that is opened or created gets its own entry, or one not in use.
LEMMA CreatSpares ==
  ASSUME NSectors <= ADDR_SPAN, Cells, TypeInv, KeepBody, NEW name \in Names,
         Creat(name)
  PROVE  \/ file'.slot = file.slot
         \/ Root(Contents, file'.slot).name = file'.name
         \/ Root(Contents, file'.slot).mark # "live"
<1>1. /\ file'.name = name /\ file'.slot = SlotIn(cache, name) /\ fpc = "idle"
      /\ geo # NoGeo
  BY CreatPlace
<1>2. CASE file # NoFile
  <2>1. file.name = name /\ file.slot = SlotIn(cache, file.name)
    BY <1>2 DEF TypeInv, UserInv, Cells, KeepBody, CacheInv
  <2> QED
    BY <1>1, <2>1
<1>3. CASE file = NoFile
  <2>1. Aimed(cache, name) /\ Spared(cache, Dir(geo, Contents), name)
    BY <1>1, <1>3 DEF KeepBody, CacheInv, Mounting
  <2>2. Root(Contents, SlotIn(cache, name)) = Dir(geo, Contents)[SlotIn(cache, name)]
    BY <2>1 DEF Aimed, Root, Dir
  <2> QED
    BY <1>1, <2>1, <2>2 DEF Spared, Live
<1> QED
  BY <1>2, <1>3

\* No step destroys the entry of another file.
LEMMA EntriesNext ==
  ASSUME NSectors <= ADDR_SPAN, Cells, TypeInv, KeepInv, [FatNext]_<<vars, fatVars>>
  PROVE  EntriesStep
<1> SUFFICES ASSUME sound, KeepBody, geo # NoGeo, pc' # "off" PROVE EntriesStep
  BY DEF EntriesStep, KeepInv
<1>1. ASSUME Contents' = Contents, geo' = geo, file'.slot = file.slot PROVE EntriesStep
  BY <1>1 DEF EntriesStep, Root
<1>2. CASE Initialize \/ Append_to_log \/ (\E n \in 1 .. MaxLen : Write(n))
           \/ (IoStep /\ GetByte) \/ UNCHANGED <<vars, fatVars>>
  <2>1. Contents' = Contents /\ geo' = geo /\ file'.slot = file.slot
    BY <1>2, OthersStay
  <2> QED
    BY <1>1, <2>1
<1>3. CASE IoStep /\ PutByte(Output)
  <2>1. \A s \in Slots \ {file.slot} : Dir(geo, Contents')[s] = Dir(geo, Contents)[s]
    BY <1>3, KeepPut DEF IoStep
  <2>2. geo' = geo /\ file' = file
    BY <1>3 DEF IoStep, user
  <2>3. ASSUME NEW s \in Slots \ {file.slot} PROVE Root(Contents, s)' = Root(Contents, s)
    <3>1. /\ Root(Contents, s) = Dir(geo, Contents)[s]
          /\ Root(Contents, s)' = Dir(geo, Contents')[s]
      BY <2>2 DEF Root, Dir
    <3> QED
      BY <2>1, <3>1
  <2> QED
    BY <2>2, <2>3 DEF EntriesStep
<1>4. CASE \E name \in Names : Creat(name)
  <2>1. PICK name \in Names : Creat(name)
    BY <1>4
  <2>2. Contents' = Contents /\ geo' = geo
    BY <2>1, CreatPlace
  <2>3. \A s \in Slots : Root(Contents, s)' = Root(Contents, s)
    BY <2>2 DEF Root
  <2>4. \/ file'.slot = file.slot
        \/ Root(Contents, file'.slot).name = file'.name
        \/ Root(Contents, file'.slot).mark # "live"
    BY <2>1, CreatSpares
  <2> QED
    BY <2>3, <2>4 DEF EntriesStep
<1>5. ~Boot /\ ~Cut
  BY DEF Boot, Cut, PowerOn, PowerCut, TypeInv, PhaseInv
<1> QED
  BY <1>2, <1>3, <1>4, <1>5 DEF FatNext, IoStep

\* fat.c never destroys the directory entry of another file as long as no mount had a
\* read failure, whichever other calls fail and whenever the power goes (EntriesKept;
\* fat.c:293-341, 488-503, 602-679).
THEOREM EntriesSafe ==
  ASSUME NSectors <= ADDR_SPAN, Cells
  PROVE  FatSpec => EntriesKept
<1>1. TypeInv /\ KeepInv /\ [FatNext]_<<vars, fatVars>> =>
        [sound /\ geo # NoGeo /\ pc' # "off" =>
           /\ \A s \in Slots \ {file.slot} :
                Root(Contents, s).mark = "live" => Root(Contents, s)' = Root(Contents, s)
           /\ LET old == Root(Contents, file'.slot)
              IN  \/ file'.slot = file.slot \/ file'.slot \in made
                  \/ old.name = file'.name \/ old.mark # "live"]_<<vars, fatVars>>
  BY EntriesNext DEF EntriesStep
<1> QED
  BY <1>1, TypeInvariance, KeepInvariance, PTL DEF FatSpec, EntriesKept
=============================================================================

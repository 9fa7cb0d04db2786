-------------------------------- MODULE Fat32 --------------------------------
(***************************************************************************)
(* The file system layer of fat.c over the byte layer of io.c (module      *)
(* IOCache), with its failures and with power cuts between any two steps:  *)
(* initialize_fat32 reads the volume and caches the root directory,        *)
(* fat32_creat_file and fat32_write_file_nbytes append to one log file, as *)
(* the lines of main.c that log (129-134, 168, 206) call them.             *)
(*                                                                         *)
(* A cell of the card, Byte in IOCache, is what fat.c reads or writes with *)
(* one call: the entry of the partition table, the boot sector, an entry of*)
(* the FAT, a directory entry, or one byte of a file.                      *)
(*                                                                         *)
(* Definitions named Mut_* are plausible bugs of the definition that       *)
(* follows them, used only to see that the properties can be broken.       *)
(***************************************************************************)
EXTENDS IOCache, FiniteSets

CONSTANTS
  Volumes,      \* the contents a card may start with
  Names,        \* what the program may name its file
  MaxEntries,   \* 16: the entries that are cached at most
  LAST,         \* an entry of the FAT that ends a chain, 0x0FFFFFF8 or above
  FAR,          \* a cluster that is not on the card
  MaxSize,      \* bound on the size of a file
  MaxFailures   \* bound on the calls of io.c that fail

ASSUME EntriesAssumption == MaxEntries \in Nat \ {0} /\ MaxSize \in Nat /\ MaxFailures \in Nat

VARIABLES
  fpc,       \* off, idle, or the call of io.c that fat.c is in
  geo,       \* struct fat32_ctx: where things are on the card
  cache,     \* ctx->root_dir_entries
  j,         \* fat32_cache_root_dir: which entry,
  local,     \* its struct fat32_file, one for all of them,
  curr,      \* fat32_get_fat: the cluster it has got to,
  chain,     \* and the clusters on its list
  e,         \* the directory entry read last
  file,      \* the struct fat32_file of the caller
  nbytes,    \* the bytes of the write under way
  base,      \* ghost: the size of the file when it was opened
  made,      \* ghost: the entries the program has created since power-on
  sound,     \* ghost: no read has failed during an initialize_fat32
  failures   \* ghost: how many calls of io.c have failed

walk    == <<j, local, curr, chain>>
user    == <<file, nbytes, base, made>>
fatVars == <<fpc, geo, cache, walk, e, user, sound, failures>>

\* What the cells hold; a cleared one is an entry that was never used, or 0.
Entry(mark, name, first, size) ==
  [kind |-> "entry", mark |-> mark, name |-> name, first |-> first,
   size |-> size]
AsEntry(c) == IF c.kind = "entry" THEN c
              ELSE Entry(IF c = Zero THEN "unused" ELSE "live", "junk", 0, 0)
AsFat(c) == IF c.kind = "fat" THEN c.next ELSE IF c = Zero THEN 0 ELSE FAR
AsPartition(c) == IF c.kind = "partition" THEN c
                  ELSE [kind |-> "partition", type |-> 0, start_sector |-> 0]
Datum(name, i) == [kind |-> "data", of |-> name, at |-> i]

NoGeo  == [cluster_begin_sector |-> 0, root_dir_sector |-> 0,
           fat_begin_sector |-> 0, sectors_per_cluster |-> 0]
NoFile == [name |-> "none", slot |-> 0, cluster |-> 0, at |-> 0]
NoRecord == [name |-> "junk", slot |-> 0, cluster |-> 0, fat_list |-> {}]

ResetFat ==
  /\ fpc' = "off" /\ geo' = NoGeo /\ cache' = << >>
  /\ j' = 0 /\ local' = NoRecord /\ curr' = 0 /\ chain' = {}
  /\ e' = AsEntry(Zero) /\ file' = NoFile /\ nbytes' = 0 /\ base' = 0
  /\ made' = {}

FatInit ==
  /\ card \in Volumes /\ Init
  /\ fpc = "off" /\ geo = NoGeo /\ cache = << >>
  /\ j = 0 /\ local = NoRecord /\ curr = 0 /\ chain = {}
  /\ e = AsEntry(Zero) /\ file = NoFile /\ nbytes = 0 /\ base = 0
  /\ made = {} /\ sound = TRUE /\ failures = 0

-----------------------------------------------------------------------------
(* Where things are.                                                       *)

FatPlace(g, cluster) == <<g.fat_begin_sector + (cluster \div SECTOR_SIZE),
                          cluster % SECTOR_SIZE>>

EntryPlace(g, slot) == <<g.root_dir_sector + (slot \div SECTOR_SIZE),
                         slot % SECTOR_SIZE>>

\* start_byte_offset plus n: the clusters are numbered from 2.
DataPlace(cluster, n) ==
  LET first == geo.cluster_begin_sector +
                 (cluster - 2) * geo.sectors_per_cluster
  IN  <<first + (n \div SECTOR_SIZE), n % SECTOR_SIZE>>

\* fat32_set_partition and fat32_set_context
Geometry(start_sector, bs) ==
  LET begin == start_sector + bs.reserved_sectors +
                 bs.number_of_fats * bs.sectors_per_fat_32
  IN  [cluster_begin_sector |-> begin,
       root_dir_sector |->
         begin + (bs.cluster_number_root_dir - 2) * bs.sectors_per_cluster,
       fat_begin_sector |-> start_sector + bs.reserved_sectors,
       sectors_per_cluster |-> bs.sectors_per_cluster]

-----------------------------------------------------------------------------
(* What the volumes have in common: everything is on the card, the root     *)
(* directory is at cluster 2 (fat.c:448), its first entry is the label,     *)
(* which has no cluster, and it has more room than there are failures.      *)

Slots == 0 .. MaxEntries - 1
Dir(g, sectors) ==
  [s \in Slots |-> LET p == EntryPlace(g, s) IN AsEntry(sectors[p[1]][p[2]])]

PartitionOf(sectors) == AsPartition(sectors[0][SECTOR_SIZE - 1])
Mountable(sectors) == PartitionOf(sectors).type \in {11, 12}
StartOf(sectors) == PartitionOf(sectors).start_sector
GeoOf(sectors) == Geometry(StartOf(sectors), sectors[StartOf(sectors)][0])

Sited(sectors) ==
  /\ StartOf(sectors) \in Sector \ {0}
  /\ LET bs == sectors[StartOf(sectors)][0]
     IN  /\ bs.reserved_sectors \in Nat \ {0} /\ bs.number_of_fats \in Nat
         /\ bs.sectors_per_fat_32 \in Nat /\ bs.sectors_per_cluster \in Nat \ {0}
         /\ bs.cluster_number_root_dir = 2
         /\ MaxEntries <= bs.sectors_per_cluster * SECTOR_SIZE
         /\ GeoOf(sectors).cluster_begin_sector + bs.sectors_per_cluster <= NSectors

Live(d, s) == d[s].mark = "live"
Own(d, s) == Live(d, s) /\ d[s].name \in Names
Labelled(d) == /\ Live(d, 0) /\ ~Own(d, 0) /\ d[0].first = 0
               /\ \A s \in Slots : Own(d, s) => d[s].first # 0
RoomIn(d) == Cardinality({s \in Slots : Live(d, s) => Own(d, s)})
Orderly(d) == \A s, t \in Slots :
                /\ Live(d, s) /\ Live(d, t) /\ d[s].name = d[t].name => s = t
                /\ d[s].mark = "unused" /\ s < t => d[t].mark = "unused"

ASSUME VolumesAssumption ==
  \A v \in Volumes :
    Mountable(v) =>
      LET d == Dir(GeoOf(v), v)
      IN  Sited(v) /\ Labelled(d) /\ RoomIn(d) > MaxFailures /\ Orderly(d)

-----------------------------------------------------------------------------
(* Calls of io.c.                                                          *)

IoCall(o, p, n) ==
  /\ pc = "idle" /\ pc' = "busy" /\ op' = o /\ pos' = p /\ left' = n
  /\ moved' = << >>
  /\ UNCHANGED <<card, inVars, outVars, ret, failures>>

\* fpc waits for a call that has returned.
Returned(where) == fpc = where /\ pc = "idle"
Got == moved[1][2]

\* What a call of io_write_nbytes writes
Mut_Output == IF fpc = "creat" THEN Entry("live", file.name, file.cluster, 0)
              ELSE IF fpc = "resize" THEN [e EXCEPT !.size = nbytes]
              ELSE Datum(file.name, file.at + Len(moved) + 1)
Output == IF fpc = "creat" THEN Entry("live", file.name, file.cluster, 0)
          ELSE IF fpc = "resize" THEN [e EXCEPT !.size = e.size + nbytes]
          ELSE Datum(file.name, file.at + Len(moved) + 1)

\* Whether the call that this step ends has failed
Noted ==
  /\ failures' = failures + (IF pc' = "idle" /\ ret' = "err" THEN 1 ELSE 0)
  /\ failures' <= MaxFailures

IoStep ==
  /\ GetByte \/ PutByte(Output)
  /\ Noted
  /\ UNCHANGED <<fpc, geo, cache, walk, e, user, sound>>

-----------------------------------------------------------------------------
(* initialize_fat32.                                                       *)

\* main calls initialize_fat32 whatever initialize_io returns.
Boot == /\ PowerOn /\ Noted /\ fpc' = "on"
        /\ UNCHANGED <<geo, cache, walk, e, user, sound>>

Cut == PowerCut /\ ResetFat /\ UNCHANGED <<sound, failures>>

\* initialize_fat32 ends, whatever it returns; only a mount sets geo.
Done == fpc' = "idle" /\ UNCHANGED <<job, card, inVars, outVars, failures>>

\* An SD card that is disabled is a success without a volume.
Mount ==
  /\ fpc = "on"
  /\ \/ Done
     \/ IoCall("read", <<0, SECTOR_SIZE - 1>>, 1) /\ fpc' = "partition"
  /\ UNCHANGED <<geo, cache, walk, e, user, sound>>

\* PARTITION_TYPE_FAT32_LT2G and PARTITION_TYPE_FAT32_LBA
ReadPartition ==
  /\ Returned("partition")
  /\ IF ret = "ok" /\ AsPartition(Got).type \in {11, 12}
       THEN IoCall("read", <<AsPartition(Got).start_sector, 0>>, 1) /\ fpc' = "boot"
       ELSE Done
  /\ UNCHANGED <<geo, cache, walk, e, user, sound>>

\* The loop of fat32_cache_root_dir, at entry k
Mut_CacheEntry(k, g) ==
  /\ j' = k
  /\ IF k <= MaxEntries THEN IoCall("read", EntryPlace(g, k), 1) /\ fpc' = "entry"
                        ELSE Done
CacheEntry(k, g) ==
  /\ j' = k
  /\ IF k < MaxEntries THEN IoCall("read", EntryPlace(g, k), 1) /\ fpc' = "entry"
                       ELSE Done

ReadBootSector ==
  /\ Returned("boot")
  /\ IF ret = "ok"
       THEN LET g == Geometry(moved[1][1][1], Got)
            IN  geo' = g /\ CacheEntry(0, g)
       ELSE Done /\ UNCHANGED <<geo, j>>
  /\ UNCHANGED <<cache, local, curr, chain, e, user, sound>>

\* fat32_parse_entry and what fat32_cache_root_dir makes of it
Skipped(d) == d.mark \in {"deleted", "lfn"}

NextEntry == CacheEntry(j + 1, geo)
Mut_Skip == CacheEntry(j, geo)
Skip == NextEntry

ReadEntry ==
  /\ Returned("entry")
  /\ LET d == AsEntry(Got)
     IN  \/ ret = "err" /\ Done /\ sound' = FALSE /\ UNCHANGED <<j, curr, chain, e>>
        \/ /\ ret = "ok" /\ e' = d /\ UNCHANGED sound
           /\ \/ d.mark = "unused" /\ Done /\ UNCHANGED <<j, curr, chain>>
              \/ Skipped(d) /\ Skip /\ UNCHANGED <<curr, chain>>
              \/ /\ d.mark = "live" /\ ~Skipped(d)
                 /\ curr' = d.first + 2 /\ chain' = {}
                 /\ IoCall("read", FatPlace(geo, d.first + 2), 1)
                 /\ fpc' = "fat" /\ UNCHANGED j
  /\ UNCHANGED <<geo, cache, local, user>>

\* list_push_tail of a copy of the record
Push(f) == cache' = Append(cache, [f EXCEPT !.slot = j])

\* fat32_open_file and the loop of fat32_get_fat.  When the walk fails, the record
\* keeps what it held, of the entry before or of nothing, and is listed even so.
ReadFat ==
  /\ Returned("fat")
  /\ LET next == AsFat(Got)
     IN  \/ /\ ret = "err" /\ sound' = FALSE
           /\ Push(local) /\ NextEntry
           /\ UNCHANGED <<local, curr, chain>>
        \/ /\ ret = "ok" /\ chain' = chain \cup {curr} /\ UNCHANGED sound
           /\ \/ /\ next = LAST
                 /\ local' = [name |-> e.name, slot |-> j, cluster |-> e.first + 2,
                               fat_list |-> chain']
                 /\ Push(local') /\ NextEntry /\ UNCHANGED curr
              \/ /\ next # LAST /\ curr' = next
                 /\ IoCall("read", FatPlace(geo, next), 1)
                 /\ UNCHANGED <<fpc, j, local, cache>>
  /\ UNCHANGED <<geo, e, user>>

-----------------------------------------------------------------------------
(* The caller, one call at a time.                                         *)

\* Only with a volume that was mounted: what fat.c does without one is not modelled.
\* The lines of main.c that log do not ask (114-117), and are commented out.
Ready == fpc = "idle" /\ pc = "idle" /\ geo # NoGeo

Lowest(n, used) == CHOOSE m \in n .. n + Cardinality(used) :
                     m \notin used /\ \A k \in n .. m - 1 : k \in used

\* fat32_file_exists
Mut_Cached(name) == {k \in 1 .. Len(cache) - 1 : cache[k].name = name}
Cached(name) == {k \in DOMAIN cache : cache[k].name = name}

\* fat32_get_next_root_dir_loc, and fat32_get_next_cluster
Mut_next_root_dir_loc == Len(cache)
next_root_dir_loc == Lowest(0, {cache[k].slot : k \in DOMAIN cache})
next_cluster == Lowest(2, UNION {cache[k].fat_list : k \in DOMAIN cache})

\* The root directory as the program sees it, with what it has not yet written
Root(sectors, slot) ==
  LET p == EntryPlace(geo, slot) IN AsEntry(sectors[p[1]][p[2]])

\* fat32_creat_file of a file that is in the directory: nothing is written, and
\* writing begins at the cluster of the record, which is not the file's first but
\* two clusters behind it (fat.c:257, 267).
OpenCached(name) ==
  LET f == cache[CHOOSE k \in Cached(name) : \A i \in Cached(name) : k <= i]
  IN  /\ file' = [name |-> name, slot |-> f.slot, cluster |-> f.cluster, at |-> 0]
      /\ base' = Root(Contents, f.slot).size
      /\ UNCHANGED <<fpc, job, card, inVars, outVars, made, failures>>

\* and of one that is not: an entry is written, the cached directory stays.
CreateNew(name) ==
  /\ file' = [name |-> name, slot |-> next_root_dir_loc,
              cluster |-> next_cluster, at |-> 0]
  /\ base' = 0 /\ made' = made \cup {next_root_dir_loc}
  /\ IoCall("write", EntryPlace(geo, next_root_dir_loc), 1) /\ fpc' = "creat"

Creat(name) ==
  /\ Ready
  /\ IF Cached(name) # {} THEN OpenCached(name) ELSE CreateNew(name)
  /\ UNCHANGED <<geo, cache, walk, e, nbytes, sound>>

\* fat32_write_file_nbytes, with fat32_update_file_size
Write(n) ==
  /\ Ready /\ file # NoFile /\ base + file.at + n <= MaxSize
  /\ IoCall("write", DataPlace(file.cluster, file.at), n) /\ fpc' = "data"
  /\ nbytes' = n
  /\ UNCHANGED <<geo, cache, walk, e, file, base, made, sound>>

FlushInput ==
  /\ Returned("data") /\ fpc' = "flush"
  /\ FlushRead /\ Noted
  /\ UNCHANGED <<geo, cache, walk, e, user, sound>>

FlushOutput ==
  /\ Returned("flush") /\ fpc' = "flushed"
  /\ FlushWrite /\ Noted
  /\ UNCHANGED <<geo, cache, walk, e, user, sound>>

ReadSize ==
  /\ Returned("flushed") /\ fpc' = "size"
  /\ IoCall("read", EntryPlace(geo, file.slot), 1)
  /\ UNCHANGED <<geo, cache, walk, e, user, sound>>

\* If the entry could not be read, what is on the stack is written for it.
WriteSize ==
  /\ Returned("size") /\ fpc' = "resize"
  /\ e' \in IF ret = "ok" THEN {AsEntry(Got)} ELSE {e, Entry("live", "junk", 0, 0)}
  /\ e'.size + nbytes <= MaxSize
  /\ IoCall("write", EntryPlace(geo, file.slot), 1)
  /\ UNCHANGED <<geo, cache, walk, user, sound>>

\* The end of either call; what the calls of io.c returned is not looked at.
Mut_Finish ==
  /\ Returned("creat") \/ Returned("resize")
  /\ fpc' = "idle" /\ nbytes' = 0
  /\ UNCHANGED <<vars, geo, cache, walk, e, file, base, made, sound, failures>>
Finish ==
  /\ Returned("creat") \/ Returned("resize")
  /\ fpc' = "idle"
  /\ file' = [file EXCEPT !.at = @ + nbytes] /\ nbytes' = 0
  /\ UNCHANGED <<vars, geo, cache, walk, e, base, made, sound, failures>>

Initialize == Mount \/ ReadPartition \/ ReadBootSector \/ ReadEntry \/ ReadFat
Append_to_log == FlushInput \/ FlushOutput \/ ReadSize \/ WriteSize \/ Finish

FatNext == \/ Boot \/ Cut \/ IoStep \/ Initialize \/ Append_to_log
           \/ \E name \in Names : Creat(name)
           \/ \E n \in 1 .. MaxLen : Write(n)

FatSpec == FatInit /\ [][FatNext]_<<vars, fatVars>>

\* The program runs on while there is power: nothing is assumed of the power, of
\* the card's answers, or of the caller.
FatFairSpec == FatSpec /\ WF_<<vars, fatVars>>(IoStep \/ Initialize \/ Append_to_log)

-----------------------------------------------------------------------------
(* Properties.                                                             *)

Mounting == {"on", "partition", "boot", "entry", "fat"}

\* The shape of the state.  The walk along the FAT never leaves the numbers that
\* the FAT holds, and the directory that is cached has one record for an entry.
FatTypeOK ==
  /\ IOTypeOK
  /\ fpc \in Mounting \cup {"off", "idle", "creat", "data", "flush", "flushed",
                           "size", "resize"}
  /\ (fpc = "off") = (pc = "off")
  /\ j \in 0 .. MaxEntries /\ curr \in Nat /\ chain \subseteq Nat
  /\ \A k \in DOMAIN cache : cache[k].slot \in Slots /\ cache[k].cluster \in Nat
  /\ \A k, l \in DOMAIN cache : k < l => cache[k].slot < cache[l].slot
  /\ file.at \in 0 .. MaxSize /\ nbytes \in 0 .. MaxLen /\ base \in 0 .. MaxSize
  /\ made \subseteq 0 .. MaxEntries /\ sound \in BOOLEAN /\ failures \in 0 .. MaxFailures

\* The program never destroys the directory entry of another file, as long as no
\* mount had a read failure: an entry in use is changed only at the slot of the
\* file that is being written, and a file gets the slot of its own entry, one not
\* in use, or that of a file the program has itself created since power-on, which-
\* ever later reads and writes fail (fat.c:293-341, 488-503, 602-679).
EntriesKept ==
  [][sound /\ geo # NoGeo /\ pc' # "off" =>
       /\ \A s \in Slots \ {file.slot} :
            Root(Contents, s).mark = "live" =>
              Root(Contents, s)' = Root(Contents, s)
       /\ LET old == Root(Contents, file'.slot)
          IN  \/ file'.slot = file.slot \/ file'.slot \in made
              \/ old.name = file'.name \/ old.mark # "live"
    ]_<<vars, fatVars>>

\* Between two calls the size in the directory is what it was when the file was
\* opened, plus what was written since, although the entry is read through one
\* buffer and written through another: the reading buffer is never refreshed too
\* early to see the last size (fat.c:602-624, 715-722).
SizeExact ==
  fpc = "idle" /\ file # NoFile /\ failures = 0 =>
    Root(Contents, file.slot).size = base + file.at

\* Whenever the power goes, the size on the card of a file that the program has
\* created since power-on counts no byte that is not in the file's cluster, as long
\* as no call has failed (fat.c:715-720).  Of a file that was there before, it does:
\* what is appended goes to a cluster that is not the file's (OpenCached).
SizeBehindData ==
  geo # NoGeo /\ file.slot \in made /\ failures = 0 =>
    LET d == Root(card, file.slot)
    IN  d.mark = "live" /\ d.name = file.name =>
          \A i \in 1 .. d.size :
            LET p == DataPlace(d.first, i - 1)
            IN  card[p[1]][p[2]] = Datum(file.name, i)

\* The directory stays one that another system can read: no name twice, and no
\* file behind the entry that ends it (fat.c:488-503, 626-679).
DirectoryWellFormed ==
  geo # NoGeo /\ failures = 0 =>
    \A s, t \in Slots :
      /\ Root(Contents, s).mark = "live" /\ Root(Contents, t).mark = "live"
           /\ Root(Contents, s).name = Root(Contents, t).name => s = t
      /\ Root(Contents, s).mark = "unused" /\ s < t =>
           Root(Contents, t).mark = "unused"

\* initialize_fat32 ends, whichever reads fail and whatever the volume holds, unless
\* the walk along the FAT comes to a cluster it has been at (fat.c:201-220, 301-341).
GoesRound == fpc = "fat" /\ curr \in chain
MountEnds == fpc \in Mounting ~> fpc \notin Mounting \/ GoesRound

\* "a list of cluster addresses that are dedicated to that file" (fat.c:444-445),
\* "root directory is always at cluster addr 2" (fat.c:448): a file that is created
\* gets a cluster of its own.
ClusterIsDedicated ==
  fpc = "idle" /\ geo # NoGeo /\ failures = 0 /\ made # {} =>
    \A s \in Slots :
      Root(Contents, s).mark = "live" /\ s # file.slot =>
        Root(Contents, s).first # file.cluster
=============================================================================

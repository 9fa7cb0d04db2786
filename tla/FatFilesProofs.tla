--------------------------- MODULE FatFilesProofs ---------------------------
(***************************************************************************)
(* Proofs about Fat32 while no call of io.c has failed: the directory stays*)
(* in order (DirectoryWellFormed), and the sizes in it are what has been   *)
(* written (SizeExact) and is on the card (SizeBehindData).                *)
(***************************************************************************)
EXTENDS FatEntriesProofs

\* A card, or what the program sees of it, whose directory another system can read.
Whole(c) ==
  /\ Mountable(c) => Orderly(Dir(GeoOf(c), c))
  /\ geo # NoGeo => Orderly(Dir(geo, c))

\* The list cc and the program's own slot are what directory d has in use.
Listed(cc, d, own) ==
  /\ \A k \in DOMAIN cc : Live(d, cc[k].slot) /\ d[cc[k].slot].name = cc[k].name
  /\ \A s \in Slots : Live(d, s) => s \in SlotsIn(cc) \/ s = own

ListInv ==
  file # NoFile =>
    /\ Listed(cache, Dir(geo, Contents), file.slot)
    /\ fpc = "creat" => Holding(cache, file.name) = {}

CalmInv == failures = 0 => sound /\ (pc = "idle" => ret = "ok")
WholeBody == Whole(card) /\ Whole(Contents) /\ ListInv
WholeInv == failures = 0 => WholeBody

-----------------------------------------------------------------------------
\* A new entry in the first slot that is not listed leaves the directory in order
\* (fat32_get_next_root_dir_loc, fat.c:488-503).
LEMMA OrderlyCreat ==
  ASSUME NEW cc, ListOK(cc), NEW d, NEW d2, Orderly(d),
         NEW t \in Slots, t = Lowest(0, SlotsIn(cc)), Listed(cc, d, t),
         NEW name, Holding(cc, name) = {},
         d2[t].mark = "live", d2[t].name = name, \A s \in Slots \ {t} : d2[s] = d[s]
  PROVE  Orderly(d2) /\ Listed(cc, d2, t)
<1>1. /\ t \notin SlotsIn(cc) /\ t \in Nat
      /\ \A s \in 0 .. t - 1 : s \in SlotsIn(cc)
  BY NextLocIs DEF Slots
<1>2. \A k \in DOMAIN cc : cc[k].slot \in Slots /\ cc[k].slot # t
  BY <1>1 DEF SlotsIn, ListOK
<1>3. \A s \in SlotsIn(cc) : Live(d, s) /\ s \in Slots /\ d[s].name # name
  BY <1>2 DEF SlotsIn, Listed, Holding
<1>4. Listed(cc, d2, t)
  BY <1>2 DEF Listed, Live
<1>5. ASSUME NEW r \in Slots, NEW s \in Slots, Live(d2, r), Live(d2, s),
             d2[r].name = d2[s].name
      PROVE  r = s
  <2>1. ASSUME NEW u \in Slots, u # t, Live(d2, u) PROVE d2[u].name # name
    BY <1>3, <2>1 DEF Listed, Live
  <2>2. CASE r = t \/ s = t
    BY <1>5, <2>1, <2>2
  <2>3. CASE r # t /\ s # t
    BY <1>5, <2>3 DEF Orderly, Live
  <2> QED
    BY <2>2, <2>3
<1>6. ASSUME NEW r \in Slots, NEW s \in Slots, d2[r].mark = "unused", r < s
      PROVE  d2[s].mark = "unused"
  <2>1. r # t /\ d[r].mark = "unused"
    BY <1>6
  <2>2. s # t
    <3>1. ASSUME s = t PROVE r \in SlotsIn(cc)
      BY <1>1, <1>6, <3>1 DEF Slots
    <3> QED
      BY <1>3, <2>1, <3>1 DEF Live
  <2> QED
    BY <1>6, <2>1, <2>2 DEF Orderly
<1> QED
  BY <1>4, <1>5, <1>6 DEF Orderly

\* An entry of which only the size is changed leaves the directory in order.
LEMMA OrderlyResize ==
  ASSUME NEW cc, ListOK(cc), NEW d, NEW d2, NEW t, Orderly(d), Listed(cc, d, t),
         \A s \in Slots : d2[s].mark = d[s].mark /\ d2[s].name = d[s].name
  PROVE  Orderly(d2) /\ Listed(cc, d2, t)
<1>1. \A k \in DOMAIN cc : cc[k].slot \in Slots
  BY DEF ListOK
<1> QED
  BY <1>1 DEF Orderly, Listed, Live

\* The list of a scan that has ended has everything that is in use.
LEMMA EndedIsListed ==
  ASSUME NEW cc, ListOK(cc), NEW d, Orderly(d), NEW m \in 1 .. MaxEntries, Ended(cc, d, m),
         NEW t
  PROVE  Listed(cc, d, t)
<1>1. ASSUME NEW s \in Slots, Live(d, s) PROVE s \in SlotsIn(cc)
  <2>1. s \in Nat /\ m \in Nat /\ s < MaxEntries
    BY EntriesAssumption DEF Slots
  <2>2. CASE s < m
    BY <1>1, <2>1, <2>2 DEF Ended, Scanned
  <2>3. CASE s >= m
    <3>1. m \in Slots /\ d[m].mark = "unused"
      <4>1. m # MaxEntries /\ m \in Slots
        BY <2>1, <2>3, EntriesAssumption DEF Slots
      <4> QED
        BY <4>1 DEF Ended
    <3>2. d[s].mark = "unused"
      BY <2>1, <2>3, <3>1 DEF Orderly
    <3> QED
      BY <1>1, <3>2 DEF Live
  <2> QED
    BY <2>1, <2>2, <2>3
<1> QED
  BY <1>1 DEF Listed, Ended, Scanned

-----------------------------------------------------------------------------
\* Without a failure every call has returned 0.
LEMMA CalmNext ==
  ASSUME NSectors <= ADDR_SPAN, Cells, TypeInv, CalmInv, [FatNext]_<<vars, fatVars>>
  PROVE  /\ CalmInv'
         /\ failures' = 0 => failures = 0
<1> USE DEF walk, user
<1>1. TypeInv' /\ failures \in Nat /\ failures' \in Nat /\ ret' \in {"ok", "err"}
  BY TypeNext, EntriesAssumption DEF TypeInv, PhaseInv, TInv, IOTypeOK
<1>2. ASSUME failures' = failures, sound' = sound, ret' = ret,
             pc' = "idle" => pc = "idle"
      PROVE  CalmInv' /\ (failures' = 0 => failures = 0)
  BY <1>2 DEF CalmInv
<1>3. ASSUME Noted, sound' = sound
      PROVE  CalmInv' /\ (failures' = 0 => failures = 0)
  BY <1>1, <1>3 DEF Noted, CalmInv
<1>4. CASE Boot \/ IoStep \/ FlushInput \/ FlushOutput
  BY <1>3, <1>4 DEF Boot, IoStep, FlushInput, FlushOutput
<1>5. CASE Cut
  BY <1>5 DEF Cut, PowerCut, ResetFat, CalmInv
<1>6. CASE Mount \/ ReadPartition \/ ReadBootSector
  <2>1. /\ failures' = failures /\ sound' = sound /\ ret' = ret
        /\ pc' = "busy" \/ pc' = pc
    BY <1>6 DEF Mount, ReadPartition, ReadBootSector, CacheEntry, Done, job, IoCall
  <2> QED
    BY <1>2, <2>1
<1>7. CASE ReadEntry \/ ReadFat
  <2>1. failures' = failures /\ ret' = ret /\ (pc' = "busy" \/ pc' = pc) /\ pc = "idle"
    BY <1>7 DEF ReadEntry, ReadFat, Returned, Skip, NextEntry, CacheEntry, Done, job, IoCall
  <2>2. failures = 0 => ret = "ok"
    BY <2>1 DEF CalmInv
  <2>3. failures = 0 => sound' = sound
    BY <1>7, <2>2 DEF ReadEntry, ReadFat
  <2> QED
    BY <2>1, <2>3 DEF CalmInv
<1>8. CASE \/ ReadSize \/ WriteSize \/ (\E name \in Names : Creat(name))
           \/ \E n \in 1 .. MaxLen : Write(n)
  <2>1. /\ failures' = failures /\ sound' = sound /\ ret' = ret
        /\ pc' = "busy" \/ pc' = pc
    BY <1>8 DEF ReadSize, WriteSize, Creat, OpenCached, CreateNew, Write, job, IoCall
  <2> QED
    BY <1>2, <2>1
<1>9. CASE Finish \/ UNCHANGED <<vars, fatVars>>
  BY <1>2, <1>9 DEF Finish, vars, fatVars, job
<1> QED
  BY <1>4, <1>5, <1>6, <1>7, <1>8, <1>9 DEF FatNext, Initialize, Append_to_log

\* A step that changes no entry and opens no file keeps the directory in order.
LEMMA WholeFrame ==
  ASSUME WholeBody, card' = card \/ card' = Contents, Contents' = Contents, geo' = geo,
         file' # NoFile => /\ file # NoFile /\ cache' = cache
                           /\ file'.slot = file.slot /\ file'.name = file.name
                           /\ fpc' = "creat" => fpc = "creat"
  PROVE  WholeBody'
<1>1. Whole(card)' /\ Whole(Contents)'
  BY DEF WholeBody, Whole
<1>2. ListInv'
  BY DEF WholeBody, ListInv
<1> QED
  BY <1>1, <1>2 DEF WholeBody

\* What a card that is mounted, or was when the power went, is judged by.
LEMMA WholeDisk ==
  ASSUME NEW c, Placed(c), geo # NoGeo, Orderly(Dir(geo, c))
  PROVE  Whole(c)
BY DEF Placed, Whole

\* The volumes are in order at power-on (VolumesAssumption).
LEMMA WholeInit ==
  ASSUME Cells, FatInit
  PROVE  WholeBody /\ CalmInv
<1>1. /\ geo = NoGeo /\ file = NoFile /\ card \in Volumes /\ sound /\ ret = "ok"
      /\ Contents = card
  BY TypeInit DEF FatInit, Init, Contents, TypeInv, TInv, IOTypeOK
<1>2. Whole(card)
  BY <1>1, VolumesAssumption DEF Whole
<1> QED
  BY <1>1, <1>2 DEF WholeBody, ListInv, CalmInv

\* A power cut loses what was not yet on the card.
LEMMA WholeCut ==
  ASSUME TypeInv, WholeBody, Cut
  PROVE  WholeBody'
<1>1. /\ geo' = NoGeo /\ file' = NoFile /\ card' = card /\ pc' = "off"
  BY DEF Cut, ResetFat, PowerCut
<1>2. Contents' = card
  BY <1>1 DEF Contents, TypeInv, TInv, IOTypeOK
<1> QED
  BY <1>1, <1>2 DEF WholeBody, Whole, ListInv

\* initialize_io changes nothing on the card.
LEMMA WholeBoot ==
  ASSUME NSectors <= ADDR_SPAN, Cells, TypeInv, WholeBody, Boot
  PROVE  WholeBody'
<1> USE DEF Boot, walk, user
<1>1. /\ pc = "off" /\ pc' = "idle" /\ geo = NoGeo /\ geo' = NoGeo /\ file' = NoFile
  BY DEF PowerOn, TypeInv, PhaseInv, UserInv
<1>2. /\ card' = card /\ output_sector_addr' = 0
      /\ output_sector_buf' \in {Cleared, card[0]}
  BY <1>1 DEF PowerOn, TypeInv, TInv, OffInv
<1>3. Mountable(Contents') => Contents' = card
  <2>1. /\ Contents' \in [Sector -> Block] /\ card \in [Sector -> Block]
        /\ Contents'[0] \in {Cleared, card[0]}
        /\ \A s \in Sector \ {0} : Contents'[s] = card[s]
    BY <1>1, <1>2, TypeBoot, CardAssumption DEF TypeInv, TInv, IOTypeOK, Contents, Sector
  <2> QED
    BY <2>1, MountedIsCard
<1> QED
  BY <1>1, <1>2, <1>3 DEF WholeBody, Whole, ListInv

\* fat32_set_context finds the directory that is in order.
LEMMA WholeReadBootSector ==
  ASSUME NSectors <= ADDR_SPAN, Cells, TypeInv, WholeBody, ReadBootSector
  PROVE  WholeBody'
<1> USE DEF ReadBootSector, Returned, user
<1>1. /\ fpc = "boot" /\ geo = NoGeo /\ pc = "idle" /\ file = NoFile /\ file' = file
      /\ cache' = cache
  BY DEF TypeInv, PhaseInv, UserInv, Mounting
<1>2. CASE ret # "ok"
  BY <1>1, <1>2, WholeFrame DEF Done, job, Contents, outVars
<1>3. CASE ret = "ok"
  <2> DEFINE g == GeoOf(card)
  <2>1. /\ moved[1][1][1] = StartOf(card) /\ Got = card[StartOf(card)][0]
        /\ Mountable(card)
        /\ output_sector_addr = 0 /\ output_sector_buf \in {Cleared, card[0]}
    BY <1>1, <1>3 DEF TypeInv, MountInv, Mounting
  <2>2. geo' = g /\ CacheEntry(0, g)
    BY <1>3, <2>1 DEF GeoOf
  <2>3. GeoOK(g) /\ g # NoGeo
    BY <2>1, SitedGeo DEF TypeInv, GeoInv, Placed
  <2>4. Orderly(Dir(g, card))
    BY <2>1 DEF WholeBody, Whole
  <2>5. Dir(g, Contents) = Dir(g, card)
    <3>1. \A s \in Sector \ {0} : Contents[s] = card[s]
      BY <1>1, <2>1 DEF Contents
    <3> QED
      BY <2>3, <3>1, DirSame
  <2> HIDE DEF g
  <2>6. 0 \in 0 .. MaxEntries /\ fpc \in Mounting
    BY <1>1, EntriesAssumption DEF Mounting
  <2>7. Contents' = Contents /\ card' = card
    BY <1>1, <2>2, <2>3, <2>6, NextEffect, EntriesAssumption DEF TypeInv
  <2> QED
    BY <1>1, <2>2, <2>4, <2>5, <2>7 DEF WholeBody, Whole, ListInv
<1> QED
  BY <1>2, <1>3

-----------------------------------------------------------------------------
\* fat32_creat_file has a list that is up to date.
LEMMA CreatListed ==
  ASSUME Cells, TypeInv, KeepBody, WholeBody, NEW name \in Names, Ready
  PROVE  /\ Listed(cache, Dir(geo, Contents), SlotIn(cache, name))
         /\ file = NoFile => /\ Dir(geo, Contents) = Dir(geo, card)
                            /\ \A t : Listed(cache, Dir(geo, Contents), t)
         /\ file # NoFile => /\ file.name = name /\ file.slot = SlotIn(cache, name)
                            /\ file.cluster = ClusterIn(cache, name)
<1>1. fpc = "idle" /\ geo # NoGeo
  BY DEF Ready
<1>2. CASE file = NoFile
  <2>1. /\ output_sector_addr = 0
        /\ \E m \in 1 .. MaxEntries : Ended(cache, Dir(geo, card), m)
    BY <1>1, <1>2 DEF KeepBody, ScanInv
  <2>2. \A s \in Sector \ {0} : Contents[s] = card[s]
    BY <2>1 DEF Contents
  <2>3. Dir(geo, Contents) = Dir(geo, card) /\ ListOK(cache)
    BY <1>1, <2>2, DirSame DEF TypeInv, GeoInv, WalkInv, ListOK
  <2>4. Orderly(Dir(geo, card))
    BY <1>1 DEF WholeBody, Whole
  <2>5. \A t : Listed(cache, Dir(geo, card), t)
    BY <2>1, <2>3, <2>4, EndedIsListed
  <2> QED
    BY <1>2, <2>3, <2>5
<1>3. CASE file # NoFile
  <2>1. /\ file.name = name /\ file.slot = SlotIn(cache, name)
        /\ file.cluster = ClusterIn(cache, name)
    BY <1>3 DEF TypeInv, UserInv, Cells, KeepBody, CacheInv
  <2> QED
    BY <1>3, <2>1 DEF WholeBody, ListInv
<1> QED
  BY <1>2, <1>3

\* fat32_creat_file finds the file on the list, or knows that it is not there.
LEMMA WholeCreat ==
  ASSUME Cells, TypeInv, KeepBody, WholeBody, NEW name \in Names, Creat(name)
  PROVE  WholeBody'
<1>1. /\ file'.name = name /\ file'.slot = SlotIn(cache, name)
      /\ fpc' = "idle" \/ fpc' = "creat"
      /\ card' = card /\ cache' = cache /\ Contents' = Contents /\ geo' = geo
  BY CreatPlace DEF job
<1>2. fpc' = "creat" => Holding(cache, name) = {}
  BY CreatPlace DEF Creat, Cached, Holding, OpenCached
<1>3. Listed(cache, Dir(geo, Contents), SlotIn(cache, name))
  BY CreatListed DEF Creat
<1>4. ListInv'
  BY <1>1, <1>2, <1>3 DEF ListInv
<1> QED
  BY <1>1, <1>4 DEF WholeBody, Whole

\* The entry that is written when no call has failed: a new one in its slot, or the
\* one that is there with another size.
LEMMA CalmOutput ==
  ASSUME Cells, TypeInv, KeepBody, failures = 0, file # NoFile, pc = "busy"
  PROVE  /\ fpc = "creat" => /\ Output.mark = "live" /\ Output.name = file.name
                             /\ Output.size = 0 /\ Output.first = file.cluster
         /\ fpc = "resize" =>
              LET d == Dir(geo, Contents)[file.slot]
              IN  /\ Output.mark = d.mark /\ Output.name = d.name
                  /\ Output.size = d.size + nbytes /\ Output.first = d.first
<1>1. CASE fpc = "creat"
  BY <1>1 DEF Output, Entry
<1>2. CASE fpc = "resize"
  <2>1. e \in EntryRec /\ Current(e)
    BY <1>2 DEF TypeInv, WalkInv, KeepBody, WriteInv, InWrite, Fresh, Paid
  <2> QED
    BY <1>2, <2>1 DEF Output, EntryRec, Current
<1> QED
  BY <1>1, <1>2

\* What is written leaves the directory in order.
LEMMA WholePut ==
  ASSUME NSectors <= ADDR_SPAN, Cells, TypeInv, KeepBody, WholeBody, failures = 0,
         PutByte(Output), Noted, UNCHANGED <<fpc, geo, cache, walk, e, user, sound>>
  PROVE  WholeBody'
<1> USE DEF walk, user
<1>1. pc = "busy" /\ op = "write"
  BY DEF PutByte
<1>2. /\ card' = card \/ card' = Contents
      /\ \/ Contents' = Contents
         \/ pos \in Place /\ Contents' = [Contents EXCEPT ![pos[1]][pos[2]] = Output]
  <2> DEFINE v == Output
  <2>1. v \in Byte /\ PutByte(v)
    BY <1>1, OutputType
  <2> HIDE DEF v
  <2>2. /\ card' = card \/ card' = Contents
        /\ \/ Contents' = Contents
           \/ pos \in Place /\ Contents' = [Contents EXCEPT ![pos[1]][pos[2]] = v]
    BY <2>1, PutEffect DEF TypeInv
  <2> QED
    BY <2>2 DEF v
<1>3. /\ fpc \in {"creat", "resize", "data"} /\ file # NoFile
  BY <1>1 DEF TypeInv, PhaseInv, UserInv, Writing, Reading
<1>4. CASE Contents' = Contents
  BY <1>2, <1>4, WholeFrame
<1>5. CASE pos \in Place /\ Contents' = [Contents EXCEPT ![pos[1]][pos[2]] = Output]
  <2> DEFINE d == Dir(geo, Contents)
             d2 == Dir(geo, Contents')
             t == file.slot
  <2>1. /\ \A s \in Slots \ {t} : d2[s] = d[s]
        /\ fpc = "data" => d2 = d
        /\ fpc # "data" => d2[t] = Output
    BY <1>1, <1>3, <1>5, DirAfterPut
  <2>2. geo # NoGeo /\ t \in Slots /\ t = SlotIn(cache, file.name)
    BY <1>3, FileView DEF KeepBody, CacheInv
  <2>3. ListOK(cache) /\ Orderly(d) /\ Listed(cache, d, t)
    BY <1>3, <2>2 DEF WholeBody, Whole, ListInv, TypeInv, WalkInv, ListOK
  <2>4. Orderly(d2) /\ Listed(cache, d2, t)
    <3>1. CASE fpc = "data"
      BY <2>1, <2>3, <3>1
    <3>2. CASE fpc = "creat"
      <4>1. Holding(cache, file.name) = {} /\ t = Lowest(0, SlotsIn(cache))
        BY <1>3, <2>2, <3>2 DEF WholeBody, ListInv, SlotIn
      <4>2. d2[t].mark = "live" /\ d2[t].name = file.name
        BY <1>1, <1>3, <2>1, <3>2, CalmOutput
      <4> HIDE DEF d, d2, t
      <4> QED
        BY <2>1, <2>2, <2>3, <4>1, <4>2, OrderlyCreat
    <3>3. CASE fpc = "resize"
      <4>1. d2[t].mark = d[t].mark /\ d2[t].name = d[t].name
        BY <1>1, <1>3, <2>1, <3>3, CalmOutput
      <4> HIDE DEF d, d2, t
      <4>2. \A s \in Slots : d2[s].mark = d[s].mark /\ d2[s].name = d[s].name
        BY <2>1, <4>1
      <4> QED
        BY <2>3, <4>2, OrderlyResize
    <3> QED
      BY <1>3, <3>1, <3>2, <3>3
  <2>5. Placed(card') /\ Placed(Contents')
    BY TypePut DEF TypeInv, GeoInv, Placed
  <2>6. Orderly(Dir(geo, card'))
    BY <1>2, <2>2, <2>3 DEF WholeBody, Whole
  <2>7. Whole(card') /\ Whole(Contents')
    BY <2>2, <2>4, <2>5, <2>6, WholeDisk
  <2>8. ListInv'
    BY <1>3, <2>4 DEF WholeBody, ListInv
  <2> QED
    BY <2>7, <2>8 DEF WholeBody, Whole
<1> QED
  BY <1>2, <1>4, <1>5

-----------------------------------------------------------------------------

\* Every step keeps the directory in order as long as no call has failed.
LEMMA WholeNext ==
  ASSUME NSectors <= ADDR_SPAN, Cells, TypeInv, KeepInv, CalmInv, WholeInv,
         [FatNext]_<<vars, fatVars>>
  PROVE  WholeInv'
<1> SUFFICES ASSUME failures = 0, failures' = 0, KeepBody, WholeBody PROVE WholeBody'
  BY CalmNext DEF CalmInv, KeepInv, WholeInv
<1> USE DEF walk, user
<1>1. CASE IoStep
  <2>1. ASSUME GetByte PROVE WholeBody'
    <3>1. Contents' = Contents /\ card' = card
      BY <2>1, GetEffect DEF TypeInv
    <3> QED
      BY <1>1, <3>1, WholeFrame DEF IoStep
  <2> QED
    BY <1>1, <2>1, WholePut DEF IoStep
<1>2. CASE Mount \/ ReadPartition
  <2>1. Contents' = Contents /\ card' = card /\ geo' = geo
    BY <1>2 DEF Mount, ReadPartition, Returned, Done, job, IoCall, Contents, outVars,
       TypeInv, PhaseInv
  <2>2. file' = NoFile
    BY <1>2 DEF Mount, ReadPartition, Returned, TypeInv, UserInv, Mounting
  <2> QED
    BY <2>1, <2>2, WholeFrame
<1>3. CASE ReadEntry \/ ReadFat
  <2>1. geo # NoGeo /\ file' = NoFile /\ card' = card
    BY <1>3 DEF ReadEntry, ReadFat, Returned, Skip, NextEntry, CacheEntry, Done, IoCall,
       TypeInv, PhaseInv, UserInv, Mounting
  <2>2. Contents' = Contents /\ geo' = geo
    BY <1>3, <2>1, OthersStay DEF Initialize
  <2> QED
    BY <2>1, <2>2, WholeFrame
<1>4. CASE Append_to_log
  <2>1. geo # NoGeo /\ file # NoFile /\ file \in FileRec
    BY <1>4 DEF Append_to_log, FlushInput, FlushOutput, ReadSize, WriteSize, Finish,
       Returned, TypeInv, PhaseInv, UserInv, Writing
  <2>2. Contents' = Contents /\ geo' = geo /\ file'.slot = file.slot
    BY <1>4, <2>1, OthersStay
  <2>3. cache' = cache /\ file'.name = file.name /\ fpc' # "creat"
    BY <1>4, <2>1 DEF Append_to_log, FlushInput, FlushOutput, ReadSize, WriteSize,
       Finish, FileRec
  <2>4. card' = card \/ card' = Contents
    <3>1. CASE FlushOutput
      <4>1. Flushed = Contents
        BY <3>1, FlushedIsContents DEF FlushOutput, Returned, TypeInv, TInv
      <4> QED
        BY <3>1, <4>1 DEF FlushOutput, FlushWrite
    <3>2. CASE ~FlushOutput
      BY <1>4, <3>2 DEF Append_to_log, FlushInput, FlushRead, ReadSize, WriteSize,
         Finish, IoCall, vars
    <3> QED
      BY <3>1, <3>2
  <2> QED
    BY <2>1, <2>2, <2>3, <2>4, WholeFrame
<1>5. CASE \E n \in 1 .. MaxLen : Write(n)
  <2>1. geo # NoGeo /\ file # NoFile
    BY <1>5 DEF Write, Ready
  <2>2. Contents' = Contents /\ geo' = geo
    BY <1>5, <2>1, OthersStay
  <2>3. cache' = cache /\ file' = file /\ fpc' # "creat" /\ card' = card
    BY <1>5 DEF Write, IoCall
  <2> QED
    BY <2>1, <2>2, <2>3, WholeFrame
<1>6. CASE UNCHANGED <<vars, fatVars>>
  BY <1>6, WholeFrame DEF vars, fatVars, job, Contents, outVars
<1> QED
  BY <1>1, <1>2, <1>3, <1>4, <1>5, <1>6, WholeBoot, WholeCut, WholeReadBootSector,
     WholeCreat DEF FatNext, Initialize

\* As long as no call has failed, the directory is in order on the card and in the
\* buffers, and the list that was made at the start is what is in use.
THEOREM WholeInvariance ==
  ASSUME NSectors <= ADDR_SPAN, Cells
  PROVE  FatSpec => [](CalmInv /\ WholeInv)
<1>1. FatInit => CalmInv /\ WholeInv
  BY WholeInit DEF WholeInv
<1>2. TypeInv /\ KeepInv /\ CalmInv /\ WholeInv /\ [FatNext]_<<vars, fatVars>> =>
        CalmInv' /\ WholeInv'
  BY CalmNext, WholeNext
<1> QED
  BY <1>1, <1>2, TypeInvariance, KeepInvariance, PTL DEF FatSpec

\* The directory stays one that another system can read, for every volume that is
\* (DirectoryWellFormed; fat.c:488-503, 626-679).
THEOREM StaysWellFormed ==
  ASSUME NSectors <= ADDR_SPAN, Cells
  PROVE  FatSpec => []DirectoryWellFormed
<1>1. WholeInv => DirectoryWellFormed
  <2> SUFFICES ASSUME WholeInv, geo # NoGeo, failures = 0 PROVE DirectoryWellFormed
    BY DEF DirectoryWellFormed
  <2>1. Orderly(Dir(geo, Contents))
    BY DEF WholeInv, WholeBody, Whole
  <2>2. \A s \in Slots : Root(Contents, s) = Dir(geo, Contents)[s]
    BY RootIsDir
  <2> QED
    BY <2>1, <2>2 DEF DirectoryWellFormed, Orderly, Live
<1> QED
  BY <1>1, WholeInvariance, PTL

-----------------------------------------------------------------------------

\* Dividing by the size of a sector has one answer.
LEMMA DivisionIs ==
  ASSUME NEW q \in Nat, NEW r \in Offset
  PROVE  /\ (SECTOR_SIZE * q + r) \div SECTOR_SIZE = q
         /\ (SECTOR_SIZE * q + r) % SECTOR_SIZE = r
<1> DEFINE S == SECTOR_SIZE
           n == S * q + r
           q2 == n \div S
           r2 == n % S
<1>1. S \in Nat /\ S >= 1 /\ r \in Nat /\ r < S /\ S * q \in Nat /\ n \in Nat
  BY CardAssumption DEF Offset
<1>2. q2 \in Nat /\ r2 \in Offset /\ n = S * q2 + r2
  BY <1>1, Division
<1>3. r2 \in Nat /\ r2 < S
  BY <1>1, <1>2 DEF Offset
<1> HIDE DEF q2, r2
<1>4. ASSUME NEW a \in Nat, NEW b \in Nat, a < b PROVE S * b >= S * a + S
  <2>1. b - a \in Nat /\ b - a >= 1 /\ b = a + (b - a)
    BY <1>4
  <2>2. (b - a) * S >= S
    BY <1>1, <2>1, AtLeast
  <2>3. S * b = S * a + (b - a) * S
    BY <1>1, <1>4
  <2> QED
    BY <1>1, <2>2, <2>3
<1>5. ~(q < q2) /\ ~(q2 < q)
  <2>1. S * q2 \in Nat
    BY <1>1, <1>2
  <2>2. n = S * q + r
    OBVIOUS
  <2> HIDE DEF n, S
  <2> QED
    BY <1>1, <1>2, <1>3, <1>4, <2>1, <2>2
<1>6. q2 = q
  BY <1>2, <1>5
<1>7. r2 = r
  BY <1>1, <1>2, <1>6
<1> QED
  BY <1>6, <1>7 DEF q2, r2

\* io_write_nbytes, which goes on to the next place on the card, goes on to the
\* place of the next byte of the file (fat.c:681-695).
LEMMA DataPlaceNext ==
  ASSUME GeoOK(geo), NEW c \in Nat, c >= 2, NEW n \in Nat
  PROVE  NextPlace(DataPlace(c, n)) = DataPlace(c, n + 1)
<1> DEFINE q == n \div SECTOR_SIZE
           r == n % SECTOR_SIZE
           f == geo.cluster_begin_sector + (c - 2) * geo.sectors_per_cluster
<1>1. q \in Nat /\ r \in Offset /\ r \in Nat /\ n = SECTOR_SIZE * q + r
  BY Division DEF Offset
<1>2. f \in Nat
  <2>1. c - 2 \in Nat /\ geo.cluster_begin_sector \in Nat /\ geo.sectors_per_cluster \in Nat
    BY DEF GeoOK
  <2> QED
    BY <2>1
<1>3. /\ DataPlace(c, n) = <<f + q, r>>
      /\ DataPlace(c, n + 1) = <<f + ((n + 1) \div SECTOR_SIZE), (n + 1) % SECTOR_SIZE>>
  BY DEF DataPlace
<1> HIDE DEF f, q, r
<1>4. CASE r + 1 = SECTOR_SIZE
  <2>1. n + 1 = SECTOR_SIZE * (q + 1) + 0 /\ 0 \in Offset /\ q + 1 \in Nat
    BY <1>1, <1>4, CardAssumption DEF Offset
  <2>2. (n + 1) \div SECTOR_SIZE = q + 1 /\ (n + 1) % SECTOR_SIZE = 0
    BY <2>1, DivisionIs
  <2> QED
    BY <1>1, <1>2, <1>3, <1>4, <2>2 DEF NextPlace
<1>5. CASE r + 1 # SECTOR_SIZE
  <2>1. n + 1 = SECTOR_SIZE * q + (r + 1) /\ r + 1 \in Offset
    BY <1>1, <1>5, CardAssumption DEF Offset
  <2>2. (n + 1) \div SECTOR_SIZE = q /\ (n + 1) % SECTOR_SIZE = r + 1
    BY <1>1, <2>1, DivisionIs
  <2> QED
    BY <1>3, <1>5, <2>2 DEF NextPlace
<1> QED
  BY <1>4, <1>5

\* No two bytes of a file are at one place.
LEMMA DataPlacesDiffer ==
  ASSUME GeoOK(geo), NEW c \in Nat, c >= 2, NEW m \in Nat, NEW n \in Nat,
         DataPlace(c, m) = DataPlace(c, n)
  PROVE  m = n
<1> DEFINE f == geo.cluster_begin_sector + (c - 2) * geo.sectors_per_cluster
<1>1. f \in Nat
  <2>1. c - 2 \in Nat /\ geo.cluster_begin_sector \in Nat /\ geo.sectors_per_cluster \in Nat
    BY DEF GeoOK
  <2> QED
    BY <2>1
<1>2. /\ f + (m \div SECTOR_SIZE) = f + (n \div SECTOR_SIZE)
      /\ m % SECTOR_SIZE = n % SECTOR_SIZE
  BY DEF DataPlace
<1> HIDE DEF f
<1>3. m \div SECTOR_SIZE \in Nat /\ n \div SECTOR_SIZE \in Nat
  BY Division
<1>4. m \div SECTOR_SIZE = n \div SECTOR_SIZE
  BY <1>1, <1>2, <1>3
<1> QED
  BY <1>2, <1>4, Division

-----------------------------------------------------------------------------
\* The entry of the program's file on card c, or in what is seen of it
Mine(c) == Live(Dir(geo, c), file.slot) /\ Dir(geo, c)[file.slot].name = file.name
SizeOf(c) == Dir(geo, c)[file.slot].size

\* The bytes of the file that are where they belong
DataAt(c, i) ==
  LET p == DataPlace(file.cluster, i - 1)
  IN  p[1] \in Sector /\ c[p[1]][p[2]] = Datum(file.name, i)
DataOn(c, m) == \A i \in 1 .. m : DataAt(c, i)
Behind(c) == Mine(c) => DataOn(c, SizeOf(c) - base)
OwnFirst(c) == Mine(c) => Dir(geo, c)[file.slot].first = file.cluster

Creating == fpc = "creat" /\ pc = "busy"
Counted == base + file.at + (IF fpc = "resize" /\ pc = "idle" THEN nbytes ELSE 0)
Reached == file.at + (IF fpc = "data" THEN Len(moved)
                      ELSE IF fpc \in Writing THEN nbytes ELSE 0)

\* The size that is seen is what has been counted, the bytes that it counts are
\* seen, and also those of the write under way; and on the card it is so for the
\* size that is there, which is never the larger one unless the file is created
\* anew, from its first byte.  The entry of a file that is created is not listed and
\* names the cluster the file is written to.
SizeBody ==
  /\ file = NoFile => made = {}
  /\ file # NoFile =>
       /\ fpc = "creat" => base = 0 /\ file.at = 0
       /\ ~Creating => Mine(Contents) /\ SizeOf(Contents) = Counted
       /\ Behind(card) /\ Behind(Contents) /\ DataOn(Contents, Reached)
       /\ IF Holding(cache, file.name) = {} THEN base = 0
          ELSE Mine(card) => SizeOf(card) <= SizeOf(Contents)
       /\ fpc = "data" => IF pc = "idle" THEN Len(moved) = nbytes
                          ELSE pos = DataPlace(file.cluster, file.at + Len(moved))
       /\ made # {} => Holding(cache, file.name) = {}
       /\ Holding(cache, file.name) = {} => OwnFirst(card) /\ OwnFirst(Contents)

SizeInv == failures = 0 => SizeBody

\* The numbers of the sizes
LEMMA SizeType ==
  ASSUME Cells, TypeInv, KeepBody, file # NoFile
  PROVE  /\ SizeOf(card) \in Nat /\ SizeOf(Contents) \in Nat
         /\ base \in Nat /\ nbytes \in Nat /\ file.at \in Nat
<1>1. /\ GeoOK(geo) /\ file.slot \in Slots /\ file.at \in Nat
  BY FileView
<1>2. Contents \in [Sector -> Block] /\ card \in [Sector -> Block]
  BY ContentsType DEF TypeInv, TInv, IOTypeOK
<1>3. Dir(geo, card)[file.slot] \in EntryRec /\ Dir(geo, Contents)[file.slot] \in EntryRec
  BY <1>1, <1>2, DirType
<1>4. SizeOf(card) \in 0 .. MaxSize /\ SizeOf(Contents) \in 0 .. MaxSize
  BY <1>3 DEF SizeOf, EntryRec
<1>5. base \in Nat /\ nbytes \in Nat
  BY DEF TypeInv, UserInv
<1> QED
  BY <1>1, <1>4, <1>5

\* A step that changes no entry and none of the bytes that are counted keeps the sizes.
LEMMA SizeFrame ==
  ASSUME SizeBody, file # NoFile, SizeOf(Contents) \in Nat, ~Creating, fpc' # "creat",
         card' = card \/ card' = Contents, Contents' = Contents,
         UNCHANGED <<geo, cache, base, made>>,
         file' # NoFile,
         file'.slot = file.slot, file'.name = file.name, file'.cluster = file.cluster,
         Counted' = Counted, Reached \in Nat, Reached' \in Nat, Reached' <= Reached,
         fpc' = "data" => /\ pc' # "idle"
                          /\ pos' = DataPlace(file.cluster, file'.at + Len(moved'))
                       \/ /\ pc' = "idle" /\ Len(moved') = nbytes'
  PROVE  SizeBody'
<1>1. /\ \A i : /\ DataAt(card, i)' = DataAt(card', i)
                /\ DataAt(Contents, i)' = DataAt(Contents, i)
      /\ Mine(card)' = Mine(card') /\ SizeOf(card)' = SizeOf(card')
      /\ Mine(Contents)' = Mine(Contents) /\ SizeOf(Contents)' = SizeOf(Contents)
  BY DEF DataAt, DataPlace, Mine, SizeOf
<1>2. Behind(Contents)' /\ Behind(card)'
  <2>1. Behind(card') /\ Behind(Contents)
    BY DEF SizeBody
  <2> QED
    BY <1>1, <2>1 DEF Behind, DataOn
<1>3. DataOn(Contents, Reached)'
  <2>1. DataOn(Contents, Reached)
    BY DEF SizeBody
  <2> QED
    BY <1>1, <2>1 DEF DataOn
<1>4. Mine(Contents)' /\ SizeOf(Contents)' = Counted'
  BY <1>1 DEF SizeBody
<1>5. IF Holding(cache', file'.name) = {} THEN base' = 0
      ELSE Mine(card)' => SizeOf(card)' <= SizeOf(Contents)'
  BY <1>1 DEF SizeBody
<1>6. fpc' = "data" => IF pc' = "idle" THEN Len(moved') = nbytes'
                       ELSE pos' = DataPlace(file.cluster, file.at + Len(moved))'
  <2>1. \A n : DataPlace(file.cluster, n)' = DataPlace(file.cluster, n)
    BY DEF DataPlace
  <2>2. DataPlace(file.cluster, file.at + Len(moved))'
          = DataPlace(file.cluster, file'.at + Len(moved'))
    BY <2>1
  <2> QED
    BY <2>2
<1>7. /\ made' # {} => Holding(cache', file'.name) = {}
      /\ Holding(cache', file'.name) = {} => OwnFirst(card)' /\ OwnFirst(Contents)'
  <2>1. /\ OwnFirst(card)' = OwnFirst(card')
        /\ OwnFirst(Contents)' = OwnFirst(Contents)
    BY <1>1 DEF OwnFirst
  <2>2. made # {} => Holding(cache, file.name) = {}
    BY DEF SizeBody
  <2>3. Holding(cache, file.name) = {} => OwnFirst(card') /\ OwnFirst(Contents)
    BY DEF SizeBody
  <2> QED
    BY <2>1, <2>2, <2>3
<1> QED
  BY <1>2, <1>3, <1>4, <1>5, <1>6, <1>7 DEF SizeBody

\* Without a failure io_put_byte puts the byte, and the call goes on to the last.
LEMMA CalmPut ==
  ASSUME NSectors <= ADDR_SPAN, Cells, TypeInv, failures = 0, failures' = 0,
         PutByte(Output), Noted
  PROVE  /\ pos \in Place /\ moved' = Append(moved, <<pos, Output>>)
         /\ Contents' = [Contents EXCEPT ![pos[1]][pos[2]] = Output]
         /\ card' = card \/ card' = Contents
         /\ IF left = 1 THEN pc' = "idle" ELSE pc' = "busy" /\ pos' = NextPlace(pos)
<1> DEFINE v == Output
<1>1. pc = "busy" /\ op = "write"
  BY DEF PutByte
<1>2. v \in Byte /\ PutByte(v)
  BY <1>1, OutputType
<1>3. ~(pc' = "idle" /\ ret' = "err")
  BY DEF Noted
<1> HIDE DEF v
<1>4. /\ pos \in Place /\ moved' = Append(moved, <<pos, v>>)
      /\ Contents' = [Contents EXCEPT ![pos[1]][pos[2]] = v]
      /\ card' = card \/ card' = Contents
  BY <1>2, <1>3, PutEffect DEF TypeInv
<1>5. Succeed(v)
  BY <1>2, <1>3 DEF PutByte, PutHit, PutMiss, Stored, FlushFails, FetchFails, Fail, Leave
<1>6. IF left = 1 THEN pc' = "idle" ELSE pc' = "busy" /\ pos' = NextPlace(pos)
  BY <1>1, <1>5 DEF Succeed, Leave, Continue
<1> QED
  BY <1>4, <1>6 DEF v

\* The bytes that are where they belong stay there, whatever is written.
LEMMA DataStays ==
  ASSUME NSectors <= ADDR_SPAN, Cells, TypeInv, KeepBody, SizeBody, file # NoFile,
         pc = "busy", op = "write", pos \in Place,
         Contents' = [Contents EXCEPT ![pos[1]][pos[2]] = Output],
         NEW i \in Nat \ {0}, UNCHANGED <<geo, file>>
  PROVE  /\ DataAt(Contents, i) => DataAt(Contents, i)'
         /\ fpc = "data" /\ i = Reached + 1 => DataAt(Contents, i)'
<1> DEFINE p == DataPlace(file.cluster, i - 1)
           v == Output
<1>1. /\ GeoOK(geo) /\ file.cluster \in Nat /\ file.cluster >= 3 /\ file.at \in Nat
      /\ Here[1] \in Nat /\ Here[1] < geo.cluster_begin_sector + geo.sectors_per_cluster
  BY FileView DEF Sector
<1>2. i - 1 \in Nat /\ file.cluster >= 2
  BY <1>1
<1>3. /\ p \in Nat \X Offset
      /\ p[1] >= geo.cluster_begin_sector + geo.sectors_per_cluster
  BY <1>1, <1>2, DataPlaceIn
<1>4. p' = p
  BY DEF DataPlace
<1>5. Contents \in [Sector -> Block]
  BY ContentsType DEF TypeInv, TInv
<1>6. CASE fpc = "data"
  <2> DEFINE n == file.at + Len(moved)
  <2>1. pos = DataPlace(file.cluster, n) /\ Reached = n /\ n \in Nat
    <3>1. Len(moved) \in Nat
      BY DEF TypeInv, TInv, IOTypeOK
    <3> QED
      BY <1>1, <1>6, <3>1 DEF SizeBody, Reached
  <2>2. v = Datum(file.name, n + 1)
    BY <1>6 DEF Output
  <2> HIDE DEF n
  <2>3. CASE i = n + 1
    <3>1. p = pos /\ v = Datum(file.name, i)
      BY <2>1, <2>2, <2>3
    <3> HIDE DEF p, v
    <3>2. Contents'[p[1]][p[2]] = v /\ p[1] \in Sector
      BY <1>5, <3>1 DEF Place, Block, v
    <3>3. DataAt(Contents, i)'
      BY <1>4, <3>1, <3>2 DEF DataAt, p
    <3> QED
      BY <3>3
  <2>4. CASE i # n + 1
    <3>1. p # pos
      BY <1>1, <1>2, <2>1, <2>4, DataPlacesDiffer
    <3> HIDE DEF p, v
    <3>2. p[1] \in Sector => Contents'[p[1]][p[2]] = Contents[p[1]][p[2]]
      BY <1>3, <1>5, <3>1 DEF Place, Block
    <3>3. DataAt(Contents, i) => DataAt(Contents, i)'
      BY <1>4, <3>2 DEF DataAt, p
    <3> QED
      BY <2>1, <2>4, <3>3
  <2> QED
    BY <2>3, <2>4
<1>7. CASE fpc # "data"
  <2>1. fpc \in {"creat", "resize"}
    BY <1>7 DEF TypeInv, PhaseInv
  <2>2. pos[1] < p[1]
    <3>1. pos = Here
      BY <2>1 DEF KeepBody, WriteInv
    <3>2. geo.cluster_begin_sector \in Nat /\ geo.sectors_per_cluster \in Nat
      BY <1>1 DEF GeoOK
    <3>3. p[1] \in Nat
      BY <1>3
    <3> HIDE DEF p
    <3> QED
      BY <1>1, <1>3, <3>1, <3>2, <3>3
  <2> HIDE DEF p, v
  <2>3. p[1] # pos[1]
    BY <1>3, <2>2 DEF Place, Sector
  <2>4. p[1] \in Sector => Contents'[p[1]][p[2]] = Contents[p[1]][p[2]]
    BY <1>3, <1>5, <2>3 DEF Place, Block
  <2> QED
    BY <1>4, <1>7, <2>4 DEF DataAt, p
<1> QED
  BY <1>6, <1>7

\* fat32_creat_file of a file that is listed: its size is the one to count from.
LEMMA SizeOpen ==
  ASSUME Cells, TypeInv, KeepBody, WholeBody, SizeBody, NEW name \in Names,
         Ready, Cached(name) # {}, OpenCached(name), UNCHANGED <<geo, cache, nbytes>>
  PROVE  SizeBody'
<1> DEFINE t == SlotIn(cache, name)
           d == Dir(geo, Contents)
<1>1. /\ fpc = "idle" /\ fpc' = "idle" /\ card' = card /\ Contents' = Contents
      /\ Holding(cache, name) # {}
  BY DEF Ready, OpenCached, job, Contents, outVars, Cached, Holding
<1>2. file' = [name |-> name, slot |-> t, cluster |-> ClusterIn(cache, name), at |-> 0]
      /\ base' = Root(Contents, t).size
  BY <1>1 DEF OpenCached, Cached, Holding, FirstIn, SlotIn, ClusterIn
<1>3. t \in Slots /\ Live(d, t) /\ d[t].name = name
  <2>1. ListOK(cache) /\ Listed(cache, d, t)
    BY CreatListed DEF TypeInv, WalkInv, ListOK
  <2>2. FirstIn(cache, name) \in DOMAIN cache /\ cache[FirstIn(cache, name)].name = name
    BY <1>1, <2>1, FirstIs
  <2> QED
    BY <1>1, <2>1, <2>2 DEF SlotIn, Listed, ListOK
<1>4. Root(Contents, t) = d[t]
  BY <1>3, RootIsDir
<1>5. d[t].size \in Nat /\ Dir(geo, card)[t].size \in Nat
  <2>1. GeoOK(geo)
    BY DEF Ready, TypeInv, GeoInv
  <2>2. d[t] \in EntryRec /\ Dir(geo, card)[t] \in EntryRec
    BY <1>3, <2>1, DirType, ContentsType DEF TypeInv, TInv, IOTypeOK
  <2> QED
    BY <2>2 DEF EntryRec
<1>6. /\ Mine(Contents)' /\ SizeOf(Contents)' = base'
      /\ Mine(card)' = (Live(Dir(geo, card), t) /\ Dir(geo, card)[t].name = name)
      /\ SizeOf(card)' = Dir(geo, card)[t].size
  BY <1>1, <1>2, <1>3, <1>4 DEF Mine, SizeOf
<1>7. Mine(card)' => SizeOf(card)' <= base'
  <2>1. CASE file = NoFile
    BY <1>1, <1>2, <1>4, <1>5, <1>6, <2>1, CreatListed
  <2>2. CASE file # NoFile
    <3>1. file.name = name /\ file.slot = t
      BY <2>2, CreatListed
    <3> QED
      BY <1>1, <1>2, <1>4, <1>6, <2>2, <3>1 DEF SizeBody, Mine, SizeOf
  <2> QED
    BY <2>1, <2>2
<1>8. Behind(card)' /\ Behind(Contents)'
  BY <1>2, <1>4, <1>5, <1>6, <1>7 DEF Behind, DataOn
<1>9. Counted' = base' /\ Reached' = 0 /\ file'.name = name
  BY <1>1, <1>2, <1>4, <1>5 DEF Counted, Reached, Writing
<1>10. DataOn(Contents, Reached)'
  BY <1>9 DEF DataOn
<1>11. Holding(cache', file'.name) # {}
  BY <1>1, <1>9
<1>12. made' = {} /\ file' # NoFile
  <2>1. made' = made
    BY DEF OpenCached
  <2>2. file # NoFile => file.name = name
    BY CreatListed
  <2> QED
    BY <1>1, <1>2, <2>1, <2>2 DEF SizeBody, Cells, NoFile
<1> QED
  BY <1>1, <1>6, <1>7, <1>8, <1>9, <1>10, <1>11, <1>12 DEF SizeBody

\* fat32_creat_file of a file that is not listed: it begins with no byte, and if the
\* program has created it before, the bytes that are there are counted still.
LEMMA SizeNew ==
  ASSUME Cells, TypeInv, KeepBody, WholeBody, SizeBody, NEW name \in Names,
         Ready, Cached(name) = {}, CreateNew(name), UNCHANGED <<geo, cache, nbytes>>
  PROVE  SizeBody'
<1> DEFINE t == SlotIn(cache, name)
<1>1. /\ fpc' = "creat" /\ pc' = "busy" /\ card' = card /\ Contents' = Contents
      /\ base' = 0 /\ Holding(cache, name) = {} /\ geo # NoGeo
  BY DEF Ready, CreateNew, IoCall, Contents, outVars, Cached, Holding
<1>2. file' = [name |-> name, slot |-> t, cluster |-> ClusterIn(cache, name), at |-> 0]
  BY <1>1 DEF CreateNew, SlotIn, ClusterIn, next_root_dir_loc, next_cluster, SlotsIn,
     ClustersIn
<1>3. /\ Behind(card)' /\ Behind(Contents)'
      /\ OwnFirst(card)' /\ OwnFirst(Contents)'
  <2>1. CASE file = NoFile
    <3>1. t = Lowest(0, SlotsIn(cache)) /\ ListOK(cache) /\ t \in Slots
      <4>1. fpc \notin Mounting
        BY DEF Ready, Mounting
      <4> QED
        BY <1>1, <4>1 DEF SlotIn, TypeInv, WalkInv, ListOK, KeepBody, CacheInv, Aimed
    <3>2. t \notin SlotsIn(cache) /\ t # MaxEntries
      BY <3>1, NextLocIs, EntriesAssumption DEF Slots
    <3>3. ~Live(Dir(geo, Contents), t) /\ Dir(geo, Contents) = Dir(geo, card)
      <4>1. Listed(cache, Dir(geo, Contents), MaxEntries)
        BY <2>1, CreatListed
      <4> QED
        BY <2>1, <3>1, <3>2, <4>1, CreatListed DEF Listed
    <3> QED
      BY <1>1, <1>2, <3>3 DEF Behind, OwnFirst, Mine
  <2>2. CASE file # NoFile
    <3>1. /\ file.name = name /\ file.slot = t /\ file.cluster = ClusterIn(cache, name)
      BY <2>2, CreatListed
    <3>2. /\ base = 0 /\ Behind(card) /\ Behind(Contents)
          /\ OwnFirst(card) /\ OwnFirst(Contents)
      BY <1>1, <2>2, <3>1 DEF SizeBody
    <3>3. /\ Mine(card)' = Mine(card) /\ Mine(Contents)' = Mine(Contents)
          /\ SizeOf(card)' = SizeOf(card) /\ SizeOf(Contents)' = SizeOf(Contents)
      BY <1>1, <1>2, <3>1 DEF Mine, SizeOf
    <3>4. \A i : /\ DataAt(card, i)' = DataAt(card, i)
                 /\ DataAt(Contents, i)' = DataAt(Contents, i)
      BY <1>1, <1>2, <3>1 DEF DataAt, DataPlace
    <3>5. Behind(card)' /\ Behind(Contents)'
      BY <1>1, <3>2, <3>3, <3>4 DEF Behind, DataOn
    <3>6. OwnFirst(card)' /\ OwnFirst(Contents)'
      BY <1>1, <1>2, <3>1, <3>2, <3>3 DEF OwnFirst
    <3> QED
      BY <3>5, <3>6
  <2> QED
    BY <2>1, <2>2
<1>4. file'.at = 0 /\ file'.name = name /\ Creating' /\ Reached' = 0
  BY <1>1, <1>2 DEF Creating, Reached, Writing
<1>5. DataOn(Contents, Reached)'
  BY <1>4 DEF DataOn
<1>6. file' # NoFile
  BY <1>2 DEF NoFile, Cells
<1> QED
  BY <1>1, <1>3, <1>4, <1>5, <1>6 DEF SizeBody

\* fat32_creat_file keeps what is known of the sizes.
LEMMA SizeCreat ==
  ASSUME Cells, TypeInv, KeepBody, WholeBody, SizeBody, NEW name \in Names, Creat(name)
  PROVE  SizeBody'
BY SizeOpen, SizeNew DEF Creat

\* What is written is counted, and what is counted is there.
LEMMA SizePut ==
  ASSUME NSectors <= ADDR_SPAN, Cells, TypeInv, KeepBody, WholeBody, SizeBody,
         failures = 0, failures' = 0,
         PutByte(Output), Noted, UNCHANGED <<fpc, geo, cache, walk, e, user, sound>>
  PROVE  SizeBody'
<1> USE DEF walk, user
<1>1. /\ pc = "busy" /\ op = "write" /\ fpc \in {"creat", "resize", "data"}
      /\ file # NoFile
      /\ fpc # "data" => left = 1
      /\ fpc = "data" => Len(moved) + left = nbytes
  BY DEF PutByte, TypeInv, PhaseInv, UserInv, Writing, Reading
<1>2. /\ pos \in Place /\ moved' = Append(moved, <<pos, Output>>)
      /\ Contents' = [Contents EXCEPT ![pos[1]][pos[2]] = Output]
      /\ card' = card \/ card' = Contents
      /\ IF left = 1 THEN pc' = "idle" ELSE pc' = "busy" /\ pos' = NextPlace(pos)
  BY CalmPut
<1>3. Len(moved) \in Nat /\ Len(moved') = Len(moved) + 1
  BY <1>2 DEF TypeInv, TInv, IOTypeOK
<1>4. /\ \A i \in Nat \ {0} : DataAt(Contents, i) => DataAt(Contents, i)'
      /\ fpc = "data" => \A i \in Nat \ {0} : i = Reached + 1 => DataAt(Contents, i)'
  BY <1>1, <1>2, DataStays
<1>5. /\ SizeOf(card) \in Nat /\ SizeOf(Contents) \in Nat
      /\ base \in Nat /\ nbytes \in Nat /\ file.at \in Nat /\ file.slot \in Slots
      /\ GeoOK(geo) /\ file.cluster \in Nat /\ file.cluster >= 3
  BY <1>1, SizeType, FileView
<1>6. /\ fpc = "data" => Mine(Contents)' = Mine(Contents) /\ SizeOf(Contents)' = SizeOf(Contents)
      /\ fpc = "creat" => Mine(Contents)' /\ SizeOf(Contents)' = 0
      /\ fpc = "resize" => /\ Mine(Contents)' = Mine(Contents)
                           /\ SizeOf(Contents)' = SizeOf(Contents) + nbytes
  <2> DEFINE d2 == Dir(geo, Contents')
             d == Dir(geo, Contents)
  <2>1. /\ fpc = "data" => d2 = d
        /\ fpc # "data" => d2[file.slot] = Output
    BY <1>1, <1>2, DirAfterPut
  <2>2. /\ fpc = "creat" => /\ Output.mark = "live" /\ Output.name = file.name
                            /\ Output.size = 0
        /\ fpc = "resize" => /\ Output.mark = d[file.slot].mark
                             /\ Output.name = d[file.slot].name
                             /\ Output.size = d[file.slot].size + nbytes
    BY <1>1, CalmOutput
  <2>3. /\ Mine(Contents)' = (Live(d2, file.slot) /\ d2[file.slot].name = file.name)
        /\ SizeOf(Contents)' = d2[file.slot].size
    BY DEF Mine, SizeOf
  <2> HIDE DEF d, d2
  <2>4. /\ Mine(Contents) = (Live(d, file.slot) /\ d[file.slot].name = file.name)
        /\ SizeOf(Contents) = d[file.slot].size
    BY DEF Mine, SizeOf, d
  <2> QED
    BY <1>1, <2>1, <2>2, <2>3, <2>4 DEF Live
<1>7. /\ Mine(Contents)' /\ SizeOf(Contents)' = Counted'
      /\ fpc # "creat" => SizeOf(Contents) <= SizeOf(Contents)'
      /\ fpc = "resize" => SizeOf(Contents)' - base <= Reached
      /\ fpc = "creat" => base = 0 /\ SizeOf(Contents)' = 0
  BY <1>1, <1>2, <1>5, <1>6 DEF SizeBody, Creating, Counted, Reached, Writing
<1>8. Behind(card)'
  <2>1. Behind(card')
    BY <1>1, <1>2 DEF SizeBody
  <2>2. /\ Mine(card)' = Mine(card') /\ SizeOf(card)' = SizeOf(card')
        /\ \A i : DataAt(card, i)' = DataAt(card', i)
    BY DEF Mine, SizeOf, DataAt, DataPlace
  <2> QED
    BY <2>1, <2>2 DEF Behind, DataOn
<1>9. ASSUME NEW m \in Int, DataOn(Contents, m) PROVE DataOn(Contents, m)'
  BY <1>4, <1>9 DEF DataOn
<1>10. Reached \in Nat /\ DataOn(Contents, Reached)
  BY <1>1, <1>3, <1>5 DEF SizeBody, Reached
<1>11. Behind(Contents)'
  <2> SUFFICES ASSUME Mine(Contents)' PROVE DataOn(Contents, SizeOf(Contents) - base)'
    BY DEF Behind
  <2>1. CASE fpc = "data"
    <3>1. DataOn(Contents, SizeOf(Contents) - base)
      BY <1>1, <1>6, <2>1 DEF SizeBody, Behind
    <3>2. SizeOf(Contents) - base \in Int
      BY <1>5
    <3>3. SizeOf(Contents)' = SizeOf(Contents) /\ base' = base
      BY <1>6, <2>1
    <3> QED
      BY <1>4, <3>1, <3>2, <3>3 DEF DataOn
  <2>2. CASE fpc = "creat"
    BY <1>7, <2>2 DEF DataOn
  <2>3. CASE fpc = "resize"
    <3>1. SizeOf(Contents)' - base <= Reached /\ SizeOf(Contents)' - base \in Int
      BY <1>5, <1>6, <1>7, <2>3
    <3> QED
      BY <1>4, <1>10, <3>1 DEF DataOn
  <2> QED
    BY <1>1, <2>1, <2>2, <2>3
<1>12. DataOn(Contents, Reached)'
  <2>1. IF fpc = "data" THEN Reached' = Reached + 1 ELSE Reached' = Reached
    BY <1>1, <1>3, <1>5 DEF Reached, Writing
  <2>2. ASSUME NEW i \in 1 .. Reached' PROVE DataAt(Contents, i)'
    <3>1. CASE i \in 1 .. Reached
      BY <1>4, <1>10, <3>1 DEF DataOn
    <3>2. CASE i \notin 1 .. Reached
      <4>1. fpc = "data" /\ i = Reached + 1 /\ i \in Nat \ {0}
        BY <1>10, <2>1, <2>2, <3>2
      <4> QED
        BY <1>4, <4>1
    <3> QED
      BY <3>1, <3>2
  <2> QED
    BY <2>2 DEF DataOn
<1>13. IF Holding(cache, file.name) = {} THEN base = 0
       ELSE Mine(card)' => SizeOf(card)' <= SizeOf(Contents)'
  <2> SUFFICES ASSUME Holding(cache, file.name) # {}, Mine(card)'
               PROVE  SizeOf(card)' <= SizeOf(Contents)'
    BY <1>1 DEF SizeBody
  <2>1. fpc # "creat" /\ SizeOf(Contents) <= SizeOf(Contents)'
    BY <1>1, <1>7 DEF WholeBody, ListInv
  <2>2. SizeOf(card') <= SizeOf(Contents)
    BY <1>1, <1>2, <1>5 DEF SizeBody, Mine
  <2>3. /\ SizeOf(card)' = SizeOf(card') /\ SizeOf(card') \in Nat
        /\ SizeOf(Contents)' \in Nat
    BY <1>1, <1>2, <1>5, <1>6 DEF SizeOf
  <2> QED
    BY <1>5, <2>1, <2>2, <2>3
<1>14. fpc = "data" => IF pc' = "idle" THEN Len(moved') = nbytes
                       ELSE pos' = DataPlace(file.cluster, file.at + Len(moved))'
  <2> SUFFICES ASSUME fpc = "data"
               PROVE  IF pc' = "idle" THEN Len(moved') = nbytes
                      ELSE pos' = DataPlace(file.cluster, file.at + Len(moved'))
    <3>1. \A n : DataPlace(file.cluster, n)' = DataPlace(file.cluster, n)
      BY DEF DataPlace
    <3>2. DataPlace(file.cluster, file.at + Len(moved))'
            = DataPlace(file.cluster, file.at + Len(moved'))
      BY <3>1
    <3> QED
      BY <3>2
  <2>1. pos = DataPlace(file.cluster, file.at + Len(moved))
    BY <1>1 DEF SizeBody
  <2>2. NextPlace(pos) = DataPlace(file.cluster, (file.at + Len(moved)) + 1)
    <3> DEFINE n == file.at + Len(moved)
               c == file.cluster
    <3>1. n \in Nat /\ c \in Nat /\ c >= 2 /\ GeoOK(geo)
      BY <1>3, <1>5
    <3>2. pos = DataPlace(c, n)
      BY <2>1
    <3> HIDE DEF n, c
    <3>3. NextPlace(DataPlace(c, n)) = DataPlace(c, n + 1)
      BY <3>1, DataPlaceNext
    <3> QED
      BY <3>2, <3>3 DEF n, c
  <2>3. (file.at + Len(moved)) + 1 = file.at + Len(moved')
    BY <1>3, <1>5
  <2> QED
    BY <1>1, <1>2, <1>3, <2>2, <2>3
<1>15. ASSUME Holding(cache, file.name) = {}
       PROVE  OwnFirst(card)' /\ OwnFirst(Contents)'
  <2> DEFINE d2 == Dir(geo, Contents')
             d == Dir(geo, Contents)
  <2>1. OwnFirst(card) /\ OwnFirst(Contents)
    BY <1>1, <1>15 DEF SizeBody
  <2>2. OwnFirst(card)'
    <3>1. OwnFirst(card')
      BY <1>2, <2>1
    <3>2. OwnFirst(card)' = OwnFirst(card')
      BY DEF OwnFirst, Mine
    <3> QED
      BY <3>1, <3>2
  <2>3. /\ fpc = "data" => d2 = d
        /\ fpc # "data" => d2[file.slot] = Output
    BY <1>1, <1>2, DirAfterPut
  <2>4. /\ fpc = "creat" => Output.first = file.cluster
        /\ fpc = "resize" => /\ Output.mark = d[file.slot].mark
                             /\ Output.name = d[file.slot].name
                             /\ Output.first = d[file.slot].first
    BY <1>1, CalmOutput
  <2>5. /\ OwnFirst(Contents)' =
             (Live(d2, file.slot) /\ d2[file.slot].name = file.name
                => d2[file.slot].first = file.cluster)
        /\ Live(d, file.slot) /\ d[file.slot].name = file.name
             => d[file.slot].first = file.cluster
    BY <2>1 DEF OwnFirst, Mine
  <2> HIDE DEF d, d2
  <2>6. OwnFirst(Contents)'
    BY <1>1, <2>3, <2>4, <2>5 DEF Live
  <2> QED
    BY <2>2, <2>6
<1>16. made # {} => Holding(cache, file.name) = {}
  BY <1>1 DEF SizeBody
<1> QED
  BY <1>1, <1>7, <1>8, <1>11, <1>12, <1>13, <1>14, <1>15, <1>16 DEF SizeBody

-----------------------------------------------------------------------------

\* Steps without a file have no size to keep.
LEMMA SizeNoFile == ASSUME file' = NoFile, made' = {} PROVE SizeBody'
BY DEF SizeBody

\* The steps of fat32_write_file_nbytes outside of io_write_nbytes, and the end of a
\* call: what was written is counted as written.
LEMMA SizeLog ==
  ASSUME NSectors <= ADDR_SPAN, Cells, TypeInv, KeepBody, SizeBody, Append_to_log
  PROVE  SizeBody'
<1> USE DEF walk, user
<1>1. /\ pc = "idle" /\ pc' \in {"idle", "busy"} /\ fpc \in {"creat"} \cup Writing
      /\ file # NoFile /\ file \in FileRec /\ geo # NoGeo
      /\ fpc \notin Writing => nbytes = 0
  BY DEF Append_to_log, FlushInput, FlushOutput, FlushRead, FlushWrite, ReadSize,
     WriteSize, Finish, IoCall, vars, job, Returned, TypeInv, PhaseInv, UserInv, Writing
<1>2. Contents' = Contents /\ UNCHANGED <<geo, cache, base, made>>
  <2>1. Contents' = Contents
    BY <1>1, OthersStay
  <2> QED
    BY <2>1 DEF Append_to_log, FlushInput, FlushOutput, ReadSize, WriteSize, Finish
<1>3. SizeOf(Contents) \in Nat /\ base \in Nat /\ nbytes \in Nat /\ file.at \in Nat
  BY <1>1, SizeType
<1>4. card' = card \/ card' = Contents
  <2>1. CASE FlushOutput
    <3>1. Flushed = Contents
      BY <1>1, FlushedIsContents DEF TypeInv, TInv
    <3> QED
      BY <2>1, <3>1 DEF FlushOutput, FlushWrite
  <2>2. CASE ~FlushOutput
    BY <2>2 DEF Append_to_log, FlushInput, FlushRead, ReadSize, WriteSize, Finish,
       IoCall, vars
  <2> QED
    BY <2>1, <2>2
<1>5. /\ file'.slot = file.slot /\ file'.name = file.name
      /\ file'.cluster = file.cluster /\ file' # NoFile
      /\ fpc' # "creat" /\ fpc' # "data" /\ ~Creating
  <2>1. /\ file'.slot = file.slot /\ file'.name = file.name
        /\ file'.cluster = file.cluster
        /\ fpc' # "creat" /\ fpc' # "data" /\ ~Creating
    BY <1>1 DEF Append_to_log, FlushInput, FlushOutput, ReadSize, WriteSize, Finish,
       FileRec, Creating
  <2>2. file.cluster >= 3
    BY <1>1, FileView
  <2> QED
    BY <2>1, <2>2 DEF NoFile
<1>6. /\ Counted' = Counted /\ Reached' = Reached /\ Reached \in Nat
  <2>1. CASE Finish
    <3>1. /\ fpc \in {"creat", "resize"} /\ fpc' = "idle" /\ nbytes' = 0
          /\ file'.at = file.at + nbytes /\ base' = base
      BY <1>1, <2>1 DEF Finish, Returned, FileRec
    <3> QED
      BY <1>1, <1>3, <3>1 DEF Counted, Reached, Writing
  <2>2. CASE ~Finish
    <3>1. /\ fpc \in {"data", "flush", "flushed", "size"} /\ UNCHANGED <<file, base, nbytes>>
          /\ fpc' \in {"flush", "flushed", "size", "resize"}
          /\ fpc' = "resize" => pc' = "busy"
      BY <2>2 DEF Append_to_log, FlushInput, FlushOutput, ReadSize, WriteSize, Returned,
         IoCall
    <3>2. fpc = "data" => Len(moved) = nbytes
      BY <1>1 DEF SizeBody
    <3> QED
      BY <1>1, <1>3, <3>1, <3>2 DEF Counted, Reached, Writing
  <2> QED
    BY <2>1, <2>2
<1> QED
  BY <1>1, <1>2, <1>3, <1>4, <1>5, <1>6, SizeFrame

\* The beginning of fat32_write_file_nbytes: the bytes go behind those that are there.
LEMMA SizeWrite ==
  ASSUME NSectors <= ADDR_SPAN, Cells, TypeInv, KeepBody, SizeBody,
         NEW n \in 1 .. MaxLen, Write(n)
  PROVE  SizeBody'
<1> USE DEF walk, user
<1>1. /\ pc = "idle" /\ fpc = "idle" /\ pc' = "busy" /\ fpc' = "data" /\ geo # NoGeo
      /\ file # NoFile /\ UNCHANGED <<geo, cache, base, made, file, card>>
      /\ moved' = << >>
      /\ pos' = DataPlace(file.cluster, file.at)
  BY DEF Write, Ready, IoCall
<1>2. Contents' = Contents
  BY <1>1, OthersStay
<1>3. SizeOf(Contents) \in Nat /\ base \in Nat /\ file.at \in Nat
  BY <1>1, SizeType
<1>4. Counted' = Counted /\ Reached = file.at /\ Reached' = file.at
  BY <1>1, <1>3 DEF Counted, Reached, Writing
<1>5. file.at + Len(moved') = file.at
  BY <1>1, <1>3
<1> QED
  BY <1>1, <1>2, <1>3, <1>4, <1>5, SizeFrame DEF Creating

\* Every step keeps what is known of the sizes, as long as no call has failed.
LEMMA SizeNext ==
  ASSUME NSectors <= ADDR_SPAN, Cells, TypeInv, KeepInv, CalmInv, WholeInv, SizeInv,
         [FatNext]_<<vars, fatVars>>
  PROVE  SizeInv'
<1> SUFFICES ASSUME failures = 0, failures' = 0, KeepBody, WholeBody, SizeBody
             PROVE  SizeBody'
  BY CalmNext DEF CalmInv, KeepInv, WholeInv, SizeInv
<1> USE DEF walk, user
<1>1. CASE IoStep
  <2>1. ASSUME GetByte, file # NoFile PROVE SizeBody'
    <3>1. Contents' = Contents /\ card' = card /\ pc = "busy" /\ op = "read"
      BY <2>1, GetEffect DEF TypeInv
    <3>2. fpc = "size"
      BY <2>1, <3>1 DEF TypeInv, PhaseInv, UserInv, Reading, Mounting
    <3>3. UNCHANGED <<fpc, geo, cache, base, made, file, nbytes>>
      BY <1>1 DEF IoStep
    <3>4. SizeOf(Contents) \in Nat /\ base \in Nat /\ file.at \in Nat /\ nbytes \in Nat
      BY <2>1, SizeType
    <3>5. Counted' = Counted /\ Reached' = Reached /\ Reached \in Nat
      BY <3>2, <3>3, <3>4 DEF Counted, Reached, Writing
    <3> QED
      BY <2>1, <3>1, <3>2, <3>3, <3>4, <3>5, SizeFrame DEF Creating
  <2>2. CASE file = NoFile
    <3>1. file' = NoFile /\ made' = made /\ made = {}
      BY <1>1, <2>2 DEF IoStep, SizeBody
    <3> QED
      BY <3>1, SizeNoFile
  <2> QED
    BY <1>1, <2>1, <2>2, SizePut DEF IoStep
<1>2. CASE Initialize
  <2>1. file' = NoFile /\ made' = {}
    BY <1>2 DEF Initialize, Mount, ReadPartition, ReadBootSector, ReadEntry, ReadFat,
       Returned, TypeInv, UserInv, Mounting
  <2> QED
    BY <2>1, SizeNoFile
<1>3. CASE Boot
  <2>1. file' = NoFile /\ made' = {}
    BY <1>3 DEF Boot, PowerOn, TypeInv, PhaseInv, UserInv
  <2> QED
    BY <2>1, SizeNoFile
<1>4. CASE Cut
  BY <1>4, SizeNoFile DEF Cut, ResetFat
<1>5. CASE UNCHANGED <<vars, fatVars>>
  <2>1. UNCHANGED <<file, geo, base, made, cache, nbytes, fpc, card, pc, pos, moved>>
        /\ Contents' = Contents
    BY <1>5 DEF vars, fatVars, job, Contents, outVars
  <2>2. /\ \A i : DataAt(card, i)' = DataAt(card, i)
        /\ \A i : DataAt(Contents, i)' = DataAt(Contents, i)
        /\ \A n : DataPlace(file.cluster, n)' = DataPlace(file.cluster, n)
    BY <2>1 DEF DataAt, DataPlace
  <2>3. /\ Mine(card)' = Mine(card) /\ SizeOf(card)' = SizeOf(card)
        /\ Mine(Contents)' = Mine(Contents) /\ SizeOf(Contents)' = SizeOf(Contents)
        /\ Counted' = Counted /\ Reached' = Reached /\ Creating' = Creating
    BY <2>1 DEF Mine, SizeOf, Counted, Reached, Creating
  <2>4. Behind(card)' = Behind(card) /\ Behind(Contents)' = Behind(Contents)
        /\ DataOn(Contents, Reached)' = DataOn(Contents, Reached)
        /\ OwnFirst(card)' = OwnFirst(card) /\ OwnFirst(Contents)' = OwnFirst(Contents)
    BY <2>1, <2>2, <2>3 DEF Behind, DataOn, OwnFirst
  <2>5. DataPlace(file.cluster, file.at + Len(moved))'
          = DataPlace(file.cluster, file.at + Len(moved))
    BY <2>1, <2>2
  <2> QED
    BY <2>1, <2>3, <2>4, <2>5 DEF SizeBody
<1> QED
  BY <1>1, <1>2, <1>3, <1>4, <1>5, SizeCreat, SizeLog, SizeWrite DEF FatNext

\* As long as no call has failed, the sizes are what has been counted, and what they have
\* grown by since the file was opened are bytes that are where they were written; the
\* entry of a file that the program has created names that place.
THEOREM SizeInvariance ==
  ASSUME NSectors <= ADDR_SPAN, Cells
  PROVE  FatSpec => [](TypeInv /\ KeepInv /\ CalmInv /\ SizeInv)
<1>1. FatInit => SizeInv
  BY DEF FatInit, SizeInv, SizeBody
<1>2. /\ TypeInv /\ KeepInv /\ CalmInv /\ WholeInv /\ SizeInv /\ [FatNext]_<<vars, fatVars>>
      => SizeInv'
  BY SizeNext
<1> QED
  BY <1>1, <1>2, TypeInvariance, KeepInvariance, WholeInvariance, PTL DEF FatSpec

\* Between two calls the size in the directory is the one the file had when it was
\* opened and what was written since (SizeExact; fat.c:602-624, 715-722).
THEOREM SizesAreExact ==
  ASSUME NSectors <= ADDR_SPAN, Cells
  PROVE  FatSpec => []SizeExact
<1>1. TypeInv /\ KeepInv /\ CalmInv /\ SizeInv => SizeExact
  <2> SUFFICES ASSUME TypeInv, KeepInv, CalmInv, SizeInv, fpc = "idle", file # NoFile,
                      failures = 0
               PROVE  Root(Contents, file.slot).size = base + file.at
    BY DEF SizeExact
  <2>1. KeepBody /\ SizeBody
    BY DEF KeepInv, CalmInv, SizeInv
  <2>2. file.slot \in Slots /\ base \in Nat /\ file.at \in Nat
    BY <2>1, FileView, SizeType
  <2>3. SizeOf(Contents) = base + file.at
    BY <2>1, <2>2 DEF SizeBody, Creating, Counted
  <2> QED
    BY <2>2, <2>3, RootIsDir DEF SizeOf
<1> QED
  BY <1>1, SizeInvariance, PTL

\* Whenever the power goes, the size on the card of a file that the program has created
\* since power-on counts no byte that is not in the file's cluster, as long as no call
\* has failed (SizeBehindData; fat.c:715-720).
THEOREM SizesCountWhatIsThere ==
  ASSUME NSectors <= ADDR_SPAN, Cells
  PROVE  FatSpec => []SizeBehindData
<1>1. TypeInv /\ KeepInv /\ CalmInv /\ SizeInv => SizeBehindData
  <2> SUFFICES ASSUME TypeInv, KeepInv, CalmInv, SizeInv, file.slot \in made, failures = 0
               PROVE  SizeBehindData
    BY DEF SizeBehindData
  <2>1. KeepBody /\ SizeBody
    BY DEF KeepInv, CalmInv, SizeInv
  <2>2. file # NoFile /\ Holding(cache, file.name) = {}
    BY <2>1 DEF SizeBody
  <2>3. /\ base = 0 /\ Behind(card) /\ OwnFirst(card)
        /\ Root(card, file.slot) = Dir(geo, card)[file.slot]
    BY <2>1, <2>2, FileView, RootIsDir DEF SizeBody
  <2>4. SizeOf(card) \in Nat
    BY <2>1, <2>2, SizeType
  <2>5. Mine(card) => /\ DataOn(card, SizeOf(card))
                      /\ Dir(geo, card)[file.slot].first = file.cluster
    BY <2>3, <2>4 DEF Behind, OwnFirst
  <2> QED
    BY <2>3, <2>5 DEF SizeBehindData, Mine, Live, SizeOf, DataOn, DataAt
<1> QED
  BY <1>1, SizeInvariance, PTL
=============================================================================

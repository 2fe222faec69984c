----------------------------- MODULE DiskCache ------------------------------
(***************************************************************************)
(* The write-back cache between a disk device and its image file:          *)
(* DiskCache and DiskTrack of devices/disk_track_cache.cpp, with the file  *)
(* operations of fileio.cpp they use, any of which may fail.               *)
(*                                                                         *)
(* The callers (Disk::Read, Disk::Write, Disk::FlushCache, Disk::Open, the *)
(* destructor of Disk) run one at a time. Each call is one action, with    *)
(* everything it does nested in it: the new serial number, the assignment  *)
(* of a slot, the eviction of a track, and the access to the block.        *)
(* Close is the destruction of the cache; it also stands for the process   *)
(* dying, which leaves the same file behind.                               *)
(***************************************************************************)
EXTENDS Integers

CONSTANTS
  BlockCount,       (* sec_blocks, the size of the medium                   *)
  SectorsPerTrack,  (* 256 in the code                                      *)
  CacheMax,         (* number of slots, 16 in the code                      *)
  SerialModulus,    (* 2^32, serial numbers are DWORDs                      *)
  Values, Torn, Done, Failed,  (* see BlockStore                            *)
  NoTrack           (* a slot whose disktrk is nullptr                      *)

ASSUME CacheAssumption ==
  /\ BlockCount \in Nat \ {0}
  /\ SectorsPerTrack \in Nat \ {0}
  /\ CacheMax \in Nat \ {0}
  /\ SerialModulus \in Nat /\ SerialModulus > 1

ASSUME ContentsAssumption ==
  /\ Torn \notin Values
  /\ Done \notin Values \cup {Torn}
  /\ Failed \notin Values \cup {Torn, Done}

VARIABLES
  open,    (* the device has a cache (Disk's dcache is not nullptr)         *)
  cache,   (* the track in every slot, or NoTrack                           *)
  stamp,   (* cache[i].serial                                               *)
  serial,  (* the last serial number                                        *)
  file,    (* contents of the image file                                    *)
  result,  (* what the last call returned, the data for a read              *)
  since    (* history: the tracks used since each track was last used; all  *)
           (* of them if it was not since the serial number last wrapped    *)

vars == <<open, cache, stamp, serial, file, result, since>>

Blocks == 0..(BlockCount - 1)
Slots == 0..(CacheMax - 1)
Contents == Values \cup {Torn}

TrackOf(b) == b \div SectorsPerTrack
Tracks == {TrackOf(b) : b \in Blocks}
(* The last track may be short. *)
Sectors(t) == {b \in Blocks : TrackOf(b) = t}

(* A DiskTrack whose init flag is set (the others are never in a slot);     *)
(* sectors are named by their block. "changed" is the change map.           *)
TracksOver(t) ==
  [track : {t}, data : [Sectors(t) -> Contents], changed : SUBSET Sectors(t)]

ASSUME NoTrackAssumption == \A t \in Tracks : NoTrack \notin TracksOver(t)

TypeOK ==
  /\ open \in BOOLEAN
  /\ cache \in [Slots -> (UNION {TracksOver(t) : t \in Tracks}) \cup {NoTrack}]
  /\ stamp \in [Slots -> 0..(SerialModulus - 1)]
  /\ serial \in 0..(SerialModulus - 1)
  /\ file \in [Blocks -> Contents]
  /\ result \in Contents \cup {Done, Failed}
  /\ since \in [Tracks -> SUBSET Tracks]

Init ==
  /\ open = TRUE
  /\ cache = [i \in Slots |-> NoTrack]
  /\ stamp = [i \in Slots |-> 0]
  /\ serial = 0
  /\ file \in [Blocks -> Values]
  /\ result = Done
  /\ since = [t \in Tracks |-> Tracks]

-----------------------------------------------------------------------------
(* DiskTrack                                                               *)

(* Mutant of Load: the track is not read up to its end. *)
LoadShort(t, f) ==
  [track |-> t, changed |-> {},
   data |-> [b \in Sectors(t) |->
               IF b + 1 \in Sectors(t) \/ b = 0 THEN f[b] ELSE f[b - 1]]]

(* Load: the whole track is read, nothing is changed. *)
Load(t, f) == [track |-> t, data |-> [b \in Sectors(t) |-> f[b]], changed |-> {}]

(* The image file with the changed sectors S of a track written. *)
Written(tr, S, f) ==
  [b \in Blocks |-> IF b \in S THEN tr.data[b] ELSE f[b]]

(* Save that succeeds writes every run of changed sectors and then drops    *)
(* the change flags.                                                        *)
Saved(tr) == [tr EXCEPT !.changed = {}]

(* Save that fails: the file cannot be opened, or the sectors below some    *)
(* changed one have been written when a seek or a write fails. The write    *)
(* may have been cut inside that sector. The change flags stay.             *)
SaveFails(tr, f, g) ==
  \E b \in tr.changed :
    LET below == {a \in tr.changed : a < b}
        h == Written(tr, below, f)
    IN g = h \/ g = [h EXCEPT ![b] = Torn]

(* A sector that already has these contents is not marked. *)
WriteSector(tr, b, v) ==
  IF tr.data[b] = v
  THEN tr
  ELSE [tr EXCEPT !.data[b] = v, !.changed = @ \cup {b}]

-----------------------------------------------------------------------------
(* DiskCache                                                               *)

(* A call of ReadSector or WriteSector: what it does to the track it has    *)
(* been assigned, and what it returns.                                      *)
Calls ==
  [block : Blocks, write : {FALSE}] \cup
  [block : Blocks, write : {TRUE}, value : Values]

Apply(c, tr) == IF c.write THEN WriteSector(tr, c.block, c.value) ELSE tr
Answer(c, tr) == IF c.write THEN Done ELSE tr.data[c.block]

(* Mutant of NextSerial: a number without a width. *)
NextSerialUnbounded == serial + 1

(* UpdateSerialNumber: when the number wraps all slots start again at 0.    *)
NextSerial == IF serial + 1 = SerialModulus THEN 0 ELSE serial + 1
Wraps == NextSerial = 0
Stamps == IF Wraps THEN [i \in Slots |-> 0] ELSE stamp

First(i, S) == i \in S /\ \A j \in S : i <= j

(* Mutant of Holding: the search leaves out slot 0. *)
HoldingAfterFirst(t) ==
  {i \in Slots \ {0} : cache[i] # NoTrack /\ cache[i].track = t}

Holding(t) == {i \in Slots : cache[i] # NoTrack /\ cache[i].track = t}
Empty == {i \in Slots : cache[i] = NoTrack}

(* The search for the smallest serial number; the first of equals wins.     *)
Oldest(i) == First(i, {j \in Slots : \A l \in Slots : Stamps[j] <= Stamps[l]})

(* What every call starts with. *)
Begin ==
  /\ open
  /\ serial' = NextSerial
  /\ open' = open

SinceUse(u) ==
  [t \in Tracks |-> IF Wraps THEN Tracks
                    ELSE IF t = u THEN {} ELSE since[t] \cup {u}]

(* Mutant of Assigned: only a track just loaded gets the number. *)
AssignedOnce(i, tr, c) ==
  /\ cache' = [cache EXCEPT ![i] = Apply(c, tr)]
  /\ stamp' = IF cache[i] = NoTrack \/ tr.track # cache[i].track
              THEN [Stamps EXCEPT ![i] = NextSerial] ELSE Stamps
  /\ result' = Answer(c, tr)
  /\ since' = SinceUse(tr.track)

(* Slot i now holds tr, assigned to the call c. *)
Assigned(i, tr, c) ==
  /\ cache' = [cache EXCEPT ![i] = Apply(c, tr)]
  /\ stamp' = [Stamps EXCEPT ![i] = NextSerial]
  /\ result' = Answer(c, tr)
  /\ since' = SinceUse(tr.track)

NotAssigned ==
  /\ stamp' = Stamps
  /\ result' = Failed
  /\ since' = IF Wraps THEN [t \in Tracks |-> Tracks] ELSE since

Hit(c) ==
  \E i \in Slots :
    /\ Begin
    /\ First(i, Holding(TrackOf(c.block)))
    /\ Assigned(i, cache[i], c)
    /\ UNCHANGED file

Fill(c) ==
  \E i \in Slots :
    /\ Begin
    /\ Holding(TrackOf(c.block)) = {}
    /\ First(i, Empty)
    /\ Assigned(i, Load(TrackOf(c.block), file), c)
    /\ UNCHANGED file

FillFails(c) ==
  /\ Begin
  /\ Holding(TrackOf(c.block)) = {}
  /\ Empty # {}
  /\ NotAssigned
  /\ UNCHANGED <<cache, file>>

(* All slots are taken, and i is the one to be reused. *)
Full(c, i) ==
  /\ Begin
  /\ Holding(TrackOf(c.block)) = {}
  /\ Empty = {}
  /\ Oldest(i)

(* Mutant of Evict: the track is reused without being saved. *)
EvictUnsaved(c) ==
  \E i \in Slots :
    /\ Full(c, i)
    /\ Assigned(i, Load(TrackOf(c.block), file), c)
    /\ UNCHANGED file

Evict(c) ==
  \E i \in Slots :
    /\ Full(c, i)
    /\ file' = Written(cache[i], cache[i].changed, file)
    /\ Assigned(i, Load(TrackOf(c.block), file'), c)

(* The old track cannot be saved: it stays where it is. *)
EvictSaveFails(c) ==
  \E i \in Slots :
    /\ Full(c, i)
    /\ SaveFails(cache[i], file, file')
    /\ NotAssigned
    /\ UNCHANGED cache

(* The old track is saved, the new one cannot be read: the slot is empty.   *)
EvictLoadFails(c) ==
  \E i \in Slots :
    /\ Full(c, i)
    /\ file' = Written(cache[i], cache[i].changed, file)
    /\ cache' = [cache EXCEPT ![i] = NoTrack]
    /\ NotAssigned

(* Save: slot by slot, until one fails. *)
SavedAll(S, f) ==
  [b \in Blocks |->
     IF \E i \in S : cache[i] # NoTrack /\ b \in cache[i].changed
     THEN (cache[CHOOSE i \in S : cache[i] # NoTrack /\ b \in cache[i].changed]).data[b]
     ELSE f[b]]

CleanUpTo(S) ==
  [i \in Slots |-> IF i \in S /\ cache[i] # NoTrack THEN Saved(cache[i]) ELSE cache[i]]

Save ==
  /\ open
  /\ file' = SavedAll(Slots, file)
  /\ cache' = CleanUpTo(Slots)
  /\ result' = Done
  /\ UNCHANGED <<open, stamp, serial, since>>

(* Mutant of SaveStops: the flags of the track that failed go, too. *)
SaveStopsClean ==
  \E i \in Slots :
    /\ open
    /\ cache[i] # NoTrack
    /\ SaveFails(cache[i], SavedAll(0..(i - 1), file), file')
    /\ cache' = CleanUpTo(0..i)
    /\ result' = Failed
    /\ UNCHANGED <<open, stamp, serial, since>>

SaveStops ==
  \E i \in Slots :
    /\ open
    /\ cache[i] # NoTrack
    /\ SaveFails(cache[i], SavedAll(0..(i - 1), file), file')
    /\ cache' = CleanUpTo(0..(i - 1))
    /\ result' = Failed
    /\ UNCHANGED <<open, stamp, serial, since>>

(* ~DiskCache clears the slots and saves nothing. *)
Close ==
  /\ open
  /\ open' = FALSE
  /\ cache' = [i \in Slots |-> NoTrack]
  /\ result' = Done
  /\ UNCHANGED <<stamp, serial, file, since>>

(* Disk::Open: a new cache for the same file. *)
Open ==
  /\ ~open
  /\ open' = TRUE
  /\ stamp' = [i \in Slots |-> 0]
  /\ serial' = 0
  /\ since' = [t \in Tracks |-> Tracks]
  /\ UNCHANGED <<cache, file, result>>

Next ==
  \/ \E c \in Calls : \/ Hit(c)
                      \/ Fill(c)
                      \/ FillFails(c)
                      \/ Evict(c)
                      \/ EvictSaveFails(c)
                      \/ EvictLoadFails(c)
  \/ Save
  \/ SaveStops
  \/ Close
  \/ Open

Spec == Init /\ [][Next]_vars

-----------------------------------------------------------------------------
(* Properties                                                              *)

(* A track is never in two slots: Assign looks for it before it takes a     *)
(* slot, on every path, also when an earlier assignment failed half way.    *)
OneSlotPerTrack ==
  \A i, j \in Slots :
    cache[i] # NoTrack /\ cache[j] # NoTrack /\ cache[i].track = cache[j].track
      => i = j

(* A sector whose change flag is not set is the same in the cache and in    *)
(* the file. This is what allows Save and the eviction to skip it; writes   *)
(* that failed half way must not break it.                                  *)
CleanMatchesFile ==
  \A i \in Slots : cache[i] # NoTrack =>
    \A b \in DOMAIN cache[i].data \ cache[i].changed : cache[i].data[b] = file[b]

(* A slot that is reused for another track held the least recently used     *)
(* one: all tracks in the other slots have been used since. A track not     *)
(* used since the serial number last wrapped counts as older than the rest. *)
EvictsLeastRecent ==
  [][\A i, j \in Slots :
       /\ cache[i] # NoTrack /\ cache'[i] # NoTrack
       /\ cache'[i].track # cache[i].track
       /\ cache[j] # NoTrack /\ j # i
       /\ ~Wraps
       => cache[j].track \in since[cache[i].track]]_vars

(* The cache implements the block store: what a read may return is the      *)
(* contents in the slot, or in the file if the track is in no slot.         *)
Caches(i, b) == i \in Slots /\ cache[i] # NoTrack /\ cache[i].track = TrackOf(b)
Latest == [b \in Blocks |->
  IF \E i \in Slots : Caches(i, b)
  THEN cache[CHOOSE i \in Slots : Caches(i, b)].data[b]
  ELSE file[b]]
Pending == {b \in Blocks : \E i \in Slots : Caches(i, b) /\ b \in cache[i].changed}

Store == INSTANCE BlockStore WITH
  latest <- Latest, pending <- Pending, disk <- file

(* Every behaviour of the cache is one of the block store: reads return the *)
(* last write whatever was evicted, a Save that returned true left nothing  *)
(* pending, and no write is lost while the cache is open.                   *)
ImplementsBlockStore == Store!Spec
=============================================================================

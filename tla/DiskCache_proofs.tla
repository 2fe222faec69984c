-------------------------- MODULE DiskCache_proofs --------------------------
(***************************************************************************)
(* Theorems about the disk cache, for every size of the medium and of the  *)
(* cache. The inductive invariant is CacheInv: types, one slot per track,  *)
(* and clean sectors equal to the file.                                    *)
(***************************************************************************)
EXTENDS DiskCache, TLAPS

CacheInv == TypeOK /\ OneSlotPerTrack /\ CleanMatchesFile

-----------------------------------------------------------------------------
(* Blocks, tracks and slots                                                *)

(* Every block is a sector of its track. *)
LEMMA BlockInTrack ==
  ASSUME NEW b \in Blocks
  PROVE  TrackOf(b) \in Tracks /\ b \in Sectors(TrackOf(b))
  BY DEF Tracks, Sectors

(* The sectors of a track are the blocks of that track. *)
LEMMA SectorsAreBlocks ==
  ASSUME NEW t, NEW b \in Sectors(t)
  PROVE  b \in Blocks /\ TrackOf(b) = t
  BY DEF Sectors

(* What TracksOver says of a track. *)
LEMMA TrackFields ==
  ASSUME NEW t, NEW tr \in TracksOver(t)
  PROVE  /\ tr.track = t
         /\ tr.data \in [Sectors(t) -> Contents]
         /\ tr.changed \subseteq Sectors(t)
         /\ tr = [track |-> tr.track, data |-> tr.data, changed |-> tr.changed]
  BY DEF TracksOver

(* A slot that is not empty holds a track. *)
LEMMA SlotHoldsTrack ==
  ASSUME TypeOK, NEW i \in Slots, cache[i] # NoTrack
  PROVE  cache[i].track \in Tracks /\ cache[i] \in TracksOver(cache[i].track)
  <1>1. PICK t \in Tracks : cache[i] \in TracksOver(t)
    BY DEF TypeOK
  <1> QED
    BY <1>1, TrackFields

(* A track read from the file. *)
LEMMA LoadIsTrack ==
  ASSUME NEW t, NEW f \in [Blocks -> Contents]
  PROVE  /\ Load(t, f) \in TracksOver(t)
         /\ Load(t, f).changed = {}
         /\ \A b \in Sectors(t) : Load(t, f).data[b] = f[b]
  BY SectorsAreBlocks DEF Load, TracksOver

(* What a call does to the track it has been assigned. *)
LEMMA ApplyToTrack ==
  ASSUME NEW c \in Calls, NEW tr \in TracksOver(TrackOf(c.block))
  PROVE  /\ c.block \in Blocks
         /\ c.write \in BOOLEAN
         /\ c.write => c.value \in Values
         /\ Apply(c, tr) \in TracksOver(TrackOf(c.block))
         /\ \A b \in Sectors(TrackOf(c.block)) \ {c.block} :
              /\ Apply(c, tr).data[b] = tr.data[b]
              /\ b \in Apply(c, tr).changed <=> b \in tr.changed
         /\ Apply(c, tr).data[c.block] =
              IF c.write THEN c.value ELSE tr.data[c.block]
         /\ c.block \in Apply(c, tr).changed <=>
              c.block \in tr.changed \/ (c.write /\ tr.data[c.block] # c.value)
         /\ Answer(c, tr) \in Contents \cup {Done}
  <1>1. /\ c.block \in Blocks
        /\ c.write \in BOOLEAN
        /\ c.write => c.value \in Values
    BY DEF Calls
  <1>2. c.block \in Sectors(TrackOf(c.block))
    BY <1>1, BlockInTrack
  <1>3. /\ tr.data \in [Sectors(TrackOf(c.block)) -> Contents]
        /\ tr.changed \subseteq Sectors(TrackOf(c.block))
        /\ tr = [track |-> tr.track, data |-> tr.data, changed |-> tr.changed]
        /\ tr.track = TrackOf(c.block)
    BY TrackFields
  <1>4. Answer(c, tr) \in Contents \cup {Done}
    BY <1>2, <1>3 DEF Answer
  <1>5. CASE c.write /\ tr.data[c.block] # c.value
    <2> DEFINE new == [track |-> tr.track,
                       data |-> [tr.data EXCEPT ![c.block] = c.value],
                       changed |-> tr.changed \cup {c.block}]
    <2>1. Apply(c, tr) = [tr EXCEPT !.data[c.block] = c.value,
                                    !.changed = @ \cup {c.block}]
      BY <1>5 DEF Apply, WriteSector
    <2>2. Apply(c, tr) = new
      BY <2>1, <1>3
    <2>3. new.data \in [Sectors(TrackOf(c.block)) -> Contents]
      BY <1>1, <1>2, <1>3, <1>5 DEF Contents
    <2>4. new \in TracksOver(TrackOf(c.block))
      BY <2>3, <1>2, <1>3 DEF TracksOver
    <2> QED
      BY <2>2, <2>4, <1>1, <1>2, <1>3, <1>4, <1>5
  <1>6. CASE ~(c.write /\ tr.data[c.block] # c.value)
    <2>1. Apply(c, tr) = tr
      BY <1>6 DEF Apply, WriteSector
    <2> QED
      BY <2>1, <1>1, <1>2, <1>4, <1>6
  <1> QED
    BY <1>5, <1>6

(* The file after some changed sectors of a track have been written. *)
LEMMA WrittenFile ==
  ASSUME NEW t, NEW tr \in TracksOver(t), NEW f \in [Blocks -> Contents],
         NEW S \in SUBSET tr.changed
  PROVE  /\ Written(tr, S, f) \in [Blocks -> Contents]
         /\ \A b \in Blocks :
              Written(tr, S, f)[b] = IF b \in S THEN tr.data[b] ELSE f[b]
  BY TrackFields DEF Written

(* The file after a save that failed. *)
LEMMA FileAfterFailure ==
  ASSUME NEW t, NEW tr \in TracksOver(t), NEW f \in [Blocks -> Contents], NEW g,
         SaveFails(tr, f, g)
  PROVE  /\ g \in [Blocks -> Contents]
         /\ \A b \in Blocks \ tr.changed : g[b] = f[b]
         /\ \A b \in tr.changed : g[b] \in {f[b], tr.data[b], Torn}
  <1>1. PICK b \in tr.changed :
          LET h == Written(tr, {a \in tr.changed : a < b}, f)
          IN g = h \/ g = [h EXCEPT ![b] = Torn]
    BY DEF SaveFails
  <1> DEFINE below == {a \in tr.changed : a < b}
             h == Written(tr, below, f)
  <1>2. /\ h \in [Blocks -> Contents]
        /\ \A a \in Blocks : h[a] = IF a \in below THEN tr.data[a] ELSE f[a]
    BY WrittenFile
  <1>3. tr.changed \subseteq Blocks
    BY TrackFields, SectorsAreBlocks
  <1>4. g = h \/ g = [h EXCEPT ![b] = Torn]
    BY <1>1
  <1>5. b \in Blocks /\ Torn \in Contents
    BY <1>3 DEF Contents
  <1> HIDE DEF h
  <1> QED
    BY <1>2, <1>3, <1>4, <1>5

(* The file after the tracks in the slots of S have been saved. *)
LEMMA FileAfterSave ==
  ASSUME CacheInv, NEW S \in SUBSET Slots
  PROVE  /\ SavedAll(S, file) \in [Blocks -> Contents]
         /\ \A b \in Blocks, i \in S :
              cache[i] # NoTrack /\ b \in cache[i].changed
                => SavedAll(S, file)[b] = cache[i].data[b]
         /\ \A b \in Blocks :
              (\A i \in S : cache[i] # NoTrack => b \notin cache[i].changed)
                => SavedAll(S, file)[b] = file[b]
  <1> DEFINE Dirty(i, b) == cache[i] # NoTrack /\ b \in cache[i].changed
             Pick(b) == CHOOSE i \in S : Dirty(i, b)
  <1>1. \A b \in Blocks :
          SavedAll(S, file)[b] =
            IF \E i \in S : Dirty(i, b) THEN cache[Pick(b)].data[b] ELSE file[b]
    BY DEF SavedAll
  <1>2. ASSUME NEW b \in Blocks, NEW i \in S, Dirty(i, b)
        PROVE  /\ Pick(b) = i
               /\ cache[i].data[b] \in Contents
    <2>1. Pick(b) \in S /\ Dirty(Pick(b), b)
      BY <1>2
    <2>2. ASSUME NEW j \in S, Dirty(j, b)
          PROVE  cache[j].track = TrackOf(b) /\ cache[j].data[b] \in Contents
      BY <2>2, SlotHoldsTrack, TrackFields, SectorsAreBlocks DEF CacheInv
    <2>3. cache[Pick(b)].track = cache[i].track
      BY <2>1, <2>2, <1>2
    <2> QED
      BY <1>2, <2>1, <2>2, <2>3 DEF CacheInv, OneSlotPerTrack
  <1>3. SavedAll(S, file) \in [Blocks -> Contents]
    <2>1. \A b \in Blocks : SavedAll(S, file)[b] \in Contents
      BY <1>1, <1>2 DEF CacheInv, TypeOK
    <2>2. SavedAll(S, file) = [b \in Blocks |-> SavedAll(S, file)[b]]
      BY DEF SavedAll
    <2> QED
      BY <2>1, <2>2
  <1> QED
    BY <1>1, <1>2, <1>3

(* The serial number of a call and the stamps it works on.                  *)
LEMMA Serials ==
  ASSUME TypeOK
  PROVE  /\ NextSerial \in 0..(SerialModulus - 1)
         /\ Stamps \in [Slots -> 0..(SerialModulus - 1)]
         /\ ~Wraps => NextSerial = serial + 1 /\ Stamps = stamp
         /\ Wraps => NextSerial = 0 /\ \A i \in Slots : Stamps[i] = 0
  <1>1. /\ serial \in Int /\ 0 <= serial /\ serial <= SerialModulus - 1
        /\ SerialModulus \in Nat /\ SerialModulus > 1
        /\ stamp \in [Slots -> 0..(SerialModulus - 1)]
    BY CacheAssumption DEF TypeOK
  <1>2. NextSerial \in 0..(SerialModulus - 1)
    BY <1>1 DEF NextSerial
  <1>3. ~Wraps => NextSerial = serial + 1 /\ Stamps = stamp
    BY <1>1 DEF NextSerial, Wraps, Stamps
  <1>4. Wraps => NextSerial = 0 /\ Stamps = [i \in Slots |-> 0]
    BY DEF Wraps, Stamps
  <1>5. 0 \in 0..(SerialModulus - 1)
    BY <1>1
  <1>6. Stamps \in [Slots -> 0..(SerialModulus - 1)]
    BY <1>1, <1>4, <1>5 DEF Stamps
  <1> QED
    BY <1>2, <1>3, <1>4, <1>6

(* The history after the use of a track.                                    *)
LEMMA SinceUseType ==
  ASSUME TypeOK, NEW u \in Tracks
  PROVE  SinceUse(u) \in [Tracks -> SUBSET Tracks]
  BY DEF TypeOK, SinceUse

-----------------------------------------------------------------------------
(* The invariant                                                           *)

(* Nothing is cached at the start. *)
LEMMA InvInit == Init => CacheInv
  <1> SUFFICES ASSUME Init PROVE CacheInv
    OBVIOUS
  <1>1. 0 \in 0..(SerialModulus - 1)
    BY CacheAssumption
  <1>2. TypeOK
    BY <1>1 DEF Init, TypeOK, Contents
  <1> QED
    BY <1>2 DEF Init, CacheInv, OneSlotPerTrack, CleanMatchesFile

(* A call that has been assigned slot i: tr is the track as it is found     *)
(* there or loaded, and the file may have been written by an eviction.      *)
LEMMA AssignedKeepsInv ==
  ASSUME CacheInv, NEW c \in Calls, NEW i \in Slots,
         NEW tr \in TracksOver(TrackOf(c.block)),
         Begin, Assigned(i, tr, c),
         file' \in [Blocks -> Contents],
         \A j \in Slots \ {i} :
           cache[j] # NoTrack => cache[j].track # TrackOf(c.block),
         \A b \in Sectors(TrackOf(c.block)) \ tr.changed : tr.data[b] = file'[b],
         \A j \in Slots \ {i} : cache[j] # NoTrack =>
           \A b \in DOMAIN cache[j].data \ cache[j].changed :
             cache[j].data[b] = file'[b]
  PROVE  CacheInv'
  <1> DEFINE new == Apply(c, tr)
             t == TrackOf(c.block)
  <1>1. /\ c.block \in Blocks
        /\ new \in TracksOver(t)
        /\ \A b \in Sectors(t) \ {c.block} :
              /\ new.data[b] = tr.data[b]
              /\ b \in new.changed <=> b \in tr.changed
        /\ new.data[c.block] = IF c.write THEN c.value ELSE tr.data[c.block]
        /\ c.block \in new.changed <=>
              c.block \in tr.changed \/ (c.write /\ tr.data[c.block] # c.value)
        /\ Answer(c, tr) \in Contents \cup {Done}
    BY ApplyToTrack
  <1>2. t \in Tracks /\ tr.track = t
    BY <1>1, BlockInTrack, TrackFields
  <1>3. new # NoTrack /\ new.track = t /\ DOMAIN new.data = Sectors(t)
    BY <1>1, <1>2, NoTrackAssumption, TrackFields
  <1>4. cache' = [cache EXCEPT ![i] = new]
    BY DEF Assigned
  <1> HIDE DEF new, t
  <1>5. /\ cache'[i] = new
        /\ \A j \in Slots \ {i} : cache'[j] = cache[j]
    BY <1>4 DEF CacheInv, TypeOK
  <1>6. TypeOK'
    <2>1. open' \in BOOLEAN /\ serial' \in 0..(SerialModulus - 1)
      BY Serials DEF Begin, CacheInv, TypeOK
    <2>2. cache' \in [Slots -> (UNION {TracksOver(u) : u \in Tracks}) \cup {NoTrack}]
      BY <1>1, <1>2, <1>4 DEF CacheInv, TypeOK
    <2>3. stamp' \in [Slots -> 0..(SerialModulus - 1)]
      BY Serials DEF Assigned, CacheInv
    <2>4. result' \in Contents \cup {Done, Failed}
      BY <1>1 DEF Assigned
    <2>5. since' \in [Tracks -> SUBSET Tracks]
      BY <1>2, SinceUseType DEF Assigned, CacheInv
    <2> QED
      BY <2>1, <2>2, <2>3, <2>4, <2>5 DEF TypeOK
  <1>7. OneSlotPerTrack'
    BY <1>3, <1>5 DEF OneSlotPerTrack, CacheInv, t
  <1>8. CleanMatchesFile'
    <2> SUFFICES ASSUME NEW j \in Slots, cache'[j] # NoTrack,
                        NEW b \in DOMAIN cache'[j].data \ cache'[j].changed
                 PROVE  cache'[j].data[b] = file'[b]
      BY DEF CleanMatchesFile
    <2>1. CASE j # i
      BY <2>1, <1>5
    <2>2. CASE j = i
      <3>1. b \in Sectors(t) \ new.changed
        BY <2>2, <1>3, <1>5
      <3>2. b \notin tr.changed /\ new.data[b] = tr.data[b]
        BY <3>1, <1>1
      <3> QED
        BY <2>2, <3>1, <3>2, <1>5 DEF t
    <2> QED
      BY <2>1, <2>2
  <1> QED
    BY <1>6, <1>7, <1>8 DEF CacheInv

(* A call that ends without an assignment. *)
LEMMA NotAssignedTypes ==
  ASSUME TypeOK, Begin, NotAssigned
  PROVE  /\ open' \in BOOLEAN
         /\ serial' \in 0..(SerialModulus - 1)
         /\ stamp' \in [Slots -> 0..(SerialModulus - 1)]
         /\ result' \in Contents \cup {Done, Failed}
         /\ since' \in [Tracks -> SUBSET Tracks]
  BY Serials DEF TypeOK, Begin, NotAssigned

(* The track is found in a slot. *)
LEMMA HitKeepsInv ==
  ASSUME CacheInv, NEW c \in Calls, Hit(c)
  PROVE  CacheInv'
  <1>1. PICK i \in Slots :
          /\ Begin
          /\ First(i, Holding(TrackOf(c.block)))
          /\ Assigned(i, cache[i], c)
          /\ UNCHANGED file
    BY DEF Hit
  <1>2. cache[i] # NoTrack /\ cache[i].track = TrackOf(c.block)
    BY <1>1 DEF First, Holding
  <1>3. cache[i] \in TracksOver(TrackOf(c.block))
    BY <1>2, SlotHoldsTrack DEF CacheInv
  <1>4. DOMAIN cache[i].data = Sectors(TrackOf(c.block))
    BY <1>3, TrackFields
  <1>5. \A j \in Slots \ {i} :
          cache[j] # NoTrack => cache[j].track # TrackOf(c.block)
    BY <1>2 DEF CacheInv, OneSlotPerTrack
  <1>6. \A j \in Slots : cache[j] # NoTrack =>
          \A b \in DOMAIN cache[j].data \ cache[j].changed :
            cache[j].data[b] = file'[b]
    BY <1>1 DEF CacheInv, CleanMatchesFile
  <1>7. file' \in [Blocks -> Contents]
    BY <1>1 DEF CacheInv, TypeOK
  <1> QED
    BY <1>1, <1>2, <1>3, <1>4, <1>5, <1>6, <1>7, AssignedKeepsInv

(* The track is loaded into an empty slot. *)
LEMMA FillKeepsInv ==
  ASSUME CacheInv, NEW c \in Calls, Fill(c)
  PROVE  CacheInv'
  <1>1. PICK i \in Slots :
          /\ Begin
          /\ Holding(TrackOf(c.block)) = {}
          /\ First(i, Empty)
          /\ Assigned(i, Load(TrackOf(c.block), file), c)
          /\ UNCHANGED file
    BY DEF Fill
  <1>2. file \in [Blocks -> Contents] /\ file' = file
    BY <1>1 DEF CacheInv, TypeOK
  <1>3. /\ Load(TrackOf(c.block), file) \in TracksOver(TrackOf(c.block))
        /\ \A b \in Sectors(TrackOf(c.block)) :
             Load(TrackOf(c.block), file).data[b] = file[b]
    BY <1>2, LoadIsTrack
  <1>4. \A j \in Slots : cache[j] # NoTrack => cache[j].track # TrackOf(c.block)
    BY <1>1 DEF Holding
  <1>5. \A j \in Slots : cache[j] # NoTrack =>
          \A b \in DOMAIN cache[j].data \ cache[j].changed :
            cache[j].data[b] = file'[b]
    BY <1>2 DEF CacheInv, CleanMatchesFile
  <1> QED
    BY <1>1, <1>2, <1>3, <1>4, <1>5, AssignedKeepsInv

(* A file that differs only in changed sectors of one slot still agrees     *)
(* with the clean sectors of all slots.                                     *)
LEMMA OtherSlotsStayClean ==
  ASSUME CacheInv, NEW i \in Slots, cache[i] # NoTrack, NEW f,
         \A b \in Blocks \ cache[i].changed : f[b] = file[b]
  PROVE  \A j \in Slots : cache[j] # NoTrack =>
           \A b \in DOMAIN cache[j].data \ cache[j].changed : cache[j].data[b] = f[b]
  <1> SUFFICES ASSUME NEW j \in Slots, cache[j] # NoTrack,
                      NEW b \in DOMAIN cache[j].data \ cache[j].changed
               PROVE  cache[j].data[b] = f[b]
    OBVIOUS
  <1>1. b \in Blocks /\ TrackOf(b) = cache[j].track
    BY SlotHoldsTrack, TrackFields, SectorsAreBlocks DEF CacheInv
  <1>2. b \notin cache[i].changed
    <2>1. ASSUME b \in cache[i].changed
          PROVE  cache[j].track = cache[i].track
      BY <2>1, <1>1, SlotHoldsTrack, TrackFields, SectorsAreBlocks DEF CacheInv
    <2> QED
      BY <2>1 DEF CacheInv, OneSlotPerTrack
  <1>3. cache[j].data[b] = file[b]
    BY DEF CacheInv, CleanMatchesFile
  <1> QED
    BY <1>1, <1>2, <1>3

(* What the eviction of slot i does to the file. *)
LEMMA EvictedFile ==
  ASSUME CacheInv, NEW c, NEW i \in Slots, Full(c, i)
  PROVE  LET f == Written(cache[i], cache[i].changed, file)
         IN /\ cache[i] # NoTrack
            /\ cache[i] \in TracksOver(cache[i].track)
            /\ f \in [Blocks -> Contents]
            /\ \A b \in Blocks :
                 f[b] = IF b \in cache[i].changed THEN cache[i].data[b] ELSE file[b]
            /\ \A j \in Slots : cache[j] # NoTrack =>
                 \A b \in DOMAIN cache[j].data \ cache[j].changed :
                   cache[j].data[b] = f[b]
  <1> DEFINE f == Written(cache[i], cache[i].changed, file)
  <1>1. cache[i] # NoTrack
    BY DEF Full, Empty
  <1>2. cache[i] \in TracksOver(cache[i].track)
    BY <1>1, SlotHoldsTrack DEF CacheInv
  <1>3. /\ f \in [Blocks -> Contents]
        /\ \A b \in Blocks :
             f[b] = IF b \in cache[i].changed THEN cache[i].data[b] ELSE file[b]
    BY <1>2, WrittenFile DEF CacheInv, TypeOK
  <1> HIDE DEF f
  <1>4. \A j \in Slots : cache[j] # NoTrack =>
          \A b \in DOMAIN cache[j].data \ cache[j].changed : cache[j].data[b] = f[b]
    BY <1>1, <1>3, OtherSlotsStayClean
  <1> QED
    BY <1>1, <1>2, <1>3, <1>4 DEF f

(* A slot is reused. *)
LEMMA EvictKeepsInv ==
  ASSUME CacheInv, NEW c \in Calls, Evict(c)
  PROVE  CacheInv'
  <1>1. PICK i \in Slots :
          /\ Full(c, i)
          /\ file' = Written(cache[i], cache[i].changed, file)
          /\ Assigned(i, Load(TrackOf(c.block), file'), c)
    BY DEF Evict
  <1>2. /\ file' \in [Blocks -> Contents]
        /\ \A j \in Slots : cache[j] # NoTrack =>
             \A b \in DOMAIN cache[j].data \ cache[j].changed :
               cache[j].data[b] = file'[b]
    BY <1>1, EvictedFile
  <1>3. /\ Load(TrackOf(c.block), file') \in TracksOver(TrackOf(c.block))
        /\ \A b \in Sectors(TrackOf(c.block)) :
             Load(TrackOf(c.block), file').data[b] = file'[b]
    BY <1>2, LoadIsTrack
  <1>4. \A j \in Slots : cache[j] # NoTrack => cache[j].track # TrackOf(c.block)
    BY <1>1 DEF Full, Holding
  <1>5. Begin
    BY <1>1 DEF Full
  <1> QED
    BY <1>1, <1>2, <1>3, <1>4, <1>5, AssignedKeepsInv

(* No slot could be filled. *)
LEMMA FillFailsKeepsInv ==
  ASSUME CacheInv, NEW c \in Calls, FillFails(c)
  PROVE  CacheInv'
  <1>1. Begin /\ NotAssigned /\ cache' = cache /\ file' = file
    BY DEF FillFails
  <1>2. TypeOK'
    BY <1>1, NotAssignedTypes DEF CacheInv, TypeOK
  <1> QED
    BY <1>1, <1>2 DEF CacheInv, OneSlotPerTrack, CleanMatchesFile

(* The track to be evicted could not be saved. *)
LEMMA EvictSaveFailsKeepsInv ==
  ASSUME CacheInv, NEW c \in Calls, EvictSaveFails(c)
  PROVE  CacheInv'
  <1>1. PICK i \in Slots :
          /\ Full(c, i)
          /\ SaveFails(cache[i], file, file')
          /\ NotAssigned
          /\ UNCHANGED cache
    BY DEF EvictSaveFails
  <1>2. cache[i] # NoTrack /\ cache[i] \in TracksOver(cache[i].track)
    BY <1>1, EvictedFile
  <1>3. /\ file' \in [Blocks -> Contents]
        /\ \A b \in Blocks \ cache[i].changed : file'[b] = file[b]
    BY <1>1, <1>2, FileAfterFailure DEF CacheInv, TypeOK
  <1>4. CleanMatchesFile'
    BY <1>1, <1>2, <1>3, OtherSlotsStayClean DEF CleanMatchesFile
  <1>5. Begin
    BY <1>1 DEF Full
  <1>6. TypeOK'
    BY <1>1, <1>3, <1>5, NotAssignedTypes DEF CacheInv, TypeOK
  <1> QED
    BY <1>1, <1>4, <1>6 DEF CacheInv, OneSlotPerTrack

(* The new track could not be loaded. *)
LEMMA EvictLoadFailsKeepsInv ==
  ASSUME CacheInv, NEW c \in Calls, EvictLoadFails(c)
  PROVE  CacheInv'
  <1>1. PICK i \in Slots :
          /\ Full(c, i)
          /\ file' = Written(cache[i], cache[i].changed, file)
          /\ cache' = [cache EXCEPT ![i] = NoTrack]
          /\ NotAssigned
    BY DEF EvictLoadFails
  <1>2. /\ file' \in [Blocks -> Contents]
        /\ \A j \in Slots : cache[j] # NoTrack =>
             \A b \in DOMAIN cache[j].data \ cache[j].changed :
               cache[j].data[b] = file'[b]
    BY <1>1, EvictedFile
  <1>3. cache'[i] = NoTrack /\ \A j \in Slots \ {i} : cache'[j] = cache[j]
    BY <1>1 DEF CacheInv, TypeOK
  <1>4. TypeOK'
    <2>1. cache' \in [Slots -> (UNION {TracksOver(u) : u \in Tracks}) \cup {NoTrack}]
      BY <1>1 DEF CacheInv, TypeOK
    <2>2. Begin
      BY <1>1 DEF Full
    <2> QED
      BY <1>1, <1>2, <2>1, <2>2, NotAssignedTypes DEF CacheInv, TypeOK
  <1>5. CleanMatchesFile'
    BY <1>2, <1>3 DEF CleanMatchesFile
  <1>6. OneSlotPerTrack'
    BY <1>3 DEF CacheInv, OneSlotPerTrack
  <1> QED
    BY <1>4, <1>5, <1>6 DEF CacheInv

(* The slots once those in S have been saved. *)
LEMMA CleanedSlots ==
  ASSUME CacheInv, NEW S \in SUBSET Slots
  PROVE  /\ CleanUpTo(S) \in
              [Slots -> (UNION {TracksOver(t) : t \in Tracks}) \cup {NoTrack}]
         /\ \A i \in Slots :
              /\ CleanUpTo(S)[i] = NoTrack <=> cache[i] = NoTrack
              /\ cache[i] # NoTrack =>
                   /\ CleanUpTo(S)[i].track = cache[i].track
                   /\ CleanUpTo(S)[i].data = cache[i].data
                   /\ CleanUpTo(S)[i].changed =
                        IF i \in S THEN {} ELSE cache[i].changed
  <1>1. ASSUME NEW i \in Slots, cache[i] # NoTrack
        PROVE  /\ cache[i].track \in Tracks
               /\ Saved(cache[i]) \in TracksOver(cache[i].track)
               /\ Saved(cache[i]) # NoTrack
               /\ Saved(cache[i]).track = cache[i].track
               /\ Saved(cache[i]).data = cache[i].data
               /\ Saved(cache[i]).changed = {}
    <2>1. cache[i].track \in Tracks /\ cache[i] \in TracksOver(cache[i].track)
      BY <1>1, SlotHoldsTrack DEF CacheInv
    <2>2. /\ cache[i] = [track |-> cache[i].track, data |-> cache[i].data,
                         changed |-> cache[i].changed]
          /\ cache[i].data \in [Sectors(cache[i].track) -> Contents]
      BY <2>1, TrackFields
    <2>3. Saved(cache[i]) =
            [track |-> cache[i].track, data |-> cache[i].data, changed |-> {}]
      BY <2>2 DEF Saved
    <2>4. Saved(cache[i]) \in TracksOver(cache[i].track)
      BY <2>2, <2>3 DEF TracksOver
    <2>5. Saved(cache[i]) # NoTrack
      BY <2>1, <2>4, NoTrackAssumption
    <2>6. /\ Saved(cache[i]).track = cache[i].track
          /\ Saved(cache[i]).data = cache[i].data
          /\ Saved(cache[i]).changed = {}
      BY <2>3
    <2> QED
      BY <2>1, <2>4, <2>5, <2>6
  <1>2. \A i \in Slots : CleanUpTo(S)[i] =
          IF i \in S /\ cache[i] # NoTrack THEN Saved(cache[i]) ELSE cache[i]
    BY DEF CleanUpTo
  <1>3. \A i \in Slots :
          CleanUpTo(S)[i] \in (UNION {TracksOver(t) : t \in Tracks}) \cup {NoTrack}
    BY <1>1, <1>2 DEF CacheInv, TypeOK
  <1>4. CleanUpTo(S) \in
          [Slots -> (UNION {TracksOver(t) : t \in Tracks}) \cup {NoTrack}]
    BY <1>3 DEF CleanUpTo
  <1> QED
    BY <1>1, <1>2, <1>4

(* The file agrees with the clean sectors when the slots of S are saved     *)
(* into it and nothing else of it changes but what is still marked.         *)
LEMMA SavedSlotsAreClean ==
  ASSUME CacheInv, NEW S \in SUBSET Slots, NEW f,
         \A i \in Slots, b \in Blocks :
           /\ cache[i] # NoTrack /\ cache[i].track = TrackOf(b)
           /\ i \in S \/ b \notin cache[i].changed
           => f[b] = SavedAll(S, file)[b]
  PROVE  \A i \in Slots : CleanUpTo(S)[i] # NoTrack =>
           \A b \in DOMAIN CleanUpTo(S)[i].data \ CleanUpTo(S)[i].changed :
             CleanUpTo(S)[i].data[b] = f[b]
  <1> SUFFICES ASSUME NEW i \in Slots, CleanUpTo(S)[i] # NoTrack,
                      NEW b \in DOMAIN CleanUpTo(S)[i].data,
                      b \notin CleanUpTo(S)[i].changed
               PROVE  CleanUpTo(S)[i].data[b] = f[b]
    OBVIOUS
  <1>1. /\ cache[i] # NoTrack
        /\ CleanUpTo(S)[i].data = cache[i].data
        /\ i \in S \/ b \notin cache[i].changed
    BY CleanedSlots
  <1>2. b \in Blocks /\ cache[i].track = TrackOf(b)
    BY <1>1, SlotHoldsTrack, TrackFields, SectorsAreBlocks DEF CacheInv
  <1>3. f[b] = SavedAll(S, file)[b]
    BY <1>1, <1>2
  <1>4. CASE b \in cache[i].changed
    <2>1. i \in S
      BY <1>1, <1>4
    <2>2. SavedAll(S, file)[b] = cache[i].data[b]
      BY <2>1, <1>1, <1>2, <1>4, FileAfterSave
    <2> QED
      BY <2>2, <1>1, <1>3
  <1>5. CASE b \notin cache[i].changed
    <2>1. \A j \in S : cache[j] # NoTrack => b \notin cache[j].changed
      <3> SUFFICES ASSUME NEW j \in S, cache[j] # NoTrack, b \in cache[j].changed
                   PROVE  FALSE
        OBVIOUS
      <3>1. cache[j].track = TrackOf(b)
        BY SlotHoldsTrack, TrackFields, SectorsAreBlocks DEF CacheInv
      <3> QED
        BY <3>1, <1>1, <1>2, <1>5 DEF CacheInv, OneSlotPerTrack
    <2>2. SavedAll(S, file)[b] = file[b]
      BY <2>1, <1>2, FileAfterSave
    <2>3. cache[i].data[b] = file[b]
      BY <1>1, <1>5 DEF CacheInv, CleanMatchesFile
    <2> QED
      BY <2>2, <2>3, <1>1, <1>3
  <1> QED
    BY <1>4, <1>5

(* All tracks are saved. *)
LEMMA SaveKeepsInv ==
  ASSUME CacheInv, Save
  PROVE  CacheInv'
  <1>1. /\ file' = SavedAll(Slots, file)
        /\ cache' = CleanUpTo(Slots)
        /\ result' = Done
        /\ UNCHANGED <<open, stamp, serial, since>>
    BY DEF Save
  <1>2. file' \in [Blocks -> Contents]
    BY <1>1, FileAfterSave
  <1>3. TypeOK'
    BY <1>1, <1>2, CleanedSlots DEF CacheInv, TypeOK
  <1>4. CleanMatchesFile'
    BY <1>1, SavedSlotsAreClean DEF CleanMatchesFile
  <1>5. OneSlotPerTrack'
    BY <1>1, CleanedSlots DEF CacheInv, OneSlotPerTrack
  <1> QED
    BY <1>3, <1>4, <1>5 DEF CacheInv

(* The tracks before one that cannot be saved are saved. *)
LEMMA SaveStopsKeepsInv ==
  ASSUME CacheInv, SaveStops
  PROVE  CacheInv'
  <1>1. PICK i \in Slots :
          /\ cache[i] # NoTrack
          /\ SaveFails(cache[i], SavedAll(0..(i - 1), file), file')
          /\ cache' = CleanUpTo(0..(i - 1))
          /\ result' = Failed
          /\ UNCHANGED <<open, stamp, serial, since>>
    BY DEF SaveStops
  <1> DEFINE S == 0..(i - 1)
  <1>2. S \in SUBSET Slots /\ i \notin S
    BY CacheAssumption DEF Slots
  <1> HIDE DEF S
  <1>3. SavedAll(S, file) \in [Blocks -> Contents]
    BY <1>2, FileAfterSave
  <1>4. cache[i] \in TracksOver(cache[i].track)
    BY <1>1, SlotHoldsTrack DEF CacheInv
  <1>5. /\ file' \in [Blocks -> Contents]
        /\ \A b \in Blocks \ cache[i].changed : file'[b] = SavedAll(S, file)[b]
    BY <1>1, <1>3, <1>4, FileAfterFailure DEF S
  <1>6. ASSUME NEW j \in Slots, NEW b \in Blocks,
               cache[j] # NoTrack, cache[j].track = TrackOf(b),
               j \in S \/ b \notin cache[j].changed
        PROVE  file'[b] = SavedAll(S, file)[b]
    <2>1. b \notin cache[i].changed
      <3>1. ASSUME b \in cache[i].changed
            PROVE  j = i
        BY <3>1, <1>1, <1>4, <1>6, TrackFields, SectorsAreBlocks
           DEF CacheInv, OneSlotPerTrack
      <3> QED
        BY <3>1, <1>2, <1>6
    <2> QED
      BY <2>1, <1>5
  <1>7. cache' = CleanUpTo(S)
    BY <1>1 DEF S
  <1>8. TypeOK'
    BY <1>1, <1>2, <1>5, <1>7, CleanedSlots DEF CacheInv, TypeOK
  <1>9. CleanMatchesFile'
    BY <1>2, <1>6, <1>7, SavedSlotsAreClean DEF CleanMatchesFile
  <1>10. OneSlotPerTrack'
    BY <1>2, <1>7, CleanedSlots DEF CacheInv, OneSlotPerTrack
  <1> QED
    BY <1>8, <1>9, <1>10 DEF CacheInv

(* The cache is destroyed, or a new one is built. *)
LEMMA OpenCloseKeepInv ==
  ASSUME CacheInv, Close \/ Open
  PROVE  CacheInv'
  <1>1. CASE Close
    BY <1>1 DEF CacheInv, TypeOK, OneSlotPerTrack, CleanMatchesFile, Close
  <1>2. CASE Open
    <2>1. 0 \in 0..(SerialModulus - 1)
      BY CacheAssumption
    <2> QED
      BY <2>1, <1>2 DEF CacheInv, TypeOK, OneSlotPerTrack, CleanMatchesFile, Open
  <1> QED
    BY <1>1, <1>2

LEMMA InvNext == CacheInv /\ [Next]_vars => CacheInv'
  <1> SUFFICES ASSUME CacheInv, [Next]_vars PROVE CacheInv'
    OBVIOUS
  <1>1. CASE UNCHANGED vars
    BY <1>1 DEF CacheInv, TypeOK, OneSlotPerTrack, CleanMatchesFile, vars
  <1>2. ASSUME NEW c \in Calls,
               \/ Hit(c)
               \/ Fill(c)
               \/ FillFails(c)
               \/ Evict(c)
               \/ EvictSaveFails(c)
               \/ EvictLoadFails(c)
        PROVE  CacheInv'
    BY <1>2, HitKeepsInv, FillKeepsInv, FillFailsKeepsInv, EvictKeepsInv,
       EvictSaveFailsKeepsInv, EvictLoadFailsKeepsInv
  <1> QED
    BY <1>1, <1>2, SaveKeepsInv, SaveStopsKeepsInv, OpenCloseKeepInv DEF Next

(* In every reachable state the variables have their types, no track is in  *)
(* two slots, and sectors without a change flag equal the image file.       *)
THEOREM CacheCorrect == Spec => [](TypeOK /\ OneSlotPerTrack /\ CleanMatchesFile)
  BY InvInit, InvNext, PTL DEF Spec, CacheInv

(* A track is in one slot at most, on every path of Assign and Load, also   *)
(* after an assignment that failed half way (DiskCache::Assign): otherwise  *)
(* one copy of a sector would be read and the other one saved.              *)
THEOREM TrackInOneSlot == Spec => []OneSlotPerTrack
  BY CacheCorrect, PTL

-----------------------------------------------------------------------------
(* The order of evictions                                                  *)

(* The stamps follow the order of use since the serial number last wrapped. *)
AgeInv ==
  /\ \A i \in Slots : stamp[i] <= serial
  /\ \A i, j \in Slots :
       cache[i] # NoTrack /\ cache[j] # NoTrack /\ i # j
         => cache[j].track \in since[cache[i].track] \/ stamp[j] < stamp[i]

(* SlotHoldsTrack as a formula, so that it can be primed.                   *)
SlotsHoldTracks == \A i \in Slots : cache[i] # NoTrack => cache[i].track \in Tracks

LEMMA SlotTracks == CacheInv => SlotsHoldTracks
  BY SlotHoldsTrack DEF CacheInv, SlotsHoldTracks

LEMMA NextSlotTracks ==
  CacheInv' => \A i \in Slots : cache'[i] # NoTrack => cache'[i].track \in Tracks
  <1>1. CacheInv' => SlotsHoldTracks'
    BY SlotTracks, PTL
  <1> QED
    BY <1>1 DEF SlotsHoldTracks

(* A call that used the track u, now in slot i.                             *)
LEMMA UseKeepsAge ==
  ASSUME CacheInv, AgeInv, CacheInv', Begin, NEW i \in Slots, NEW u \in Tracks,
         cache'[i] # NoTrack, cache'[i].track = u,
         \A j \in Slots \ {i} : cache'[j] = cache[j],
         stamp' = [Stamps EXCEPT ![i] = NextSerial],
         since' = SinceUse(u)
  PROVE  AgeInv'
  <1>1. /\ serial \in Nat /\ stamp \in [Slots -> Nat]
        /\ Stamps \in [Slots -> 0..(SerialModulus - 1)]
        /\ NextSerial \in Nat
    BY Serials, CacheAssumption DEF CacheInv, TypeOK
  <1>2. /\ serial' = NextSerial
        /\ stamp'[i] = NextSerial
        /\ \A j \in Slots \ {i} : stamp'[j] = Stamps[j]
    BY <1>1 DEF Begin
  <1>3. \A j \in Slots : cache'[j] # NoTrack => cache'[j].track \in Tracks
    BY NextSlotTracks
  <1>4. CASE Wraps
    <2>1. NextSerial = 0 /\ \A j \in Slots : Stamps[j] = 0
      BY <1>4, Serials DEF CacheInv
    <2>2. \A j \in Slots : stamp'[j] <= serial'
      BY <2>1, <1>2
    <2>3. \A t \in Tracks : since'[t] = Tracks
      BY <1>4 DEF SinceUse
    <2> QED
      BY <2>2, <2>3, <1>3 DEF AgeInv
  <1>5. CASE ~Wraps
    <2>1. NextSerial = serial + 1 /\ Stamps = stamp
      BY <1>5, Serials DEF CacheInv
    <2>2. \A j \in Slots \ {i} : stamp'[j] = stamp[j] /\ stamp[j] < NextSerial
      BY <2>1, <1>1, <1>2 DEF AgeInv
    <2>3. \A j \in Slots : stamp'[j] <= serial'
      BY <2>2, <1>1, <1>2
    <2>4. \A t \in Tracks : since'[t] = IF t = u THEN {} ELSE since[t] \cup {u}
      BY <1>5 DEF SinceUse
    <2>5. ASSUME NEW j \in Slots, NEW l \in Slots, j # l,
                 cache'[j] # NoTrack, cache'[l] # NoTrack
          PROVE  cache'[l].track \in since'[cache'[j].track] \/ stamp'[l] < stamp'[j]
      <3>1. CASE j = i
        BY <3>1, <2>2, <2>5, <1>2
      <3>2. CASE j # i
        <4>1. cache'[j].track # u
          BY <3>2, <2>5 DEF CacheInv, OneSlotPerTrack
        <4>2. since'[cache'[j].track] = since[cache'[j].track] \cup {u}
          BY <4>1, <2>4, <2>5, <1>3
        <4>3. CASE l = i
          BY <4>2, <4>3
        <4>4. CASE l # i
          <5>1. cache[l].track \in since[cache[j].track] \/ stamp[l] < stamp[j]
            BY <3>2, <4>4, <2>5 DEF AgeInv
          <5> QED
            BY <5>1, <3>2, <4>4, <4>2, <2>2
        <4> QED
          BY <4>3, <4>4
      <3> QED
        BY <3>1, <3>2
    <2> QED
      BY <2>3, <2>5 DEF AgeInv
  <1> QED
    BY <1>4, <1>5

(* A call that used no track, and emptied a slot at most.                   *)
LEMMA FailureKeepsAge ==
  ASSUME CacheInv, AgeInv, CacheInv', Begin, NotAssigned,
         \A j \in Slots : cache'[j] \in {cache[j], NoTrack}
  PROVE  AgeInv'
  <1>1. /\ serial \in Nat /\ stamp \in [Slots -> Nat]
        /\ serial' = NextSerial /\ stamp' = Stamps
    BY CacheAssumption DEF CacheInv, TypeOK, Begin, NotAssigned
  <1>2. CASE Wraps
    <2>1. NextSerial = 0 /\ \A j \in Slots : Stamps[j] = 0
      BY <1>2, Serials DEF CacheInv
    <2>2. \A t \in Tracks : since'[t] = Tracks
      BY <1>2 DEF NotAssigned
    <2> QED
      BY <2>1, <2>2, <1>1, NextSlotTracks DEF AgeInv
  <1>3. CASE ~Wraps
    <2>1. NextSerial = serial + 1 /\ Stamps = stamp /\ since' = since
      BY <1>3, Serials DEF CacheInv, NotAssigned
    <2>2. \A j \in Slots : stamp'[j] <= serial'
      BY <2>1, <1>1 DEF AgeInv
    <2> QED
      BY <2>1, <2>2, <1>1 DEF AgeInv
  <1> QED
    BY <1>2, <1>3

LEMMA AgeInit == Init => AgeInv
  BY DEF Init, AgeInv

LEMMA AgeNext == CacheInv /\ AgeInv /\ CacheInv' /\ [Next]_vars => AgeInv'
  <1> SUFFICES ASSUME CacheInv, AgeInv, CacheInv', [Next]_vars PROVE AgeInv'
    OBVIOUS
  <1>1. CASE UNCHANGED vars
    BY <1>1 DEF AgeInv, vars
  <1>2. ASSUME NEW c \in Calls, NEW i \in Slots,
               NEW tr \in TracksOver(TrackOf(c.block)), Begin, Assigned(i, tr, c)
        PROVE  AgeInv'
    <2>1. /\ TrackOf(c.block) \in Tracks
          /\ Apply(c, tr) \in TracksOver(TrackOf(c.block))
          /\ tr.track = TrackOf(c.block)
      BY ApplyToTrack, BlockInTrack, TrackFields
    <2>2. Apply(c, tr) # NoTrack /\ Apply(c, tr).track = TrackOf(c.block)
      BY <2>1, NoTrackAssumption, TrackFields
    <2>3. cache'[i] = Apply(c, tr) /\ \A j \in Slots \ {i} : cache'[j] = cache[j]
      BY <1>2 DEF Assigned, CacheInv, TypeOK
    <2>4. stamp' = [Stamps EXCEPT ![i] = NextSerial] /\ since' = SinceUse(tr.track)
      BY <1>2 DEF Assigned
    <2> QED
      BY <2>1, <2>2, <2>3, <2>4, <1>2, UseKeepsAge
  <1>3. ASSUME NEW c \in Calls, Hit(c)
        PROVE  AgeInv'
    <2>1. PICK i \in Slots :
            /\ Begin
            /\ First(i, Holding(TrackOf(c.block)))
            /\ Assigned(i, cache[i], c)
      BY <1>3 DEF Hit
    <2>2. cache[i] # NoTrack /\ cache[i].track = TrackOf(c.block)
      BY <2>1 DEF First, Holding
    <2>3. cache[i] \in TracksOver(TrackOf(c.block))
      BY <2>2, SlotHoldsTrack DEF CacheInv
    <2> QED
      BY <2>1, <2>3, <1>2
  <1>4. ASSUME NEW c \in Calls, Fill(c)
        PROVE  AgeInv'
    <2>1. PICK i \in Slots : Begin /\ Assigned(i, Load(TrackOf(c.block), file), c)
      BY <1>4 DEF Fill
    <2>2. Load(TrackOf(c.block), file) \in TracksOver(TrackOf(c.block))
      BY LoadIsTrack DEF CacheInv, TypeOK
    <2> QED
      BY <2>1, <2>2, <1>2
  <1>5. ASSUME NEW c \in Calls, Evict(c)
        PROVE  AgeInv'
    <2>1. PICK i \in Slots : Begin /\ Assigned(i, Load(TrackOf(c.block), file'), c)
      BY <1>5 DEF Evict, Full
    <2>2. Load(TrackOf(c.block), file') \in TracksOver(TrackOf(c.block))
      BY LoadIsTrack DEF CacheInv, TypeOK
    <2> QED
      BY <2>1, <2>2, <1>2
  <1>6. ASSUME NEW c \in Calls, FillFails(c) \/ EvictSaveFails(c)
        PROVE  AgeInv'
    <2>1. Begin /\ NotAssigned /\ cache' = cache
      BY <1>6 DEF FillFails, EvictSaveFails, Full
    <2> QED
      BY <2>1, FailureKeepsAge
  <1>7. ASSUME NEW c \in Calls, EvictLoadFails(c)
        PROVE  AgeInv'
    <2>1. PICK i \in Slots :
            Begin /\ NotAssigned /\ cache' = [cache EXCEPT ![i] = NoTrack]
      BY <1>7 DEF EvictLoadFails, Full
    <2>2. \A j \in Slots : cache'[j] \in {cache[j], NoTrack}
      BY <2>1 DEF CacheInv, TypeOK
    <2> QED
      BY <2>1, <2>2, FailureKeepsAge
  <1>8. ASSUME NEW S \in SUBSET Slots, cache' = CleanUpTo(S),
               UNCHANGED <<stamp, serial, since>>
        PROVE  AgeInv'
    BY <1>8, CleanedSlots DEF AgeInv
  <1>9. CASE Save
    BY <1>8, <1>9 DEF Save
  <1>10. CASE SaveStops
    <2>1. PICK i \in Slots :
            cache' = CleanUpTo(0..(i - 1)) /\ UNCHANGED <<stamp, serial, since>>
      BY <1>10 DEF SaveStops
    <2>2. 0..(i - 1) \in SUBSET Slots
      BY CacheAssumption DEF Slots
    <2> QED
      BY <2>1, <2>2, <1>8
  <1>11. CASE Close
    BY <1>11 DEF Close, AgeInv
  <1>12. CASE Open
    <2>1. \A i \in Slots : stamp'[i] <= serial'
      BY <1>12 DEF Open
    <2>2. \A t \in Tracks : since'[t] = Tracks
      BY <1>12 DEF Open
    <2> QED
      BY <2>1, <2>2, NextSlotTracks DEF AgeInv
  <1> QED
    BY <1>1, <1>3, <1>4, <1>5, <1>6, <1>7, <1>9, <1>10, <1>11, <1>12 DEF Next

(* A step that puts another track into a slot is an eviction, and takes the *)
(* slot with the smallest stamp.                                            *)
LEMMA ReuseIsEviction ==
  ASSUME CacheInv, Next, NEW i \in Slots,
         cache[i] # NoTrack, cache'[i] # NoTrack, cache'[i].track # cache[i].track
  PROVE  \A j \in Slots : Stamps[i] <= Stamps[j]
  <1>1. ASSUME NEW c \in Calls, Hit(c)
        PROVE  FALSE
    <2>1. PICK k \in Slots :
            /\ First(k, Holding(TrackOf(c.block)))
            /\ Assigned(k, cache[k], c)
      BY <1>1 DEF Hit
    <2>2. cache[k] # NoTrack /\ cache[k].track = TrackOf(c.block)
      BY <2>1 DEF First, Holding
    <2>3. cache[k] \in TracksOver(TrackOf(c.block))
      BY <2>2, SlotHoldsTrack DEF CacheInv
    <2>4. Apply(c, cache[k]).track = TrackOf(c.block)
      BY <2>3, ApplyToTrack, TrackFields
    <2>5. cache' = [cache EXCEPT ![k] = Apply(c, cache[k])]
      BY <2>1 DEF Assigned
    <2> QED
      BY <2>2, <2>4, <2>5 DEF CacheInv, TypeOK
  <1>2. ASSUME NEW c \in Calls, Fill(c)
        PROVE  FALSE
    <2>1. PICK k \in Slots :
            First(k, Empty) /\ Assigned(k, Load(TrackOf(c.block), file), c)
      BY <1>2 DEF Fill
    <2>2. /\ cache[k] = NoTrack
          /\ cache' = [cache EXCEPT ![k] = Apply(c, Load(TrackOf(c.block), file))]
      BY <2>1 DEF First, Empty, Assigned
    <2> QED
      BY <2>2 DEF CacheInv, TypeOK
  <1>3. ASSUME NEW c \in Calls, Evict(c)
        PROVE  \A j \in Slots : Stamps[i] <= Stamps[j]
    <2>1. PICK k \in Slots :
            Oldest(k) /\ Assigned(k, Load(TrackOf(c.block), file'), c)
      BY <1>3 DEF Evict, Full
    <2>2. \A l \in Slots : Stamps[k] <= Stamps[l]
      BY <2>1 DEF Oldest, First
    <2>3. cache' = [cache EXCEPT ![k] = Apply(c, Load(TrackOf(c.block), file'))]
      BY <2>1 DEF Assigned
    <2>4. i = k
      BY <2>3 DEF CacheInv, TypeOK
    <2> QED
      BY <2>2, <2>4
  <1>4. ASSUME NEW c \in Calls, FillFails(c) \/ EvictSaveFails(c)
        PROVE  FALSE
    BY <1>4 DEF FillFails, EvictSaveFails
  <1>5. ASSUME NEW c \in Calls, EvictLoadFails(c)
        PROVE  FALSE
    BY <1>5 DEF EvictLoadFails, CacheInv, TypeOK
  <1>6. ASSUME NEW S \in SUBSET Slots, cache' = CleanUpTo(S)
        PROVE  FALSE
    BY <1>6, CleanedSlots
  <1>7. ASSUME SaveStops
        PROVE  FALSE
    <2>1. PICK k \in Slots : cache' = CleanUpTo(0..(k - 1))
      BY <1>7 DEF SaveStops
    <2>2. 0..(k - 1) \in SUBSET Slots
      BY CacheAssumption DEF Slots
    <2> QED
      BY <2>1, <2>2, <1>6
  <1>8. ASSUME Save \/ Close \/ Open
        PROVE  FALSE
    BY <1>6, <1>8 DEF Save, Close, Open
  <1> QED
    BY <1>1, <1>2, <1>3, <1>4, <1>5, <1>7, <1>8 DEF Next

(* What a step of EvictsLeastRecent asserts. *)
LEMMA EvictionOrder ==
  ASSUME CacheInv, AgeInv, [Next]_vars, NEW i \in Slots, NEW j \in Slots,
         cache[i] # NoTrack, cache'[i] # NoTrack, cache'[i].track # cache[i].track,
         cache[j] # NoTrack, j # i, ~Wraps
  PROVE  cache[j].track \in since[cache[i].track]
  <1>1. Next
    BY DEF vars
  <1>2. Stamps[i] <= Stamps[j]
    BY <1>1, ReuseIsEviction
  <1>3. stamp[i] <= stamp[j] /\ stamp[i] \in Int /\ stamp[j] \in Int
    BY <1>2, Serials DEF CacheInv, TypeOK
  <1> QED
    BY <1>3 DEF AgeInv

(* A slot is only taken from the least recently used track, as long as the  *)
(* serial number does not wrap in that call (Assign and UpdateSerialNumber).*)
THEOREM LeastRecentEvicted == Spec => EvictsLeastRecent
  <1>1. Init => CacheInv /\ AgeInv
    BY InvInit, AgeInit
  <1>2. CacheInv /\ AgeInv /\ [Next]_vars => CacheInv' /\ AgeInv'
    BY InvNext, AgeNext
  <1>3. CacheInv /\ AgeInv /\ [Next]_vars =>
          [\A i, j \in Slots :
             /\ cache[i] # NoTrack /\ cache'[i] # NoTrack
             /\ cache'[i].track # cache[i].track
             /\ cache[j] # NoTrack /\ j # i
             /\ ~Wraps
             => cache[j].track \in since[cache[i].track]]_vars
    BY EvictionOrder
  <1> QED
    BY <1>1, <1>2, <1>3, PTL DEF Spec, EvictsLeastRecent

-----------------------------------------------------------------------------
(* The disk cache implements the block store: the initial states map to     *)
(* initial states of BlockStore, and every step to one of its steps or to a *)
(* stutter.                                                                 *)


(* What the refinement mapping says of a block, without a choice of slot.   *)
Mapped ==
  \A b \in Blocks :
    /\ \A i \in Slots : Caches(i, b) =>
         /\ Latest[b] = cache[i].data[b]
         /\ b \in Pending <=> b \in cache[i].changed
    /\ (\A i \in Slots : ~Caches(i, b)) => Latest[b] = file[b] /\ b \notin Pending

LEMMA MappingFromInv == CacheInv => Mapped
  <1> SUFFICES ASSUME CacheInv, NEW b \in Blocks
               PROVE  /\ \A i \in Slots : Caches(i, b) =>
                           /\ Latest[b] = cache[i].data[b]
                           /\ b \in Pending <=> b \in cache[i].changed
                      /\ (\A i \in Slots : ~Caches(i, b)) =>
                           Latest[b] = file[b] /\ b \notin Pending
    BY DEF Mapped
  <1> DEFINE Chosen == CHOOSE i \in Slots : Caches(i, b)
  <1>1. ASSUME NEW i \in Slots, Caches(i, b), NEW j \in Slots, Caches(j, b)
        PROVE  i = j
    BY <1>1 DEF Caches, CacheInv, OneSlotPerTrack
  <1>2. Latest[b] = IF \E i \in Slots : Caches(i, b)
                    THEN cache[Chosen].data[b] ELSE file[b]
    BY DEF Latest
  <1>3. b \in Pending <=> \E i \in Slots : Caches(i, b) /\ b \in cache[i].changed
    BY DEF Pending
  <1>4. ASSUME NEW i \in Slots, Caches(i, b)
        PROVE  Chosen = i
    <2>1. Chosen \in Slots /\ Caches(Chosen, b)
      BY <1>4
    <2> QED
      BY <2>1, <1>1, <1>4
  <1> HIDE DEF Chosen
  <1> QED
    BY <1>1, <1>2, <1>3, <1>4

LEMMA NextMapping == CacheInv' => Mapped'
  BY MappingFromInv, PTL

(* A block is in a changed set of at most the slot that caches it.          *)
LEMMA ChangedIsCached ==
  ASSUME CacheInv, NEW i \in Slots, cache[i] # NoTrack, NEW b \in cache[i].changed
  PROVE  b \in Blocks /\ Caches(i, b)
  BY SlotHoldsTrack, TrackFields, SectorsAreBlocks DEF CacheInv, Caches

(* A block that is not pending is the same in the file.                     *)
LEMMA CleanBlock ==
  ASSUME CacheInv, NEW b \in Blocks, b \notin Pending
  PROVE  Latest[b] = file[b]
  <1>1. Mapped
    BY MappingFromInv
  <1>2. ASSUME NEW i \in Slots, Caches(i, b)
        PROVE  Latest[b] = file[b]
    <2>1. cache[i] # NoTrack /\ cache[i].track = TrackOf(b)
      BY <1>2 DEF Caches
    <2>2. b \in DOMAIN cache[i].data
      BY <2>1, SlotHoldsTrack, TrackFields, BlockInTrack DEF CacheInv
    <2>3. b \notin cache[i].changed /\ Latest[b] = cache[i].data[b]
      BY <1>1, <1>2 DEF Mapped
    <2> QED
      BY <2>1, <2>2, <2>3 DEF CacheInv, CleanMatchesFile
  <1> QED
    BY <1>1, <1>2 DEF Mapped

(* The mapped state is equal when it is equal block by block.               *)
LEMMA SameLatest ==
  ASSUME \A b \in Blocks : Latest'[b] = Latest[b]
  PROVE  Latest' = Latest
  <1>1. Latest = [b \in Blocks |-> Latest[b]] /\ Latest' = [b \in Blocks |-> Latest'[b]]
    BY DEF Latest
  <1> QED
    BY <1>1

LEMMA UpdatedLatest ==
  ASSUME NEW a \in Blocks, NEW v,
         \A b \in Blocks : Latest'[b] = IF b = a THEN v ELSE Latest[b]
  PROVE  Latest' = [Latest EXCEPT ![a] = v]
  <1>1. Latest = [b \in Blocks |-> Latest[b]] /\ Latest' = [b \in Blocks |-> Latest'[b]]
    BY DEF Latest
  <1> QED
    BY <1>1

LEMMA PendingIsBlocks == Pending \subseteq Blocks /\ Pending' \subseteq Blocks
  BY DEF Pending

-----------------------------------------------------------------------------
(* A call that has been assigned slot i. "left" is what is still pending    *)
(* once the slot has been given up by the track it held before.             *)
LEMMA AssignedImplements ==
  ASSUME CacheInv, CacheInv', NEW c \in Calls, NEW i \in Slots,
         NEW tr \in TracksOver(TrackOf(c.block)), NEW left \in SUBSET Pending,
         Begin, Assigned(i, tr, c),
         \A b \in Sectors(TrackOf(c.block)) :
           tr.data[b] = Latest[b] /\ (b \in tr.changed <=> b \in left),
         \A b \in Blocks \ Sectors(TrackOf(c.block)), j \in Slots \ {i} :
           Caches(j, b) => (b \in left <=> b \in Pending),
         \A b \in Blocks \ Sectors(TrackOf(c.block)) :
           (\A j \in Slots \ {i} : ~Caches(j, b)) =>
             file'[b] = Latest[b] /\ b \notin left,
         \A b \in Blocks :
           file'[b] = IF b \in Pending \ left THEN Latest[b] ELSE file[b]
  PROVE  Store!Next
  <1> DEFINE t == TrackOf(c.block)
             a == c.block
             new == Apply(c, tr)
  <1>1. /\ a \in Blocks
        /\ c.write \in BOOLEAN
        /\ c.write => c.value \in Values
        /\ new \in TracksOver(t)
        /\ \A b \in Sectors(t) \ {a} :
              /\ new.data[b] = tr.data[b]
              /\ b \in new.changed <=> b \in tr.changed
        /\ new.data[a] = IF c.write THEN c.value ELSE tr.data[a]
        /\ a \in new.changed <=> a \in tr.changed \/ (c.write /\ tr.data[a] # c.value)
    BY ApplyToTrack
  <1>2. t \in Tracks /\ a \in Sectors(t)
    BY <1>1, BlockInTrack
  <1>3. new # NoTrack /\ new.track = t
    BY <1>1, <1>2, NoTrackAssumption, TrackFields
  <1> HIDE DEF new
  <1>4. cache'[i] = new /\ \A j \in Slots \ {i} : cache'[j] = cache[j]
    BY DEF Assigned, CacheInv, TypeOK, new
  <1>5. Mapped /\ Mapped'
    BY MappingFromInv, NextMapping
  <1>6. ASSUME NEW b \in Blocks
        PROVE  /\ Latest'[b] = IF c.write /\ b = a THEN c.value ELSE Latest[b]
               /\ b \in Pending' <=>
                    b \in left \/ (c.write /\ b = a /\ Latest[a] # c.value)
    <2>1. CASE b \in Sectors(t)
      <3>1. TrackOf(b) = t
        BY <2>1, SectorsAreBlocks
      <3>2. Caches(i, b)'
        BY <3>1, <1>3, <1>4 DEF Caches
      <3>3. Latest'[b] = new.data[b] /\ (b \in Pending' <=> b \in new.changed)
        BY <3>2, <1>4, <1>5 DEF Mapped
      <3>4. CASE b = a
        BY <3>3, <3>4, <2>1, <1>1
      <3>5. CASE b # a
        BY <3>3, <3>5, <2>1, <1>1
      <3> QED
        BY <3>4, <3>5
    <2>2. CASE b \notin Sectors(t)
      <3>1. TrackOf(b) # t /\ b # a
        BY <2>2, <1>2, BlockInTrack
      <3>2. ASSUME NEW j \in Slots \ {i}, Caches(j, b)
            PROVE  Latest'[b] = Latest[b] /\ (b \in Pending' <=> b \in left)
        <4>1. Caches(j, b)' /\ cache'[j] = cache[j]
          BY <3>2, <1>4 DEF Caches
        <4>2. Latest'[b] = cache[j].data[b] /\ (b \in Pending' <=> b \in cache[j].changed)
          BY <4>1, <1>5 DEF Mapped
        <4>3. Latest[b] = cache[j].data[b] /\ (b \in Pending <=> b \in cache[j].changed)
          BY <3>2, <1>5 DEF Mapped
        <4> QED
          BY <4>2, <4>3, <3>2, <2>2
      <3>3. ASSUME \A j \in Slots \ {i} : ~Caches(j, b)
            PROVE  Latest'[b] = Latest[b] /\ b \notin Pending' /\ b \notin left
        <4>1. \A j \in Slots : ~Caches(j, b)'
          BY <3>1, <3>3, <1>3, <1>4 DEF Caches
        <4>2. Latest'[b] = file'[b] /\ b \notin Pending'
          BY <4>1, <1>5 DEF Mapped
        <4> QED
          BY <4>2, <3>3, <2>2
      <3> QED
        BY <3>1, <3>2, <3>3
    <2> QED
      BY <2>1, <2>2
  <1>7. result' = (IF c.write THEN Done ELSE Latest[a]) /\ open /\ open' = open
    BY <1>2 DEF Assigned, Answer, Begin
  <1>8. CASE c.write
    <2>1. Latest' = [Latest EXCEPT ![a] = c.value]
      BY SMTT(30), <1>1, <1>6, <1>8, UpdatedLatest
    <2>2. Pending' = IF Latest[a] = c.value THEN left ELSE left \cup {a}
      <3>1. Pending' \subseteq Blocks /\ left \subseteq Blocks
        BY PendingIsBlocks
      <3>2. \A b \in Blocks : b \in Pending' <=>
              b \in left \/ (b = a /\ Latest[a] # c.value)
        BY <1>6, <1>8
      <3>3. CASE Latest[a] = c.value
        BY <3>1, <3>2, <3>3
      <3>4. CASE Latest[a] # c.value
        BY <3>1, <3>2, <3>4, <1>1
      <3> QED
        BY <3>3, <3>4
    <2>3. Store!WriteBack(left, FALSE)
      BY DEF Store!WriteBack
    <2>4. Store!Write(a, c.value)
      BY <2>1, <2>2, <2>3, <1>7, <1>8 DEF Store!Write
    <2> QED
      BY <2>4, <1>1, <1>8 DEF Store!Next
  <1>9. CASE ~c.write
    <2>1. Latest' = Latest
      BY <1>6, <1>9, SameLatest
    <2>2. Pending' = left
      BY <1>6, <1>9, PendingIsBlocks
    <2>3. Store!WriteBack(Pending', result' = Failed)
      BY <2>2 DEF Store!WriteBack
    <2>4. Store!Read(a)
      BY <2>1, <2>2, <2>3, <1>7, <1>9 DEF Store!Read
    <2> QED
      BY <2>4, <1>1 DEF Store!Next
  <1> QED
    BY <1>1, <1>8, <1>9

(* A call that finds its track.                                             *)
LEMMA HitImplements ==
  ASSUME CacheInv, CacheInv', NEW c \in Calls, Hit(c)
  PROVE  Store!Next
  <1>1. PICK i \in Slots :
          /\ Begin
          /\ First(i, Holding(TrackOf(c.block)))
          /\ Assigned(i, cache[i], c)
          /\ UNCHANGED file
    BY DEF Hit
  <1>2. cache[i] # NoTrack /\ cache[i].track = TrackOf(c.block)
    BY <1>1 DEF First, Holding
  <1>3. cache[i] \in TracksOver(TrackOf(c.block))
    BY <1>2, SlotHoldsTrack DEF CacheInv
  <1>4. Mapped
    BY MappingFromInv
  <1>5. \A b \in Sectors(TrackOf(c.block)) :
          cache[i].data[b] = Latest[b] /\ (b \in cache[i].changed <=> b \in Pending)
    <2> SUFFICES ASSUME NEW b \in Sectors(TrackOf(c.block))
                 PROVE  /\ cache[i].data[b] = Latest[b]
                        /\ b \in cache[i].changed <=> b \in Pending
      OBVIOUS
    <2>1. b \in Blocks /\ Caches(i, b)
      BY <1>2, SectorsAreBlocks DEF Caches
    <2> QED
      BY <2>1, <1>4 DEF Mapped
  <1>6. \A b \in Blocks \ Sectors(TrackOf(c.block)) :
          (\A j \in Slots \ {i} : ~Caches(j, b)) =>
            file'[b] = Latest[b] /\ b \notin Pending
    <2> SUFFICES ASSUME NEW b \in Blocks \ Sectors(TrackOf(c.block)),
                        \A j \in Slots \ {i} : ~Caches(j, b)
                 PROVE  file[b] = Latest[b] /\ b \notin Pending
      BY <1>1
    <2>1. \A j \in Slots : ~Caches(j, b)
      BY <1>2, BlockInTrack DEF Caches
    <2> QED
      BY <2>1, <1>4 DEF Mapped
  <1>7. \A b \in Blocks :
          file'[b] = IF b \in Pending \ Pending THEN Latest[b] ELSE file[b]
    BY <1>1
  <1> QED
    BY <1>1, <1>3, <1>5, <1>6, <1>7, AssignedImplements

(* A call that loads its track into an empty slot.                          *)
LEMMA FillImplements ==
  ASSUME CacheInv, CacheInv', NEW c \in Calls, Fill(c)
  PROVE  Store!Next
  <1>1. PICK i \in Slots :
          /\ Begin
          /\ Holding(TrackOf(c.block)) = {}
          /\ First(i, Empty)
          /\ Assigned(i, Load(TrackOf(c.block), file), c)
          /\ UNCHANGED file
    BY DEF Fill
  <1> DEFINE tr == Load(TrackOf(c.block), file)
  <1>2. /\ tr \in TracksOver(TrackOf(c.block))
        /\ tr.changed = {}
        /\ \A b \in Sectors(TrackOf(c.block)) : tr.data[b] = file[b]
    BY LoadIsTrack DEF CacheInv, TypeOK
  <1>3. Mapped /\ Assigned(i, tr, c)
    BY <1>1, MappingFromInv
  <1> HIDE DEF tr
  <1>4. \A b \in Sectors(TrackOf(c.block)) :
          tr.data[b] = Latest[b] /\ (b \in tr.changed <=> b \in Pending)
    <2> SUFFICES ASSUME NEW b \in Sectors(TrackOf(c.block))
                 PROVE  tr.data[b] = Latest[b] /\ (b \in tr.changed <=> b \in Pending)
      OBVIOUS
    <2>1. b \in Blocks /\ \A j \in Slots : ~Caches(j, b)
      BY <1>1, SectorsAreBlocks DEF Caches, Holding
    <2> QED
      BY <2>1, <1>2, <1>3 DEF Mapped
  <1>5. \A b \in Blocks \ Sectors(TrackOf(c.block)) :
          (\A j \in Slots \ {i} : ~Caches(j, b)) =>
            file'[b] = Latest[b] /\ b \notin Pending
    <2> SUFFICES ASSUME NEW b \in Blocks, \A j \in Slots \ {i} : ~Caches(j, b)
                 PROVE  file[b] = Latest[b] /\ b \notin Pending
      BY <1>1
    <2>1. ~Caches(i, b)
      BY <1>1 DEF Caches, First, Empty
    <2> QED
      BY <2>1, <1>3 DEF Mapped
  <1>6. \A b \in Blocks :
          file'[b] = IF b \in Pending \ Pending THEN Latest[b] ELSE file[b]
    BY <1>1
  <1> QED
    BY <1>1, <1>2, <1>3, <1>4, <1>5, <1>6, AssignedImplements

(* What an eviction writes is what was pending in the slot.                 *)
LEMMA EvictionWritesPending ==
  ASSUME CacheInv, NEW c, NEW i \in Slots, Full(c, i),
         file' = Written(cache[i], cache[i].changed, file)
  PROVE  /\ cache[i].changed \subseteq Pending
         /\ \A b \in Blocks :
              file'[b] = IF b \in cache[i].changed THEN Latest[b] ELSE file[b]
         /\ \A b \in Blocks, j \in Slots \ {i} : Caches(j, b) => b \notin cache[i].changed
         /\ \A b \in Blocks :
              (\A j \in Slots \ {i} : ~Caches(j, b)) =>
                file'[b] = Latest[b] /\ b \notin Pending \ cache[i].changed
  <1>1. /\ cache[i] # NoTrack
        /\ \A b \in Blocks :
             file'[b] = IF b \in cache[i].changed THEN cache[i].data[b] ELSE file[b]
    BY EvictedFile
  <1>2. \A b \in cache[i].changed : b \in Blocks /\ Caches(i, b)
    BY <1>1, ChangedIsCached
  <1>3. Mapped
    BY MappingFromInv
  <1>4. \A b \in Blocks :
          file'[b] = IF b \in cache[i].changed THEN Latest[b] ELSE file[b]
    BY <1>1, <1>2, <1>3 DEF Mapped
  <1>5. cache[i].changed \subseteq Pending
    BY <1>2, <1>3 DEF Mapped
  <1>6. \A b \in Blocks, j \in Slots \ {i} : Caches(j, b) => b \notin cache[i].changed
    BY <1>2 DEF Caches, CacheInv, OneSlotPerTrack
  <1>7. ASSUME NEW b \in Blocks, \A j \in Slots \ {i} : ~Caches(j, b)
        PROVE  file'[b] = Latest[b] /\ b \notin Pending \ cache[i].changed
    <2>1. b \notin Pending \ cache[i].changed
      BY <1>3, <1>7 DEF Mapped
    <2>2. b \notin Pending => Latest[b] = file[b]
      BY CleanBlock
    <2> QED
      BY <2>1, <2>2, <1>4, <1>5
  <1> QED
    BY <1>4, <1>5, <1>6, <1>7

(* A call that reuses a slot.                                               *)
LEMMA EvictImplements ==
  ASSUME CacheInv, CacheInv', NEW c \in Calls, Evict(c)
  PROVE  Store!Next
  <1>1. PICK i \in Slots :
          /\ Full(c, i)
          /\ file' = Written(cache[i], cache[i].changed, file)
          /\ Assigned(i, Load(TrackOf(c.block), file'), c)
    BY DEF Evict
  <1> DEFINE tr == Load(TrackOf(c.block), file')
             left == Pending \ cache[i].changed
  <1>2. /\ Begin
        /\ Holding(TrackOf(c.block)) = {}
        /\ Assigned(i, tr, c)
    BY <1>1 DEF Full
  <1>3. /\ cache[i].changed \subseteq Pending
        /\ \A b \in Blocks :
             file'[b] = IF b \in cache[i].changed THEN Latest[b] ELSE file[b]
        /\ \A b \in Blocks, j \in Slots \ {i} : Caches(j, b) => b \notin cache[i].changed
        /\ \A b \in Blocks :
             (\A j \in Slots \ {i} : ~Caches(j, b)) => file'[b] = Latest[b] /\ b \notin left
    BY <1>1, EvictionWritesPending
  <1>4. /\ tr \in TracksOver(TrackOf(c.block))
        /\ tr.changed = {}
        /\ \A b \in Sectors(TrackOf(c.block)) : tr.data[b] = file'[b]
    BY LoadIsTrack DEF CacheInv, TypeOK
  <1> HIDE DEF tr
  <1>5. \A b \in Sectors(TrackOf(c.block)) :
          tr.data[b] = Latest[b] /\ (b \in tr.changed <=> b \in left)
    <2> SUFFICES ASSUME NEW b \in Sectors(TrackOf(c.block))
                 PROVE  tr.data[b] = Latest[b] /\ b \notin left
      BY <1>4
    <2>1. b \in Blocks /\ \A j \in Slots : ~Caches(j, b)
      BY <1>2, SectorsAreBlocks DEF Caches, Holding
    <2> QED
      BY <2>1, <1>3, <1>4
  <1>6. \A b \in Blocks \ Sectors(TrackOf(c.block)), j \in Slots \ {i} :
          Caches(j, b) => (b \in left <=> b \in Pending)
    BY <1>3
  <1>7. \A b \in Blocks :
          file'[b] = IF b \in Pending \ left THEN Latest[b] ELSE file[b]
    BY <1>3
  <1>8. left \in SUBSET Pending
    OBVIOUS
  <1> HIDE DEF left
  <1> QED
    BY <1>2, <1>3, <1>4, <1>5, <1>6, <1>7, <1>8, AssignedImplements

(* The block store in a step whose slots keep their data. "left" is what    *)
(* keeps its change flag.                                                   *)
LEMMA SlotsKeptImplements ==
  ASSUME CacheInv, CacheInv', NEW left \in SUBSET Pending,
         \A j \in Slots, b \in Blocks :
           Caches(j, b)' =>
             /\ Caches(j, b)
             /\ cache'[j].data[b] = cache[j].data[b]
             /\ b \in cache'[j].changed <=> b \in left,
         \A b \in Blocks :
           (\A j \in Slots : ~Caches(j, b)') => file'[b] = Latest[b] /\ b \notin left
  PROVE  Latest' = Latest /\ Pending' = left
  <1>1. Mapped /\ Mapped'
    BY MappingFromInv, NextMapping
  <1>2. ASSUME NEW b \in Blocks
        PROVE  Latest'[b] = Latest[b] /\ (b \in Pending' <=> b \in left)
    <2>1. ASSUME NEW j \in Slots, Caches(j, b)'
          PROVE  Latest'[b] = Latest[b] /\ (b \in Pending' <=> b \in left)
      <3>1. /\ Caches(j, b)
            /\ cache'[j].data[b] = cache[j].data[b]
            /\ b \in cache'[j].changed <=> b \in left
        BY <2>1
      <3>2. Latest[b] = cache[j].data[b]
        BY <3>1, <1>1 DEF Mapped
      <3>3. Latest'[b] = cache'[j].data[b] /\ (b \in Pending' <=> b \in cache'[j].changed)
        BY <2>1, <1>1 DEF Mapped
      <3> QED
        BY <3>1, <3>2, <3>3
    <2>2. ASSUME \A j \in Slots : ~Caches(j, b)'
          PROVE  Latest'[b] = Latest[b] /\ (b \in Pending' <=> b \in left)
      <3>1. Latest'[b] = file'[b] /\ b \notin Pending'
        BY <2>2, <1>1 DEF Mapped
      <3> QED
        BY <3>1, <2>2
    <2> QED
      BY <2>1, <2>2
  <1>3. Pending' \subseteq Blocks /\ left \subseteq Blocks
    BY PendingIsBlocks
  <1> QED
    BY <1>2, <1>3, SameLatest

(* A call that could not load its track into an empty slot.                 *)
LEMMA FillFailsImplements ==
  ASSUME CacheInv, CacheInv', NEW c \in Calls, FillFails(c)
  PROVE  Store!Next
  <1>1. /\ open /\ open' = open
        /\ result' = Failed
        /\ cache' = cache /\ file' = file
    BY DEF FillFails, Begin, NotAssigned
  <1>2. Latest' = Latest /\ Pending' = Pending
    BY <1>1 DEF Latest, Pending, Caches
  <1>3. Store!WriteBack(Pending', TRUE)
    BY <1>1, <1>2 DEF Store!WriteBack
  <1>4. Store!WriteFails
    BY <1>1, <1>2, <1>3 DEF Store!WriteFails
  <1> QED
    BY <1>4 DEF Store!Next

(* A call whose eviction could not save the old track.                      *)
LEMMA EvictSaveFailsImplements ==
  ASSUME CacheInv, CacheInv', NEW c \in Calls, EvictSaveFails(c)
  PROVE  Store!Next
  <1>1. PICK i \in Slots :
          /\ Full(c, i)
          /\ SaveFails(cache[i], file, file')
          /\ NotAssigned
          /\ UNCHANGED cache
    BY DEF EvictSaveFails
  <1>2. open /\ open' = open /\ result' = Failed
    BY <1>1 DEF Full, Begin, NotAssigned
  <1>3. cache[i] # NoTrack /\ cache[i] \in TracksOver(cache[i].track)
    BY <1>1, EvictedFile
  <1>4. /\ \A b \in Blocks \ cache[i].changed : file'[b] = file[b]
        /\ \A b \in cache[i].changed : file'[b] \in {file[b], cache[i].data[b], Torn}
    BY <1>1, <1>3, FileAfterFailure DEF CacheInv, TypeOK
  <1>5. Mapped
    BY MappingFromInv
  <1>6. ASSUME NEW b \in cache[i].changed
        PROVE  /\ b \in Pending /\ Caches(i, b)
               /\ file'[b] \in {file[b], Latest[b], Torn}
    BY <1>3, <1>4, <1>5, <1>6, ChangedIsCached DEF Mapped
  <1>7. \A j \in Slots, b \in Blocks : Caches(j, b)' =>
          /\ Caches(j, b)
          /\ cache'[j].data[b] = cache[j].data[b]
          /\ b \in cache'[j].changed <=> b \in Pending
    BY <1>1, <1>5 DEF Caches, Mapped
  <1>8. ASSUME NEW b \in Blocks, \A j \in Slots : ~Caches(j, b)'
        PROVE  file'[b] = Latest[b] /\ b \notin Pending
    <2>1. \A j \in Slots : ~Caches(j, b)
      BY <1>1, <1>8 DEF Caches
    <2> QED
      BY <2>1, <1>4, <1>5, <1>6 DEF Mapped
  <1>9. Latest' = Latest /\ Pending' = Pending
    BY <1>7, <1>8, SlotsKeptImplements
  <1>10. Store!WriteBack(Pending', TRUE)
    <2>1. \A b \in Pending : file'[b] \in {file[b], Latest[b]} \cup {Torn}
      BY <1>4, <1>6, PendingIsBlocks
    <2>2. \A b \in Blocks : b \notin Pending => file'[b] = file[b]
      BY <1>4, <1>6
    <2> QED
      BY <2>1, <2>2, <1>9 DEF Store!WriteBack
  <1>11. Store!WriteFails
    BY <1>2, <1>9, <1>10 DEF Store!WriteFails
  <1> QED
    BY <1>11 DEF Store!Next

(* A call that evicted a track and could not load the other.                *)
LEMMA EvictLoadFailsImplements ==
  ASSUME CacheInv, CacheInv', NEW c \in Calls, EvictLoadFails(c)
  PROVE  Store!Next
  <1>1. PICK i \in Slots :
          /\ Full(c, i)
          /\ file' = Written(cache[i], cache[i].changed, file)
          /\ cache' = [cache EXCEPT ![i] = NoTrack]
          /\ NotAssigned
    BY DEF EvictLoadFails
  <1> DEFINE left == Pending \ cache[i].changed
  <1>2. open /\ open' = open /\ result' = Failed
    BY <1>1 DEF Full, Begin, NotAssigned
  <1>3. /\ cache[i].changed \subseteq Pending
        /\ \A b \in Blocks :
             file'[b] = IF b \in cache[i].changed THEN Latest[b] ELSE file[b]
        /\ \A b \in Blocks, j \in Slots \ {i} : Caches(j, b) => b \notin cache[i].changed
        /\ \A b \in Blocks :
             (\A j \in Slots \ {i} : ~Caches(j, b)) => file'[b] = Latest[b] /\ b \notin left
    BY <1>1, EvictionWritesPending
  <1>4. cache'[i] = NoTrack /\ \A j \in Slots \ {i} : cache'[j] = cache[j]
    BY <1>1 DEF CacheInv, TypeOK
  <1>5. \A b \in Blocks :
          /\ ~Caches(i, b)'
          /\ \A j \in Slots \ {i} : Caches(j, b)' <=> Caches(j, b)
    BY <1>4 DEF Caches
  <1>6. Mapped
    BY MappingFromInv
  <1>7. \A j \in Slots, b \in Blocks : Caches(j, b)' =>
          /\ Caches(j, b)
          /\ cache'[j].data[b] = cache[j].data[b]
          /\ b \in cache'[j].changed <=> b \in left
    BY <1>3, <1>4, <1>5, <1>6 DEF Mapped
  <1>8. \A b \in Blocks :
          (\A j \in Slots : ~Caches(j, b)') => file'[b] = Latest[b] /\ b \notin left
    BY <1>3, <1>5
  <1>9. left \in SUBSET Pending
    OBVIOUS
  <1>10. \A b \in Blocks :
           file'[b] = IF b \in Pending \ left THEN Latest[b] ELSE file[b]
    BY <1>3
  <1> HIDE DEF left
  <1>11. Latest' = Latest /\ Pending' = left
    BY <1>7, <1>8, <1>9, SlotsKeptImplements
  <1>12. Store!WriteBack(Pending', TRUE)
    BY <1>9, <1>10, <1>11 DEF Store!WriteBack
  <1>13. Store!WriteFails
    BY <1>2, <1>9, <1>11, <1>12 DEF Store!WriteFails
  <1> QED
    BY <1>13 DEF Store!Next

(* What a save of the slots in S writes is what is pending in them.         *)
MarkedIn(S) == {b \in Pending : \E i \in S : Caches(i, b)}

LEMMA SaveWritesPending ==
  ASSUME CacheInv, NEW S \in SUBSET Slots
  PROVE  \A b \in Blocks :
           SavedAll(S, file)[b] = IF b \in MarkedIn(S) THEN Latest[b] ELSE file[b]
  <1> SUFFICES ASSUME NEW b \in Blocks
               PROVE  SavedAll(S, file)[b] =
                        IF b \in MarkedIn(S) THEN Latest[b] ELSE file[b]
    OBVIOUS
  <1>1. Mapped
    BY MappingFromInv
  <1>2. CASE b \in MarkedIn(S)
    <2>1. PICK i \in S : Caches(i, b)
      BY <1>2 DEF MarkedIn
    <2>2. cache[i] # NoTrack /\ b \in cache[i].changed /\ Latest[b] = cache[i].data[b]
      BY <1>1, <1>2, <2>1 DEF Mapped, MarkedIn, Caches
    <2>3. SavedAll(S, file)[b] = cache[i].data[b]
      BY <2>2, FileAfterSave
    <2> QED
      BY <2>2, <2>3, <1>2
  <1>3. CASE b \notin MarkedIn(S)
    <2>1. ASSUME NEW i \in S, cache[i] # NoTrack
          PROVE  b \notin cache[i].changed
      <3>1. b \in cache[i].changed => Caches(i, b) /\ b \in Pending
        BY <1>1, <2>1, ChangedIsCached DEF Mapped
      <3> QED
        BY <3>1, <1>3 DEF MarkedIn
    <2>2. SavedAll(S, file)[b] = file[b]
      BY <2>1, FileAfterSave
    <2> QED
      BY <2>2, <1>3
  <1> QED
    BY <1>2, <1>3

(* The slots of S lose their marks, and the mapped state only those.        *)
LEMMA CleaningImplements ==
  ASSUME CacheInv, CacheInv', NEW S \in SUBSET Slots, cache' = CleanUpTo(S),
         \A b \in Blocks : (\A j \in Slots : ~Caches(j, b)) => file'[b] = file[b]
  PROVE  Latest' = Latest /\ Pending' = Pending \ MarkedIn(S)
  <1> DEFINE left == Pending \ MarkedIn(S)
  <1>1. Mapped
    BY MappingFromInv
  <1>2. \A j \in Slots, b \in Blocks : Caches(j, b)' <=> Caches(j, b)
    BY CleanedSlots DEF Caches
  <1>3. ASSUME NEW j \in Slots, NEW b \in Blocks, Caches(j, b)'
        PROVE  /\ Caches(j, b)
               /\ cache'[j].data[b] = cache[j].data[b]
               /\ b \in cache'[j].changed <=> b \in left
    <2>1. Caches(j, b) /\ cache[j] # NoTrack
      BY <1>2, <1>3 DEF Caches
    <2>2. /\ cache'[j].data = cache[j].data
          /\ cache'[j].changed = IF j \in S THEN {} ELSE cache[j].changed
      BY <2>1, CleanedSlots
    <2>3. b \in MarkedIn(S) <=> j \in S /\ b \in Pending
      BY <2>1 DEF MarkedIn, Caches, CacheInv, OneSlotPerTrack
    <2>4. b \in Pending <=> b \in cache[j].changed
      BY <1>1, <2>1 DEF Mapped
    <2> QED
      BY <2>1, <2>2, <2>3, <2>4
  <1>4. \A b \in Blocks :
          (\A j \in Slots : ~Caches(j, b)') => file'[b] = Latest[b] /\ b \notin left
    BY <1>1, <1>2 DEF Mapped
  <1>5. left \in SUBSET Pending
    OBVIOUS
  <1> HIDE DEF left
  <1>6. Latest' = Latest /\ Pending' = left
    BY <1>3, <1>4, <1>5, SlotsKeptImplements
  <1> QED
    BY <1>6 DEF left

(* A save that succeeds leaves nothing pending.                             *)
LEMMA SaveImplements ==
  ASSUME CacheInv, CacheInv', Save
  PROVE  Store!Next
  <1>1. /\ open /\ open' = open /\ result' = Done
        /\ file' = SavedAll(Slots, file)
        /\ cache' = CleanUpTo(Slots)
    BY DEF Save
  <1>2. MarkedIn(Slots) = Pending
    BY DEF MarkedIn, Pending
  <1>3. \A b \in Blocks : file'[b] = IF b \in Pending THEN Latest[b] ELSE file[b]
    BY <1>1, <1>2, SaveWritesPending
  <1>4. \A b \in Blocks : (\A j \in Slots : ~Caches(j, b)) => file'[b] = file[b]
    BY <1>3, MappingFromInv DEF Mapped
  <1>5. Latest' = Latest /\ Pending' = {}
    BY <1>1, <1>2, <1>4, CleaningImplements
  <1>6. Store!WriteBack(Pending', result' = Failed)
    BY <1>3, <1>5 DEF Store!WriteBack
  <1>7. Store!Save
    BY <1>1, <1>5, <1>6 DEF Store!Save
  <1> QED
    BY <1>7 DEF Store!Next

(* A save that fails.                                                       *)
LEMMA SaveStopsImplements ==
  ASSUME CacheInv, CacheInv', SaveStops
  PROVE  Store!Next
  <1>1. PICK i \in Slots :
          /\ open /\ open' = open /\ result' = Failed
          /\ cache[i] # NoTrack
          /\ SaveFails(cache[i], SavedAll(0..(i - 1), file), file')
          /\ cache' = CleanUpTo(0..(i - 1))
    BY DEF SaveStops
  <1> DEFINE S == 0..(i - 1)
  <1>2. S \in SUBSET Slots /\ i \notin S
    BY CacheAssumption DEF Slots
  <1>3. /\ cache' = CleanUpTo(S)
        /\ SaveFails(cache[i], SavedAll(S, file), file')
    BY <1>1
  <1> HIDE DEF S
  <1>4. cache[i] \in TracksOver(cache[i].track)
    BY <1>1, SlotHoldsTrack DEF CacheInv
  <1>5. /\ \A b \in Blocks \ cache[i].changed : file'[b] = SavedAll(S, file)[b]
        /\ \A b \in cache[i].changed :
             file'[b] \in {SavedAll(S, file)[b], cache[i].data[b], Torn}
    BY <1>2, <1>3, <1>4, FileAfterSave, FileAfterFailure
  <1>6. Mapped
    BY MappingFromInv
  <1>7. \A b \in Blocks :
          SavedAll(S, file)[b] = IF b \in MarkedIn(S) THEN Latest[b] ELSE file[b]
    BY <1>2, SaveWritesPending
  <1>8. ASSUME NEW b \in cache[i].changed
        PROVE  /\ b \in Pending \ MarkedIn(S)
               /\ Caches(i, b)
               /\ file'[b] \in {file[b], Latest[b], Torn}
    <2>1. b \in Blocks /\ Caches(i, b)
      BY <1>1, <1>8, ChangedIsCached
    <2>2. Latest[b] = cache[i].data[b] /\ b \in Pending
      BY <1>6, <1>8, <2>1 DEF Mapped
    <2>3. b \notin MarkedIn(S)
      BY <1>2, <2>1 DEF MarkedIn, Caches, CacheInv, OneSlotPerTrack
    <2> QED
      BY <2>1, <2>2, <2>3, <1>5, <1>7
  <1>9. ASSUME NEW b \in Blocks, b \notin Pending \ MarkedIn(S)
        PROVE  file'[b] = IF b \in Pending THEN Latest[b] ELSE file[b]
    <2>1. file'[b] = SavedAll(S, file)[b]
      BY <1>5, <1>8, <1>9
    <2> QED
      BY <2>1, <1>7, <1>9 DEF MarkedIn
  <1>10. \A b \in Blocks : (\A j \in Slots : ~Caches(j, b)) => file'[b] = file[b]
    BY <1>6, <1>9 DEF Mapped
  <1>11. Latest' = Latest /\ Pending' = Pending \ MarkedIn(S)
    BY <1>2, <1>3, <1>10, CleaningImplements
  <1>12. ASSUME NEW b \in Blocks, b \in Pending \ MarkedIn(S)
         PROVE  file'[b] \in {file[b], Latest[b]} \cup {Torn}
    <2>1. CASE b \in cache[i].changed
      BY <2>1, <1>8
    <2>2. CASE b \notin cache[i].changed
      BY <2>2, <1>5, <1>7, <1>12
    <2> QED
      BY <2>1, <2>2
  <1>13. Store!WriteBack(Pending', TRUE)
    BY <1>9, <1>11, <1>12 DEF Store!WriteBack
  <1>14. (result' = Failed) = TRUE /\ ~(result' = Done)
    BY <1>1, ContentsAssumption
  <1>15. Store!Save
    BY <1>1, <1>11, <1>13, <1>14 DEF Store!Save
  <1> QED
    BY <1>15 DEF Store!Next

(* The end of the cache and a new one.                                      *)
LEMMA OpenCloseImplement ==
  ASSUME CacheInv, CacheInv', Close \/ Open
  PROVE  Store!Next
  <1>1. CASE Close
    <2>1. \A b \in Blocks, i \in Slots : ~Caches(i, b)'
      BY <1>1 DEF Close, Caches
    <2>2. Pending' = {}
      BY <2>1 DEF Pending
    <2>3. \A b \in Blocks : Latest'[b] = file[b]
      BY <2>1, <1>1, NextMapping DEF Mapped, Close
    <2>4. Latest' = [b \in Blocks |-> Latest'[b]] /\ file = [b \in Blocks |-> file[b]]
      BY DEF Latest, CacheInv, TypeOK
    <2>5. Latest' = file
      BY <2>3, <2>4
    <2>6. Store!Close
      BY <2>2, <2>5, <1>1 DEF Close, Store!Close
    <2> QED
      BY <2>6 DEF Store!Next
  <1>2. CASE Open
    <2>1. /\ ~open /\ open' = TRUE
          /\ cache' = cache /\ file' = file /\ result' = result
      BY <1>2 DEF Open
    <2>2. Latest' = Latest /\ Pending' = Pending
      BY <2>1 DEF Latest, Pending, Caches
    <2>3. Store!Open
      BY <2>1, <2>2 DEF Store!Open
    <2> QED
      BY <2>3 DEF Store!Next
  <1> QED
    BY <1>1, <1>2

-----------------------------------------------------------------------------
LEMMA InitImplements == Init => Store!Init
  <1> SUFFICES ASSUME Init PROVE Store!Init
    OBVIOUS
  <1>1. \A b \in Blocks, i \in Slots : ~Caches(i, b)
    BY DEF Init, Caches
  <1>2. Pending = {}
    BY <1>1 DEF Pending
  <1>3. Latest = [b \in Blocks |-> file[b]]
    BY <1>1 DEF Latest
  <1>4. file \in [Blocks -> Values]
    BY DEF Init
  <1>5. Latest = file
    BY <1>3, <1>4
  <1> QED
    BY <1>2, <1>4, <1>5 DEF Init, Store!Init

LEMMA NextImplements ==
  CacheInv /\ CacheInv' /\ [Next]_vars => [Store!Next]_Store!vars
  <1> SUFFICES ASSUME CacheInv, CacheInv', [Next]_vars
               PROVE  [Store!Next]_Store!vars
    OBVIOUS
  <1>1. CASE UNCHANGED vars
    BY <1>1 DEF vars, Store!vars, Latest, Pending, Caches
  <1>2. ASSUME NEW c \in Calls,
               \/ Hit(c)
               \/ Fill(c)
               \/ FillFails(c)
               \/ Evict(c)
               \/ EvictSaveFails(c)
               \/ EvictLoadFails(c)
        PROVE  Store!Next
    BY <1>2, HitImplements, FillImplements, FillFailsImplements, EvictImplements,
       EvictSaveFailsImplements, EvictLoadFailsImplements
  <1> QED
    BY <1>1, <1>2, SaveImplements, SaveStopsImplements, OpenCloseImplement DEF Next

(* The cache of disk_track_cache.cpp, with every failure of the file        *)
(* operations it handles, is a block store with deferred writes.            *)
THEOREM CacheRefinesStore == Spec => ImplementsBlockStore
  <1>1. Spec => []CacheInv
    BY InvInit, InvNext, PTL DEF Spec
  <1> QED
    BY <1>1, InitImplements, NextImplements, PTL
       DEF Spec, ImplementsBlockStore, Store!Spec

=============================================================================

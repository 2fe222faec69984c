----------------------- MODULE HostFileSystem_proofs -----------------------
(***************************************************************************)
(* Theorems about the file system of the X68000 bridge, for any trees, any *)
(* workloads and any sizes of its rings: the search buffers, the open      *)
(* files and the cached paths of each drive keep their numbers and their   *)
(* order whatever a lookup or a call does. Then the lemmas about listings, *)
(* paths and lookups that HostSearch_proofs rests on.                      *)
(***************************************************************************)
EXTENDS HostFileSystem, WellFoundedInduction, NaturalsInduction, SequenceTheorems,
        FiniteSetTheorems, FunctionTheorems, TLAPS

(* A sequence, of whatever elements.                                        *)
IsSeq(s) == Len(s) \in Nat /\ s = [i \in 1..Len(s) |-> s[i]]

(* Records, by their fields.                                                *)
FsFields == {"units", "option", "gid", "cache", "files", "fcbs", "sectors", "count"}
PathFields == {"path", "refresh", "id", "list", "kept"}
SearchFields == {"key", "unit", "path", "attr", "count", "id", "at", "next"}
FcbFields == {"key", "unit", "name", "file", "mode", "special", "update", "dirty"}
WatchFields == {"st", "unit", "path", "owed", "steady"}

IsFs(f) == f = [x \in FsFields |-> f[x]] /\ f.gid \in Nat
IsPath(c) == c = [x \in PathFields |-> c[x]] /\ c.path \in Seq(Names)
IsSearch(s) == s = [x \in SearchFields |-> s[x]] /\ s.key \in Nat /\ s.path \in Seq(Names)
IsFcb(c) == c = [x \in FcbFields |-> c[x]] /\ c.key \in Nat
IsWatch(w) == w = [x \in WatchFields |-> w[x]]

(* No key is in a ring twice; those in use are in front.                    *)
KeysOnce(ring) ==
  \A i, j \in DOMAIN ring : ring[i].key = ring[j].key /\ ring[i].key # 0 => i = j

FreeLast(ring) ==
  \A i, j \in DOMAIN ring : i < j /\ ring[i].key = 0 => ring[j].key = 0

SearchRing(ring) ==
  /\ IsSeq(ring) /\ KeysOnce(ring)
  /\ \A i \in DOMAIN ring : IsSearch(ring[i])

FcbRing(ring) ==
  /\ IsSeq(ring) /\ KeysOnce(ring) /\ FreeLast(ring)
  /\ \A i \in DOMAIN ring : IsFcb(ring[i])

PathRing(ring) ==
  /\ IsSeq(ring) /\ Len(ring) <= CacheMax
  /\ \A i \in DOMAIN ring : IsPath(ring[i])
  /\ \A i, j \in DOMAIN ring : ring[i].path = ring[j].path => i = j

Sized(f) ==
  IF f.units = 0 THEN Len(f.files) \in {0, FilesMax} /\ Len(f.fcbs) \in {0, FcbMax}
  ELSE Len(f.files) = FilesMax /\ Len(f.fcbs) = FcbMax

FsOK(f) ==
  /\ IsFs(f) /\ Sized(f)
  /\ f.units \in 0..DriveMax /\ DOMAIN f.cache = 0..(f.units - 1)
  /\ \A u \in DOMAIN f.cache : PathRing(f.cache[u])
  /\ SearchRing(f.files) /\ FcbRing(f.fcbs)

(* The search that a key has.                                               *)
Watched ==
  /\ watch = [k \in Keys |-> watch[k]]
  /\ \A k \in Keys : IsWatch(watch[k]) /\ (watch[k].st = "open" => At(fs.files, k) # {})

RingsInv ==
  /\ FsOK(fs) /\ Watched /\ work \in Workloads
  /\ "zero" \in excuses \/ FreeLast(fs.files)

-----------------------------------------------------------------------------
(* Sequences and rings                                                     *)

LEMMA SeqOfElements ==
  ASSUME NEW s, IsSeq(s)
  PROVE  s \in Seq(ToSet(s)) /\ DOMAIN s = 1..Len(s) /\ Len(s) \in Nat
  <1>1. Len(s) \in Nat /\ DOMAIN s = 1..Len(s)
    BY DEF IsSeq
  <1>2. \A i \in 1..Len(s) : s[i] \in ToSet(s)
    BY <1>1 DEF ToSet
  <1>3. s \in [1..Len(s) -> ToSet(s)]
    BY <1>2 DEF IsSeq
  <1> QED
    BY <1>1, <1>3

LEMMA SeqIsSeq ==
  ASSUME NEW S, NEW s \in Seq(S)
  PROVE  IsSeq(s) /\ DOMAIN s = 1..Len(s) /\ \A i \in DOMAIN s : s[i] \in S
  BY DEF IsSeq

LEMMA MappedSeq ==
  ASSUME NEW n \in Nat, NEW s, s = [i \in 1..n |-> s[i]]
  PROVE  IsSeq(s) /\ Len(s) = n
  <1> DEFINE S == {s[i] : i \in 1..n}
  <1>1. s \in [1..n -> S]
    OBVIOUS
  <1>2. s \in Seq(S) /\ Len(s) = n
    BY <1>1
  <1> QED
    BY <1>2, SeqIsSeq

LEMMA RemovedSeq ==
  ASSUME NEW s, IsSeq(s), NEW i \in DOMAIN s
  PROVE  /\ Without(s, i) \in Seq(ToSet(s)) /\ Len(Without(s, i)) = Len(s) - 1
         /\ \A j \in 1..(Len(s) - 1) : Without(s, i)[j] = IF j < i THEN s[j] ELSE s[j + 1]
  <1> DEFINE S == ToSet(s)
             t == Without(s, i)
  <1>1. s \in Seq(S) /\ Len(s) \in Nat /\ i \in 1..Len(s)
    BY SeqOfElements
  <1>2. \A j \in 1..Len(s) : s[j] \in S
    BY <1>1
  <1>3. /\ t = [j \in 1..(Len(s) - 1) |-> t[j]]
        /\ \A j \in 1..(Len(s) - 1) : t[j] = s[IF j < i THEN j ELSE j + 1]
    BY DEF Without
  <1> HIDE DEF S, t
  <1>4. ASSUME NEW j \in 1..(Len(s) - 1)
        PROVE  t[j] \in S /\ t[j] = IF j < i THEN s[j] ELSE s[j + 1]
    <2>1. j \in 1..Len(s) /\ j + 1 \in 1..Len(s)
      BY <1>1
    <2> QED
      BY <1>2, <1>3, <2>1
  <1>5. Len(s) - 1 \in Nat
    BY <1>1
  <1>6. t \in [1..(Len(s) - 1) -> S]
    BY <1>3, <1>4
  <1>7. t \in Seq(S) /\ Len(t) = Len(s) - 1
    BY <1>5, <1>6
  <1> QED
    BY <1>4, <1>7 DEF S, t

LEMMA ToFrontSeq ==
  ASSUME NEW s, IsSeq(s), NEW i \in DOMAIN s
  PROVE  /\ IsSeq(ToFront(s, i)) /\ Len(ToFront(s, i)) = Len(s)
         /\ DOMAIN ToFront(s, i) = DOMAIN s
         /\ \A j \in DOMAIN s :
              ToFront(s, i)[j] = IF j = 1 THEN s[i] ELSE IF j <= i THEN s[j - 1] ELSE s[j]
  <1> DEFINE r == Without(s, i)
             S == ToSet(s)
             t == <<s[i]>> \o r
  <1>1. /\ r \in Seq(S) /\ Len(r) = Len(s) - 1
        /\ \A j \in 1..(Len(s) - 1) : r[j] = IF j < i THEN s[j] ELSE s[j + 1]
    BY RemovedSeq
  <1>2. Len(s) \in Nat /\ DOMAIN s = 1..Len(s) /\ i \in 1..Len(s) /\ s[i] \in S
    BY SeqOfElements DEF ToSet
  <1>3. ToFront(s, i) = t
    BY DEF ToFront
  <1> HIDE DEF r, S
  <1>4. <<s[i]>> \in Seq(S) /\ Len(<<s[i]>>) = 1 /\ <<s[i]>>[1] = s[i]
    BY <1>2
  <1>9. \A j \in 1..(1 + Len(r)) : t[j] = IF j <= 1 THEN <<s[i]>>[j] ELSE r[j - 1]
    BY <1>1, <1>4, ConcatProperties
  <1>5. t \in Seq(S) /\ Len(t) = Len(s)
    BY <1>1, <1>2, <1>4, ConcatProperties
  <1>6. t[1] = s[i]
    BY <1>1, <1>2, <1>4, <1>9
  <1>7. ASSUME NEW j \in 2..Len(s)
        PROVE  t[j] = IF j <= i THEN s[j - 1] ELSE s[j]
    <2>1. t[j] = r[j - 1] /\ j - 1 \in 1..(Len(s) - 1)
      BY <1>1, <1>2, <1>9
    <2> QED
      BY <2>1, <1>1, <1>2
  <1> HIDE DEF t
  <1>8. IsSeq(t) /\ DOMAIN t = 1..Len(t)
    BY <1>5, SeqIsSeq
  <1> QED
    BY <1>2, <1>3, <1>5, <1>6, <1>7, <1>8

LEMMA ToTailSeq ==
  ASSUME NEW s, IsSeq(s), NEW i \in DOMAIN s
  PROVE  /\ IsSeq(ToTail(s, i)) /\ Len(ToTail(s, i)) = Len(s)
         /\ DOMAIN ToTail(s, i) = DOMAIN s
         /\ \A j \in DOMAIN s :
              ToTail(s, i)[j] = IF j = Len(s) THEN s[i] ELSE IF j < i THEN s[j] ELSE s[j + 1]
  <1> DEFINE r == Without(s, i)
             S == ToSet(s)
             t == Append(r, s[i])
  <1>1. /\ r \in Seq(S) /\ Len(r) = Len(s) - 1
        /\ \A j \in 1..(Len(s) - 1) : r[j] = IF j < i THEN s[j] ELSE s[j + 1]
    BY RemovedSeq
  <1>2. Len(s) \in Nat /\ DOMAIN s = 1..Len(s) /\ i \in 1..Len(s) /\ s[i] \in S
    BY SeqOfElements DEF ToSet
  <1>3. ToTail(s, i) = t
    BY DEF ToTail
  <1> HIDE DEF r, S
  <1>4. t \in Seq(S) /\ Len(t) = Len(s) /\ t[Len(s)] = s[i]
    BY <1>1, <1>2
  <1>5. \A j \in 1..(Len(s) - 1) : t[j] = r[j]
    BY <1>1, <1>2
  <1> HIDE DEF t
  <1>6. IsSeq(t) /\ DOMAIN t = 1..Len(t)
    BY <1>4, SeqIsSeq
  <1>8. Len(s) \in Nat
    BY <1>2
  <1>7. ASSUME NEW j \in 1..Len(s), j # Len(s)
        PROVE  j \in 1..(Len(s) - 1)
    BY <1>8, <1>7
  <1> QED
    BY <1>1, <1>2, <1>3, <1>4, <1>5, <1>6, <1>7

(* A new element in front, and the last one gone.                           *)
LEMMA TakenSeq ==
  ASSUME NEW s, IsSeq(s), Len(s) > 0, NEW e
  PROVE  /\ IsSeq(TakeLast(s, e)) /\ Len(TakeLast(s, e)) = Len(s)
         /\ DOMAIN TakeLast(s, e) = DOMAIN s
         /\ \A j \in DOMAIN s : TakeLast(s, e)[j] = IF j = 1 THEN e ELSE s[j - 1]
  <1> DEFINE S == ToSet(s) \cup {e}
             r == Without(s, Len(s))
             t == <<e>> \o r
  <1>1. s \in Seq(ToSet(s)) /\ DOMAIN s = 1..Len(s) /\ Len(s) \in Nat
    BY SeqOfElements
  <1>2. Len(s) \in DOMAIN s
    BY <1>1
  <1>3. /\ r \in Seq(ToSet(s)) /\ Len(r) = Len(s) - 1
        /\ \A j \in 1..(Len(s) - 1) : r[j] = IF j < Len(s) THEN s[j] ELSE s[j + 1]
    BY <1>2, RemovedSeq
  <1>4. e \in S /\ r \in Seq(S)
    BY <1>3, SeqMonotonic, ToSet(s) \subseteq S
  <1> HIDE DEF S
  <1>5. /\ r \in Seq(S) /\ Len(r) = Len(s) - 1
        /\ \A j \in 1..(Len(s) - 1) : r[j] = s[j]
    BY <1>1, <1>3, <1>4
  <1> HIDE DEF r
  <1>6. <<e>> \in Seq(S) /\ Len(<<e>>) = 1 /\ <<e>>[1] = e
    BY <1>4
  <1>10. /\ t \in Seq(S) /\ Len(t) = 1 + Len(r)
         /\ \A j \in 1..(1 + Len(r)) : t[j] = IF j <= 1 THEN <<e>>[j] ELSE r[j - 1]
    BY <1>5, <1>6, ConcatProperties
  <1>13. 1 + Len(r) = Len(s) /\ 1 \in 1..(1 + Len(r))
    BY <1>1, <1>5
  <1>7. t \in Seq(S) /\ Len(t) = Len(s) /\ t[1] = e
    BY <1>6, <1>10, <1>13
  <1>8. \A j \in 2..Len(s) : t[j] = r[j - 1] /\ j - 1 \in 1..(Len(s) - 1)
    BY <1>1, <1>5, <1>10
  <1> HIDE DEF t
  <1>9. IsSeq(t) /\ DOMAIN t = 1..Len(t)
    BY <1>7, SeqIsSeq
  <1>11. TakeLast(s, e) = t
    BY DEF r, t, TakeLast
  <1>12. ASSUME NEW j \in 1..Len(s)
         PROVE  t[j] = IF j = 1 THEN e ELSE s[j - 1]
    <2>1. CASE j = 1
      BY <2>1, <1>7
    <2>2. CASE j # 1
      BY <2>2, <1>1, <1>5, <1>8, j \in 2..Len(s)
    <2> QED
      BY <2>1, <2>2
  <1> QED
    BY <1>1, <1>7, <1>9, <1>11, <1>12

LEMMA AppendedSeq ==
  ASSUME NEW s, IsSeq(s), NEW e
  PROVE  /\ IsSeq(Append(s, e)) /\ Len(Append(s, e)) = Len(s) + 1
         /\ DOMAIN Append(s, e) = 1..(Len(s) + 1)
         /\ \A j \in 1..(Len(s) + 1) : Append(s, e)[j] = IF j = Len(s) + 1 THEN e ELSE s[j]
  <1> DEFINE S == ToSet(s) \cup {e}
             t == Append(s, e)
  <1>1. s \in Seq(ToSet(s)) /\ DOMAIN s = 1..Len(s) /\ Len(s) \in Nat
    BY SeqOfElements
  <1>2. s \in Seq(S) /\ e \in S
    BY <1>1, SeqMonotonic, ToSet(s) \subseteq S
  <1> HIDE DEF S
  <1>3. t \in Seq(S) /\ Len(t) = Len(s) + 1 /\ t[Len(s) + 1] = e
    BY <1>1, <1>2
  <1>4. \A j \in 1..Len(s) : t[j] = s[j]
    BY <1>1, <1>2
  <1> HIDE DEF t
  <1>5. IsSeq(t) /\ DOMAIN t = 1..Len(t)
    BY <1>3, SeqIsSeq
  <1>6. \A j \in 1..(Len(s) + 1) : j # Len(s) + 1 => j \in 1..Len(s)
    BY <1>1
  <1> QED
    BY <1>3, <1>4, <1>5, <1>6 DEF t

-----------------------------------------------------------------------------
(* Rings of cached paths                                                   *)

LEMMA PathReplaced ==
  ASSUME NEW r, PathRing(r), NEW i \in DOMAIN r, NEW c, IsPath(c),
         c.path = r[i].path \/ CachedAt(r, c.path) = {}
  PROVE  PathRing([r EXCEPT ![i] = c])
  <1> DEFINE t == [r EXCEPT ![i] = c]
  <1>1. DOMAIN r = 1..Len(r) /\ Len(r) \in Nat
    BY SeqOfElements DEF PathRing
  <1>2. DOMAIN t = 1..Len(r) /\ \A j \in 1..Len(r) : t[j] = IF j = i THEN c ELSE r[j]
    BY <1>1
  <1>3. t = [j \in 1..Len(r) |-> t[j]]
    BY <1>1
  <1> HIDE DEF t
  <1>4. IsSeq(t) /\ Len(t) = Len(r)
    BY <1>1, <1>3, MappedSeq
  <1>5. \A j \in DOMAIN t : IsPath(t[j])
    BY <1>1, <1>2 DEF PathRing
  <1>6. \A j, k \in DOMAIN t : t[j].path = t[k].path => j = k
    BY <1>1, <1>2 DEF PathRing, CachedAt
  <1> QED
    BY <1>4, <1>5, <1>6 DEF PathRing, t

LEMMA PathAppended ==
  ASSUME NEW r, PathRing(r), Len(r) # CacheMax, NEW c, IsPath(c), CachedAt(r, c.path) = {}
  PROVE  PathRing(Append(r, c))
  <1> DEFINE t == Append(r, c)
  <1>1. DOMAIN r = 1..Len(r) /\ Len(r) \in Nat
    BY SeqOfElements DEF PathRing
  <1>2. /\ IsSeq(t) /\ Len(t) = Len(r) + 1 /\ DOMAIN t = 1..(Len(r) + 1)
        /\ \A j \in 1..(Len(r) + 1) : t[j] = IF j = Len(r) + 1 THEN c ELSE r[j]
    BY AppendedSeq DEF PathRing
  <1> HIDE DEF t
  <1>7. Len(r) <= CacheMax /\ CacheMax \in Nat /\ Len(r) # CacheMax
    BY DriveAssumption DEF PathRing
  <1>8. Len(t) = Len(r) + 1 /\ Len(r) \in Nat
    BY <1>1, <1>2
  <1>3. Len(t) <= CacheMax
    BY <1>7, <1>8
  <1>4. \A j \in DOMAIN t : j # Len(r) + 1 => j \in DOMAIN r
    BY <1>1, <1>2
  <1>5. \A j \in DOMAIN t : IsPath(t[j])
    BY <1>2, <1>4 DEF PathRing
  <1>6. \A j, k \in DOMAIN t : t[j].path = t[k].path => j = k
    BY <1>2, <1>4 DEF PathRing, CachedAt
  <1> QED
    BY <1>2, <1>3, <1>5, <1>6 DEF PathRing, t

LEMMA PathFronted ==
  ASSUME NEW r, PathRing(r), NEW i \in DOMAIN r
  PROVE  /\ PathRing(ToFront(r, i)) /\ Len(ToFront(r, i)) > 0
         /\ ToFront(r, i)[1] = r[i]
  <1> DEFINE t == ToFront(r, i)
             From(j) == IF j = 1 THEN i ELSE IF j <= i THEN j - 1 ELSE j
  <1>1. DOMAIN r = 1..Len(r) /\ Len(r) \in Nat /\ i \in 1..Len(r)
    BY SeqOfElements DEF PathRing
  <1>2. /\ IsSeq(t) /\ Len(t) = Len(r) /\ DOMAIN t = DOMAIN r
        /\ \A j \in DOMAIN r : t[j] = IF j = 1 THEN r[i] ELSE IF j <= i THEN r[j - 1] ELSE r[j]
    BY ToFrontSeq DEF PathRing
  <1> HIDE DEF t
  <1>3. \A j \in DOMAIN r : From(j) \in DOMAIN r /\ t[j] = r[From(j)]
    BY <1>1, <1>2
  <1>4. \A j, k \in DOMAIN r : From(j) = From(k) => j = k
    BY <1>1
  <1> HIDE DEF From
  <1>5. \A j \in DOMAIN t : IsPath(t[j])
    BY <1>2, <1>3 DEF PathRing
  <1>6. \A j, k \in DOMAIN t : t[j].path = t[k].path => j = k
    BY <1>2, <1>3, <1>4 DEF PathRing
  <1>7. 1 \in DOMAIN r /\ Len(r) > 0
    BY <1>1
  <1>8. t[1] = r[i] /\ Len(t) > 0
    BY <1>2, <1>7
  <1> QED
    BY <1>2, <1>5, <1>6, <1>8 DEF PathRing, t

LEMMA PathRemoved ==
  ASSUME NEW r, PathRing(r), NEW i \in DOMAIN r
  PROVE  PathRing(Without(r, i))
  <1> DEFINE t == Without(r, i)
             From(j) == IF j < i THEN j ELSE j + 1
  <1>1. DOMAIN r = 1..Len(r) /\ Len(r) \in Nat /\ i \in 1..Len(r)
    BY SeqOfElements DEF PathRing
  <1>2. /\ t \in Seq(ToSet(r)) /\ Len(t) = Len(r) - 1
        /\ \A j \in 1..(Len(r) - 1) : t[j] = IF j < i THEN r[j] ELSE r[j + 1]
    BY RemovedSeq DEF PathRing
  <1> HIDE DEF t
  <1>3. IsSeq(t) /\ DOMAIN t = 1..(Len(r) - 1)
    BY <1>2, SeqIsSeq
  <1>4. \A j \in DOMAIN t : From(j) \in DOMAIN r /\ t[j] = r[From(j)]
    BY <1>1, <1>2, <1>3
  <1>5. \A j, k \in DOMAIN t : From(j) = From(k) => j = k
    BY <1>1, <1>3
  <1> HIDE DEF From
  <1>6. \A j \in DOMAIN t : IsPath(t[j])
    BY <1>4 DEF PathRing
  <1>7. \A j, k \in DOMAIN t : t[j].path = t[k].path => j = k
    BY <1>4, <1>5 DEF PathRing
  <1>8. Len(t) <= CacheMax
    BY <1>1, <1>2, DriveAssumption DEF PathRing
  <1> QED
    BY <1>3, <1>6, <1>7, <1>8 DEF PathRing, t

(* The paths stay where they are, whatever else changes.                    *)
LEMMA PathMarked ==
  ASSUME NEW r, PathRing(r), NEW t, t = [i \in DOMAIN r |-> t[i]],
         \A i \in DOMAIN r : IsPath(t[i]) /\ t[i].path = r[i].path
  PROVE  PathRing(t)
  <1>1. DOMAIN r = 1..Len(r) /\ Len(r) \in Nat
    BY SeqOfElements DEF PathRing
  <1>2. t = [i \in 1..Len(r) |-> t[i]] /\ DOMAIN t = DOMAIN r
    BY <1>1
  <1>3. IsSeq(t) /\ Len(t) = Len(r)
    BY <1>1, <1>2, MappedSeq
  <1> QED
    BY <1>2, <1>3 DEF PathRing

LEMMA ReleasedPaths ==
  ASSUME NEW r, PathRing(r), NEW paths
  PROVE  PathRing(Released(r, paths))
  <1> DEFINE t == Released(r, paths)
  <1>1. t = [i \in DOMAIN r |-> t[i]]
    BY DEF Released
  <1>2. ASSUME NEW i \in DOMAIN r
        PROVE  IsPath(t[i]) /\ t[i].path = r[i].path
    <2>1. IsPath(r[i])
      BY DEF PathRing
    <2>2. t[i] = r[i] \/ t[i] = [r[i] EXCEPT !.refresh = TRUE]
      BY DEF Released
    <2> QED
      BY <2>1, <2>2 DEF IsPath, PathFields
  <1> HIDE DEF t
  <1>3. PathRing(t)
    BY <1>1, <1>2, PathMarked
  <1> QED
    BY <1>3 DEF t

-----------------------------------------------------------------------------
(* Lookups                                                                 *)

(* A search buffer that is the same, but for its pointer into the list.     *)
Alike(s, t) ==
  /\ t.key = s.key /\ t.unit = s.unit /\ t.path = s.path /\ t.attr = s.attr
  /\ t.count = s.count /\ t.id = s.id /\ t.next = s.next

(* What a lookup leaves of f: it moves and refreshes cached paths, and with *)
(* them the pointers of the searches, but neither a search nor a file.      *)
LookedUp(f, g) ==
  /\ FsOK(g)
  /\ g.units = f.units /\ g.option = f.option /\ g.fcbs = f.fcbs
  /\ Len(g.files) = Len(f.files) /\ DOMAIN g.files = DOMAIN f.files
  /\ \A i \in DOMAIN f.files : Alike(f.files[i], g.files[i])

LEMMA AlikeSame ==
  ASSUME NEW s
  PROVE  Alike(s, s)
  BY DEF Alike

LEMMA AlikeTwice ==
  ASSUME NEW s, NEW t, NEW x, Alike(s, t), Alike(t, x)
  PROVE  Alike(s, x)
  BY DEF Alike

LEMMA LookedUpNothing ==
  ASSUME NEW f, FsOK(f)
  PROVE  LookedUp(f, f)
  BY AlikeSame DEF LookedUp

LEMMA LookedUpTwice ==
  ASSUME NEW f, NEW g, NEW h, LookedUp(f, g), LookedUp(g, h)
  PROVE  LookedUp(f, h)
  BY AlikeTwice DEF LookedUp

(* Only the cache (and the counter of the ids) changes.                     *)
LEMMA CacheChanged ==
  ASSUME NEW f, FsOK(f), NEW g, IsFs(g),
         g.units = f.units, g.option = f.option, g.files = f.files, g.fcbs = f.fcbs,
         DOMAIN g.cache = DOMAIN f.cache, \A u \in DOMAIN f.cache : PathRing(g.cache[u])
  PROVE  LookedUp(f, g)
  BY AlikeSame DEF FsOK, Sized, LookedUp

LEMMA RingChanged ==
  ASSUME NEW f, FsOK(f), NEW u \in DOMAIN f.cache, NEW r, PathRing(r), NEW g, IsFs(g),
         g.units = f.units, g.option = f.option, g.files = f.files, g.fcbs = f.fcbs,
         g.cache = [f.cache EXCEPT ![u] = r]
  PROVE  LookedUp(f, g) /\ g.cache[u] = r
  <1>1. DOMAIN g.cache = DOMAIN f.cache /\ g.cache[u] = r
    OBVIOUS
  <1>2. \A v \in DOMAIN f.cache : PathRing(g.cache[v])
    BY DEF FsOK
  <1> QED
    BY <1>1, <1>2, CacheChanged

LEMMA RepointFacts ==
  ASSUME NEW f, FsOK(f), NEW u, NEW p, NEW moved
  PROVE  LookedUp(f, Repoint(f, u, p, moved)) /\ Repoint(f, u, p, moved).cache = f.cache
  <1> DEFINE g == Repoint(f, u, p, moved)
             s(i) == f.files[i]
             t(i) == IF s(i).key # 0 /\ s(i).unit = u /\ s(i).path = p /\ s(i).at # 0
                     THEN [s(i) EXCEPT !.at = moved[@]] ELSE s(i)
  <1>1. /\ IsFs(g) /\ g.files = [i \in DOMAIN f.files |-> t(i)]
        /\ g.units = f.units /\ g.option = f.option /\ g.cache = f.cache /\ g.fcbs = f.fcbs
    BY DEF FsOK, IsFs, FsFields, Repoint
  <1>2. DOMAIN f.files = 1..Len(f.files) /\ Len(f.files) \in Nat
    BY SeqOfElements DEF FsOK, SearchRing
  <1>3. ASSUME NEW i \in DOMAIN f.files
        PROVE  IsSearch(t(i)) /\ Alike(s(i), t(i))
    <2>1. IsSearch(s(i))
      BY DEF FsOK, SearchRing
    <2>2. t(i) = s(i) \/ t(i) = [s(i) EXCEPT !.at = moved[@]]
      OBVIOUS
    <2> HIDE DEF s, t
    <2> QED
      BY <2>1, <2>2 DEF IsSearch, SearchFields, Alike
  <1> HIDE DEF g
  <1>4. g.files = [i \in 1..Len(f.files) |-> g.files[i]] /\ DOMAIN g.files = DOMAIN f.files
    BY <1>1, <1>2
  <1>5. IsSeq(g.files) /\ Len(g.files) = Len(f.files)
    BY <1>2, <1>4, MappedSeq
  <1>6. \A i \in DOMAIN f.files : IsSearch(g.files[i]) /\ Alike(f.files[i], g.files[i])
    BY <1>1, <1>3
  <1>7. SearchRing(g.files)
    <2>1. KeysOnce(g.files)
      BY <1>4, <1>6 DEF KeysOnce, FsOK, SearchRing, Alike
    <2> QED
      BY <2>1, <1>4, <1>5, <1>6 DEF SearchRing
  <1>8. FsOK(g)
    BY <1>1, <1>5, <1>7 DEF FsOK, Sized
  <1> QED
    BY <1>1, <1>4, <1>5, <1>6, <1>8 DEF LookedUp, g

LEMMA RefreshedFacts ==
  ASSUME NEW f, FsOK(f), NEW u \in DOMAIN f.cache, NEW i \in DOMAIN f.cache[u],
         NEW c, IsPath(c), c.path = f.cache[u][i].path \/ CachedAt(f.cache[u], c.path) = {},
         NEW scan
  PROVE  LET g == Refreshed(f, u, i, c, scan)
         IN /\ LookedUp(f, g)
            /\ DOMAIN g.cache[u] = DOMAIN f.cache[u]
            /\ g.cache[u][i].path = c.path /\ ~g.cache[u][i].refresh
            /\ \A j \in DOMAIN f.cache[u] : j # i => g.cache[u][j] = f.cache[u][j]
  <1> DEFINE g == Refreshed(f, u, i, c, scan)
  <1>1. PICK moved, list, kept, id :
          /\ id = f.gid \/ id = f.gid + 1
          /\ g = [Repoint(f, u, c.path, moved) EXCEPT
                    !.cache[u][i] = [c EXCEPT !.refresh = FALSE, !.list = list, !.kept = kept,
                                              !.id = IF id = f.gid THEN @ ELSE id],
                    !.gid = id]
    BY ZenonT(30) DEF Refreshed
  <1> DEFINE r == Repoint(f, u, c.path, moved)
             d == [c EXCEPT !.refresh = FALSE, !.list = list, !.kept = kept,
                            !.id = IF id = f.gid THEN @ ELSE id]
             ring == [f.cache[u] EXCEPT ![i] = d]
  <1>2. LookedUp(f, r) /\ r.cache = f.cache
    BY RepointFacts
  <1>3. IsPath(d) /\ d.path = c.path /\ ~d.refresh
    BY DEF IsPath, PathFields
  <1>4. g = [r EXCEPT !.cache[u][i] = d, !.gid = id]
    BY <1>1
  <1> HIDE DEF g, r, d
  <1>9. id \in Nat
    <2>1. IsFs(f)
      BY DEF FsOK
    <2> QED
      BY <1>1, <2>1 DEF IsFs
  <1>5. PathRing(ring)
    BY <1>3, PathReplaced DEF FsOK
  <1>6. g = [r EXCEPT !.cache[u] = ring, !.gid = id]
    BY <1>2, <1>4
  <1>7. /\ DOMAIN ring = DOMAIN f.cache[u] /\ ring[i].path = c.path /\ ~ring[i].refresh
        /\ \A j \in DOMAIN f.cache[u] : j # i => ring[j] = f.cache[u][j]
    BY <1>3
  <1> HIDE DEF ring
  <1>8. LookedUp(r, g) /\ g.cache[u] = ring
    <2>1. FsOK(r) /\ u \in DOMAIN r.cache
      BY <1>2 DEF LookedUp
    <2>2. /\ IsFs(g) /\ g.cache = [r.cache EXCEPT ![u] = ring]
          /\ g.units = r.units /\ g.option = r.option /\ g.files = r.files /\ g.fcbs = r.fcbs
      BY <2>1, <1>6, <1>9 DEF FsOK, IsFs, FsFields
    <2> QED
      BY <2>1, <2>2, <1>5, RingChanged
  <1> QED
    BY <1>2, <1>7, <1>8, LookedUpTwice DEF g

LEMMA RefreshFacts ==
  ASSUME NEW f, FsOK(f), NEW u \in DOMAIN f.cache, NEW i \in DOMAIN f.cache[u], NEW h
  PROVE  LET g == Refresh(f, u, h, i)
         IN /\ LookedUp(f, g) /\ DOMAIN g.cache[u] = DOMAIN f.cache[u]
            /\ g.cache[u][i].path = f.cache[u][i].path /\ ~g.cache[u][i].refresh
  <1> DEFINE c == f.cache[u][i]
             scan == Scan(h, f.cache[u][i].path)
             g == Refresh(f, u, h, i)
  <1>1. g = Refreshed(f, u, i, c, scan) /\ IsPath(c) /\ c.path = f.cache[u][i].path
    BY DEF Refresh, FsOK, PathRing
  <1> HIDE DEF scan, g, c
  <1> QED
    BY <1>1, RefreshedFacts DEF g

LEMMA RefreshCached ==
  ASSUME NEW f, NEW k, LookedUp(f, k), NEW u \in DOMAIN k.cache, NEW i \in DOMAIN k.cache[u],
         NEW h
  PROVE  /\ LookedUp(f, Refresh(k, u, h, i))
         /\ CachedAt(Refresh(k, u, h, i).cache[u], k.cache[u][i].path) # {}
  <1> DEFINE g == Refresh(k, u, h, i)
  <1>1. FsOK(k)
    BY DEF LookedUp
  <1>2. /\ LookedUp(k, g) /\ DOMAIN g.cache[u] = DOMAIN k.cache[u]
        /\ g.cache[u][i].path = k.cache[u][i].path
    BY <1>1, RefreshFacts
  <1> HIDE DEF g
  <1>3. LookedUp(f, g)
    BY <1>2, LookedUpTwice
  <1>4. i \in CachedAt(g.cache[u], k.cache[u][i].path)
    BY <1>2 DEF CachedAt
  <1> QED
    BY <1>3, <1>4 DEF g

LEMMA CachedFacts ==
  ASSUME NEW f, FsOK(f), NEW u \in DOMAIN f.cache, NEW h, NEW p \in Seq(Names)
  PROVE  /\ LookedUp(f, Cached(f, u, h, p))
         /\ CachedAt(Cached(f, u, h, p).cache[u], p) # {}
  <1> DEFINE n == Len(f.cache[u])
             ring == f.cache[u]
             g == Cached(f, u, h, p)
  <1>1. CASE CachedAt(ring, p) # {}
    BY <1>1, LookedUpNothing DEF Cached
  <1>2. CASE CachedAt(ring, p) = {}
    <2>1. PathRing(ring) /\ DOMAIN ring = 1..n /\ n \in Nat
      BY SeqOfElements DEF FsOK, PathRing
    <2>3. CASE n = CacheMax
      <3> DEFINE oldest == ring[n]
                 new == [NewPath(p) EXCEPT !.id = oldest.id]
                 r == Repoint(f, u, oldest.path, AllFreed)
                 k == [r EXCEPT !.cache[u][n] = new]
      <3>1. g = Refresh(k, u, h, n)
        BY <1>2, <2>3 DEF Cached
      <3>2. IsPath(new) /\ new.path = p
        BY DEF IsPath, PathFields, NewPath
      <3>3. LookedUp(f, r) /\ r.cache = f.cache
        BY RepointFacts
      <3>4. n \in DOMAIN ring
        BY <2>1, <2>3, DriveAssumption
      <3> HIDE DEF new, r, g
      <3> DEFINE t == [ring EXCEPT ![n] = new]
      <3>5. PathRing(t) /\ DOMAIN t = DOMAIN ring /\ t[n] = new
        BY <1>2, <2>1, <3>2, <3>4, PathReplaced
      <3>6. /\ IsFs(k) /\ k.cache = [r.cache EXCEPT ![u] = t]
            /\ k.units = r.units /\ k.option = r.option /\ k.files = r.files /\ k.fcbs = r.fcbs
        BY <3>3 DEF LookedUp, FsOK, IsFs, FsFields
      <3>7. FsOK(r) /\ u \in DOMAIN r.cache
        BY <3>3 DEF LookedUp
      <3> HIDE DEF t, k
      <3>8. LookedUp(r, k) /\ k.cache[u] = t
        BY <3>5, <3>6, <3>7, RingChanged
      <3>9. LookedUp(f, k) /\ FsOK(k) /\ u \in DOMAIN k.cache
        <4>1. LookedUp(f, k)
          BY <3>3, <3>8, LookedUpTwice
        <4> QED
          BY <4>1, <3>3, <3>6 DEF LookedUp
      <3>10. n \in DOMAIN k.cache[u] /\ k.cache[u][n].path = p
        BY <3>2, <3>4, <3>5, <3>8
      <3>11. /\ LookedUp(f, Refresh(k, u, h, n))
             /\ CachedAt(Refresh(k, u, h, n).cache[u], k.cache[u][n].path) # {}
        BY <3>9, <3>10, RefreshCached
      <3> QED
        BY <3>1, <3>10, <3>11 DEF g
    <2>4. CASE n # CacheMax
      <3> DEFINE new == NewPath(p)
                 k == [f EXCEPT !.cache[u] = Append(@, new)]
                 t == Append(ring, new)
      <3>1. g = Refresh(k, u, h, n + 1)
        BY <1>2, <2>4 DEF Cached
      <3>2. IsPath(new) /\ new.path = p
        BY DEF IsPath, PathFields, NewPath
      <3> HIDE DEF new, g
      <3>3. PathRing(t)
        BY <1>2, <2>1, <2>4, <3>2, PathAppended
      <3>4. n + 1 \in DOMAIN t /\ t[n + 1] = new
        BY <2>1, AppendedSeq DEF PathRing
      <3>5. /\ IsFs(k) /\ k.cache = [f.cache EXCEPT ![u] = t]
            /\ k.units = f.units /\ k.option = f.option /\ k.files = f.files /\ k.fcbs = f.fcbs
        BY DEF FsOK, IsFs, FsFields
      <3> HIDE DEF t, k
      <3>6. LookedUp(f, k) /\ k.cache[u] = t
        BY <3>3, <3>5, RingChanged
      <3>7. FsOK(k) /\ u \in DOMAIN k.cache
        BY <3>5, <3>6 DEF LookedUp
      <3>8. n + 1 \in DOMAIN k.cache[u] /\ k.cache[u][n + 1].path = p
        BY <3>2, <3>4, <3>6
      <3>9. /\ LookedUp(f, Refresh(k, u, h, n + 1))
            /\ CachedAt(Refresh(k, u, h, n + 1).cache[u], k.cache[u][n + 1].path) # {}
        BY <3>6, <3>7, <3>8, RefreshCached
      <3> QED
        BY <3>1, <3>8, <3>9 DEF g
    <2> QED
      BY <2>3, <2>4
  <1> QED
    BY <1>1, <1>2

LEMMA VisitFacts ==
  ASSUME NEW f, FsOK(f), NEW u \in DOMAIN f.cache, NEW h, NEW p \in Seq(Names)
  PROVE  LET g == Visit(f, u, h, p)
         IN LookedUp(f, g) /\ Len(g.cache[u]) > 0 /\ g.cache[u][1].path = p /\ ~g.cache[u][1].refresh
  <1> DEFINE a == Cached(f, u, h, p)
             i == CHOOSE j \in CachedAt(a.cache[u], p) : TRUE
             b == IF a.cache[u][i].refresh THEN Refresh(a, u, h, i) ELSE a
             g == [b EXCEPT !.cache[u] = ToFront(@, i)]
  <1>1. Visit(f, u, h, p) = g
    BY DEF Visit
  <1>2. LookedUp(f, a) /\ CachedAt(a.cache[u], p) # {}
    BY CachedFacts
  <1>3. i \in CachedAt(a.cache[u], p)
    BY <1>2
  <1> HIDE DEF a, i
  <1>4. FsOK(a) /\ u \in DOMAIN a.cache /\ i \in DOMAIN a.cache[u] /\ a.cache[u][i].path = p
    BY <1>2, <1>3 DEF LookedUp, FsOK, CachedAt
  <1>5. LookedUp(a, b) /\ i \in DOMAIN b.cache[u] /\ b.cache[u][i].path = p /\ ~b.cache[u][i].refresh
    <2>1. CASE a.cache[u][i].refresh
      BY <2>1, <1>4, RefreshFacts
    <2>2. CASE ~a.cache[u][i].refresh
      BY <2>2, <1>4, LookedUpNothing
    <2> QED
      BY <2>1, <2>2
  <1> HIDE DEF b
  <1>6. FsOK(b) /\ u \in DOMAIN b.cache
    BY <1>4, <1>5 DEF LookedUp, FsOK
  <1> DEFINE t == ToFront(b.cache[u], i)
  <1>7. PathRing(t) /\ Len(t) > 0 /\ t[1] = b.cache[u][i]
    BY <1>5, <1>6, PathFronted DEF FsOK
  <1>8. /\ IsFs(g) /\ g.cache = [b.cache EXCEPT ![u] = t]
        /\ g.units = b.units /\ g.option = b.option /\ g.files = b.files /\ g.fcbs = b.fcbs
    BY <1>6 DEF FsOK, IsFs, FsFields
  <1> HIDE DEF t, g
  <1>9. LookedUp(b, g) /\ g.cache[u] = t
    BY <1>6, <1>7, <1>8, RingChanged
  <1> QED
    BY <1>1, <1>2, <1>5, <1>7, <1>9, LookedUpTwice

(* A path is made from one directory to the next: the recursion of          *)
(* MakeCache is well defined, because a shortest path without would have    *)
(* one but for its last step.                                               *)
LEMMA Smallest ==
  ASSUME NEW S, S \subseteq Nat, S # {}
  PROVE  \E i \in S : \A j \in S : i <= j
  <1> DEFINE R == {p \in Nat \X Nat : p[1] < p[2]}
  <1>1. IsWellFoundedOn(R, Nat)
    BY NatLessThanWellFounded DEF OpToRel
  <1>2. PICK i \in S : \A j \in S : ~(<<j, i>> \in R)
    BY <1>1, WFMin
  <1>3. ASSUME NEW j \in S
        PROVE  i <= j
    <2>1. i \in Nat /\ j \in Nat /\ <<j, i>> \in Nat \X Nat
      BY <1>3
    <2>2. <<j, i>> \notin R
      BY <1>2, <1>3
    <2>3. ~(j < i)
      BY <2>1, <2>2
    <2> QED
      BY <2>1, <2>3
  <1> QED
    BY <1>3

(* The directories made on the first m steps. *)
MadeTo(f, u, h, p, m, made) ==
  made = [n \in 0..m |->
            Descend(IF n = 0 THEN [f |-> f, ok |-> TRUE] ELSE made[n - 1], u, h, p, n)]

LEMMA MadeExists ==
  ASSUME NEW f, NEW u, NEW h, NEW p, NEW l \in Nat
  PROVE  \E made : MadeTo(f, u, h, p, l, made)
  <1> DEFINE T == {m \in Nat : ~\E made : MadeTo(f, u, h, p, m, made)}
             start == [f |-> f, ok |-> TRUE]
  <1>1. CASE T = {}
    BY <1>1
  <1>2. CASE T # {}
    <2>1. PICK m \in T : \A j \in T : m <= j
      BY <1>2, Smallest
    <2>2. m \in Nat /\ ~\E made : MadeTo(f, u, h, p, m, made)
      BY <2>1
    <2>3. CASE m = 0
      <3> DEFINE made == [n \in 0..0 |-> Descend(start, u, h, p, n)]
      <3>1. made = [n \in 0..0 |-> Descend(IF n = 0 THEN start ELSE made[n - 1], u, h, p, n)]
        <4>1. \A n \in 0..0 : n = 0
          OBVIOUS
        <4> QED
          BY <4>1
      <3> HIDE DEF made
      <3> QED
        BY <3>1, <2>2, <2>3 DEF MadeTo
    <2>4. CASE m # 0
      <3>1. m - 1 \in Nat /\ m - 1 \notin T
        BY <2>1, <2>2, <2>4
      <3>2. PICK g : MadeTo(f, u, h, p, m - 1, g)
        BY <3>1
      <3> DEFINE made == [n \in 0..m |-> IF n = m THEN Descend(g[m - 1], u, h, p, m) ELSE g[n]]
      <3>3. ASSUME NEW n \in 0..m
            PROVE  made[n] = Descend(IF n = 0 THEN start ELSE made[n - 1], u, h, p, n)
        <4>1. CASE n = m
          <5>1. m - 1 \in 0..m /\ m - 1 # m /\ n # 0
            BY <4>1, <2>2, <2>4
          <5>2. made[n - 1] = g[m - 1]
            BY <5>1, <4>1
          <5>3. made[n] = Descend(g[m - 1], u, h, p, n)
            BY <4>1
          <5> HIDE DEF made
          <5> QED
            BY <5>1, <5>2, <5>3
        <4>2. CASE n # m
          <5>1. n \in 0..(m - 1) /\ (n # 0 => n - 1 \in 0..m /\ n - 1 # m)
            BY <4>2, <2>2
          <5>2. made[n] = g[n] /\ (n # 0 => made[n - 1] = g[n - 1])
            BY <5>1, <4>2
          <5>3. g[n] = Descend(IF n = 0 THEN start ELSE g[n - 1], u, h, p, n)
            BY <5>1, <3>2 DEF MadeTo
          <5> HIDE DEF made
          <5> QED
            BY <5>2, <5>3
        <4> QED
          BY <4>1, <4>2
      <3>4. made = [n \in 0..m |-> made[n]]
        OBVIOUS
      <3> HIDE DEF made
      <3>5. MadeTo(f, u, h, p, m, made)
        BY <3>3, <3>4 DEF MadeTo
      <3> QED
        BY <3>5, <2>2
    <2> QED
      BY <2>3, <2>4
  <1> QED
    BY <1>1, <1>2

LEMMA MakeCacheSteps ==
  ASSUME NEW f, NEW u, NEW h, NEW p \in Seq(Names)
  PROVE  \E made : /\ MadeTo(f, u, h, p, Len(p), made)
                   /\ MakeCache(f, u, h, p) = made[Len(p)]
  <1> DEFINE made == CHOOSE g : MadeTo(f, u, h, p, Len(p), g)
  <1>1. MadeTo(f, u, h, p, Len(p), made)
    BY MadeExists
  <1>2. MakeCache(f, u, h, p) = made[Len(p)]
    BY DEF MakeCache, MadeTo
  <1> QED
    BY <1>1, <1>2

(* Where a lookup stands that may have failed: when it has not, the path it *)
(* is about is the first of the ring.                                       *)
Standing(f, u, p, made) ==
  /\ LookedUp(f, made.f)
  /\ made.ok => /\ Len(made.f.cache[u]) > 0 /\ made.f.cache[u][1].path = p
                /\ ~made.f.cache[u][1].refresh

LEMMA DescendFacts ==
  ASSUME NEW f, NEW u \in DOMAIN f.cache, NEW h, NEW p \in Seq(Names), NEW n \in 0..Len(p),
         NEW made, LookedUp(f, made.f), DOMAIN made.f.cache = DOMAIN f.cache
  PROVE  Standing(f, u, SubSeq(p, 1, n), Descend(made, u, h, p, n))
  <1> DEFINE q == SubSeq(p, 1, n)
             g == Visit(made.f, u, h, q)
             next == Descend(made, u, h, p, n)
  <1>1. q \in Seq(Names)
    OBVIOUS
  <1>2. CASE made.ok
    <2>1. next.f = g
      BY <1>2 DEF Descend
    <2>2. LookedUp(made.f, g) /\ Len(g.cache[u]) > 0 /\ g.cache[u][1].path = q /\ ~g.cache[u][1].refresh
      <3>1. FsOK(made.f) /\ u \in DOMAIN made.f.cache
        BY DEF LookedUp
      <3> HIDE DEF q
      <3> QED
        BY <1>1, <3>1, VisitFacts
    <2> HIDE DEF g, next
    <2>3. LookedUp(f, g)
      BY <2>2, LookedUpTwice
    <2> QED
      BY <2>1, <2>2, <2>3 DEF Standing, next
  <1>3. CASE ~made.ok
    BY <1>3 DEF Descend, Standing
  <1> QED
    BY <1>2, <1>3

LEMMA MakeCacheFacts ==
  ASSUME NEW f, FsOK(f), NEW u \in DOMAIN f.cache, NEW h, NEW p \in Seq(Names)
  PROVE  Standing(f, u, p, MakeCache(f, u, h, p))
  <1>1. PICK made : /\ MadeTo(f, u, h, p, Len(p), made)
                    /\ MakeCache(f, u, h, p) = made[Len(p)]
    BY MakeCacheSteps
  <1> DEFINE start == [f |-> f, ok |-> TRUE]
             before(n) == IF n = 0 THEN start ELSE made[n - 1]
             T == {n \in 0..Len(p) : ~Standing(f, u, SubSeq(p, 1, n), made[n])}
  <1>2. Len(p) \in Nat /\ SubSeq(p, 1, Len(p)) = p
    BY SubSeqFull
  <1>3. ASSUME NEW n \in 0..Len(p), LookedUp(f, before(n).f)
        PROVE  Standing(f, u, SubSeq(p, 1, n), made[n])
    <2>1. made[n] = Descend(before(n), u, h, p, n)
      BY <1>1 DEF MadeTo
    <2>2. DOMAIN before(n).f.cache = DOMAIN f.cache
      BY <1>3 DEF LookedUp, FsOK
    <2> HIDE DEF before
    <2> QED
      BY <1>3, <2>1, <2>2, DescendFacts
  <1>4. LookedUp(f, before(0).f)
    BY LookedUpNothing
  <1>5. T = {}
    <2> SUFFICES ASSUME T # {}
                 PROVE  FALSE
      OBVIOUS
    <2>5. T \subseteq Nat
      BY <1>2
    <2>1. PICK n \in T : \A j \in T : n <= j
      <3> HIDE DEF T
      <3> QED
        BY <2>5, Smallest
    <2>2. n \in 0..Len(p) /\ ~Standing(f, u, SubSeq(p, 1, n), made[n])
      BY <2>1
    <2>3. CASE n = 0
      BY <2>2, <2>3, <1>3, <1>4
    <2>4. CASE n # 0
      <3>1. n - 1 \in 0..Len(p) /\ n - 1 \notin T
        BY <1>2, <2>1, <2>2, <2>4
      <3>2. Standing(f, u, SubSeq(p, 1, n - 1), made[n - 1])
        BY <3>1
      <3>3. LookedUp(f, before(n).f)
        BY ZenonT(30), <3>2, <2>4 DEF Standing
      <3> QED
        BY <2>2, <3>3, <1>3
    <2> QED
      BY <2>3, <2>4
  <1>6. Standing(f, u, SubSeq(p, 1, Len(p)), made[Len(p)])
    BY <1>2, <1>5
  <1> QED
    BY <1>1, <1>2, <1>6

(* The cache is released, in part or as a whole, a path is deleted from it.  *)
LEMMA ReleasedFacts ==
  ASSUME NEW f, FsOK(f), NEW u \in DOMAIN f.cache, NEW p
  PROVE  /\ LookedUp(f, CleanAll(f, u)) /\ LookedUp(f, CleanCache(f, u, p))
         /\ LookedUp(f, CleanCacheChild(f, u, p))
  <1>1. ASSUME NEW paths, NEW g, g = [f EXCEPT !.cache[u] = Released(@, paths)]
        PROVE  LookedUp(f, g)
    <2> DEFINE t == Released(f.cache[u], paths)
    <2>1. PathRing(t)
      BY ReleasedPaths DEF FsOK
    <2>2. /\ IsFs(g) /\ g.cache = [f.cache EXCEPT ![u] = t]
          /\ g.units = f.units /\ g.option = f.option /\ g.files = f.files /\ g.fcbs = f.fcbs
      BY <1>1 DEF FsOK, IsFs, FsFields
    <2> HIDE DEF t
    <2> QED
      BY <2>1, <2>2, RingChanged
  <1>2. LookedUp(f, CleanAll(f, u))
    BY <1>1 DEF CleanAll
  <1>3. LookedUp(f, CleanCache(f, u, p))
    BY <1>1 DEF CleanCache
  <1>4. LookedUp(f, CleanCacheChild(f, u, p))
    BY <1>1 DEF CleanCacheChild
  <1> QED
    BY <1>2, <1>3, <1>4

LEMMA DeleteCacheFacts ==
  ASSUME NEW f, FsOK(f), NEW u \in DOMAIN f.cache, NEW p
  PROVE  LookedUp(f, DeleteCache(f, u, p))
  <1> DEFINE at == CachedAt(f.cache[u], p)
             i == CHOOSE j \in at : TRUE
             r == Repoint(f, u, p, AllFreed)
             g == [r EXCEPT !.cache[u] = Without(@, i)]
             t == Without(f.cache[u], i)
  <1>1. CASE at = {}
    BY <1>1, LookedUpNothing DEF DeleteCache
  <1>2. CASE at # {}
    <2>1. DeleteCache(f, u, p) = g
      BY <1>2 DEF DeleteCache
    <2>2. LookedUp(f, r) /\ r.cache = f.cache
      BY RepointFacts
    <2>3. i \in DOMAIN f.cache[u]
      BY <1>2 DEF CachedAt
    <2> HIDE DEF r, i
    <2>4. PathRing(t)
      BY <2>3, PathRemoved DEF FsOK
    <2>5. FsOK(r) /\ u \in DOMAIN r.cache
      BY <2>2 DEF LookedUp
    <2>6. /\ IsFs(g) /\ g.cache = [r.cache EXCEPT ![u] = t]
          /\ g.units = r.units /\ g.option = r.option /\ g.files = r.files /\ g.fcbs = r.fcbs
      BY <2>2, <2>5 DEF FsOK, IsFs, FsFields
    <2> HIDE DEF t, g
    <2>7. LookedUp(r, g)
      BY <2>4, <2>5, <2>6, RingChanged
    <2> QED
      BY <2>1, <2>2, <2>7, LookedUpTwice
  <1> QED
    BY <1>1, <1>2

LEMMA CopyCacheFacts ==
  ASSUME NEW f, FsOK(f), NEW u \in DOMAIN f.cache, NEW p
  PROVE  Standing(f, u, p, CopyCache(f, u, p))
  <1> DEFINE ring == f.cache[u]
             at == CachedAt(ring, p)
             i == CHOOSE j \in at : TRUE
             t == IF at = {} THEN ring ELSE ToFront(ring, i)
             g == [f EXCEPT !.cache[u] = t]
  <1>1. CopyCache(f, u, p).f = g /\ (CopyCache(f, u, p).ok => at # {} /\ ~t[1].refresh)
    BY DEF CopyCache
  <1>2. PathRing(t) /\ (at # {} => Len(t) > 0 /\ t[1].path = p)
    <2>1. CASE at = {}
      BY <2>1 DEF FsOK
    <2>2. CASE at # {}
      <3>1. i \in at
        BY <2>2
      <3> HIDE DEF i
      <3>2. i \in DOMAIN ring /\ ring[i].path = p
        BY <3>1 DEF CachedAt
      <3> QED
        BY <2>2, <3>2, PathFronted DEF FsOK
    <2> QED
      BY <2>1, <2>2
  <1>3. /\ IsFs(g) /\ g.cache = [f.cache EXCEPT ![u] = t]
        /\ g.units = f.units /\ g.option = f.option /\ g.files = f.files /\ g.fcbs = f.fcbs
    BY DEF FsOK, IsFs, FsFields
  <1> HIDE DEF t, g
  <1>4. LookedUp(f, g) /\ g.cache[u] = t
    BY <1>2, <1>3, RingChanged
  <1> QED
    BY <1>1, <1>2, <1>4 DEF Standing

LEMMA FindFacts ==
  ASSUME NEW f, FsOK(f), NEW u \in DOMAIN f.cache, NEW h, NEW p \in Seq(Names)
  PROVE  Standing(f, u, p, Find(f, u, h, p))
  <1> DEFINE copy == CopyCache(f, u, p)
             make == MakeCache(copy.f, u, h, p)
  <1>1. Standing(f, u, p, copy)
    BY CopyCacheFacts
  <1>2. FsOK(copy.f) /\ u \in DOMAIN copy.f.cache /\ LookedUp(f, copy.f)
    BY <1>1 DEF Standing, LookedUp, FsOK
  <1>3. CASE copy.ok
    BY <1>1, <1>3 DEF Find
  <1>4. CASE ~copy.ok
    <2>1. Standing(copy.f, u, p, make)
      BY <1>2, MakeCacheFacts
    <2>2. LookedUp(f, make.f)
      BY <1>2, <2>1, LookedUpTwice DEF Standing
    <2>3. CASE make.ok
      <3>1. Find(f, u, h, p) = make
        BY <1>4, <2>3 DEF Find
      <3> QED
        BY <2>1, <2>2, <3>1 DEF Standing
    <2>4. CASE ~make.ok
      <3> DEFINE g == CleanAll(make.f, u)
      <3>1. Find(f, u, h, p) = [f |-> g, ok |-> FALSE]
        BY <1>4, <2>4 DEF Find
      <3>2. FsOK(make.f) /\ u \in DOMAIN make.f.cache
        BY <2>2 DEF LookedUp, FsOK
      <3>3. LookedUp(make.f, g)
        BY <3>2, ReleasedFacts
      <3>4. LookedUp(f, g)
        BY <2>2, <3>3, LookedUpTwice
      <3> HIDE DEF g
      <3> QED
        BY <3>1, <3>4 DEF Standing
    <2> QED
      BY <2>3, <2>4
  <1> QED
    BY <1>3, <1>4

-----------------------------------------------------------------------------
(* Rings of keys: search buffers and open files                            *)

(* Every element of r but those at the places in gone is one of t.          *)
Keeps(r, t, gone) == \A i \in DOMAIN r \ gone : \E j \in DOMAIN t : t[j] = r[i]

(* Every element of t is e, or one of r that is not at the places in gone.  *)
Takes(r, t, gone, e) ==
  \A j \in DOMAIN t : t[j] = e \/ \E i \in DOMAIN r \ gone : t[j] = r[i]

(* A new one in front, instead of the last.                                 *)
LEMMA RingTaken ==
  ASSUME NEW r, IsSeq(r), KeysOnce(r), Len(r) > 0, NEW e, e.key # 0, At(r, e.key) = {},
         NEW t, t = TakeLast(r, e)
  PROVE  /\ IsSeq(t) /\ Len(t) = Len(r) /\ DOMAIN t = DOMAIN r /\ t[1] = e
         /\ KeysOnce(t) /\ (FreeLast(r) => FreeLast(t))
         /\ Keeps(r, t, {Len(r)}) /\ Takes(r, t, {Len(r)}, e)
  <1>1. PICK n \in Nat : n = Len(r) /\ n > 0 /\ DOMAIN r = 1..n
    BY SeqOfElements
  <1>2. IsSeq(t) /\ Len(t) = n /\ DOMAIN t = 1..n
    BY <1>1, TakenSeq
  <1>3. \A j \in 1..n : t[j] = IF j = 1 THEN e ELSE r[j - 1]
    <2>1. \A j \in DOMAIN r : TakeLast(r, e)[j] = IF j = 1 THEN e ELSE r[j - 1]
      BY TakenSeq
    <2> QED
      BY <2>1, <1>1
  <1>4. t[1] = e /\ 1 \in 1..n
    BY <1>1, <1>3
  <1>5. ASSUME NEW j \in 1..n, j # 1
        PROVE  j - 1 \in 1..n /\ j - 1 # n /\ t[j] = r[j - 1] /\ t[j].key # e.key
    <2>1. j - 1 \in 1..n /\ j - 1 # n
      BY <1>1, <1>5
    <2>2. t[j] = r[j - 1]
      BY <1>3, <1>5
    <2> QED
      BY <2>1, <2>2, <1>1 DEF At
  <1>6. ASSUME NEW i \in 1..n, NEW j \in 1..n, t[i].key = t[j].key, t[i].key # 0
        PROVE  i = j
    <2>1. CASE i = 1 \/ j = 1
      <3>1. \A m \in 1..n : m # 1 => t[m].key # t[1].key
        BY <1>4, <1>5
      <3> QED
        BY <2>1, <3>1, <1>6
    <2>2. CASE i # 1 /\ j # 1
      <3>1. /\ i - 1 \in 1..n /\ j - 1 \in 1..n
            /\ r[i - 1].key = r[j - 1].key /\ r[i - 1].key # 0
        BY <2>2, <1>5, <1>6
      <3>2. i - 1 = j - 1
        BY <3>1, <1>1 DEF KeysOnce
      <3> QED
        BY <3>2
    <2> QED
      BY <2>1, <2>2
  <1>7. ASSUME FreeLast(r), NEW i \in 1..n, NEW j \in 1..n, i < j, t[i].key = 0
        PROVE  t[j].key = 0
    <2>1. i # 1 /\ j # 1
      BY <1>4, <1>7
    <2>2. i - 1 \in 1..n /\ j - 1 \in 1..n /\ t[i] = r[i - 1] /\ t[j] = r[j - 1]
      BY <2>1, <1>5
    <2>3. i - 1 < j - 1
      BY <1>7
    <2>4. i - 1 \in DOMAIN r /\ j - 1 \in DOMAIN r /\ r[i - 1].key = 0
      BY <1>1, <1>7, <2>2
    <2>5. r[j - 1].key = 0
      BY <1>7, <2>3, <2>4 DEF FreeLast
    <2> QED
      BY <2>2, <2>5
  <1>8. ASSUME NEW i \in 1..n, i # n
        PROVE  \E j \in 1..n : t[j] = r[i]
    <2>1. i + 1 \in 1..n /\ i + 1 # 1 /\ (i + 1) - 1 = i
      BY <1>8
    <2> QED
      BY <2>1, <1>3
  <1>9. KeysOnce(t) /\ (FreeLast(r) => FreeLast(t))
    BY <1>2, <1>6, <1>7 DEF KeysOnce, FreeLast
  <1>10. Keeps(r, t, {Len(r)})
    BY <1>1, <1>2, <1>8 DEF Keeps
  <1>11. Takes(r, t, {Len(r)}, e)
    BY <1>1, <1>2, <1>4, <1>5 DEF Takes
  <1> QED
    BY <1>1, <1>2, <1>4, <1>9, <1>10, <1>11

(* One is freed, and moved to the end.                                      *)
LEMMA RingFreed ==
  ASSUME NEW r, IsSeq(r), KeysOnce(r), NEW i \in DOMAIN r, NEW e, e.key = 0,
         NEW t, t = ToTail([r EXCEPT ![i] = e], i)
  PROVE  /\ IsSeq(t) /\ Len(t) = Len(r) /\ DOMAIN t = DOMAIN r /\ t[Len(r)] = e
         /\ KeysOnce(t) /\ (FreeLast(r) => FreeLast(t))
         /\ Keeps(r, t, {i}) /\ Takes(r, t, {i}, e)
  <1>1. PICK n \in Nat : n = Len(r) /\ DOMAIN r = 1..n
    BY SeqOfElements
  <1>2. i \in 1..n /\ n \in 1..n
    BY <1>1
  <1> DEFINE q == [r EXCEPT ![i] = e]
             From(j) == IF j < i THEN j ELSE j + 1
  <1>3. q = [j \in 1..n |-> q[j]] /\ DOMAIN q = 1..n
    BY <1>1
  <1>4. \A j \in 1..n : q[j] = IF j = i THEN e ELSE r[j]
    BY <1>1
  <1>5. t = ToTail(q, i)
    OBVIOUS
  <1> HIDE DEF q
  <1>6. IsSeq(q) /\ Len(q) = n
    BY <1>3, MappedSeq
  <1>7. IsSeq(t) /\ Len(t) = n /\ DOMAIN t = 1..n
    BY <1>2, <1>3, <1>5, <1>6, ToTailSeq
  <1>8. \A j \in 1..n : t[j] = IF j = n THEN q[i] ELSE IF j < i THEN q[j] ELSE q[j + 1]
    <2>1. \A j \in DOMAIN q :
            ToTail(q, i)[j] = IF j = Len(q) THEN q[i] ELSE IF j < i THEN q[j] ELSE q[j + 1]
      BY <1>2, <1>3, <1>6, ToTailSeq, ZenonT(30)
    <2> QED
      BY <2>1, <1>3, <1>5, <1>6
  <1>9. t[n] = e
    BY <1>2, <1>4, <1>8
  <1>10. ASSUME NEW j \in 1..n, j # n
         PROVE  From(j) \in 1..n /\ From(j) # i /\ t[j] = r[From(j)]
    <2>1. From(j) \in 1..n /\ From(j) # i
      BY <1>2, <1>10
    <2>2. t[j] = q[From(j)]
      BY <1>8, <1>10
    <2> HIDE DEF From
    <2> QED
      BY <2>1, <2>2, <1>4
  <1>11. \A j, k \in 1..n : j < k => From(j) < From(k)
    BY <1>2
  <1>12. ASSUME NEW j \in 1..n, NEW k \in 1..n, t[j].key = t[k].key, t[j].key # 0
         PROVE  j = k
    <2>1. j # n /\ k # n
      BY <1>9, <1>12
    <2>2. From(j) = From(k)
      <3>1. /\ From(j) \in 1..n /\ From(k) \in 1..n
            /\ t[j] = r[From(j)] /\ t[k] = r[From(k)]
        BY <2>1, <1>10
      <3> HIDE DEF From
      <3> QED
        BY <3>1, <1>1, <1>12 DEF KeysOnce
    <2> QED
      BY <2>2, <1>2
  <1>13. ASSUME FreeLast(r), NEW j \in 1..n, NEW k \in 1..n, j < k, t[j].key = 0
         PROVE  t[k].key = 0
    <2>1. CASE k = n
      BY <2>1, <1>9
    <2>2. CASE k # n
      <3>1. j # n
        BY <1>13
      <3>2. /\ From(j) \in 1..n /\ From(k) \in 1..n /\ From(j) < From(k)
            /\ t[j] = r[From(j)] /\ t[k] = r[From(k)]
        BY <2>2, <3>1, <1>10, <1>11, <1>13
      <3> HIDE DEF From
      <3> QED
        BY <3>2, <1>1, <1>13 DEF FreeLast
    <2> QED
      BY <2>1, <2>2
  <1>14. ASSUME NEW j \in 1..n, j # i
         PROVE  \E k \in 1..n : t[k] = r[j]
    <2>1. PICK k \in 1..n : k # n /\ From(k) = j
      <3>1. CASE j < i
        BY <3>1, <1>2
      <3>2. CASE ~(j < i)
        <4>1. j - 1 \in 1..n /\ j - 1 # n /\ ~(j - 1 < i) /\ (j - 1) + 1 = j
          BY <3>2, <1>2, <1>14
        <4> QED
          BY <4>1
      <3> QED
        BY <3>1, <3>2
    <2> HIDE DEF From
    <2> QED
      BY <2>1, <1>10
  <1> HIDE DEF From
  <1>15. KeysOnce(t) /\ (FreeLast(r) => FreeLast(t))
    BY <1>7, <1>12, <1>13, ZenonT(30) DEF KeysOnce, FreeLast
  <1>16. Keeps(r, t, {i})
    BY <1>1, <1>7, <1>14 DEF Keeps
  <1>17. Takes(r, t, {i}, e)
    BY <1>1, <1>7, <1>9, <1>10 DEF Takes
  <1> QED
    BY <1>1, <1>7, <1>9, <1>15, <1>16, <1>17

(* One is looked up, and moved to the front.                                *)
LEMMA RingFronted ==
  ASSUME NEW r, IsSeq(r), KeysOnce(r), NEW i \in DOMAIN r, NEW t, t = ToFront(r, i)
  PROVE  /\ IsSeq(t) /\ Len(t) = Len(r) /\ DOMAIN t = DOMAIN r /\ t[1] = r[i]
         /\ KeysOnce(t) /\ (FreeLast(r) /\ r[i].key # 0 => FreeLast(t))
         /\ Keeps(r, t, {}) /\ Takes(r, t, {}, r[i])
  <1>1. PICK n \in Nat : n = Len(r) /\ DOMAIN r = 1..n
    BY SeqOfElements
  <1>2. i \in 1..n /\ 1 \in 1..n
    BY <1>1
  <1> DEFINE From(j) == IF j = 1 THEN i ELSE IF j <= i THEN j - 1 ELSE j
             To(j) == IF j = i THEN 1 ELSE IF j < i THEN j + 1 ELSE j
  <1>3. IsSeq(t) /\ Len(t) = n /\ DOMAIN t = 1..n
    BY <1>1, ToFrontSeq, ZenonT(30)
  <1>4. \A j \in 1..n : t[j] = IF j = 1 THEN r[i] ELSE IF j <= i THEN r[j - 1] ELSE r[j]
    BY <1>1, ToFrontSeq, ZenonT(30)
  <1>5. \A j \in 1..n : From(j) \in 1..n /\ t[j] = r[From(j)]
    BY <1>2, <1>4
  <1>6. \A j, k \in 1..n : From(j) = From(k) => j = k
    BY <1>2
  <1>7. \A j, k \in 1..n : j < k /\ j # 1 => From(j) < From(k)
    BY <1>2
  <1>8. \A j \in 1..n : To(j) \in 1..n /\ From(To(j)) = j
    BY <1>2
  <1>9. t[1] = r[i]
    BY <1>2, <1>4
  <1> HIDE DEF From, To
  <1>10. KeysOnce(t)
    BY <1>1, <1>3, <1>5, <1>6 DEF KeysOnce
  <1>11. ASSUME FreeLast(r), r[i].key # 0, NEW j \in 1..n, NEW k \in 1..n, j < k,
                t[j].key = 0
         PROVE  t[k].key = 0
    <2>1. j # 1
      BY <1>9, <1>11
    <2>2. From(j) < From(k)
      BY <2>1, <1>7, <1>11
    <2> QED
      BY <2>2, <1>1, <1>5, <1>11 DEF FreeLast
  <1>12. Keeps(r, t, {})
    <2>1. \A j \in 1..n : t[To(j)] = r[j] /\ To(j) \in 1..n
      BY <1>5, <1>8
    <2> QED
      BY <2>1, <1>1, <1>3 DEF Keeps
  <1>13. Takes(r, t, {}, r[i])
    BY <1>1, <1>3, <1>5 DEF Takes
  <1> QED
    BY <1>1, <1>3, <1>9, <1>10, <1>11, <1>12, <1>13 DEF FreeLast

(* One changes, but not its key.                                            *)
LEMMA RingUpdated ==
  ASSUME NEW r, IsSeq(r), KeysOnce(r), NEW i \in DOMAIN r, NEW e, e.key = r[i].key,
         NEW t, t = [r EXCEPT ![i] = e]
  PROVE  /\ IsSeq(t) /\ Len(t) = Len(r) /\ DOMAIN t = DOMAIN r /\ t[i] = e
         /\ KeysOnce(t) /\ (FreeLast(r) => FreeLast(t))
         /\ \A j \in DOMAIN r : t[j].key = r[j].key /\ (j # i => t[j] = r[j])
  <1>1. DOMAIN r = 1..Len(r) /\ Len(r) \in Nat
    BY SeqOfElements
  <1>2. t = [j \in 1..Len(r) |-> t[j]] /\ DOMAIN t = DOMAIN r
    BY <1>1
  <1>3. IsSeq(t) /\ Len(t) = Len(r)
    BY <1>1, <1>2, MappedSeq
  <1>4. t[i] = e /\ \A j \in DOMAIN r : t[j].key = r[j].key /\ (j # i => t[j] = r[j])
    OBVIOUS
  <1> QED
    BY <1>2, <1>3, <1>4 DEF KeysOnce, FreeLast

-----------------------------------------------------------------------------
(* Calls that take no search buffer                                        *)

(* Every search keeps its buffer, and free buffers stay behind.             *)
Serves(f, g) ==
  /\ FsOK(g) /\ g.units = f.units
  /\ FreeLast(f.files) => FreeLast(g.files)
  /\ \A k \in Keys : At(f.files, k) # {} => At(g.files, k) # {}
  /\ DOMAIN g.files = DOMAIN f.files /\ \A i \in DOMAIN f.files : Alike(f.files[i], g.files[i])

(* So does the call with the result r, which says that no FCB is free only  *)
(* when none is.                                                            *)
Serving(f, r) ==
  /\ Serves(f, r.fs)
  /\ r.result = "OUTOFMEM" => \A i \in DOMAIN f.fcbs : f.fcbs[i].key # 0

LEMMA LookedUpServes ==
  ASSUME NEW f, NEW g, LookedUp(f, g)
  PROVE  Serves(f, g)
  <1>1. /\ DOMAIN g.files = DOMAIN f.files
        /\ \A i \in DOMAIN f.files : g.files[i].key = f.files[i].key
    BY DEF LookedUp, Alike
  <1>2. FreeLast(f.files) => FreeLast(g.files)
    BY <1>1 DEF FreeLast
  <1>3. \A k \in Keys : At(f.files, k) # {} => At(g.files, k) # {}
    BY <1>1 DEF At
  <1> QED
    BY <1>2, <1>3 DEF LookedUp, Serves

LEMMA ServesNothing ==
  ASSUME NEW f, FsOK(f)
  PROVE  Serves(f, f)
  BY AlikeSame DEF Serves

LEMMA ServesTwice ==
  ASSUME NEW f, NEW g, NEW h, Serves(f, g), Serves(g, h)
  PROVE  Serves(f, h)
  BY AlikeTwice DEF Serves

LEMMA UnitStays ==
  ASSUME NEW f, FsOK(f), NEW u \in DOMAIN f.cache, NEW g, Serves(f, g)
  PROVE  FsOK(g) /\ u \in DOMAIN g.cache
  BY DEF Serves, FsOK

LEMMA OnUnitServing ==
  ASSUME NEW f, FsOK(f), NEW h, NEW u \in Nat, NEW missing, missing # "OUTOFMEM", NEW r,
         u \in DOMAIN f.cache => Serving(f, r)
  PROVE  Serving(f, OnUnit(f, h, u, missing, r))
  <1>1. u < f.units => u \in DOMAIN f.cache
    BY HostAssumption DEF FsOK
  <1>2. Serves(f, f)
    BY ServesNothing
  <1>3. CASE u >= DriveMax
    BY <1>2, <1>3 DEF OnUnit, Ret, Serving
  <1>4. CASE ~(u >= DriveMax) /\ u >= f.units
    <2>1. u < DriveMax
      BY <1>4, HostAssumption
    <2> QED
      BY <2>1, <1>2, <1>4 DEF OnUnit, Ret, Serving
  <1>5. CASE ~(u >= DriveMax) /\ ~(u >= f.units)
    <2>1. u < f.units
      BY <1>5 DEF FsOK
    <2>2. OnUnit(f, h, u, missing, r) = r
      BY <1>5 DEF OnUnit
    <2> QED
      BY <2>1, <2>2, <1>1
  <1> QED
    BY <1>3, <1>4, <1>5

LEMMA FcbsChanged ==
  ASSUME NEW f, FsOK(f), NEW g, IsFs(g), g.units = f.units, g.cache = f.cache,
         g.files = f.files, FcbRing(g.fcbs), Len(g.fcbs) = Len(f.fcbs)
  PROVE  Serves(f, g)
  BY AlikeSame DEF FsOK, Sized, Serves

LEMMA SearchedFacts ==
  ASSUME NEW ring, IsSeq(ring), NEW k, At(ring, k) # {}
  PROVE  \E i \in At(ring, k) : Searched(ring, k) = ToFront(ring, i)
  <1> DEFINE i == CHOOSE j \in At(ring, k) : \A l \in At(ring, k) : j <= l
  <1>1. At(ring, k) \subseteq Nat
    BY SeqOfElements DEF At
  <1>2. \E j \in At(ring, k) : \A l \in At(ring, k) : j <= l
    BY <1>1, Smallest
  <1>3. i \in At(ring, k)
    BY <1>2
  <1>4. Searched(ring, k) = ToFront(ring, i)
    BY DEF Searched
  <1> QED
    BY <1>3, <1>4

LEMMA FcbSearchFacts ==
  ASSUME NEW f, FsOK(f), NEW k \in Keys, At(f.fcbs, k) # {}
  PROVE  LET g == FcbSearch(f, k)
         IN Serves(f, g) /\ 1 \in DOMAIN g.fcbs /\ IsFcb(g.fcbs[1]) /\ g.cache = f.cache
  <1> DEFINE g == FcbSearch(f, k)
             r == f.fcbs
  <1>1. IsSeq(r) /\ KeysOnce(r) /\ FreeLast(r) /\ \A i \in DOMAIN r : IsFcb(r[i])
    BY DEF FsOK, FcbRing
  <1>2. PICK i \in At(r, k) : Searched(r, k) = ToFront(r, i)
    BY <1>1, SearchedFacts
  <1>3. i \in DOMAIN r /\ r[i].key # 0
    BY <1>2, HostAssumption DEF At
  <1>4. /\ IsFs(g) /\ g.fcbs = ToFront(r, i)
        /\ g.units = f.units /\ g.cache = f.cache /\ g.files = f.files
    BY <1>2 DEF FcbSearch, FsOK, IsFs, FsFields
  <1> HIDE DEF g
  <1>5. /\ IsSeq(g.fcbs) /\ Len(g.fcbs) = Len(r) /\ DOMAIN g.fcbs = DOMAIN r
        /\ KeysOnce(g.fcbs) /\ FreeLast(g.fcbs) /\ g.fcbs[1] = r[i]
        /\ Takes(r, g.fcbs, {}, r[i])
    BY <1>1, <1>3, <1>4, RingFronted
  <1>6. \A j \in DOMAIN g.fcbs : IsFcb(g.fcbs[j])
    BY <1>1, <1>3, <1>5 DEF Takes
  <1>7. 1 \in DOMAIN g.fcbs
    BY <1>1, <1>3, <1>5, SeqOfElements
  <1>8. Serves(f, g)
    BY <1>4, <1>5, <1>6, FcbsChanged DEF FcbRing
  <1> QED
    BY <1>4, <1>6, <1>7, <1>8 DEF g

LEMMA FcbFreeFacts ==
  ASSUME NEW f, FsOK(f), 1 \in DOMAIN f.fcbs, NEW h, NEW code
  PROVE  LET r == FcbFree(f, h, code)
         IN Serves(f, r.fs) /\ r.result = code /\ r.fs.cache = f.cache
  <1> DEFINE e == [NoFcb EXCEPT !.update = Head(f.fcbs).update]
             r == f.fcbs
             t == ToTail([r EXCEPT ![1] = e], 1)
             g == [f EXCEPT !.fcbs = t]
  <1>1. FcbFree(f, h, code).fs = g /\ FcbFree(f, h, code).result = code
    BY DEF FcbFree, Ret
  <1>2. IsSeq(r) /\ KeysOnce(r) /\ FreeLast(r) /\ \A i \in DOMAIN r : IsFcb(r[i])
    BY DEF FsOK, FcbRing
  <1>3. IsFcb(e) /\ e.key = 0
    BY DEF IsFcb, FcbFields, NoFcb
  <1> HIDE DEF e
  <1>4. /\ IsSeq(t) /\ Len(t) = Len(r) /\ DOMAIN t = DOMAIN r
        /\ KeysOnce(t) /\ FreeLast(t) /\ Takes(r, t, {1}, e)
    BY <1>2, <1>3, RingFreed
  <1> HIDE DEF t
  <1>5. FcbRing(t)
    BY <1>2, <1>3, <1>4 DEF FcbRing, Takes
  <1>6. /\ IsFs(g) /\ g.fcbs = t
        /\ g.units = f.units /\ g.cache = f.cache /\ g.files = f.files
    BY DEF FsOK, IsFs, FsFields
  <1> HIDE DEF g
  <1>7. Serves(f, g)
    BY <1>4, <1>5, <1>6, FcbsChanged
  <1> QED
    BY <1>1, <1>6, <1>7

LEMMA FcbTaken ==
  ASSUME NEW r, FcbRing(r), Len(r) > 0, NEW e, IsFcb(e), e.key # 0, At(r, e.key) = {},
         NEW t, t = TakeLast(r, e)
  PROVE  FcbRing(t) /\ Len(t) = Len(r) /\ 1 \in DOMAIN t /\ t[1] = e
  <1>1. IsSeq(r) /\ KeysOnce(r) /\ FreeLast(r) /\ \A i \in DOMAIN r : IsFcb(r[i])
    BY DEF FcbRing
  <1>2. /\ IsSeq(t) /\ Len(t) = Len(r) /\ DOMAIN t = DOMAIN r /\ t[1] = e
        /\ KeysOnce(t) /\ FreeLast(t) /\ Takes(r, t, {Len(r)}, e)
    BY <1>1, RingTaken
  <1>3. 1 \in DOMAIN t
    BY <1>1, <1>2, SeqOfElements
  <1> QED
    BY <1>1, <1>2, <1>3 DEF FcbRing, Takes

LEMMA FcbAllocFacts ==
  ASSUME NEW f, FsOK(f), Len(f.fcbs) > 0, NEW c, IsFcb(c), c.key # 0, At(f.fcbs, c.key) = {}
  PROVE  LET g == FcbAlloc(f, c)
         IN Serves(f, g) /\ 1 \in DOMAIN g.fcbs /\ IsFcb(g.fcbs[1])
  <1>1. PICK e : e = [c EXCEPT !.update = Last(f.fcbs).update]
    OBVIOUS
  <1>2. IsFcb(e) /\ e.key = c.key
    BY <1>1 DEF IsFcb, FcbFields
  <1> DEFINE g == FcbAlloc(f, c)
  <1>3. /\ IsFs(g) /\ g.fcbs = TakeLast(f.fcbs, e)
        /\ g.units = f.units /\ g.cache = f.cache /\ g.files = f.files
    BY <1>1 DEF FcbAlloc, FsOK, IsFs, FsFields
  <1> HIDE DEF g
  <1>4. FcbRing(f.fcbs) /\ e.key # 0 /\ At(f.fcbs, e.key) = {}
    BY <1>2 DEF FsOK
  <1>5. FcbRing(g.fcbs) /\ Len(g.fcbs) = Len(f.fcbs) /\ 1 \in DOMAIN g.fcbs /\ g.fcbs[1] = e
    <2>1. Len(f.fcbs) > 0
      OBVIOUS
    <2> DEFINE r == f.fcbs
               t == g.fcbs
    <2>2. FcbRing(r) /\ Len(r) > 0 /\ IsFcb(e) /\ e.key # 0 /\ At(r, e.key) = {}
      BY <1>2, <1>4
    <2>3. t = TakeLast(r, e)
      BY <1>3
    <2> HIDE DEF r, t
    <2>4. FcbRing(t) /\ Len(t) = Len(r) /\ 1 \in DOMAIN t /\ t[1] = e
      BY <2>2, <2>3, FcbTaken
    <2> QED
      BY <2>4 DEF r, t
  <1>6. Serves(f, g)
    BY <1>3, <1>5, FcbsChanged
  <1> QED
    BY <1>2, <1>5, <1>6 DEF g

(* The first FCB changes, but not its key.                                  *)
LEMMA FcbUpdated ==
  ASSUME NEW f, FsOK(f), 1 \in DOMAIN f.fcbs, NEW c, IsFcb(c), c.key = f.fcbs[1].key
  PROVE  LET g == [f EXCEPT !.fcbs[1] = c]
         IN Serves(f, g) /\ 1 \in DOMAIN g.fcbs /\ g.cache = f.cache
  <1> DEFINE r == f.fcbs
             t == [r EXCEPT ![1] = c]
             g == [f EXCEPT !.fcbs[1] = c]
  <1>1. IsSeq(r) /\ KeysOnce(r) /\ FreeLast(r) /\ \A i \in DOMAIN r : IsFcb(r[i])
    BY DEF FsOK, FcbRing
  <1>2. /\ IsFs(g) /\ g.fcbs = t
        /\ g.units = f.units /\ g.cache = f.cache /\ g.files = f.files
    BY DEF FsOK, IsFs, FsFields
  <1> HIDE DEF g
  <1>3. /\ IsSeq(t) /\ Len(t) = Len(r) /\ DOMAIN t = DOMAIN r /\ t[1] = c
        /\ KeysOnce(t) /\ FreeLast(t) /\ \A j \in DOMAIN r : j # 1 => t[j] = r[j]
    BY <1>1, RingUpdated
  <1> HIDE DEF t
  <1>4. FcbRing(t)
    BY <1>1, <1>3 DEF FcbRing
  <1>5. Serves(f, g)
    BY <1>2, <1>3, <1>4, FcbsChanged
  <1> QED
    BY <1>2, <1>3, <1>5 DEF g

(* All FCBs may change, but not their keys.                                 *)
LEMMA FcbsMapped ==
  ASSUME NEW f, FsOK(f), NEW g, IsFs(g), g.units = f.units, g.cache = f.cache,
         g.files = f.files, g.fcbs = [i \in DOMAIN f.fcbs |-> g.fcbs[i]],
         \A i \in DOMAIN f.fcbs : IsFcb(g.fcbs[i]) /\ g.fcbs[i].key = f.fcbs[i].key
  PROVE  Serves(f, g)
  <1> DEFINE r == f.fcbs
             t == g.fcbs
  <1>1. DOMAIN r = 1..Len(r) /\ Len(r) \in Nat
    BY SeqOfElements DEF FsOK, FcbRing
  <1>2. IsSeq(t) /\ Len(t) = Len(r) /\ DOMAIN t = DOMAIN r
    BY <1>1, MappedSeq
  <1>3. KeysOnce(r) /\ FreeLast(r)
    BY DEF FsOK, FcbRing
  <1>6. DOMAIN t = DOMAIN r /\ \A i \in DOMAIN r : IsFcb(t[i]) /\ t[i].key = r[i].key
    BY <1>2
  <1> HIDE DEF r, t
  <1>4. KeysOnce(t) /\ FreeLast(t)
    BY <1>3, <1>6 DEF KeysOnce, FreeLast
  <1>5. FcbRing(t)
    BY <1>2, <1>4, <1>6 DEF FcbRing
  <1> QED
    BY <1>2, <1>5, FcbsChanged DEF r, t

LEMMA SetOptionFacts ==
  ASSUME NEW f, FsOK(f), NEW option
  PROVE  Serves(f, SetOption(f, option))
  <1> DEFINE c == [u \in DOMAIN f.cache |-> Released(f.cache[u], Paths(f.cache[u]))]
             g == SetOption(f, option)
  <1>1. /\ IsFs(g) /\ g.cache \in {c, f.cache}
        /\ g.units = f.units /\ g.files = f.files /\ g.fcbs = f.fcbs
    BY DEF SetOption, FsOK, IsFs, FsFields
  <1>2. DOMAIN c = DOMAIN f.cache /\ \A u \in DOMAIN f.cache : PathRing(c[u])
    BY ReleasedPaths DEF FsOK
  <1> HIDE DEF c, g
  <1>3. DOMAIN g.cache = DOMAIN f.cache /\ \A u \in DOMAIN f.cache : PathRing(g.cache[u])
    BY <1>1, <1>2 DEF FsOK
  <1>4. FsOK(g)
    BY <1>1, <1>3 DEF FsOK, Sized
  <1> QED
    BY <1>1, <1>4, AlikeSame DEF Serves, g

LEMMA FindFileFacts ==
  ASSUME NEW f, FsOK(f), NEW u \in DOMAIN f.cache, NEW h, NEW d \in Seq(Names), NEW n, NEW attr
  PROVE  LookedUp(f, FindFile(f, h, u, d, n, attr).f)
  <1> DEFINE a == Find(f, u, h[u], d)
  <1>1. LookedUp(f, a.f)
    BY FindFacts DEF Standing
  <1>2. FindFile(f, h, u, d, n, attr).f = a.f
    BY DEF FindFile
  <1> QED
    BY <1>1, <1>2

(* The state and the result of a call in its two parts.                     *)
LEMMA RetServing ==
  ASSUME NEW f, NEW g, Serves(f, g), NEW h, NEW code, code # "OUTOFMEM"
  PROVE  Serving(f, Ret(g, h, code))
  BY DEF Serving, Ret

LEMMA FreeServing ==
  ASSUME NEW f, NEW g, Serves(f, g), 1 \in DOMAIN g.fcbs, NEW h, NEW code, code # "OUTOFMEM"
  PROVE  Serving(f, FcbFree(g, h, code))
  <1>1. FsOK(g)
    BY DEF Serves
  <1>2. Serves(g, FcbFree(g, h, code).fs) /\ FcbFree(g, h, code).result = code
    BY <1>1, FcbFreeFacts
  <1>3. Serves(f, FcbFree(g, h, code).fs)
    BY <1>2, ServesTwice
  <1> QED
    BY <1>2, <1>3 DEF Serving

(* A lookup, or a release of the cache, behind what a call has done.        *)
LEMMA ServesLooked ==
  ASSUME NEW f, NEW g, Serves(f, g), NEW h, LookedUp(g, h)
  PROVE  Serves(f, h)
  BY LookedUpServes, ServesTwice

LEMMA CleanServes ==
  ASSUME NEW f, FsOK(f), NEW u \in DOMAIN f.cache, NEW g, Serves(f, g), NEW p
  PROVE  Serves(f, CleanCache(g, u, p)) /\ Serves(f, CleanCacheChild(g, u, p))
  <1>1. FsOK(g) /\ u \in DOMAIN g.cache
    BY UnitStays
  <1>2. LookedUp(g, CleanCache(g, u, p)) /\ LookedUp(g, CleanCacheChild(g, u, p))
    BY <1>1, ReleasedFacts
  <1> QED
    BY <1>2, ServesLooked

LEMMA FindServes ==
  ASSUME NEW f, FsOK(f), NEW u \in DOMAIN f.cache, NEW g, Serves(f, g), NEW h,
         NEW d \in Seq(Names), NEW n, NEW attr
  PROVE  Serves(f, Find(g, u, h[u], d).f) /\ Serves(f, FindFile(g, h, u, d, n, attr).f)
  <1>1. FsOK(g) /\ u \in DOMAIN g.cache
    BY UnitStays
  <1>2. LookedUp(g, Find(g, u, h[u], d).f)
    BY <1>1, FindFacts DEF Standing
  <1>3. LookedUp(g, FindFile(g, h, u, d, n, attr).f)
    BY <1>1, FindFileFacts
  <1> QED
    BY <1>2, <1>3, ServesLooked

LEMMA CheckDirServing ==
  ASSUME NEW f, FsOK(f), NEW h, NEW u \in Nat, NEW d \in Seq(Names)
  PROVE  Serving(f, CheckDir(f, h, u, d))
  <1> DEFINE a == Find(f, u, h[u], d)
             r == IF d = Root THEN Ret(f, h, "OK")
                  ELSE Ret(a.f, h, IF a.ok THEN "OK" ELSE "DIRNOTFND")
  <1>1. CheckDir(f, h, u, d) = OnUnit(f, h, u, "INVALIDFUNC", r)
    BY DEF CheckDir
  <1>2. ASSUME u \in DOMAIN f.cache
        PROVE  Serving(f, r)
    <2>1. Serves(f, f)
      BY ServesNothing
    <2>2. Serves(f, a.f)
      BY <1>2, <2>1, FindServes
    <2> HIDE DEF a
    <2> QED
      BY <2>1, <2>2, RetServing
  <1> HIDE DEF r
  <1> QED
    BY <1>1, <1>2, OnUnitServing

LEMMA MakeDirServing ==
  ASSUME NEW f, FsOK(f), NEW h, NEW u \in Nat, NEW d \in Seq(Names), NEW n
  PROVE  Serving(f, MakeDir(f, h, u, d, n))
  <1> DEFINE a == Find(f, u, h[u], d)
             r == IF a.ok /\ CanMake(h, u, d, n)
                  THEN Ret(CleanCache(a.f, u, d), Made(h, u, d, n), "OK")
                  ELSE Ret(a.f, h, "INVALIDPATH")
  <1>1. MakeDir(f, h, u, d, n) = OnUnit(f, h, u, "MEDIAOFFLINE", r)
    BY DEF MakeDir
  <1>2. ASSUME u \in DOMAIN f.cache
        PROVE  Serving(f, r)
    <2>1. Serves(f, a.f)
      BY <1>2, ServesNothing, FindServes
    <2> HIDE DEF a
    <2>2. Serves(f, CleanCache(a.f, u, d))
      BY <1>2, <2>1, CleanServes
    <2> QED
      BY <2>1, <2>2, RetServing
  <1> HIDE DEF r
  <1> QED
    BY <1>1, <1>2, OnUnitServing

LEMMA RemoveDirServing ==
  ASSUME NEW f, FsOK(f), NEW h, NEW u \in Nat, NEW d \in Seq(Names), NEW n
  PROVE  Serving(f, RemoveDir(f, h, u, d, n))
  <1> DEFINE q == Append(d, n)
             empty == q \in DOMAIN h[u] /\ IsDir(h[u], q) /\ Contents(h[u], q) = {}
             a == FindFile(f, h, u, d, n, "dir")
             g == DeleteCache(a.f, u, q)
             r == IF a.ok THEN IF empty THEN Ret(CleanCache(g, u, d), Drop(h, u, q), "OK")
                               ELSE Ret(g, h, "CANTDELETE")
                  ELSE Ret(a.f, h, "DIRNOTFND")
  <1>1. RemoveDir(f, h, u, d, n) = OnUnit(f, h, u, "MEDIAOFFLINE", r)
    BY DEF RemoveDir
  <1>2. ASSUME u \in DOMAIN f.cache
        PROVE  Serving(f, r)
    <2>1. Serves(f, a.f)
      BY <1>2, ServesNothing, FindServes
    <2>2. FsOK(a.f) /\ u \in DOMAIN a.f.cache
      BY <1>2, <2>1, UnitStays
    <2>3. Serves(f, g)
      BY <2>1, <2>2, DeleteCacheFacts, ServesLooked
    <2> HIDE DEF a, g, empty, q
    <2>4. Serves(f, CleanCache(g, u, d))
      BY <1>2, <2>3, CleanServes
    <2> QED
      BY <2>1, <2>3, <2>4, RetServing
  <1> HIDE DEF r
  <1> QED
    BY <1>1, <1>2, OnUnitServing

(* The open files when a file is deleted, and when a path is renamed.       *)
LEMMA UnlinkedServes ==
  ASSUME NEW f, FsOK(f), NEW u, NEW q
  PROVE  Serves(f, Unlinked(f, u, q))
  <1> DEFINE g == Unlinked(f, u, q)
             c(i) == f.fcbs[i]
             e(i) == IF c(i).unit = u /\ c(i).file = q THEN [c(i) EXCEPT !.file = Root] ELSE c(i)
  <1>1. /\ IsFs(g) /\ g.fcbs = [i \in DOMAIN f.fcbs |-> e(i)]
        /\ g.units = f.units /\ g.cache = f.cache /\ g.files = f.files
    BY DEF Unlinked, FsOK, IsFs, FsFields
  <1>2. ASSUME NEW i \in DOMAIN f.fcbs
        PROVE  IsFcb(e(i)) /\ e(i).key = f.fcbs[i].key
    <2>1. IsFcb(f.fcbs[i])
      BY DEF FsOK, FcbRing
    <2> QED
      BY <2>1 DEF IsFcb, FcbFields
  <1> HIDE DEF e, g
  <1>3. g.fcbs = [i \in DOMAIN f.fcbs |-> g.fcbs[i]]
    BY <1>1
  <1>4. \A i \in DOMAIN f.fcbs : IsFcb(g.fcbs[i]) /\ g.fcbs[i].key = f.fcbs[i].key
    BY <1>1, <1>2
  <1>5. Serves(f, g)
    BY <1>1, <1>3, <1>4, FcbsMapped
  <1> QED
    BY <1>5 DEF g

LEMMA FollowedServes ==
  ASSUME NEW f, FsOK(f), NEW u, NEW from, NEW to
  PROVE  Serves(f, Followed(f, u, from, to))
  <1> DEFINE g == Followed(f, u, from, to)
             t == [i \in DOMAIN f.fcbs |->
                     IF f.fcbs[i].unit = u /\ f.fcbs[i].file # Root /\ IsPrefix(from, f.fcbs[i].file)
                     THEN [f.fcbs[i] EXCEPT !.file = to \o Below(from, @)] ELSE f.fcbs[i]]
  <1>1. g = [f EXCEPT !.fcbs = t]
    BY DEF Followed
  <1>2. ASSUME NEW i \in DOMAIN f.fcbs
        PROVE  IsFcb(t[i]) /\ t[i].key = f.fcbs[i].key
    <2>1. IsFcb(f.fcbs[i])
      BY DEF FsOK, FcbRing
    <2>2. PICK x : t[i] = f.fcbs[i] \/ t[i] = [f.fcbs[i] EXCEPT !.file = x]
      OBVIOUS
    <2> HIDE DEF t
    <2> QED
      BY <2>1, <2>2 DEF IsFcb, FcbFields
  <1>3. t = [i \in DOMAIN f.fcbs |-> t[i]]
    OBVIOUS
  <1> HIDE DEF t
  <1>4. /\ IsFs(g) /\ g.fcbs = t
        /\ g.units = f.units /\ g.cache = f.cache /\ g.files = f.files
    BY <1>1 DEF FsOK, IsFs, FsFields
  <1> HIDE DEF g
  <1>5. Serves(f, g)
    BY <1>2, <1>3, <1>4, FcbsMapped
  <1> QED
    BY <1>5 DEF g

(* Paths are marked in the cache.                                           *)
LEMMA MarkedServes ==
  ASSUME NEW f, FsOK(f), NEW u \in DOMAIN f.cache, NEW stale
  PROVE  Serves(f, [f EXCEPT !.cache[u] =
                      [i \in DOMAIN @ |-> IF @[i].path \in stale THEN [@[i] EXCEPT !.kept = TRUE]
                                          ELSE @[i]]])
  <1> DEFINE r == f.cache[u]
             t == [i \in DOMAIN r |-> IF r[i].path \in stale THEN [r[i] EXCEPT !.kept = TRUE] ELSE r[i]]
             g == [f EXCEPT !.cache[u] =
                     [i \in DOMAIN @ |-> IF @[i].path \in stale THEN [@[i] EXCEPT !.kept = TRUE]
                                         ELSE @[i]]]
  <1>1. PathRing(r)
    BY DEF FsOK
  <1>2. ASSUME NEW i \in DOMAIN r
        PROVE  IsPath(t[i]) /\ t[i].path = r[i].path
    <2>1. IsPath(r[i])
      BY <1>1 DEF PathRing
    <2> QED
      BY <2>1 DEF IsPath, PathFields
  <1>3. t = [i \in DOMAIN r |-> t[i]]
    OBVIOUS
  <1>4. /\ IsFs(g) /\ g.cache = [f.cache EXCEPT ![u] = t]
        /\ g.units = f.units /\ g.option = f.option /\ g.files = f.files /\ g.fcbs = f.fcbs
    BY DEF FsOK, IsFs, FsFields
  <1> HIDE DEF r, t, g
  <1>5. PathRing(t)
    BY <1>1, <1>2, <1>3, PathMarked
  <1>6. LookedUp(f, g)
    BY <1>4, <1>5, RingChanged
  <1> QED
    BY <1>6, LookedUpServes DEF g

LEMMA UnlistedServes ==
  ASSUME NEW f, FsOK(f), NEW u \in DOMAIN f.cache, NEW from, NEW to, NEW stale
  PROVE  Serves(f, [Followed(Unlinked(f, u, to), u, from, to) EXCEPT !.cache[u] =
                      [i \in DOMAIN @ |-> IF @[i].path \in stale THEN [@[i] EXCEPT !.kept = TRUE]
                                          ELSE @[i]]])
  <1> DEFINE a == Unlinked(f, u, to)
             b == Followed(a, u, from, to)
  <1>1. Serves(f, a)
    BY UnlinkedServes
  <1>2. FsOK(a) /\ u \in DOMAIN a.cache
    BY <1>1, UnitStays
  <1>3. Serves(a, b)
    BY <1>2, FollowedServes
  <1>4. FsOK(b) /\ u \in DOMAIN b.cache
    BY <1>2, <1>3, UnitStays
  <1>5. Serves(f, b)
    BY <1>1, <1>3, ServesTwice
  <1> HIDE DEF a, b
  <1>6. Serves(b, [b EXCEPT !.cache[u] =
                     [i \in DOMAIN @ |-> IF @[i].path \in stale THEN [@[i] EXCEPT !.kept = TRUE]
                                         ELSE @[i]]])
    BY <1>4, MarkedServes
  <1>7. Serves(f, [b EXCEPT !.cache[u] =
                     [i \in DOMAIN @ |-> IF @[i].path \in stale THEN [@[i] EXCEPT !.kept = TRUE]
                                         ELSE @[i]]])
    BY <1>5, <1>6, ServesTwice
  <1> QED
    BY <1>7 DEF a, b

LEMMA RenameServing ==
  ASSUME NEW f, FsOK(f), NEW h, NEW u \in Nat, NEW d \in Seq(Names), NEW n,
         NEW dNew \in Seq(Names), NEW nNew
  PROVE  Serving(f, Rename(f, h, u, d, n, dNew, nNew))
  <1> DEFINE from == Append(d, n)
             to == Append(dNew, nNew)
             Stale(dir, g) ==
               {q \in Paths(g.cache[u]) : IsPrefix(to, q) \/ (~dir /\ IsPrefix(from, q))}
             Unlisted(dir, g) ==
               IF from = to THEN g
               ELSE [Followed(Unlinked(g, u, to), u, from, to) EXCEPT !.cache[u] =
                       [i \in DOMAIN @ |->
                          IF @[i].path \in Stale(dir, g) THEN [@[i] EXCEPT !.kept = TRUE] ELSE @[i]]]
             Renaming(dir, g) ==
               IF ~CanRename(h[u], from, to) THEN Ret(g, h, "FILENOTFND")
               ELSE Ret(CleanCache(CleanCache(Unlisted(dir, g), u, d), u, dNew), Renamed(h, u, from, to), "OK")
             a == FindFile(f, h, u, d, n, "all")
             b == Find(a.f, u, h[u], dNew)
             c == IF a.dir THEN CleanCacheChild(b.f, u, d) ELSE b.f
             r == IF a.ok THEN IF ~b.ok THEN Ret(b.f, h, "INVALIDPATH") ELSE Renaming(a.dir, c)
                  ELSE Ret(a.f, h, "FILENOTFND")
  <1>1. Rename(f, h, u, d, n, dNew, nNew) = OnUnit(f, h, u, "MEDIAOFFLINE", r)
    BY DEF Rename
  <1>2. ASSUME u \in DOMAIN f.cache, NEW dir, NEW g, Serves(f, g)
        PROVE  Serving(f, Renaming(dir, g))
    <2>1. FsOK(g) /\ u \in DOMAIN g.cache
      BY <1>2, UnitStays
    <2>2. Serves(g, Unlisted(dir, g))
      <3>1. CASE from = to
        BY <2>1, <3>1, ServesNothing
      <3>2. CASE from # to
        <4> DEFINE stale == Stale(dir, g)
                   x == [Followed(Unlinked(g, u, to), u, from, to) EXCEPT !.cache[u] =
                           [i \in DOMAIN @ |->
                              IF @[i].path \in stale THEN [@[i] EXCEPT !.kept = TRUE] ELSE @[i]]]
        <4> HIDE DEF from, to, Stale
        <4>1. Serves(g, x)
          BY <2>1, UnlistedServes
        <4>2. Unlisted(dir, g) = x
          BY <3>2
        <4> HIDE DEF x, Unlisted
        <4> QED
          BY <4>1, <4>2
      <3> QED
        BY <3>1, <3>2
    <2> HIDE DEF Unlisted
    <2>3. Serves(f, Unlisted(dir, g))
      BY <1>2, <2>2, ServesTwice
    <2>4. Serves(f, CleanCache(Unlisted(dir, g), u, d))
      BY <1>2, <2>3, CleanServes
    <2>5. Serves(f, CleanCache(CleanCache(Unlisted(dir, g), u, d), u, dNew))
      BY <1>2, <2>4, CleanServes
    <2> QED
      BY <1>2, <2>5, RetServing
  <1>3. ASSUME u \in DOMAIN f.cache
        PROVE  Serving(f, r)
    <2>1. Serves(f, a.f)
      BY <1>3, ServesNothing, FindServes
    <2> HIDE DEF a
    <2>2. Serves(f, b.f)
      BY <1>3, <2>1, FindServes
    <2> HIDE DEF b
    <2>3. Serves(f, c)
      BY <1>3, <2>2, CleanServes
    <2> HIDE DEF c
    <2>4. Serving(f, Renaming(a.dir, c))
      BY <1>2, <1>3, <2>3
    <2> HIDE DEF Renaming
    <2> QED
      BY <2>1, <2>2, <2>4, RetServing
  <1> HIDE DEF r
  <1> QED
    BY <1>1, <1>3, OnUnitServing

LEMMA DeleteServing ==
  ASSUME NEW f, FsOK(f), NEW h, NEW u \in Nat, NEW d \in Seq(Names), NEW n
  PROVE  Serving(f, Delete(f, h, u, d, n))
  <1> DEFINE q == Append(d, n)
             a == FindFile(f, h, u, d, n, "file")
             there == q \in DOMAIN h[u] /\ ~h[u][q].dir
             g == Unlinked(a.f, u, q)
             r == IF ~a.ok THEN Ret(a.f, h, "FILENOTFND")
                  ELSE IF ~there THEN Ret(a.f, h, "CANTDELETE")
                  ELSE Ret(CleanCache(g, u, d), Drop(h, u, q), "OK")
  <1>1. Delete(f, h, u, d, n) = OnUnit(f, h, u, "MEDIAOFFLINE", r)
    BY DEF Delete
  <1>2. ASSUME u \in DOMAIN f.cache
        PROVE  Serving(f, r)
    <2>1. Serves(f, a.f)
      BY <1>2, ServesNothing, FindServes
    <2> HIDE DEF a, there, q
    <2>2. Serves(a.f, g)
      BY <1>2, <2>1, UnitStays, UnlinkedServes
    <2>3. Serves(f, g)
      BY <2>1, <2>2, ServesTwice
    <2> HIDE DEF g
    <2>4. Serves(f, CleanCache(g, u, d))
      BY <1>2, <2>3, CleanServes
    <2> QED
      BY <2>1, <2>4, RetServing
  <1> HIDE DEF r
  <1> QED
    BY <1>1, <1>2, OnUnitServing

LEMMA AttributeServing ==
  ASSUME NEW f, FsOK(f), NEW h, NEW u \in Nat, NEW d \in Seq(Names), NEW n, NEW attr
  PROVE  Serving(f, Attribute(f, h, u, d, n, attr))
  <1> DEFINE a == FindFile(f, h, u, d, n, "all")
             g == CleanCache(a.f, u, d)
             h1 == IF attr = "same" THEN h ELSE Touch(h, u, Append(d, n))
             b == FindFile(g, h1, u, d, n, "all")
             r == IF ~a.ok THEN Ret(a.f, h, "FILENOTFND")
                  ELSE IF attr = "get" THEN Ret(a.f, h, "OK")
                  ELSE IF attr = "volume" THEN Ret(a.f, h, "CANTACCESS")
                  ELSE IF attr = "set" /\ ~Exists(h[u], Append(d, n)) THEN Ret(a.f, h, "FILENOTFND")
                  ELSE Ret(b.f, h1, IF b.ok THEN "OK" ELSE "FILENOTFND")
  <1>1. Attribute(f, h, u, d, n, attr) = OnUnit(f, h, u, "MEDIAOFFLINE", r)
    BY DEF Attribute
  <1>2. ASSUME u \in DOMAIN f.cache
        PROVE  Serving(f, r)
    <2>1. Serves(f, a.f)
      BY <1>2, ServesNothing, FindServes
    <2> HIDE DEF a, h1
    <2>2. Serves(f, g)
      BY <1>2, <2>1, CleanServes
    <2> HIDE DEF g
    <2>3. Serves(f, b.f)
      BY <1>2, <2>2, FindServes
    <2> HIDE DEF b
    <2> QED
      BY <2>1, <2>3, RetServing
  <1> HIDE DEF r
  <1> QED
    BY <1>1, <1>2, OnUnitServing

(* The open files.                                                          *)
LEMMA RingsThere ==
  ASSUME NEW f, FsOK(f), NEW u \in DOMAIN f.cache
  PROVE  Len(f.files) = FilesMax /\ Len(f.files) > 0 /\ Len(f.fcbs) > 0
  <1>1. f.units # 0
    BY DEF FsOK
  <1> QED
    BY <1>1, HostAssumption DEF FsOK, Sized

LEMMA AllUsed ==
  ASSUME NEW r, IsSeq(r), FreeLast(r), Len(r) > 0, Last(r).key # 0
  PROVE  \A i \in DOMAIN r : r[i].key # 0
  <1>1. PICK n \in Nat : n = Len(r) /\ n > 0 /\ DOMAIN r = 1..n
    BY SeqOfElements
  <1>2. r[n].key # 0
    BY <1>1 DEF Last
  <1>3. \A i \in 1..n : i < n \/ i = n
    BY <1>1
  <1>4. n \in 1..n
    BY <1>1
  <1> QED
    BY <1>1, <1>2, <1>3, <1>4 DEF FreeLast

LEMMA AllocServes ==
  ASSUME NEW f, FsOK(f), NEW u \in DOMAIN f.cache, NEW g, LookedUp(f, g),
         NEW c, IsFcb(c), c.key # 0, At(f.fcbs, c.key) = {}
  PROVE  /\ Serves(f, FcbAlloc(g, c)) /\ 1 \in DOMAIN FcbAlloc(g, c).fcbs
         /\ IsFcb(FcbAlloc(g, c).fcbs[1])
  <1>1. FsOK(g) /\ g.fcbs = f.fcbs
    BY DEF LookedUp
  <1>2. Len(g.fcbs) > 0 /\ At(g.fcbs, c.key) = {}
    BY <1>1, RingsThere
  <1>3. Serves(g, FcbAlloc(g, c)) /\ 1 \in DOMAIN FcbAlloc(g, c).fcbs
        /\ IsFcb(FcbAlloc(g, c).fcbs[1])
    BY <1>1, <1>2, FcbAllocFacts
  <1> QED
    BY <1>3, LookedUpServes, ServesTwice

(* The first FCB is changed, but not its key.                               *)
LEMMA FirstServes ==
  ASSUME NEW f, NEW g, Serves(f, g), 1 \in DOMAIN g.fcbs, NEW c, IsFcb(c), c.key = g.fcbs[1].key
  PROVE  LET x == [g EXCEPT !.fcbs[1] = c]
         IN Serves(f, x) /\ 1 \in DOMAIN x.fcbs
  <1>1. FsOK(g)
    BY DEF Serves
  <1> DEFINE x == [g EXCEPT !.fcbs[1] = c]
  <1>2. Serves(g, x) /\ 1 \in DOMAIN x.fcbs
    BY <1>1, FcbUpdated
  <1> HIDE DEF x
  <1>3. Serves(f, x)
    BY <1>2, ServesTwice
  <1> QED
    BY <1>2, <1>3 DEF x

(* No FCB is free: that is what OUTOFMEM says.                              *)
LEMMA FullServing ==
  ASSUME NEW f, FsOK(f), NEW u \in DOMAIN f.cache, NEW g, LookedUp(f, g),
         Last(g.fcbs).key # 0, NEW h
  PROVE  Serving(f, Ret(g, h, "OUTOFMEM"))
  <1>1. Serves(f, g)
    BY LookedUpServes
  <1>2. g.fcbs = f.fcbs /\ FcbRing(f.fcbs) /\ Len(f.fcbs) > 0
    BY RingsThere DEF LookedUp, FsOK
  <1>3. \A i \in DOMAIN f.fcbs : f.fcbs[i].key # 0
    BY <1>2, AllUsed DEF FcbRing
  <1> QED
    BY <1>1, <1>3 DEF Serving, Ret

LEMMA CreateServing ==
  ASSUME NEW f, FsOK(f), NEW h, NEW u \in Nat, NEW k \in Keys, NEW d \in Seq(Names), NEW n, NEW how,
         NEW special
  PROVE  Serving(f, Create(f, h, u, k, d, n, how, special))
  <1> DEFINE q == Append(d, n)
             refused == IsDir(h[u], q) \/ ~IsDir(h[u], d) \/ (how = "new" /\ Exists(h[u], q))
             c == [NoFcb EXCEPT !.key = k, !.unit = u, !.name = q, !.file = q, !.mode = "full",
                                !.special = special]
             a == Find(f, u, h[u], d)
             g == FcbAlloc(a.f, c)
             s == IF refused THEN FcbFree(g, h, "FILEEXIST")
                  ELSE Ret(CleanCache(g, u, d), Truncated(h, u, q), "OK")
             t == IF ~a.ok THEN Ret(a.f, h, "INVALIDPATH")
                  ELSE IF how = "attribute" THEN Ret(a.f, h, "CANTACCESS")
                  ELSE IF Last(a.f.fcbs).key # 0 THEN Ret(a.f, h, "OUTOFMEM")
                  ELSE s
             r == IF At(f.fcbs, k) # {} THEN Ret(FcbSearch(f, k), h, "INVALIDPTR") ELSE t
  <1>1. Create(f, h, u, k, d, n, how, special) = OnUnit(f, h, u, "MEDIAOFFLINE", r)
    BY DEF Create
  <1>2. ASSUME u \in DOMAIN f.cache
        PROVE  Serving(f, r)
    <2>1. CASE At(f.fcbs, k) # {}
      <3>1. Serves(f, FcbSearch(f, k))
        BY <2>1, FcbSearchFacts
      <3>2. Serving(f, Ret(FcbSearch(f, k), h, "INVALIDPTR"))
        BY <3>1, RetServing
      <3> QED
        BY <2>1, <3>2
    <2>2. CASE At(f.fcbs, k) = {}
      <3>1. LookedUp(f, a.f) /\ Serves(f, a.f)
        BY <1>2, FindFacts, LookedUpServes DEF Standing
      <3>2. IsFcb(c) /\ c.key = k /\ k # 0
        BY HostAssumption DEF IsFcb, FcbFields, NoFcb
      <3> HIDE DEF a, c, refused, q
      <3>3. Serves(f, g) /\ 1 \in DOMAIN g.fcbs /\ IsFcb(g.fcbs[1])
        BY <1>2, <2>2, <3>1, <3>2, AllocServes
      <3> HIDE DEF g
      <3>4. Serving(f, FcbFree(g, h, "FILEEXIST"))
        BY <3>3, FreeServing
      <3>5. Serving(f, Ret(CleanCache(g, u, d), Truncated(h, u, q), "OK"))
        BY <1>2, <3>3, CleanServes, RetServing
      <3>6. Serving(f, s)
        BY <3>4, <3>5
      <3> HIDE DEF s
      <3>7. CASE Last(a.f.fcbs).key # 0
        BY <1>2, <2>2, <3>1, <3>7, FullServing, RetServing
      <3>8. CASE ~(Last(a.f.fcbs).key # 0)
        BY <2>2, <3>1, <3>6, <3>8, RetServing
      <3> QED
        BY <3>7, <3>8
    <2> QED
      BY <2>1, <2>2
  <1> HIDE DEF r
  <1> QED
    BY <1>1, <1>2, OnUnitServing

LEMMA OpenServing ==
  ASSUME NEW f, FsOK(f), NEW h, NEW u \in Nat, NEW k \in Keys, NEW d \in Seq(Names), NEW n, NEW mode,
         NEW special
  PROVE  Serving(f, Open(f, h, u, k, d, n, mode, special))
  <1> DEFINE q == Append(d, n)
             refused == IsDir(h[u], q) \/ ~IsDir(h[u], d) \/ (mode # "write" /\ ~Exists(h[u], q))
             c == [NoFcb EXCEPT !.key = k, !.unit = u, !.name = q, !.special = special,
                                !.file = IF refused THEN Root ELSE q,
                                !.mode = IF refused THEN "none" ELSE mode]
             a == FindFile(f, h, u, d, n, "all")
             g == FcbAlloc(a.f, c)
             h1 == IF mode = "write" /\ ~refused THEN Truncated(h, u, q) ELSE h
             s == IF mode = "illegal" THEN FcbFree(g, h, "ILLEGALMOD")
                  ELSE IF refused /\ ~special THEN FcbFree(g, h, "INVALIDPATH")
                  ELSE Ret(g, h1, "OK")
             t == IF ~a.ok THEN Ret(a.f, h, "FILENOTFND")
                  ELSE IF Last(a.f.fcbs).key # 0 THEN Ret(a.f, h, "OUTOFMEM")
                  ELSE s
             r == IF At(f.fcbs, k) # {} THEN Ret(FcbSearch(f, k), h, "INVALIDPRM") ELSE t
  <1>1. Open(f, h, u, k, d, n, mode, special) = OnUnit(f, h, u, "MEDIAOFFLINE", r)
    BY DEF Open
  <1>2. ASSUME u \in DOMAIN f.cache
        PROVE  Serving(f, r)
    <2>1. CASE At(f.fcbs, k) # {}
      <3>1. Serves(f, FcbSearch(f, k))
        BY <2>1, FcbSearchFacts
      <3>2. Serving(f, Ret(FcbSearch(f, k), h, "INVALIDPRM"))
        BY <3>1, RetServing
      <3> QED
        BY <2>1, <3>2
    <2>2. CASE At(f.fcbs, k) = {}
      <3>1. LookedUp(f, a.f) /\ Serves(f, a.f)
        BY <1>2, FindFileFacts, LookedUpServes
      <3>2. IsFcb(c) /\ c.key = k /\ k # 0
        BY HostAssumption DEF IsFcb, FcbFields, NoFcb
      <3> HIDE DEF a, c, refused, q
      <3>3. Serves(f, g) /\ 1 \in DOMAIN g.fcbs /\ IsFcb(g.fcbs[1])
        BY <1>2, <2>2, <3>1, <3>2, AllocServes
      <3> HIDE DEF g
      <3>4. Serving(f, FcbFree(g, h, "ILLEGALMOD")) /\ Serving(f, FcbFree(g, h, "INVALIDPATH"))
        BY <3>3, FreeServing
      <3>5. Serving(f, Ret(g, h1, "OK"))
        BY <3>3, RetServing
      <3>6. Serving(f, s)
        BY <3>4, <3>5
      <3> HIDE DEF s
      <3>7. CASE Last(a.f.fcbs).key # 0
        BY <1>2, <2>2, <3>1, <3>7, FullServing, RetServing
      <3>8. CASE ~(Last(a.f.fcbs).key # 0)
        BY <2>2, <3>1, <3>6, <3>8, RetServing
      <3> QED
        BY <3>7, <3>8
    <2> QED
      BY <2>1, <2>2
  <1> HIDE DEF r
  <1> QED
    BY <1>1, <1>2, OnUnitServing

LEMMA CloseServing ==
  ASSUME NEW f, FsOK(f), NEW h, NEW u \in Nat, NEW k \in Keys
  PROVE  Serving(f, Close(f, h, u, k))
  <1> DEFINE g == FcbSearch(f, k)
             p == Front(g.fcbs[1].name)
             s == FcbFree(g, h, "OK")
             x == CleanCache(s.fs, u, p)
             r == IF At(f.fcbs, k) = {} THEN Ret(f, h, "INVALIDPRM")
                  ELSE IF g.fcbs[1].update THEN [s EXCEPT !.fs = x] ELSE s
  <1>1. Close(f, h, u, k) = OnUnit(f, h, u, "MEDIAOFFLINE", r)
    BY DEF Close
  <1>2. ASSUME u \in DOMAIN f.cache
        PROVE  Serving(f, r)
    <2>1. CASE At(f.fcbs, k) = {}
      BY <2>1, ServesNothing, RetServing
    <2>2. CASE At(f.fcbs, k) # {}
      <3>1. Serves(f, g) /\ 1 \in DOMAIN g.fcbs
        BY <2>2, FcbSearchFacts
      <3>2. Serving(f, s)
        BY <3>1, FreeServing
      <3>3. s = [s EXCEPT !.fs = s.fs] /\ s.result = "OK"
            /\ [s EXCEPT !.fs = x].fs = x /\ [s EXCEPT !.fs = x].result = "OK"
        BY DEF FcbFree, Ret
      <3> HIDE DEF g, s, p
      <3>4. Serves(f, x)
        BY <1>2, <3>2, CleanServes DEF Serving
      <3> HIDE DEF x
      <3>5. Serving(f, [s EXCEPT !.fs = x])
        BY <3>3, <3>4 DEF Serving
      <3> QED
        BY <2>2, <3>2, <3>5
    <2> QED
      BY <2>1, <2>2
  <1> HIDE DEF r
  <1> QED
    BY <1>1, <1>2, OnUnitServing

LEMMA OnFileServing ==
  ASSUME NEW f, FsOK(f), NEW h, NEW k \in Keys, NEW r, At(f.fcbs, k) # {} => Serving(f, r)
  PROVE  Serving(f, OnFile(f, h, k, r))
  <1>1. CASE At(f.fcbs, k) = {}
    <2>1. Serving(f, Ret(f, h, "NOTOPENED"))
      BY ServesNothing, RetServing
    <2> QED
      BY <1>1, <2>1 DEF OnFile
  <1>2. CASE At(f.fcbs, k) # {}
    BY <1>2 DEF OnFile
  <1> QED
    BY <1>1, <1>2

(* An FCB that may have no FILE.                                            *)
LEMMA OnStreamServing ==
  ASSUME NEW f, NEW g, Serves(f, g), NEW h, NEW r, Serving(f, r)
  PROVE  Serving(f, OnStream(g, h, r))
  <1>1. Serving(f, Ret(g, h, "CRASHED"))
    BY RetServing
  <1> QED
    BY <1>1 DEF OnStream

LEMMA ReadServing ==
  ASSUME NEW f, FsOK(f), NEW h, NEW k \in Keys
  PROVE  Serving(f, Read(f, h, k))
  <1> DEFINE g == FcbSearch(f, k)
             s == IF g.fcbs[1].mode = "write" THEN FcbFree(g, h, "INVALIDFUNC") ELSE Ret(g, h, "OK")
             r == OnStream(g, h, s)
  <1>1. Read(f, h, k) = OnFile(f, h, k, r)
    BY DEF Read
  <1>2. ASSUME At(f.fcbs, k) # {}
        PROVE  Serving(f, r)
    <2>1. Serves(f, g) /\ 1 \in DOMAIN g.fcbs
      BY <1>2, FcbSearchFacts
    <2> HIDE DEF g
    <2>2. Serving(f, s)
      BY <2>1, FreeServing, RetServing
    <2> HIDE DEF s
    <2> QED
      BY <2>1, <2>2, OnStreamServing
  <1> HIDE DEF r
  <1> QED
    BY <1>1, <1>2, OnFileServing

LEMMA WriteServing ==
  ASSUME NEW f, FsOK(f), NEW h, NEW k \in Keys, NEW how
  PROVE  Serving(f, Write(f, h, k, how))
  <1> DEFINE g == FcbSearch(f, k)
             c == g.fcbs[1]
             dirty == CASE how = "truncate" -> c.dirty [] how = "held" -> TRUE
                        [] how = "through" -> FALSE
             wrote == [c EXCEPT !.update = TRUE, !.dirty = dirty]
             h1 == IF how = "held" THEN h ELSE Flushed(h, {[c EXCEPT !.dirty = TRUE]})
             s == IF c.mode = "read" THEN FcbFree(g, h, IF how = "truncate" THEN "CANTSEEK" ELSE "CANTWRITE")
                  ELSE Ret([g EXCEPT !.fcbs[1] = wrote], h1, "OK")
             r == OnStream(g, h, s)
  <1>1. Write(f, h, k, how) = OnFile(f, h, k, r)
    BY DEF Write
  <1>2. ASSUME At(f.fcbs, k) # {}
        PROVE  Serving(f, r)
    <2>1. Serves(f, g) /\ 1 \in DOMAIN g.fcbs /\ IsFcb(c)
      BY <1>2, FcbSearchFacts
    <2> HIDE DEF g, h1, dirty
    <2>2. IsFcb(wrote) /\ wrote.key = g.fcbs[1].key
      BY <2>1 DEF IsFcb, FcbFields
    <2> HIDE DEF c, wrote
    <2>3. Serves(f, [g EXCEPT !.fcbs[1] = wrote])
      BY <2>1, <2>2, FirstServes
    <2>4. Serving(f, Ret([g EXCEPT !.fcbs[1] = wrote], h1, "OK"))
      BY <2>3, RetServing
    <2>5. Serving(f, FcbFree(g, h, IF how = "truncate" THEN "CANTSEEK" ELSE "CANTWRITE"))
      BY <2>1, FreeServing
    <2>6. Serving(f, s)
      BY <2>4, <2>5
    <2> HIDE DEF s
    <2> QED
      BY <2>1, <2>6, OnStreamServing
  <1> HIDE DEF r
  <1> QED
    BY <1>1, <1>2, OnFileServing

(* What stdio held of some files is written.                                *)
LEMMA SyncedServes ==
  ASSUME NEW f, NEW g, Serves(f, g), 1 \in DOMAIN g.fcbs, NEW places
  PROVE  LET x == Synced(g, places)
         IN Serves(f, x) /\ 1 \in DOMAIN x.fcbs
  <1> DEFINE x == Synced(g, places)
             t == [i \in DOMAIN g.fcbs |->
                     IF i \in places THEN [g.fcbs[i] EXCEPT !.dirty = FALSE] ELSE g.fcbs[i]]
  <1>1. FsOK(g)
    BY DEF Serves
  <1>2. x = [g EXCEPT !.fcbs = t]
    BY DEF Synced
  <1>3. ASSUME NEW i \in DOMAIN g.fcbs
        PROVE  IsFcb(t[i]) /\ t[i].key = g.fcbs[i].key
    <2>1. IsFcb(g.fcbs[i])
      BY <1>1 DEF FsOK, FcbRing
    <2>2. t[i] = g.fcbs[i] \/ t[i] = [g.fcbs[i] EXCEPT !.dirty = FALSE]
      OBVIOUS
    <2> HIDE DEF t
    <2> QED
      BY <2>1, <2>2 DEF IsFcb, FcbFields
  <1>4. t = [i \in DOMAIN g.fcbs |-> t[i]]
    OBVIOUS
  <1> HIDE DEF t
  <1>5. /\ IsFs(x) /\ x.fcbs = t
        /\ x.units = g.units /\ x.cache = g.cache /\ x.files = g.files
    BY <1>1, <1>2 DEF FsOK, IsFs, FsFields
  <1> HIDE DEF x
  <1>6. Serves(g, x)
    BY <1>1, <1>3, <1>4, <1>5, FcbsMapped
  <1>7. 1 \in DOMAIN x.fcbs
    BY <1>4, <1>5
  <1>8. Serves(f, x)
    BY <1>6, ServesTwice
  <1> QED
    BY <1>7, <1>8 DEF x

LEMMA SeekServing ==
  ASSUME NEW f, FsOK(f), NEW h, NEW k \in Keys, NEW mode
  PROVE  Serving(f, Seek(f, h, k, mode))
  <1> DEFINE g == FcbSearch(f, k)
             x == Synced(g, {1})
             h1 == Flushed(h, {g.fcbs[1]})
             s == IF mode = "negative" THEN FcbFree(g, h, "CANTSEEK") ELSE Ret(x, h1, "OK")
             r == IF mode = "illegal" THEN FcbFree(g, h, "INVALIDPRM") ELSE OnStream(g, h, s)
  <1>1. Seek(f, h, k, mode) = OnFile(f, h, k, r)
    BY DEF Seek
  <1>2. ASSUME At(f.fcbs, k) # {}
        PROVE  Serving(f, r)
    <2>1. Serves(f, g) /\ 1 \in DOMAIN g.fcbs /\ IsFcb(g.fcbs[1])
      BY <1>2, FcbSearchFacts
    <2> HIDE DEF g, h1
    <2>2. Serves(f, x)
      BY <2>1, SyncedServes
    <2> HIDE DEF x
    <2>3. Serving(f, Ret(x, h1, "OK"))
      BY <2>2, RetServing
    <2>4. Serving(f, FcbFree(g, h, "INVALIDPRM")) /\ Serving(f, FcbFree(g, h, "CANTSEEK"))
      BY <2>1, FreeServing
    <2>5. Serving(f, s)
      BY <2>3, <2>4
    <2> HIDE DEF s
    <2>6. Serving(f, OnStream(g, h, s))
      BY <2>1, <2>5, OnStreamServing
    <2> QED
      BY <2>4, <2>6
  <1> HIDE DEF r
  <1> QED
    BY <1>1, <1>2, OnFileServing

LEMMA TimeStampServing ==
  ASSUME NEW f, FsOK(f), NEW h, NEW u \in Nat, NEW k \in Keys, NEW time
  PROVE  Serving(f, TimeStamp(f, h, u, k, time))
  <1> DEFINE g == FcbSearch(f, k)
             c == g.fcbs[1]
             all == IF c.mode = "none" THEN DOMAIN g.fcbs ELSE {1}
             x == Synced(g, all)
             h1 == Flushed(h, {g.fcbs[i] : i \in all})
             there == Exists(h1[c.unit], c.name)
             h2 == IF there THEN Touch(h1, c.unit, c.name) ELSE h1
             p == Front(c.name)
             s == IF ~there /\ ~c.special THEN FcbFree(x, h1, "INVALIDPRM")
                  ELSE Ret(CleanCache(x, u, p), h2, "OK")
             r == OnFile(f, h, k, s)
  <1>1. TimeStamp(f, h, u, k, time) = IF time = 0 THEN Ret(f, h, "OK")
                                      ELSE OnUnit(f, h, u, "MEDIAOFFLINE", r)
    BY DEF TimeStamp
  <1>2. ASSUME u \in DOMAIN f.cache, At(f.fcbs, k) # {}
        PROVE  Serving(f, s)
    <2>1. Serves(f, g) /\ 1 \in DOMAIN g.fcbs /\ IsFcb(g.fcbs[1])
      BY <1>2, FcbSearchFacts
    <2> HIDE DEF g
    <2>2. Serves(f, x) /\ 1 \in DOMAIN x.fcbs
      BY <2>1, SyncedServes
    <2> HIDE DEF all, x, h1, h2, there, p
    <2>3. Serves(f, CleanCache(x, u, p))
      BY <1>2, <2>2, CleanServes
    <2>4. Serving(f, Ret(CleanCache(x, u, p), h2, "OK"))
      BY <2>3, RetServing
    <2>5. Serving(f, FcbFree(x, h1, "INVALIDPRM"))
      BY <2>2, FreeServing
    <2> QED
      BY <2>4, <2>5
  <1> HIDE DEF s
  <1>3. u \in DOMAIN f.cache => Serving(f, r)
    BY <1>2, OnFileServing
  <1> HIDE DEF r
  <1>4. Serving(f, OnUnit(f, h, u, "MEDIAOFFLINE", r))
    BY <1>3, OnUnitServing
  <1>5. Serving(f, Ret(f, h, "OK"))
    BY ServesNothing, RetServing
  <1> QED
    BY <1>1, <1>4, <1>5

(* The calls that only report, and those of a unit.                         *)
LEMMA UnitServing ==
  ASSUME NEW f, FsOK(f), NEW h, NEW u \in Nat, NEW missing, missing # "OUTOFMEM",
         NEW code, code # "OUTOFMEM"
  PROVE  Serving(f, OnUnit(f, h, u, missing, Ret(f, h, code)))
  BY ServesNothing, RetServing, OnUnitServing

LEMMA CtrlDriveServing ==
  ASSUME NEW f, FsOK(f), NEW h, NEW u \in Nat, NEW function
  PROVE  Serving(f, CtrlDrive(f, h, u, function))
  <1> DEFINE code == CASE function \in {0, 9} -> "STATUS" [] function \in 1..7 -> "OK"
                       [] function = 8 -> "ONE" [] OTHER -> "INVALIDFUNC"
  <1>1. CtrlDrive(f, h, u, function) = OnUnit(f, h, u, "INVALIDFUNC", Ret(f, h, code))
    BY DEF CtrlDrive
  <1>2. code # "OUTOFMEM"
    <2>1. CASE function \in {0, 9}
      BY <2>1
    <2>2. CASE function = 8
      BY <2>2
    <2>3. CASE function \in 1..7
      BY <2>3
    <2>4. CASE ~(function \in {0, 9}) /\ ~(function \in 1..7) /\ ~(function = 8)
      BY <2>4
    <2> QED
      BY <2>1, <2>2, <2>3, <2>4
  <1> HIDE DEF code
  <1> QED
    BY <1>1, <1>2, UnitServing

LEMMA GetDPBServing ==
  ASSUME NEW f, FsOK(f), NEW h, NEW u
  PROVE  Serving(f, GetDPB(f, h, u))
  BY ServesNothing, RetServing DEF GetDPB

LEMMA IoctrlServing ==
  ASSUME NEW f, FsOK(f), NEW h, NEW u \in Nat, NEW function \in Int, NEW param
  PROVE  Serving(f, Ioctrl(f, h, u, function, param))
  <1> DEFINE x == Ret(SetOption(f, param), h, "OK")
             r == CASE function = -2 -> x
                    [] function \in {0, 1, -1, -3} -> Ret(f, h, "OK")
                    [] function = 2 /\ param \in {-1, 0, 1} -> Ret(f, h, "OK")
                    [] OTHER -> Ret(f, h, "NOTIOCTRL")
  <1>1. Ioctrl(f, h, u, function, param) = OnUnit(f, h, u, "INVALIDFUNC", r)
    BY DEF Ioctrl
  <1>2. Serving(f, x)
    BY SetOptionFacts, RetServing
  <1>3. Serving(f, Ret(f, h, "OK")) /\ Serving(f, Ret(f, h, "NOTIOCTRL"))
    BY ServesNothing, RetServing
  <1> HIDE DEF x
  <1>4. Serving(f, r)
    <2>1. CASE function = -2
      BY <1>2, <2>1
    <2>2. CASE function \in {0, 1, -1, -3}
      BY <1>3, <2>2
    <2>3. CASE function = 2 /\ param \in {-1, 0, 1}
      BY <1>3, <2>3
    <2>4. CASE /\ ~(function = -2) /\ ~(function \in {0, 1, -1, -3})
               /\ ~(function = 2 /\ param \in {-1, 0, 1})
      <3>1. r = Ret(f, h, "NOTIOCTRL")
        BY <2>4
      <3> QED
        BY <1>3, <3>1
    <2> QED
      BY <2>1, <2>2, <2>3, <2>4
  <1> HIDE DEF r
  <1> QED
    BY <1>1, <1>4, OnUnitServing

-----------------------------------------------------------------------------
(* Calls that take or free a search buffer                                 *)

(* The calls g of f keep the searches but those that key k and gone have,   *)
(* and the order of the buffers.                                            *)
Searches(f, g, gone) ==
  /\ FsOK(g) /\ g.units = f.units
  /\ FreeLast(f.files) => FreeLast(g.files)
  /\ \A j \in Keys \ gone : At(f.files, j) # {} => At(g.files, j) # {}

(* A search of g that is not of a key in new was one of f.                   *)
Traced(f, g, new) ==
  \A j \in DOMAIN g.files :
    \/ g.files[j].key \in new \cup {0}
    \/ \E i \in DOMAIN f.files : Alike(f.files[i], g.files[j])

LEMMA TracedNothing ==
  ASSUME NEW f, NEW g, g.files = f.files, NEW new
  PROVE  Traced(f, g, new)
  BY AlikeSame DEF Traced

LEMMA TracedWider ==
  ASSUME NEW f, NEW g, Traced(f, g, {}), NEW new
  PROVE  Traced(f, g, new)
  BY DEF Traced

LEMMA TracedTwice ==
  ASSUME NEW f, NEW g, NEW h, NEW new, Traced(f, g, new), Traced(g, h, new)
  PROVE  Traced(f, h, new)
  <1>1. ASSUME NEW j \in DOMAIN h.files, h.files[j].key \notin new \cup {0}
        PROVE  \E i \in DOMAIN f.files : Alike(f.files[i], h.files[j])
    <2>1. PICK m \in DOMAIN g.files : Alike(g.files[m], h.files[j])
      BY <1>1 DEF Traced
    <2>2. g.files[m].key \notin new \cup {0}
      BY <1>1, <2>1 DEF Alike
    <2>3. PICK i \in DOMAIN f.files : Alike(f.files[i], g.files[m])
      BY <2>2 DEF Traced
    <2> QED
      BY <2>1, <2>3, AlikeTwice
  <1> QED
    BY <1>1 DEF Traced

LEMMA LookedTraced ==
  ASSUME NEW f, NEW g, LookedUp(f, g), NEW new
  PROVE  Traced(f, g, new)
  BY DEF LookedUp, Traced

LEMMA SearchesTwice ==
  ASSUME NEW f, NEW g, NEW h, NEW gone, Searches(f, g, gone), Searches(g, h, gone)
  PROVE  Searches(f, h, gone)
  BY DEF Searches

LEMMA SearchesLooked ==
  ASSUME NEW f, NEW g, NEW h, NEW gone, Searches(f, g, gone), LookedUp(g, h)
  PROVE  Searches(f, h, gone)
  BY LookedUpServes DEF Searches, Serves

LEMMA FilesChanged ==
  ASSUME NEW f, FsOK(f), NEW g, IsFs(g), g.units = f.units, g.cache = f.cache,
         g.fcbs = f.fcbs, SearchRing(g.files), Len(g.files) = Len(f.files)
  PROVE  FsOK(g)
  BY DEF FsOK, Sized

LEMMA KeptAt ==
  ASSUME NEW r, NEW t, NEW gone, Keeps(r, t, gone), NEW k, NEW i \in DOMAIN r,
         i \notin gone, r[i].key = k
  PROVE  At(t, k) # {}
  BY DEF Keeps, At

LEMMA FilesFreeFacts ==
  ASSUME NEW f, FsOK(f), NEW i \in DOMAIN f.files
  PROVE  LET g == FilesFree(f, i)
         IN /\ Searches(f, g, {f.files[i].key}) /\ g.cache = f.cache
            /\ f.files[i].key # 0 => At(g.files, f.files[i].key) = {}
            /\ Len(g.files) = Len(f.files) /\ Last(g.files).key = 0 /\ Traced(f, g, {})
  <1> DEFINE r == f.files
             t == ToTail([r EXCEPT ![i] = NoSearch], i)
             g == FilesFree(f, i)
  <1>1. IsSeq(r) /\ KeysOnce(r) /\ \A j \in DOMAIN r : IsSearch(r[j])
    BY DEF FsOK, SearchRing
  <1>2. PICK e : e = NoSearch
    OBVIOUS
  <1>3. IsSearch(e) /\ e.key = 0
    BY <1>2 DEF IsSearch, SearchFields, NoSearch, Root
  <1>4. t = ToTail([r EXCEPT ![i] = e], i)
    BY <1>2
  <1>5. /\ IsFs(g) /\ g.files = t
        /\ g.units = f.units /\ g.cache = f.cache /\ g.fcbs = f.fcbs
    BY DEF FilesFree, FsOK, IsFs, FsFields
  <1>6. i \in DOMAIN r
    OBVIOUS
  <1> HIDE DEF t, g
  <1>7. /\ IsSeq(t) /\ Len(t) = Len(r) /\ DOMAIN t = DOMAIN r /\ t[Len(r)] = e
        /\ KeysOnce(t) /\ (FreeLast(r) => FreeLast(t))
        /\ Keeps(r, t, {i}) /\ Takes(r, t, {i}, e)
    <2> HIDE DEF r
    <2> QED
      BY <1>1, <1>3, <1>4, <1>6, RingFreed
  <1>8. SearchRing(t)
    BY <1>1, <1>3, <1>7 DEF SearchRing, Takes
  <1>9. FsOK(g)
    BY <1>5, <1>7, <1>8, FilesChanged
  <1>10. ASSUME NEW k \in Keys, k # r[i].key, At(r, k) # {}
         PROVE  At(t, k) # {}
    <2>1. PICK j \in DOMAIN r : r[j].key = k
      BY <1>10 DEF At
    <2>2. j # i
      BY <1>10, <2>1
    <2> QED
      BY <1>7, <2>1, <2>2, KeptAt
  <1>11. r[i].key # 0 => At(t, r[i].key) = {}
    <2>1. ASSUME r[i].key # 0, NEW j \in DOMAIN t, t[j].key = r[i].key
          PROVE  FALSE
      <3>1. PICK m \in DOMAIN r \ {i} : t[j] = r[m]
        BY <1>3, <1>7, <2>1 DEF Takes
      <3> QED
        BY <1>1, <1>6, <2>1, <3>1 DEF KeysOnce
    <2> QED
      BY <2>1 DEF At
  <1>12. Last(t).key = 0
    BY <1>3, <1>7 DEF Last
  <1>13. Searches(f, g, {r[i].key})
    BY <1>5, <1>7, <1>9, <1>10 DEF Searches
  <1>14. Traced(f, g, {})
    BY <1>3, <1>5, <1>7, AlikeSame DEF Traced, Takes
  <1> QED
    BY <1>5, <1>7, <1>11, <1>12, <1>13, <1>14 DEF g

LEMMA FilesAllocFacts ==
  ASSUME NEW f, FsOK(f), Len(f.files) > 0, NEW k \in Keys, At(f.files, k) = {}
  PROVE  LET g == FilesAlloc(f, k)
         IN /\ Searches(f, g, {Last(f.files).key}) /\ g.cache = f.cache
            /\ 1 \in DOMAIN g.files /\ g.files[1].key = k /\ Traced(f, g, {k})
  <1> DEFINE r == f.files
             g == FilesAlloc(f, k)
             t == g.files
  <1>1. IsSeq(r) /\ KeysOnce(r) /\ Len(r) > 0 /\ \A j \in DOMAIN r : IsSearch(r[j])
    BY DEF FsOK, SearchRing
  <1>2. PICK e : e = [NoSearch EXCEPT !.key = k]
    OBVIOUS
  <1>3. IsSearch(e) /\ e.key = k /\ k # 0
    BY <1>2, HostAssumption DEF IsSearch, SearchFields, NoSearch, Root
  <1>4. /\ IsFs(g) /\ t = TakeLast(r, e)
        /\ g.units = f.units /\ g.cache = f.cache /\ g.fcbs = f.fcbs
    BY <1>2 DEF FilesAlloc, FsOK, IsFs, FsFields
  <1>5. e.key # 0 /\ At(r, e.key) = {}
    BY <1>3
  <1>6. /\ IsSeq(t) /\ Len(t) = Len(r) /\ DOMAIN t = DOMAIN r /\ t[1] = e
        /\ KeysOnce(t) /\ (FreeLast(r) => FreeLast(t))
        /\ Keeps(r, t, {Len(r)}) /\ Takes(r, t, {Len(r)}, e)
    <2>1. IsSeq(r) /\ KeysOnce(r) /\ Len(r) > 0 /\ t = TakeLast(r, e)
      BY <1>1, <1>4
    <2> HIDE DEF r, t
    <2> QED
      BY <2>1, <1>5, RingTaken
  <1>7. 1 \in DOMAIN t
    BY <1>1, <1>6, SeqOfElements
  <1> HIDE DEF g
  <1>8. SearchRing(t)
    BY <1>1, <1>3, <1>6 DEF SearchRing, Takes
  <1>9. FsOK(g)
    BY <1>4, <1>6, <1>8, FilesChanged
  <1>10. ASSUME NEW j \in Keys, j # Last(r).key, At(r, j) # {}
         PROVE  At(t, j) # {}
    <2>1. PICK i \in DOMAIN r : r[i].key = j
      BY <1>10 DEF At
    <2>2. i # Len(r)
      BY <1>10, <2>1 DEF Last
    <2> QED
      BY <1>6, <2>1, <2>2, KeptAt
  <1>11. Searches(f, g, {Last(r).key})
    BY <1>4, <1>6, <1>9, <1>10 DEF Searches
  <1>12. Traced(f, g, {k})
    BY <1>3, <1>6, AlikeSame DEF Traced, Takes
  <1> QED
    BY <1>3, <1>4, <1>6, <1>7, <1>11, <1>12 DEF g

(* The first search changes, but not its key.                               *)
LEMMA FirstSearched ==
  ASSUME NEW f, FsOK(f), 1 \in DOMAIN f.files, NEW s, IsSearch(s), s.key = f.files[1].key
  PROVE  LET g == [f EXCEPT !.files[1] = s]
         IN /\ Searches(f, g, {}) /\ g.cache = f.cache
            /\ 1 \in DOMAIN g.files /\ g.files[1] = s /\ Traced(f, g, {s.key})
  <1> DEFINE r == f.files
             t == [r EXCEPT ![1] = s]
             g == [f EXCEPT !.files[1] = s]
  <1>1. IsSeq(r) /\ KeysOnce(r) /\ \A j \in DOMAIN r : IsSearch(r[j])
    BY DEF FsOK, SearchRing
  <1>2. /\ IsFs(g) /\ g.files = t
        /\ g.units = f.units /\ g.cache = f.cache /\ g.fcbs = f.fcbs
    BY DEF FsOK, IsFs, FsFields
  <1> HIDE DEF g
  <1>3. /\ IsSeq(t) /\ Len(t) = Len(r) /\ DOMAIN t = DOMAIN r /\ t[1] = s
        /\ KeysOnce(t) /\ (FreeLast(r) => FreeLast(t))
        /\ \A j \in DOMAIN r : t[j].key = r[j].key /\ (j # 1 => t[j] = r[j])
    BY <1>1, RingUpdated
  <1> HIDE DEF t
  <1>4. SearchRing(t)
    BY <1>1, <1>3 DEF SearchRing
  <1>5. FsOK(g)
    BY <1>2, <1>3, <1>4, FilesChanged
  <1>6. \A j \in Keys : At(r, j) # {} => At(t, j) # {}
    BY <1>3 DEF At
  <1>7. Searches(f, g, {})
    BY <1>2, <1>3, <1>5, <1>6 DEF Searches
  <1>8. Traced(f, g, {s.key})
    BY <1>2, <1>3, AlikeSame DEF Traced
  <1> QED
    BY <1>2, <1>3, <1>7, <1>8 DEF g

(* The search of key k is continued, or it has ended and lost its buffer.   *)
Continues(f, k, r) ==
  /\ Searches(f, r.fs, {k}) /\ Traced(f, r.fs, {k})
  /\ \/ r.result = "OK" /\ At(r.fs.files, k) # {}
     \/ r.result = "FILENOTFND"

LEMMA SearchWent ==
  ASSUME NEW c, NEW s, IsSearch(s), NEW u, NEW p, NEW path \in Seq(Names)
  PROVE  LET e == [FindFilenameWildcard(c, s, u, p).search EXCEPT !.path = path]
         IN IsSearch(e) /\ e.key = s.key
  <1> DEFINE hits == {i \in p..Len(c.list) : CheckAttribute(c.list[i], s.attr)}
             hit == IF hits = {} THEN Len(c.list) + 1
                    ELSE CHOOSE i \in hits : \A j \in hits : i <= j
             at == IF hits = {} THEN hit ELSE hit + 1
             next == IF at <= Len(c.list) THEN c.list[at] ELSE NoEntry
             same == s.count > 0 /\ s.id # c.id /\ p <= Len(c.list) /\ c.list[p] = s.next
             count == (IF same THEN p - 1 ELSE s.count) + (at - p)
             went == [s EXCEPT !.unit = u, !.id = c.id, !.at = at, !.next = next, !.count = count]
             e == [FindFilenameWildcard(c, s, u, p).search EXCEPT !.path = path]
  <1>1. FindFilenameWildcard(c, s, u, p).search = went
    BY DEF FindFilenameWildcard
  <1> HIDE DEF at, next, count
  <1>2. IsSearch(went) /\ went.key = s.key
    BY DEF IsSearch, SearchFields
  <1>3. e = [went EXCEPT !.path = path]
    BY <1>1
  <1> HIDE DEF went, e
  <1>4. IsSearch(e) /\ e.key = s.key
    BY <1>2, <1>3 DEF IsSearch, SearchFields
  <1> QED
    BY <1>4 DEF e

(* The first search ends.                                                   *)
LEMMA EndedContinues ==
  ASSUME NEW f, NEW g, NEW k \in Keys, Searches(f, g, {k}), Traced(f, g, {k}),
         1 \in DOMAIN g.files, g.files[1].key = k, NEW h
  PROVE  Continues(f, k, Ret(FilesFree(g, 1), h, "FILENOTFND"))
  <1>1. FsOK(g)
    BY DEF Searches
  <1>2. Searches(g, FilesFree(g, 1), {k}) /\ Traced(g, FilesFree(g, 1), {k})
    BY <1>1, FilesFreeFacts, TracedWider
  <1>3. Searches(f, FilesFree(g, 1), {k}) /\ Traced(f, FilesFree(g, 1), {k})
    BY <1>2, SearchesTwice, TracedTwice
  <1> QED
    BY <1>3 DEF Continues, Ret

LEMMA StepContinues ==
  ASSUME NEW f, NEW g, NEW k \in Keys, Searches(f, g, {k}), Traced(f, g, {k}),
         NEW u \in DOMAIN g.cache, Len(g.cache[u]) > 0, 1 \in DOMAIN g.files, g.files[1].key = k, NEW h, NEW p
  PROVE  Continues(f, k, Step(g, h, u, p))
  <1> DEFINE path == g.cache[u][1].path
             found == FindFilenameWildcard(g.cache[u][1], g.files[1], u, p)
             e == [found.search EXCEPT !.path = path]
             x == [g EXCEPT !.files[1] = e]
             y == [Ret(x, h, "OK") EXCEPT !.name = found.name]
  <1>1. FsOK(g)
    BY DEF Searches
  <1>2. Step(g, h, u, p) = IF found.found THEN y ELSE Ret(FilesFree(x, 1), h, "FILENOTFND")
    BY DEF Step
  <1>3. path \in Seq(Names)
    <2>1. PathRing(g.cache[u])
      BY <1>1 DEF FsOK
    <2>2. 1 \in DOMAIN g.cache[u]
      BY <2>1, SeqOfElements DEF PathRing
    <2> QED
      BY <2>1, <2>2 DEF PathRing, IsPath
  <1>4. IsSearch(g.files[1])
    BY <1>1 DEF FsOK, SearchRing
  <1>5. IsSearch(e) /\ e.key = k
    BY <1>3, <1>4, SearchWent
  <1> HIDE DEF e, path
  <1>6. Searches(g, x, {}) /\ Traced(g, x, {k}) /\ 1 \in DOMAIN x.files /\ x.files[1] = e
    BY <1>1, <1>5, FirstSearched
  <1> HIDE DEF x
  <1>7. Searches(f, x, {k}) /\ Traced(f, x, {k})
    BY <1>6, TracedTwice DEF Searches
  <1>8. Continues(f, k, Ret(FilesFree(x, 1), h, "FILENOTFND"))
    BY <1>5, <1>6, <1>7, EndedContinues
  <1>9. Continues(f, k, y)
    <2>1. y.fs = x /\ y.result = "OK"
      BY DEF Ret
    <2>2. At(x.files, k) # {}
      BY <1>5, <1>6 DEF At
    <2> QED
      BY <1>7, <2>1, <2>2 DEF Continues
  <1> HIDE DEF found, y
  <1> QED
    BY <1>2, <1>8, <1>9

(* The search of a key in use comes to the front.                           *)
LEMMA SearchedFront ==
  ASSUME NEW f, FsOK(f), NEW k \in Nat, At(f.files, k) # {}
  PROVE  LET g == [f EXCEPT !.files = Searched(@, k)]
         IN /\ FsOK(g) /\ g.units = f.units /\ g.cache = f.cache
            /\ 1 \in DOMAIN g.files /\ g.files[1].key = k
            /\ k # 0 /\ FreeLast(f.files) => FreeLast(g.files)
            /\ \A j \in Keys : At(f.files, j) # {} => At(g.files, j) # {}
            /\ Traced(f, g, {})
  <1> DEFINE r == f.files
             t == Searched(r, k)
             g == [f EXCEPT !.files = Searched(@, k)]
  <1>1. IsSeq(r) /\ KeysOnce(r) /\ \A j \in DOMAIN r : IsSearch(r[j])
    BY DEF FsOK, SearchRing
  <1>2. PICK i \in At(r, k) : t = ToFront(r, i)
    BY <1>1, SearchedFacts
  <1>3. i \in DOMAIN r /\ r[i].key = k
    BY <1>2 DEF At
  <1>4. /\ IsFs(g) /\ g.files = t
        /\ g.units = f.units /\ g.cache = f.cache /\ g.fcbs = f.fcbs
    BY DEF FsOK, IsFs, FsFields
  <1> HIDE DEF t, g
  <1>5. /\ IsSeq(t) /\ Len(t) = Len(r) /\ DOMAIN t = DOMAIN r /\ t[1] = r[i]
        /\ KeysOnce(t) /\ (FreeLast(r) /\ r[i].key # 0 => FreeLast(t))
        /\ Keeps(r, t, {}) /\ Takes(r, t, {}, r[i])
    <2> HIDE DEF r
    <2> QED
      BY <1>1, <1>2, <1>3, RingFronted
  <1>6. SearchRing(t)
    BY <1>1, <1>3, <1>5 DEF SearchRing, Takes
  <1>7. FsOK(g)
    BY <1>4, <1>5, <1>6, FilesChanged
  <1>8. 1 \in DOMAIN t
    BY <1>1, <1>3, <1>5, SeqOfElements
  <1>9. ASSUME NEW j \in Keys, At(r, j) # {}
        PROVE  At(t, j) # {}
    <2>1. PICK m \in DOMAIN r : r[m].key = j
      BY <1>9 DEF At
    <2> QED
      BY <1>5, <2>1, KeptAt
  <1>10. Traced(f, g, {})
    BY <1>3, <1>4, <1>5, AlikeSame DEF Traced, Takes
  <1> QED
    BY <1>3, <1>4, <1>5, <1>7, <1>8, <1>9, <1>10 DEF g

(* What NFILES does: the search of key k goes on, or nothing changes.       *)
Resumes(f, k, r) ==
  \/ r.fs = f /\ r.result \in {"INVALIDUNIT", "MEDIAOFFLINE", "INVALIDPTR"}
  \/ At(f.files, k) # {} /\ Continues(f, k, r)

LEMMA NFilesContinues ==
  ASSUME NEW f, FsOK(f), NEW h, NEW u \in Nat, NEW k \in Keys, NEW p
  PROVE  Resumes(f, k, NFiles(f, h, u, k, p))
  <1> DEFINE i == CHOOSE j \in At(f.files, k) : TRUE
             d == f.files[i].path
             g == [f EXCEPT !.files = Searched(@, k)]
             a == Find(g, u, h[u], d)
             s == IF a.ok THEN Step(a.f, h, u, p) ELSE Ret(FilesFree(a.f, 1), h, "FILENOTFND")
             t == IF At(f.files, k) = {} THEN Ret(f, h, "INVALIDPTR") ELSE s
  <1>1. NFiles(f, h, u, k, p) = OnUnit(f, h, u, "MEDIAOFFLINE", t)
    BY DEF NFiles, NFilesFound
  <1>2. ASSUME u \in DOMAIN f.cache, At(f.files, k) # {}
        PROVE  Continues(f, k, s)
    <2>1. i \in DOMAIN f.files
      BY <1>2 DEF At
    <2>2. d \in Seq(Names)
      BY <2>1 DEF FsOK, SearchRing, IsSearch
    <2>3. k \in Nat /\ k # 0
      BY HostAssumption
    <2> HIDE DEF d
    <2>4. /\ FsOK(g) /\ g.units = f.units /\ g.cache = f.cache
          /\ 1 \in DOMAIN g.files /\ g.files[1].key = k
          /\ FreeLast(f.files) => FreeLast(g.files)
          /\ \A j \in Keys : At(f.files, j) # {} => At(g.files, j) # {}
          /\ Traced(f, g, {})
      BY <1>2, <2>3, SearchedFront
    <2> HIDE DEF g
    <2>5. Searches(f, g, {k}) /\ Traced(f, g, {k})
      BY <2>4, TracedWider DEF Searches
    <2>6. Standing(g, u, d, a)
      BY <1>2, <2>2, <2>4, FindFacts
    <2> HIDE DEF a
    <2>7. LookedUp(g, a.f) /\ Searches(f, a.f, {k}) /\ Traced(f, a.f, {k})
      BY <2>5, <2>6, SearchesLooked, LookedTraced, TracedTwice DEF Standing
    <2>8. 1 \in DOMAIN a.f.files /\ a.f.files[1].key = k /\ u \in DOMAIN a.f.cache
      BY <1>2, <2>4, <2>7 DEF LookedUp, FsOK, Alike
    <2>9. CASE a.ok
      <3>1. Len(a.f.cache[u]) > 0
        BY <2>6, <2>9 DEF Standing
      <3> QED
        BY <2>7, <2>8, <2>9, <3>1, StepContinues
    <2>10. CASE ~a.ok
      BY <2>7, <2>8, <2>10, EndedContinues
    <2> QED
      BY <2>9, <2>10
  <1> HIDE DEF s, t
  <1>3. ASSUME u \in DOMAIN f.cache
        PROVE  Resumes(f, k, t)
    <2>1. CASE At(f.files, k) = {}
      BY <2>1 DEF t, Ret, Resumes
    <2>2. CASE At(f.files, k) # {}
      BY <1>2, <1>3, <2>2 DEF t, Resumes
    <2> QED
      BY <2>1, <2>2
  <1>4. CASE u >= DriveMax
    <2>1. ~(u < DriveMax)
      BY <1>4, HostAssumption
    <2>2. NFiles(f, h, u, k, p) = Ret(f, h, "INVALIDUNIT")
      BY <1>1, <1>4, <2>1 DEF OnUnit
    <2> QED
      BY <2>2 DEF Ret, Resumes
  <1>5. CASE ~(u >= DriveMax) /\ u >= f.units
    <2>1. u < DriveMax
      BY <1>5, HostAssumption
    <2>2. NFiles(f, h, u, k, p) = Ret(f, h, "MEDIAOFFLINE")
      BY <1>1, <1>5, <2>1 DEF OnUnit
    <2> QED
      BY <2>2 DEF Ret, Resumes
  <1>6. CASE ~(u >= DriveMax) /\ ~(u >= f.units)
    <2>1. u \in DOMAIN f.cache
      BY <1>6 DEF FsOK
    <2>2. NFiles(f, h, u, k, p) = t
      BY <1>1, <1>6 DEF OnUnit
    <2> QED
      BY <1>3, <2>1, <2>2
  <1> QED
    BY <1>4, <1>5, <1>6

LEMMA SearchesOn ==
  ASSUME NEW f, NEW g, NEW h, NEW gone, NEW more, Searches(f, g, gone), Searches(g, h, more)
  PROVE  Searches(f, h, gone \cup more)
  BY DEF Searches

(* FILES: only when all buffers are in use does another search lose its own. *)
Starts(f, k, r) ==
  /\ FsOK(r.fs) /\ Traced(f, r.fs, {k})
  /\ r.result # "OUTOFMEM" /\ (r.result = "OK" => At(r.fs.files, k) # {})
  /\ FreeLast(f.files) =>
       /\ FreeLast(r.fs.files)
       /\ \A j \in Keys \ {k} : At(f.files, j) # {} /\ At(r.fs.files, j) = {}
            => \A i \in DOMAIN f.files : f.files[i].key # 0

(* The buffer that FILES has taken is given what it is to search.           *)
Rebegun(f, u, d, attr) ==
  [f EXCEPT !.files[1].unit = u, !.files[1].path = d, !.files[1].attr = attr]

LEMMA RebegunSearch ==
  ASSUME NEW f, FsOK(f), 1 \in DOMAIN f.files, NEW u, NEW d \in Seq(Names), NEW attr,
         NEW g, g = Rebegun(f, u, d, attr)
  PROVE  /\ Searches(f, g, {}) /\ g.cache = f.cache
         /\ 1 \in DOMAIN g.files /\ g.files[1].key = f.files[1].key
         /\ Traced(f, g, {f.files[1].key})
  <1> DEFINE s == f.files[1]
             e == [s EXCEPT !.unit = u, !.path = d, !.attr = attr]
             x == [f EXCEPT !.files[1] = e]
  <1>1. IsSearch(s)
    BY DEF FsOK, SearchRing
  <1>2. IsSearch(e) /\ e.key = s.key
    BY <1>1 DEF IsSearch, SearchFields
  <1>3. g = x
    BY <1>1 DEF Rebegun, FsOK, IsFs, FsFields
  <1> HIDE DEF e
  <1>4. /\ Searches(f, x, {}) /\ x.cache = f.cache /\ 1 \in DOMAIN x.files /\ x.files[1] = e
        /\ Traced(f, x, {e.key})
    BY <1>2, FirstSearched
  <1> QED
    BY <1>2, <1>3, <1>4

LEMMA FilesStarts ==
  ASSUME NEW f, FsOK(f), NEW h, NEW u \in Nat, NEW k \in Keys, NEW d \in Seq(Names), NEW attr
  PROVE  Starts(f, k, Files(f, h, u, k, d, attr))
  <1> DEFINE i == CHOOSE j \in At(f.files, k) : TRUE
             f0 == IF At(f.files, k) = {} THEN f ELSE FilesFree(f, i)
             g == FilesAlloc(f0, k)
             a == Find(g, u, h[u], d)
             x == Rebegun(a.f, u, d, attr)
             s == IF a.ok THEN Step(x, h, u, 1)
                  ELSE Ret(FilesFree(a.f, 1), h, IF d = Root THEN "FILENOTFND" ELSE "DIRNOTFND")
             t == IF attr = "volume" THEN FilesVolume(f0, h, d) ELSE s
  <1>1. Files(f, h, u, k, d, attr) = OnUnit(f0, h, u, "MEDIAOFFLINE", t)
    BY DEF Files, Rebegun
  <1>2. k \in Nat /\ k # 0
    BY HostAssumption
  <1>3. /\ Searches(f, f0, {k}) /\ f0.cache = f.cache /\ At(f0.files, k) = {}
        /\ f0 = f \/ Last(f0.files).key = 0
        /\ Traced(f, f0, {k})
    <2>1. CASE At(f.files, k) = {}
      BY <2>1, TracedNothing DEF Searches
    <2>2. CASE At(f.files, k) # {}
      <3>1. i \in DOMAIN f.files /\ f.files[i].key = k
        BY <2>2 DEF At
      <3> HIDE DEF i
      <3>2. f0 = FilesFree(f, i)
        BY <2>2
      <3> HIDE DEF f0
      <3> QED
        BY <1>2, <3>1, <3>2, FilesFreeFacts, TracedWider
    <2> QED
      BY <2>1, <2>2
  <1> HIDE DEF f0
  <1>4. ASSUME NEW r, Searches(f, r.fs, {k}), Traced(f, r.fs, {k}),
               r.result # "OUTOFMEM", r.result # "OK"
        PROVE  Starts(f, k, r)
    BY <1>4 DEF Starts, Searches
  <1>5. ASSUME u \in DOMAIN f0.cache
        PROVE  Starts(f, k, s)
    <2> DEFINE last == Last(f0.files).key
    <2>1. FsOK(f0)
      BY <1>3 DEF Searches
    <2>2. /\ Searches(f0, g, {last}) /\ g.cache = f0.cache /\ Traced(f0, g, {k})
          /\ 1 \in DOMAIN g.files /\ g.files[1].key = k
      BY <1>3, <1>5, <2>1, RingsThere, FilesAllocFacts
    <2> HIDE DEF g, last
    <2>3. FsOK(g) /\ u \in DOMAIN g.cache
      BY <1>5, <2>2 DEF Searches
    <2>4. Standing(g, u, d, a)
      BY <2>3, FindFacts
    <2> HIDE DEF a
    <2>5. /\ LookedUp(g, a.f) /\ FsOK(a.f) /\ Searches(f0, a.f, {last})
          /\ Traced(f0, a.f, {k}) /\ Traced(a.f, a.f, {k})
      BY <2>2, <2>4, SearchesLooked, LookedTraced, TracedTwice, TracedNothing DEF Standing, LookedUp
    <2>6. 1 \in DOMAIN a.f.files /\ a.f.files[1].key = k /\ u \in DOMAIN a.f.cache
      BY <2>2, <2>3, <2>5 DEF LookedUp, FsOK, Alike
    <2>7. Searches(a.f, s.fs, {k}) /\ Traced(a.f, s.fs, {k}) /\ s.result # "OUTOFMEM"
          /\ (s.result = "OK" => At(s.fs.files, k) # {})
      <3>1. CASE a.ok
        <4>1. x = Rebegun(a.f, u, d, attr)
          OBVIOUS
        <4> HIDE DEF x
        <4>2. /\ Searches(a.f, x, {}) /\ Traced(a.f, x, {k}) /\ x.cache = a.f.cache
              /\ 1 \in DOMAIN x.files /\ x.files[1].key = k
          <5>1. {a.f.files[1].key} = {k}
            BY <2>6
          <5>2. Traced(a.f, x, {a.f.files[1].key})
            BY <2>5, <2>6, <4>1, RebegunSearch
          <5> QED
            BY <5>1, <5>2, <2>5, <2>6, <4>1, RebegunSearch
        <4>3. Len(a.f.cache[u]) > 0
          BY <2>4, <3>1 DEF Standing
        <4>4. Searches(a.f, x, {k}) /\ Len(x.cache[u]) > 0 /\ u \in DOMAIN x.cache
          BY <2>6, <4>2, <4>3 DEF Searches
        <4>5. Continues(a.f, k, Step(x, h, u, 1))
          BY <4>2, <4>4, StepContinues
        <4>6. s = Step(x, h, u, 1)
          BY <3>1
        <4> HIDE DEF s
        <4> QED
          BY <4>5, <4>6 DEF Continues
      <3>2. CASE ~a.ok
        <4>1. Searches(a.f, FilesFree(a.f, 1), {k}) /\ Traced(a.f, FilesFree(a.f, 1), {k})
          BY <2>5, <2>6, FilesFreeFacts, TracedWider
        <4> QED
          BY <3>2, <4>1 DEF Ret
      <3> QED
        BY <3>1, <3>2
    <2> HIDE DEF s
    <2>8. Searches(f0, s.fs, {last} \cup {k})
      BY <2>5, <2>7, SearchesOn
    <2>9. Searches(f, s.fs, {k} \cup ({last} \cup {k})) /\ Traced(f, s.fs, {k})
      BY <1>3, <2>5, <2>7, <2>8, SearchesOn, TracedTwice
    <2>10. ASSUME FreeLast(f.files), NEW j \in Keys \ {k}, At(f.files, j) # {}, At(s.fs.files, j) = {}
           PROVE  \A m \in DOMAIN f.files : f.files[m].key # 0
      <3>1. j = last /\ j # 0
        BY <2>9, <2>10, HostAssumption DEF Searches
      <3>2. f0 = f
        BY <1>3, <3>1 DEF last
      <3>3. IsSeq(f.files) /\ Len(f.files) > 0
        BY <1>5, <3>2, RingsThere DEF FsOK, SearchRing
      <3> QED
        BY <2>10, <3>1, <3>2, <3>3, AllUsed DEF last
    <2> QED
      BY <2>7, <2>9, <2>10 DEF Starts, Searches
  <1> HIDE DEF s
  <1>6. ASSUME u \in DOMAIN f0.cache
        PROVE  Starts(f, k, t)
    <2>1. Starts(f, k, FilesVolume(f0, h, d))
      BY <1>3, <1>4 DEF FilesVolume, Ret
    <2> QED
      BY <1>5, <1>6, <2>1
  <1> HIDE DEF t
  <1>7. CASE u >= DriveMax
    <2>1. ~(u < DriveMax)
      BY <1>7, HostAssumption
    <2>2. Files(f, h, u, k, d, attr) = Ret(f0, h, "INVALIDUNIT")
      BY <1>1, <1>7, <2>1 DEF OnUnit
    <2> QED
      BY <1>3, <1>4, <2>2 DEF Ret
  <1>8. CASE ~(u >= DriveMax) /\ u >= f0.units
    <2>1. u < DriveMax
      BY <1>8, HostAssumption
    <2>2. Files(f, h, u, k, d, attr) = Ret(f0, h, "MEDIAOFFLINE")
      BY <1>1, <1>8, <2>1 DEF OnUnit
    <2> QED
      BY <1>3, <1>4, <2>2 DEF Ret
  <1>9. CASE ~(u >= DriveMax) /\ ~(u >= f0.units)
    <2>1. u \in DOMAIN f0.cache
      BY <1>3, <1>9 DEF Searches, FsOK
    <2>2. Files(f, h, u, k, d, attr) = t
      BY <1>1, <1>9 DEF OnUnit
    <2> QED
      BY <1>6, <2>1, <2>2
  <1> QED
    BY <1>7, <1>8, <1>9

(* DISKREAD: of the searches, only one of key 0 in front is out of order.   *)
LEMMA SectorsChanged ==
  ASSUME NEW f, FsOK(f), NEW g, IsFs(g), g.units = f.units, g.cache = f.cache,
         g.files = f.files, g.fcbs = f.fcbs
  PROVE  FsOK(g)
  BY DEF FsOK, Sized

Reads(f, r) ==
  /\ FsOK(r.fs) /\ r.result # "OUTOFMEM" /\ Traced(f, r.fs, {})
  /\ \A j \in Keys : At(f.files, j) # {} => At(r.fs.files, j) # {}
  /\ \/ FreeLast(f.files) => FreeLast(r.fs.files)
     \/ r.fs # f /\ r.fs.files # <<>> /\ Head(r.fs.files).key = 0

LEMMA FrontReads ==
  ASSUME NEW f, FsOK(f), NEW k \in Nat, At(f.files, k) # {}, NEW g, FsOK(g),
         g.files = Searched(f.files, k), NEW h, NEW code, code # "OUTOFMEM"
  PROVE  Reads(f, Ret(g, h, code))
  <1> DEFINE y == [f EXCEPT !.files = Searched(@, k)]
  <1>1. /\ 1 \in DOMAIN y.files /\ y.files[1].key = k
        /\ k # 0 /\ FreeLast(f.files) => FreeLast(y.files)
        /\ \A j \in Keys : At(f.files, j) # {} => At(y.files, j) # {}
        /\ Traced(f, y, {})
    BY SearchedFront
  <1>2. y.files = g.files
    BY DEF FsOK, IsFs, FsFields
  <1> HIDE DEF y
  <1>3. k = 0 /\ g # f => g.files # <<>> /\ Head(g.files).key = 0
    <2>1. IsSeq(g.files) /\ g.files[1].key = k /\ 1 \in DOMAIN g.files
      BY <1>1, <1>2 DEF FsOK, SearchRing
    <2>2. g.files \in Seq(ToSet(g.files)) /\ g.files # <<>>
      BY <2>1, SeqOfElements
    <2>3. Head(g.files) = g.files[1]
      BY <2>2
    <2> QED
      BY <2>1, <2>2, <2>3
  <1>4. Traced(f, g, {})
    BY <1>1, <1>2 DEF Traced
  <1> QED
    BY <1>1, <1>2, <1>3, <1>4 DEF Reads, Ret

LEMMA DiskReadReads ==
  ASSUME NEW f, FsOK(f), NEW h, NEW u \in Nat, NEW size, NEW k \in Nat, NEW cluster,
         NEW read, read # "OUTOFMEM"
  PROVE  Reads(f, DiskRead(f, h, u, size, k, cluster, read))
  <1> DEFINE of == IF cluster = 0 THEN 0 ELSE f.sectors[cluster]
             x == [f EXCEPT !.files = Searched(@, k), !.sectors[f.count + 1] = k,
                            !.count = (@ + 1) % SectorMax]
             y == [f EXCEPT !.files = Searched(@, of)]
             r == IF size # 1 THEN Ret(f, h, "INVALIDPRM")
                  ELSE IF At(f.files, k) # {} /\ cluster = 0 THEN Ret(x, h, "OK")
                  ELSE IF cluster # 0 /\ At(f.files, of) # {} THEN Ret(y, h, read)
                  ELSE Ret(f, h, "INVALIDPRM")
  <1>1. DiskRead(f, h, u, size, k, cluster, read) = OnUnit(f, h, u, "MEDIAOFFLINE", r)
    BY DEF DiskRead
  <1>2. ASSUME NEW code, code # "OUTOFMEM"
        PROVE  Reads(f, Ret(f, h, code))
    BY <1>2, TracedNothing DEF Reads, Ret
  <1>3. ASSUME At(f.files, k) # {}
        PROVE  Reads(f, Ret(x, h, "OK"))
    <2> DEFINE z == [f EXCEPT !.files = Searched(@, k)]
    <2>1. FsOK(z)
      BY <1>3, SearchedFront
    <2>2. /\ IsFs(x) /\ x.files = Searched(f.files, k) /\ z.files = Searched(f.files, k)
          /\ x.units = z.units /\ x.cache = z.cache /\ x.fcbs = z.fcbs
      BY DEF FsOK, IsFs, FsFields
    <2> HIDE DEF x, z
    <2>3. FsOK(x)
      BY <2>1, <2>2, SectorsChanged
    <2> QED
      BY <1>3, <2>2, <2>3, FrontReads
  <1>4. ASSUME At(f.files, of) # {}
        PROVE  Reads(f, Ret(y, h, read))
    <2> HIDE DEF of
    <2>1. PICK i \in DOMAIN f.files : f.files[i].key = of
      BY <1>4 DEF At
    <2>2. of \in Nat
      BY <2>1 DEF FsOK, SearchRing, IsSearch
    <2>3. FsOK(y)
      BY <1>4, <2>2, SearchedFront
    <2>4. y.files = Searched(f.files, of)
      BY DEF FsOK, IsFs, FsFields
    <2> HIDE DEF y
    <2> QED
      BY <1>4, <2>2, <2>3, <2>4, FrontReads
  <1> HIDE DEF x, y, of
  <1>5. Reads(f, r)
    BY <1>2, <1>3, <1>4
  <1> HIDE DEF r
  <1>6. Reads(f, Ret(f, h, "INVALIDUNIT")) /\ Reads(f, Ret(f, h, "MEDIAOFFLINE"))
    BY <1>2
  <1>7. CASE u >= DriveMax
    <2>1. ~(u < DriveMax)
      BY <1>7, HostAssumption
    <2> QED
      BY <1>1, <1>6, <1>7, <2>1 DEF OnUnit
  <1>8. CASE ~(u >= DriveMax) /\ u >= f.units
    <2>1. u < DriveMax
      BY <1>8, HostAssumption
    <2> QED
      BY <1>1, <1>6, <1>8, <2>1 DEF OnUnit
  <1>9. CASE ~(u >= DriveMax) /\ ~(u >= f.units)
    BY <1>1, <1>5, <1>9 DEF OnUnit
  <1> QED
    BY <1>7, <1>8, <1>9

(* INIT DEVICE: all is free.                                                *)
LEMMA OptionFs ==
  ASSUME NEW f, IsFs(f), NEW option
  PROVE  IsFs(SetOption(f, option))
  BY DEF SetOption, IsFs, FsFields

LEMMA InitDeviceFacts ==
  ASSUME NEW f, IsFs(f), NEW h, NEW n \in UnitCounts, NEW option
  PROVE  LET r == InitDevice(Reset(f), h, n, option)
         IN FsOK(r.fs) /\ r.result = "OK" /\ \A i \in DOMAIN r.fs.files : r.fs.files[i].key = 0
  <1> DEFINE f0 == [f EXCEPT !.files = <<>>, !.fcbs = <<>>, !.cache = <<>>,
                             !.sectors = [i \in DOMAIN @ |-> 0], !.count = 0]
             g == SetOption(Reset(f), option)
             files == [i \in 1..FilesMax |-> NoSearch]
             fcbs == [i \in 1..FcbMax |-> NoFcb]
             cache == [u \in 0..(n - 1) |-> <<>>]
             x == [g EXCEPT !.units = n, !.cache = [u \in 0..(n - 1) |-> <<>>],
                            !.files = [i \in 1..FilesMax |-> NoSearch],
                            !.fcbs = [i \in 1..FcbMax |-> NoFcb]]
  <1>1. InitDevice(Reset(f), h, n, option) = Ret(x, h, "OK")
    BY DEF InitDevice
  <1>2. IsFs(f0)
    BY DEF IsFs, FsFields
  <1>3. Reset(f) = SetOption(f0, 0)
    BY DEF Reset
  <1> HIDE DEF f0
  <1>4. IsFs(g)
    BY <1>2, <1>3, OptionFs
  <1> HIDE DEF g
  <1>5. IsFs(x) /\ x.units = n /\ x.cache = cache /\ x.files = files /\ x.fcbs = fcbs
    BY <1>4 DEF IsFs, FsFields
  <1> HIDE DEF x
  <1>6. SearchRing(files) /\ Len(files) = FilesMax /\ \A i \in DOMAIN files : files[i].key = 0
    <2>1. files = [i \in 1..FilesMax |-> files[i]]
      OBVIOUS
    <2>2. IsSeq(files) /\ Len(files) = FilesMax
      BY <2>1, HostAssumption, MappedSeq
    <2>3. IsSearch(NoSearch) /\ NoSearch.key = 0
      BY DEF IsSearch, SearchFields, NoSearch, Root
    <2>4. \A i \in DOMAIN files : files[i] = NoSearch
      OBVIOUS
    <2> HIDE DEF files
    <2> QED
      BY <2>2, <2>3, <2>4 DEF SearchRing, KeysOnce
  <1>7. FcbRing(fcbs) /\ Len(fcbs) = FcbMax
    <2>1. fcbs = [i \in 1..FcbMax |-> fcbs[i]]
      OBVIOUS
    <2>2. IsSeq(fcbs) /\ Len(fcbs) = FcbMax
      BY <2>1, HostAssumption, MappedSeq
    <2>3. IsFcb(NoFcb) /\ NoFcb.key = 0
      BY DEF IsFcb, FcbFields, NoFcb
    <2>4. \A i \in DOMAIN fcbs : fcbs[i] = NoFcb
      OBVIOUS
    <2> HIDE DEF fcbs
    <2> QED
      BY <2>2, <2>3, <2>4 DEF FcbRing, KeysOnce, FreeLast
  <1>8. n \in 0..DriveMax
    BY HostAssumption
  <1>9. PathRing(<<>>)
    BY DriveAssumption DEF PathRing, IsSeq
  <1>10. DOMAIN cache = 0..(n - 1) /\ \A u \in DOMAIN cache : PathRing(cache[u])
    BY <1>9
  <1> HIDE DEF files, fcbs, cache
  <1>11. FsOK(x)
    BY <1>5, <1>6, <1>7, <1>8, <1>10 DEF FsOK, Sized
  <1>12. \A i \in DOMAIN x.files : x.files[i].key = 0
    BY <1>5, <1>6
  <1> QED
    BY <1>1, <1>11, <1>12 DEF Ret

-----------------------------------------------------------------------------
(* The messages                                                            *)

(* What a step has to keep, and the two action properties.                  *)
SearchStep ==
  \A k \in Keys :
    watch[k].st = "open" /\ watch'[k].st = "none" /\ "zero" \notin excuses /\ fs'.files # <<>>
      => \/ \A i \in DOMAIN fs.files : fs.files[i].key # 0
         \/ \A j \in DOMAIN fs'.files : fs'.files[j].key = 0

MemoryStep ==
  reply'.result = "OUTOFMEM" => \A i \in DOMAIN fs.fcbs : fs.fcbs[i].key # 0

StepOK == RingsInv' /\ SearchStep /\ MemoryStep

(* The history that a call leaves: a search ends with its buffer alone.     *)
SeenIn(f, w) ==
  /\ w = [k \in Keys |-> w[k]]
  /\ \A k \in Keys :
       /\ IsWatch(w[k])
       /\ w[k].st = "open" => At(f.files, k) # {}
       /\ watch[k].st = "open" /\ At(f.files, k) # {} => w[k].st = "open"

LEMMA ObservedFacts ==
  ASSUME Watched, NEW f, NEW h
  PROVE  SeenIn(f, Observed(f, h))
  <1> DEFINE w == Observed(f, h)
             s(k) == f.files[CHOOSE i \in At(f.files, k) : TRUE]
             owed(k) == {n \in watch[k].owed : Same(h, watch[k].unit, Append(watch[k].path, n))}
             steady(k) ==
               /\ watch[k].steady /\ InPlace(h, watch[k].unit, watch[k].path, s(k))
               /\ Straight(f, watch[k].unit, watch[k].path)
             e(k) == IF watch[k].st # "open" THEN watch[k]
                     ELSE IF At(f.files, k) = {} THEN NoWatch
                     ELSE [watch[k] EXCEPT !.owed = owed(k), !.steady = steady(k)]
  <1>1. w = [k \in Keys |-> e(k)]
    BY ZenonT(30) DEF Observed
  <1> HIDE DEF owed, steady, w
  <1>2. ASSUME NEW k \in Keys
        PROVE  /\ IsWatch(e(k))
               /\ e(k).st = "open" => At(f.files, k) # {}
               /\ watch[k].st = "open" /\ At(f.files, k) # {} => e(k).st = "open"
    <2>1. IsWatch(watch[k]) /\ (watch[k].st = "open" => At(fs.files, k) # {})
      BY DEF Watched
    <2>2. IsWatch(NoWatch) /\ NoWatch.st = "none"
      BY DEF IsWatch, WatchFields, NoWatch
    <2>3. PICK a, b : a = owed(k) /\ b = steady(k)
      OBVIOUS
    <2>4. CASE watch[k].st # "open"
      BY <2>1, <2>4
    <2>5. CASE watch[k].st = "open" /\ At(f.files, k) = {}
      BY <2>2, <2>5
    <2>6. CASE watch[k].st = "open" /\ At(f.files, k) # {}
      <3>1. e(k) = [watch[k] EXCEPT !.owed = a, !.steady = b]
        BY <2>3, <2>6
      <3> HIDE DEF e
      <3> QED
        BY <2>1, <2>6, <3>1 DEF IsWatch, WatchFields
    <2> QED
      BY <2>4, <2>5, <2>6
  <1> HIDE DEF e
  <1> QED
    BY <1>1, <1>2 DEF w, SeenIn

(* The handlers that only report: nobody loses a search buffer.             *)
LEMMA ReportedOK ==
  ASSUME RingsInv, NEW op, NEW r, Reported(op, r), Serving(fs, r)
  PROVE  StepOK
  <1>1. fs' = r.fs /\ reply'.result = r.result /\ work' = work
        /\ watch' = Observed(r.fs, r.host) /\ ("zero" \in excuses => "zero" \in excuses')
    BY DEF Reported, WriteFs, Answer
  <1>2. FsOK(fs') /\ (FreeLast(fs.files) => FreeLast(fs'.files))
        /\ \A k \in Keys : At(fs.files, k) # {} => At(fs'.files, k) # {}
    BY <1>1 DEF Serving, Serves
  <1>3. /\ watch' = [k \in Keys |-> watch'[k]]
        /\ \A k \in Keys :
             /\ IsWatch(watch'[k])
             /\ watch'[k].st = "open" => At(fs'.files, k) # {}
             /\ watch[k].st = "open" /\ At(fs'.files, k) # {} => watch'[k].st = "open"
    <2>1. SeenIn(r.fs, Observed(r.fs, r.host))
      BY ObservedFacts DEF RingsInv
    <2> QED
      BY <1>1, <2>1 DEF SeenIn
  <1>4. RingsInv'
    BY <1>1, <1>2, <1>3 DEF RingsInv, Watched
  <1>5. SearchStep
    <2>1. \A k \in Keys : watch[k].st = "open" => watch'[k].st = "open"
      BY <1>2, <1>3 DEF RingsInv, Watched
    <2> QED
      BY <2>1 DEF SearchStep
  <1>6. MemoryStep
    BY <1>1 DEF MemoryStep, Serving
  <1> QED
    BY <1>4, <1>5, <1>6 DEF StepOK

LEMMA Arguments ==
  ASSUME RingsInv
  PROVE  UnitArgs \subseteq Nat /\ Dirs \subseteq Seq(Names) /\ work.keys \subseteq Keys
  <1>1. work \in Workloads
    BY DEF RingsInv
  <1> QED
    BY <1>1, HostAssumption DEF UnitArgs, Dirs

LEMMA InitDeviceOK ==
  ASSUME RingsInv, FS_InitDevice
  PROVE  StepOK
  <1>1. PICK n \in UnitCounts, option \in 0..1 :
          Answer(InitDevice(Reset(fs), host, n, option), 0, Root)
    BY DEF FS_InitDevice
  <1> DEFINE r == InitDevice(Reset(fs), host, n, option)
  <1>2. FsOK(r.fs) /\ r.result = "OK" /\ \A i \in DOMAIN r.fs.files : r.fs.files[i].key = 0
    <2>1. IsFs(fs)
      BY DEF RingsInv, FsOK
    <2> QED
      BY <2>1, InitDeviceFacts
  <1> HIDE DEF r
  <1>3. fs' = r.fs /\ reply'.result = r.result /\ work' = work
        /\ watch' = [k \in Keys |-> NoWatch]
    BY <1>1 DEF FS_InitDevice, WriteFs, Answer, r
  <1>4. FsOK(fs') /\ reply'.result = "OK" /\ \A i \in DOMAIN fs'.files : fs'.files[i].key = 0
    BY <1>2, <1>3
  <1>5. FreeLast(fs'.files)
    BY <1>4 DEF FreeLast
  <1>6. /\ watch' = [k \in Keys |-> watch'[k]]
        /\ \A k \in Keys : IsWatch(watch'[k]) /\ (watch'[k].st = "open" => At(fs'.files, k) # {})
    <2>1. IsWatch(NoWatch) /\ NoWatch.st = "none"
      BY DEF IsWatch, WatchFields, NoWatch
    <2> QED
      BY <1>3, <2>1
  <1>7. RingsInv'
    BY <1>3, <1>4, <1>5, <1>6 DEF RingsInv, Watched
  <1> QED
    BY <1>4, <1>7 DEF StepOK, SearchStep, MemoryStep

(* FILES starts the search of a key, and may end one that is in its way.    *)
LEMMA StartedWatch ==
  ASSUME NEW k, NEW u, NEW d, NEW attr, NEW r
  PROVE  LET w == Started(k, u, d, attr, r)
         IN IsWatch(w) /\ w.st # "none" /\ (w.st = "open" => r.result = "OK")
  <1>1. CASE r.result = "OK"
    BY <1>1 DEF Started, IsWatch, WatchFields
  <1>2. CASE r.result # "OK" /\ r.result = "FILENOTFND" /\ attr # "volume"
    BY <1>2 DEF Started, NoWatch, IsWatch, WatchFields
  <1>3. CASE r.result # "OK" /\ ~(r.result = "FILENOTFND" /\ attr # "volume")
    BY <1>3 DEF Started, NoWatch, IsWatch, WatchFields
  <1> QED
    BY <1>1, <1>2, <1>3

LEMMA FilesOK ==
  ASSUME RingsInv, FS_Files
  PROVE  StepOK
  <1>1. PICK u \in UnitArgs, k \in work.keys, d \in Dirs,
             attr \in (IF work.strange THEN {"all", "file", "volume"} ELSE {"all"}) :
          LET r == Files(fs, host, u, k, d, attr)
          IN /\ Answer(r, u, Entry(d, r))
             /\ watch' = [Observed(r.fs, r.host) EXCEPT ![k] = Started(k, u, d, attr, r)]
    BY DEF FS_Files
  <1>2. u \in Nat /\ k \in Keys /\ d \in Seq(Names)
    BY Arguments
  <1> DEFINE r == Files(fs, host, u, k, d, attr)
             w == Observed(r.fs, r.host)
             s == Started(k, u, d, attr, r)
  <1>3. Starts(fs, k, r)
    BY <1>2, FilesStarts DEF RingsInv
  <1>4. IsWatch(s) /\ s.st # "none" /\ (s.st = "open" => r.result = "OK")
    BY StartedWatch
  <1>5. fs' = r.fs /\ reply'.result = r.result /\ work' = work /\ watch' = [w EXCEPT ![k] = s]
        /\ ("zero" \in excuses => "zero" \in excuses')
    BY <1>1 DEF FS_Files, WriteFs, Answer
  <1> HIDE DEF r, s
  <1>6. /\ w = [j \in Keys |-> w[j]]
        /\ \A j \in Keys :
             /\ IsWatch(w[j])
             /\ w[j].st = "open" => At(fs'.files, j) # {}
             /\ watch[j].st = "open" /\ At(fs'.files, j) # {} => w[j].st = "open"
    <2>1. SeenIn(r.fs, Observed(r.fs, r.host))
      BY ObservedFacts DEF RingsInv
    <2> QED
      BY <1>5, <2>1 DEF SeenIn
  <1> HIDE DEF w
  <1>7. /\ watch' = [j \in Keys |-> watch'[j]] /\ watch'[k] = s
        /\ \A j \in Keys : j # k => watch'[j] = w[j]
    BY <1>2, <1>5, <1>6
  <1>8. Watched'
    <2>1. s.st = "open" => At(fs'.files, k) # {}
      BY <1>3, <1>4, <1>5 DEF Starts
    <2> QED
      BY <1>4, <1>6, <1>7, <2>1 DEF Watched
  <1>9. RingsInv'
    BY <1>3, <1>5, <1>8 DEF RingsInv, Starts
  <1>10. SearchStep
    <2>1. ASSUME NEW j \in Keys, watch[j].st = "open", watch'[j].st = "none", "zero" \notin excuses
          PROVE  \A i \in DOMAIN fs.files : fs.files[i].key # 0
      <3>1. j # k /\ w[j].st # "open"
        BY <1>4, <1>7, <2>1
      <3>2. At(fs.files, j) # {} /\ At(fs'.files, j) = {} /\ FreeLast(fs.files)
        BY <1>6, <2>1, <3>1 DEF RingsInv, Watched
      <3> QED
        BY <1>3, <1>5, <3>1, <3>2 DEF Starts
    <2> QED
      BY <2>1 DEF SearchStep
  <1>11. MemoryStep
    BY <1>3, <1>5 DEF MemoryStep, Starts
  <1> QED
    BY <1>9, <1>10, <1>11 DEF StepOK

LEMMA NFilesOK ==
  ASSUME RingsInv, FS_NFiles
  PROVE  StepOK
  <1> DEFINE Went(u, k, p) ==
               LET r == NFiles(fs, host, u, k, p)
               IN /\ Answer(r, u, IF r.name = 0 THEN Root ELSE Entry(r.fs.files[1].path, r))
                  /\ watch' = [Observed(r.fs, r.host) EXCEPT ![k] = Continued(u, k, r)]
  <1>0. PICK u \in UnitArgs, k \in work.keys : \E p : Went(u, k, p)
    BY ZenonT(30) DEF FS_NFiles
  <1>1. PICK p : Went(u, k, p)
    BY <1>0
  <1>2. u \in Nat /\ k \in Keys
    BY Arguments
  <1> DEFINE r == NFiles(fs, host, u, k, p)
             w == Observed(r.fs, r.host)
             s == Continued(u, k, r)
  <1>3. Resumes(fs, k, r)
    BY <1>2, NFilesContinues DEF RingsInv
  <1>4. fs' = r.fs /\ reply'.result = r.result /\ work' = work /\ watch' = [w EXCEPT ![k] = s]
        /\ ("zero" \in excuses => "zero" \in excuses')
    BY <1>1 DEF FS_NFiles, WriteFs, Answer
  <1>5. IsWatch(watch[k]) /\ (watch[k].st = "open" => At(fs.files, k) # {})
    BY <1>2 DEF RingsInv, Watched
  <1>6. /\ IsWatch(s) /\ (watch[k].st = "open" => s.st # "none")
        /\ s.st = "open" => watch[k].st = "open" /\ r.result # "FILENOTFND"
    <2>1. CASE watch[k].st = "open" /\ r.result = "OK"
      <3>1. PICK b : s = [watch[k] EXCEPT !.owed = @ \ {r.name}, !.steady = b]
        BY <2>1 DEF Continued
      <3> QED
        BY <1>5, <2>1, <3>1 DEF IsWatch, WatchFields
    <2>2. CASE watch[k].st = "open" /\ r.result = "FILENOTFND"
      <3>1. PICK b : s = [watch[k] EXCEPT !.st = "ended", !.steady = b]
        BY <2>2 DEF Continued
      <3> QED
        BY <1>5, <3>1 DEF IsWatch, WatchFields
    <2>3. CASE watch[k].st # "open" \/ (r.result # "OK" /\ r.result # "FILENOTFND")
      <3>1. s = watch[k]
        BY <2>3 DEF Continued
      <3> QED
        BY <1>5, <2>3, <3>1
    <2> QED
      BY <2>1, <2>2, <2>3
  <1> HIDE DEF r, s
  <1>7. /\ FsOK(fs') /\ (FreeLast(fs.files) => FreeLast(fs'.files)) /\ r.result # "OUTOFMEM"
        /\ \A j \in Keys \ {k} : At(fs.files, j) # {} => At(fs'.files, j) # {}
        /\ s.st = "open" => At(fs'.files, k) # {}
    <2>1. CASE r.fs = fs /\ r.result \in {"INVALIDUNIT", "MEDIAOFFLINE", "INVALIDPTR"}
      BY <1>4, <1>5, <1>6, <2>1 DEF RingsInv
    <2>2. CASE Continues(fs, k, r)
      BY <1>4, <1>6, <2>2 DEF Continues, Searches
    <2> QED
      BY <1>3, <2>1, <2>2 DEF Resumes
  <1>8. /\ w = [j \in Keys |-> w[j]]
        /\ \A j \in Keys :
             /\ IsWatch(w[j])
             /\ w[j].st = "open" => At(fs'.files, j) # {}
             /\ watch[j].st = "open" /\ At(fs'.files, j) # {} => w[j].st = "open"
    <2>1. SeenIn(r.fs, Observed(r.fs, r.host))
      BY ObservedFacts DEF RingsInv
    <2> QED
      BY <1>4, <2>1 DEF SeenIn
  <1> HIDE DEF w
  <1>9. /\ watch' = [j \in Keys |-> watch'[j]] /\ watch'[k] = s
        /\ \A j \in Keys : j # k => watch'[j] = w[j]
    BY <1>2, <1>4, <1>8
  <1>10. Watched'
    BY <1>6, <1>7, <1>8, <1>9 DEF Watched
  <1>11. RingsInv'
    BY <1>4, <1>7, <1>10 DEF RingsInv
  <1>12. SearchStep
    <2>1. ASSUME NEW j \in Keys, watch[j].st = "open"
          PROVE  watch'[j].st # "none"
      <3>1. CASE j = k
        BY <1>6, <1>9, <2>1, <3>1
      <3>2. CASE j # k
        <4>1. At(fs'.files, j) # {}
          BY <1>7, <2>1, <3>2 DEF RingsInv, Watched
        <4> QED
          BY <1>8, <1>9, <2>1, <3>2, <4>1
      <3> QED
        BY <3>1, <3>2
    <2> QED
      BY <2>1 DEF SearchStep
  <1>13. MemoryStep
    BY <1>4, <1>7 DEF MemoryStep
  <1> QED
    BY <1>11, <1>12, <1>13 DEF StepOK

LEMMA DiskReadOK ==
  ASSUME RingsInv, FS_DiskRead
  PROVE  StepOK
  <1>1. PICK u \in UnitArgs, size \in 1..2, k \in work.keys \cup {0}, cluster \in 0..SectorMax,
             read \in {"OK", "INVALIDPRM"} :
          LET Free(g) == g # fs /\ g.files # <<>> /\ Head(g.files).key = 0
              Then(r) == /\ Answer(r, 0, Root) /\ watch' = Observed(r.fs, r.host)
                         /\ excuses' = IF Free(r.fs) THEN excuses \cup {"zero"} ELSE excuses
          IN Then(DiskRead(fs, host, u, size, k, cluster, read))
    BY DEF FS_DiskRead
  <1>2. u \in Nat /\ k \in Nat
    <2>1. UnitArgs \subseteq Nat /\ work.keys \subseteq Keys
      BY Arguments
    <2>2. Keys \subseteq Nat
      BY HostAssumption
    <2>3. k \in work.keys \/ k = 0
      OBVIOUS
    <2>4. u \in Nat
      BY <2>1
    <2>5. CASE k \in work.keys
      BY <2>1, <2>2, <2>4, <2>5
    <2>6. CASE k = 0
      BY <2>4, <2>6
    <2> QED
      BY <2>3, <2>5, <2>6
  <1> DEFINE r == DiskRead(fs, host, u, size, k, cluster, read)
  <1>3. Reads(fs, r)
    BY <1>2, DiskReadReads DEF RingsInv
  <1>4. /\ fs' = r.fs /\ reply'.result = r.result /\ work' = work /\ watch' = Observed(r.fs, r.host)
        /\ excuses' = IF r.fs # fs /\ r.fs.files # <<>> /\ Head(r.fs.files).key = 0
                      THEN excuses \cup {"zero"} ELSE excuses
    BY <1>1 DEF FS_DiskRead, WriteFs, Answer
  <1> HIDE DEF r
  <1>5. /\ watch' = [j \in Keys |-> watch'[j]]
        /\ \A j \in Keys :
             /\ IsWatch(watch'[j])
             /\ watch'[j].st = "open" => At(fs'.files, j) # {}
             /\ watch[j].st = "open" /\ At(fs'.files, j) # {} => watch'[j].st = "open"
    <2>1. SeenIn(r.fs, Observed(r.fs, r.host))
      BY ObservedFacts DEF RingsInv
    <2> QED
      BY <1>4, <2>1 DEF SeenIn
  <1>6. "zero" \in excuses' \/ FreeLast(fs'.files)
    BY <1>3, <1>4 DEF RingsInv, Reads
  <1>7. FsOK(fs') /\ Watched'
    BY <1>3, <1>4, <1>5 DEF Reads, Watched
  <1>8. RingsInv'
    BY <1>4, <1>6, <1>7 DEF RingsInv
  <1>9. SearchStep
    <2>1. \A j \in Keys : watch[j].st = "open" => watch'[j].st = "open"
      BY <1>3, <1>4, <1>5 DEF RingsInv, Watched, Reads
    <2> QED
      BY <2>1 DEF SearchStep
  <1>10. MemoryStep
    BY <1>3, <1>4 DEF MemoryStep, Reads
  <1> QED
    BY <1>8, <1>9, <1>10 DEF StepOK

(* Initially there is neither a drive nor a ring.                           *)
LEMMA InitOK ==
  ASSUME FsInit
  PROVE  RingsInv
  <1>1. IsSeq(<<>>) /\ Len(<<>>) = 0 /\ DOMAIN <<>> = {}
    BY DEF IsSeq
  <1>2. /\ IsFs(fs) /\ fs.units = 0 /\ fs.cache = <<>> /\ fs.files = <<>> /\ fs.fcbs = <<>>
    BY DEF FsInit, IsFs, FsFields
  <1>3. FsOK(fs)
    BY <1>1, <1>2, HostAssumption
    DEF FsOK, Sized, SearchRing, FcbRing, KeysOnce, FreeLast
  <1>4. IsWatch(NoWatch) /\ NoWatch.st # "open"
    BY DEF IsWatch, WatchFields, NoWatch
  <1>5. Watched
    BY <1>4 DEF FsInit, Watched
  <1>6. FreeLast(fs.files)
    BY <1>1, <1>2 DEF FreeLast
  <1> QED
    BY <1>3, <1>5, <1>6 DEF FsInit, RingsInv

LEMMA NextOK ==
  ASSUME RingsInv, FsNext
  PROVE  StepOK
  <1>1. FsOK(fs) /\ UnitArgs \subseteq Nat /\ Dirs \subseteq Seq(Names) /\ work.keys \subseteq Keys
    BY Arguments DEF RingsInv
  <1>2. CASE FS_InitDevice
    BY <1>2, InitDeviceOK
  <1>3. CASE FS_CheckDir
    BY <1>1, <1>3, CheckDirServing, ReportedOK DEF FS_CheckDir
  <1>4. CASE FS_MakeDir
    BY <1>1, <1>4, MakeDirServing, ReportedOK DEF FS_MakeDir
  <1>5. CASE FS_RemoveDir
    BY <1>1, <1>5, RemoveDirServing, ReportedOK DEF FS_RemoveDir
  <1>6. CASE FS_Rename
    BY <1>1, <1>6, RenameServing, ReportedOK DEF FS_Rename
  <1>7. CASE FS_Delete
    BY <1>1, <1>7, DeleteServing, ReportedOK DEF FS_Delete
  <1>8. CASE FS_Attribute
    BY <1>1, <1>8, AttributeServing, ReportedOK DEF FS_Attribute
  <1>9. CASE FS_Files
    BY <1>9, FilesOK
  <1>10. CASE FS_NFiles
    BY <1>10, NFilesOK
  <1>11. CASE FS_Create
    BY <1>1, <1>11, CreateServing, ReportedOK DEF FS_Create
  <1>12. CASE FS_Open
    BY <1>1, <1>12, OpenServing, ReportedOK DEF FS_Open
  <1>13. CASE FS_Close
    BY <1>1, <1>13, CloseServing, ReportedOK DEF FS_Close
  <1>14. CASE FS_Read
    BY <1>1, <1>14, ReadServing, ReportedOK DEF FS_Read
  <1>15. CASE FS_Write
    BY <1>1, <1>15, WriteServing, ReportedOK DEF FS_Write
  <1>16. CASE FS_Seek
    BY <1>1, <1>16, SeekServing, ReportedOK DEF FS_Seek
  <1>17. CASE FS_TimeStamp
    BY <1>1, <1>17, TimeStampServing, ReportedOK DEF FS_TimeStamp
  <1>18. CASE FS_GetCapacity
    BY <1>1, <1>18, UnitServing, ReportedOK DEF FS_GetCapacity, GetCapacity
  <1>19. CASE FS_CtrlDrive
    BY <1>1, <1>19, CtrlDriveServing, ReportedOK DEF FS_CtrlDrive
  <1>20. CASE FS_GetDPB
    BY <1>1, <1>20, GetDPBServing, ReportedOK DEF FS_GetDPB
  <1>21. CASE FS_DiskRead
    BY <1>21, DiskReadOK
  <1>22. CASE FS_DiskWrite
    BY <1>1, <1>22, UnitServing, ReportedOK DEF FS_DiskWrite, DiskWrite
  <1>23. CASE FS_Ioctrl
    BY <1>1, <1>23, IoctrlServing, ReportedOK DEF FS_Ioctrl
  <1>24. CASE FS_Flush
    BY <1>1, <1>24, UnitServing, ReportedOK DEF FS_Flush, Flush
  <1>25. CASE FS_CheckMedia
    BY <1>1, <1>25, UnitServing, ReportedOK DEF FS_CheckMedia, CheckMedia
  <1>26. CASE FS_Lock
    BY <1>1, <1>26, UnitServing, ReportedOK DEF FS_Lock, Lock
  <1> QED
    BY <1>2, <1>3, <1>4, <1>5, <1>6, <1>7, <1>8, <1>9, <1>10, <1>11, <1>12, <1>13, <1>14,
       <1>15, <1>16, <1>17, <1>18, <1>19, <1>20, <1>21, <1>22, <1>23, <1>24, <1>25, <1>26
    DEF FsNext

(* The rings keep their order in every state.                               *)
THEOREM RingsKept == FsSpec => []RingsInv
  <1>1. FsInit => RingsInv
    BY InitOK
  <1>2. RingsInv /\ [FsNext]_fsVars => RingsInv'
    <2>1. ASSUME RingsInv, FsNext
          PROVE  RingsInv'
      BY <2>1, NextOK DEF StepOK
    <2>2. ASSUME RingsInv, UNCHANGED fsVars
          PROVE  RingsInv'
      BY <2>2 DEF RingsInv, Watched, fsVars
    <2> QED
      BY <2>1, <2>2
  <1> QED
    BY <1>1, <1>2, PTL DEF FsSpec

LEMMA OneAt ==
  ASSUME NEW ring, KeysOnce(ring), NEW k, k # 0
  PROVE  Cardinality(At(ring, k)) <= 1
  <1>1. CASE At(ring, k) = {}
    BY <1>1, FS_EmptySet
  <1>2. CASE At(ring, k) # {}
    <2>1. PICK i : i \in At(ring, k)
      BY <1>2
    <2>2. At(ring, k) = {i}
      BY <2>1 DEF At, KeysOnce
    <2>3. Cardinality({i}) = 1
      BY FS_Singleton
    <2> QED
      BY <2>2, <2>3
  <1> QED
    BY <1>1, <1>2

(* The rings have their sizes, whatever the calls of the driver: a key has  *)
(* one search and one open file, and a path is cached once.                 *)
THEOREM RingsCorrect == FsSpec => []FsTypeOK
  <1>1. RingsInv => FsTypeOK
    <2> SUFFICES ASSUME RingsInv PROVE FsTypeOK
      OBVIOUS
    <2>1. FsOK(fs)
      BY DEF RingsInv
    <2>2. fs.units \in 0..DriveMax /\ DOMAIN fs.cache = 0..(fs.units - 1)
      BY <2>1 DEF FsOK
    <2>3. Len(fs.files) \in {0, FilesMax} /\ Len(fs.fcbs) \in {0, FcbMax}
      BY <2>1 DEF FsOK, Sized
    <2>4. \A k \in Keys : Cardinality(At(fs.files, k)) <= 1 /\ Cardinality(At(fs.fcbs, k)) <= 1
      BY <2>1, OneAt, HostAssumption DEF FsOK, SearchRing, FcbRing
    <2>5. ASSUME NEW u \in DOMAIN fs.cache
          PROVE  /\ Len(fs.cache[u]) <= CacheMax
                 /\ \A i \in DOMAIN fs.cache[u] :
                      CachedAt(fs.cache[u], fs.cache[u][i].path) = {i}
      BY <2>1 DEF FsOK, PathRing, CachedAt
    <2> QED
      BY <2>2, <2>3, <2>4, <2>5 DEF FsTypeOK
  <1> QED
    BY <1>1, RingsKept, PTL

(* OUTOFMEM says what it says: no FCB is free.                              *)
THEOREM OutOfMemoryRight == FsSpec => OutOfMemoryWhenFull
  <1>1. RingsInv /\ [FsNext]_fsVars =>
          [reply'.result = "OUTOFMEM" /\ reply.result # "OUTOFMEM"
             => \A i \in DOMAIN fs.fcbs : fs.fcbs[i].key # 0]_fsVars
    <2>1. ASSUME RingsInv, FsNext
          PROVE  reply'.result = "OUTOFMEM" => \A i \in DOMAIN fs.fcbs : fs.fcbs[i].key # 0
      BY <2>1, NextOK DEF StepOK, MemoryStep
    <2> QED
      BY <2>1
  <1> QED
    BY <1>1, RingsKept, PTL DEF FsSpec, OutOfMemoryWhenFull

(* A search loses its buffer to another only when none is free.             *)
THEOREM SearchKept == FsSpec => SearchKeptWhileFree
  <1>1. RingsInv /\ [FsNext]_fsVars =>
          [\A k \in Keys :
             watch[k].st = "open" /\ watch'[k].st = "none" /\ "zero" \notin excuses /\ fs'.files # <<>>
               => \/ \A i \in DOMAIN fs.files : fs.files[i].key # 0
                  \/ \A j \in DOMAIN fs'.files : fs'.files[j].key = 0]_fsVars
    <2>1. ASSUME RingsInv, FsNext
          PROVE  SearchStep
      BY <2>1, NextOK DEF StepOK
    <2> QED
      BY <2>1 DEF SearchStep
  <1> QED
    BY <1>1, RingsKept, PTL DEF FsSpec, SearchKeptWhileFree

-----------------------------------------------------------------------------
(* What a listing is                                                       *)

(* The names of a directory can be put in order: each name goes to the      *)
(* place that says how many are not behind it.                              *)
LEMMA SortedExists ==
  ASSUME NEW S, S \subseteq Nat, IsFiniteSet(S)
  PROVE  /\ Cardinality(S) \in Nat /\ AsciiSort(S) \in Bijection(1..Cardinality(S), S)
         /\ \A i, j \in DOMAIN AsciiSort(S) : i < j => AsciiSort(S)[i] < AsciiSort(S)[j]
  <1> DEFINE c == Cardinality(S)
             Upto(n) == {m \in S : m <= n}
             rank == [n \in S |-> Cardinality(Upto(n))]
  <1>1. c \in Nat /\ IsFiniteSet(1..c) /\ Cardinality(1..c) = c
    <2>1. c \in Nat
      BY FS_CardinalityType
    <2>2. 1 \in Int /\ c \in Int
      BY <2>1
    <2>3. IsFiniteSet(1..c) /\ Cardinality(1..c) = IF 1 > c THEN 0 ELSE c - 1 + 1
      BY <2>2, FS_Interval
    <2> QED
      BY <2>1, <2>3
  <1>2. ASSUME NEW n \in S
        PROVE  IsFiniteSet(Upto(n)) /\ Cardinality(Upto(n)) \in 1..c
    <2>1. Upto(n) \in SUBSET S /\ n \in Upto(n)
      OBVIOUS
    <2> HIDE DEF Upto
    <2>2. IsFiniteSet(Upto(n)) /\ Cardinality(Upto(n)) <= c
      BY <2>1, FS_Subset
    <2>3. Cardinality(Upto(n)) \in Nat
      BY <2>2, FS_CardinalityType
    <2>4. Cardinality(Upto(n)) # 0
      BY <2>1, <2>2, FS_EmptySet
    <2> QED
      BY <1>1, <2>2, <2>3, <2>4
  <1>3. ASSUME NEW m \in S, NEW n \in S, m < n
        PROVE  rank[m] < rank[n]
    <2>1. Upto(m) \in SUBSET Upto(n) /\ n \in Upto(n) /\ n \notin Upto(m)
      <3>1. n \in Nat /\ m \in Nat /\ \A x \in S : x \in Nat
        OBVIOUS
      <3>2. n <= n /\ ~(n <= m) /\ \A x \in S : x <= m => x <= n
        BY <1>3, <3>1
      <3> QED
        BY <3>2
    <2>2. IsFiniteSet(Upto(n)) /\ Cardinality(Upto(n)) \in Nat /\ Cardinality(Upto(m)) \in Nat
      BY <1>2
    <2>4. rank[m] = Cardinality(Upto(m)) /\ rank[n] = Cardinality(Upto(n))
      OBVIOUS
    <2> HIDE DEF Upto, rank
    <2>3. Cardinality(Upto(m)) <= Cardinality(Upto(n)) /\ Cardinality(Upto(m)) # Cardinality(Upto(n))
      BY <2>1, <2>2, FS_Subset
    <2> QED
      BY <2>2, <2>3, <2>4
  <1>4. rank \in [S -> 1..c]
    BY <1>2
  <1> HIDE DEF rank, c
  <1>5. rank \in Injection(S, 1..c)
    <2>1. ASSUME NEW m \in S, NEW n \in S, rank[m] = rank[n]
          PROVE  m = n
      <3>1. m \in Nat /\ n \in Nat /\ rank[m] \in Nat
        BY <1>1, <1>4
      <3>2. ~(m < n) /\ ~(n < m)
        BY <1>3, <2>1, <3>1
      <3> QED
        BY <3>1, <3>2
    <2> QED
      BY <1>4, <2>1, Fun_IsInj
  <1>6. rank \in Surjection(S, 1..c)
    BY <1>1, <1>5, FS_Injection DEF c
  <1> DEFINE s == [i \in 1..c |-> CHOOSE n \in S : rank[n] = i]
  <1>7. ASSUME NEW i \in 1..c
        PROVE  s[i] \in S /\ rank[s[i]] = i
    BY <1>6 DEF Surjection
  <1> HIDE DEF s
  <1>8. s \in [1..c -> S]
    BY <1>7 DEF s
  <1>9. ASSUME NEW i \in 1..c, NEW j \in 1..c, i < j
        PROVE  s[i] < s[j]
    <2>1. s[i] \in Nat /\ s[j] \in Nat
      BY <1>7
    <2>2. s[i] # s[j]
      <3>1. i \in Nat /\ j \in Nat /\ rank[s[i]] = i /\ rank[s[j]] = j
        BY <1>1, <1>7
      <3> QED
        BY <1>9, <3>1
    <2>3. ~(s[j] < s[i])
      <3>1. i \in Nat /\ j \in Nat /\ rank[s[i]] = i /\ rank[s[j]] = j /\ s[i] \in S /\ s[j] \in S
        BY <1>1, <1>7
      <3>2. s[j] < s[i] => rank[s[j]] < rank[s[i]]
        BY <1>3, <3>1
      <3>3. ~(j < i)
        BY <1>9, <3>1
      <3> QED
        BY <3>1, <3>2, <3>3
    <2> QED
      BY <2>1, <2>2, <2>3
  <1> DEFINE t == AsciiSort(S)
  <1>10. DOMAIN s = 1..c
    BY <1>8
  <1>11. t \in [1..c -> S] /\ \A i, j \in DOMAIN t : i < j => t[i] < t[j]
    BY <1>8, <1>9, <1>10 DEF AsciiSort, c
  <1> HIDE DEF t
  <1>12. ASSUME NEW i \in 1..c, NEW j \in 1..c, t[i] = t[j]
         PROVE  i = j
    <2>5. t \in [1..c -> S]
      BY <1>11
    <2>1. i \in Nat /\ j \in Nat /\ DOMAIN t = 1..c /\ t[i] \in Nat
      <3>1. t[i] \in S /\ DOMAIN t = 1..c
        BY <2>5
      <3>2. t[i] \in Nat
        BY <3>1
      <3>3. i \in Nat /\ j \in Nat
        BY <1>1
      <3> QED
        BY <3>1, <3>2, <3>3
    <2>3. i < j => t[i] < t[j]
      BY <1>11, <2>1
    <2>4. j < i => t[j] < t[i]
      BY <1>11, <2>1
    <2>2. ~(i < j) /\ ~(j < i)
      BY <1>12, <2>1, <2>3, <2>4
    <2> QED
      BY <2>1, <2>2
  <1>13. t \in Injection(1..c, S)
    BY <1>11, <1>12, Fun_IsInj
  <1>14. t \in Surjection(1..c, S)
    BY <1>1, <1>13, FS_Injection DEF c
  <1> QED
    BY <1>1, <1>11, <1>13, <1>14 DEF Bijection, c, t

(* The entries are in the order of their names.                             *)
Sorted(list) ==
  \A j \in DOMAIN list :
    /\ list[j].name \in Nat /\ list[j] # NoEntry
    /\ \A m \in DOMAIN list : j < m => list[j].name < list[m].name

(* A list that has what the tree t has in the directory p.                  *)
Listed(list, p, t) ==
  /\ Sorted(list)
  /\ Named(list) = {[name |-> n, dir |-> t[Append(p, n)].dir] : n \in Contents(t, p)}
  /\ \A j, m \in DOMAIN list : list[j].name = list[m].name => j = m

LEMMA ScanListed ==
  ASSUME NEW t, IsTree(t), NEW p \in Seq(Names)
  PROVE  IsSeq(Scan(t, p)) /\ Listed(Scan(t, p), p, t)
  <1> DEFINE C == Contents(t, p)
             c == Cardinality(C)
             sorted == AsciiSort(C)
             Node(n) == [name |-> n, dir |-> t[Append(p, n)].dir, ver |-> t[Append(p, n)].ver]
             body == [i \in DOMAIN sorted |-> Node(sorted[i])]
  <1>1. C \in SUBSET Names /\ C \subseteq Nat /\ \A n \in C : n # 0 /\ n # 1
    BY DriveAssumption DEF Contents
  <1>2. IsFiniteSet(C)
    <2> HIDE DEF C
    <2> QED
      BY <1>1, FS_Subset, DriveAssumption
  <1>3. /\ c \in Nat /\ sorted \in Bijection(1..c, C)
        /\ \A i, j \in DOMAIN sorted : i < j => sorted[i] < sorted[j]
    <2> HIDE DEF C
    <2> QED
      BY <1>1, <1>2, SortedExists
  <1> HIDE DEF sorted, c
  <1>4. /\ sorted \in [1..c -> C] /\ DOMAIN sorted = 1..c
        /\ \A i, j \in 1..c : sorted[i] = sorted[j] => i = j
        /\ \A n \in C : \E i \in 1..c : sorted[i] = n
        /\ \A i, j \in 1..c : i < j => sorted[i] < sorted[j]
    BY <1>3 DEF Bijection, Injection, Surjection, IsInjective
  <1>5. /\ body = [i \in 1..c |-> body[i]] /\ DOMAIN body = 1..c
        /\ \A i \in 1..c : body[i] = Node(sorted[i])
    BY <1>4
  <1> HIDE DEF C
  <1>6. IsSeq(body) /\ Len(body) = c
    <2> HIDE DEF body
    <2> QED
      BY <1>3, <1>5, MappedSeq
  <1>7. CASE ~IsDir(t, p)
    <2>1. Scan(t, p) = <<>>
      BY <1>7 DEF Scan
    <2>2. ASSUME NEW n \in Contents(t, p)
          PROVE  FALSE
      <3> DEFINE q == Append(p, n)
      <3>1. n \in Names /\ q \in DOMAIN t
        BY DEF Contents
      <3>2. Len(q) = Len(p) + 1 /\ Len(p) \in Nat /\ SubSeq(q, 1, Len(p)) = p
        BY <3>1
      <3>3. Len(p) \in 0..(Len(q) - 1)
        BY <3>2
      <3> HIDE DEF q
      <3> QED
        BY <1>7, <3>1, <3>2, <3>3 DEF IsTree
    <2> QED
      BY <2>1, <2>2 DEF Listed, Named, ToSet, IsSeq, Sorted
  <1>8. CASE IsDir(t, p)
    <2> DEFINE top == IF p = Root THEN <<>> ELSE Dots
               k == Len(top)
               list == top \o body
    <2>1. Scan(t, p) = list
      BY <1>8 DEF Scan, sorted, C
    <2>2. /\ top \in Seq(ToSet(top)) /\ k \in {0, 2}
          /\ k = 2 => top[1].name = 0 /\ top[2].name = 1 /\ top[1].dir /\ top[2].dir
      <3>1. CASE p = Root
        <4>1. <<>> \in Seq(ToSet(<<>>)) /\ Len(<<>>) = 0
          OBVIOUS
        <4>2. top = <<>>
          BY <3>1
        <4> HIDE DEF top
        <4> QED
          BY <4>1, <4>2
      <3>2. CASE p # Root
        <4> DEFINE e == [name |-> 0, dir |-> TRUE, ver |-> 0]
                   f == [name |-> 1, dir |-> TRUE, ver |-> 0]
        <4>1. e.name = 0 /\ f.name = 1 /\ e.dir /\ f.dir
          OBVIOUS
        <4>2. top = <<e, f>>
          BY <3>2 DEF Dots
        <4> HIDE DEF e, f, top
        <4>3. Len(top) = 2 /\ top[1] = e /\ top[2] = f /\ top \in Seq({e, f})
          BY <4>2
        <4>4. ToSet(top) = {e, f}
          BY <4>2, <4>3 DEF ToSet
        <4> QED
          BY <4>1, <4>3, <4>4
      <3> QED
        BY <3>1, <3>2
    <2> HIDE DEF top
    <2>3. body \in Seq(ToSet(body))
      BY <1>6, SeqOfElements
    <2> DEFINE S == ToSet(top) \cup ToSet(body)
    <2>4. top \in Seq(S) /\ body \in Seq(S)
      <3> HIDE DEF body
      <3>1. ToSet(top) \subseteq S /\ ToSet(body) \subseteq S
        OBVIOUS
      <3> HIDE DEF S
      <3>2. top \in Seq(S)
        BY <2>2, <3>1, SeqMonotonic
      <3>3. body \in Seq(S)
        BY <2>3, <3>1, SeqMonotonic
      <3> QED
        BY <3>2, <3>3
    <2> HIDE DEF S, body
    <2>5. /\ list \in Seq(S) /\ Len(list) = k + c
          /\ \A j \in 1..(k + c) : list[j] = IF j <= k THEN top[j] ELSE body[j - k]
      BY <1>6, <2>4, ConcatProperties
    <2> HIDE DEF list, k
    <2>6. IsSeq(list) /\ DOMAIN list = 1..(k + c)
      BY <2>5, SeqIsSeq
    <2>7. ASSUME NEW j \in 1..(k + c), j > k
          PROVE  /\ j - k \in 1..c /\ list[j] = Node(sorted[j - k])
                 /\ sorted[j - k] \in C
      <3>1. j - k \in 1..c /\ ~(j <= k)
        BY <1>3, <2>2, <2>7
      <3>2. list[j] = body[j - k] /\ body[j - k] = Node(sorted[j - k])
        BY <1>5, <2>5, <3>1
      <3>3. sorted[j - k] \in C
        BY <1>4, <3>1
      <3> QED
        BY <3>1, <3>2, <3>3
    <2> HIDE DEF Node
    <2>11. \A n : Node(n).name = n /\ Node(n).dir = t[Append(p, n)].dir
      BY DEF Node
    <2>8. ASSUME NEW j \in 1..(k + c), ~(j > k)
          PROVE  list[j].name = j - 1 /\ j \in {1, 2} /\ list[j].dir
      <3>1. j \in Nat /\ k = 2 /\ j \in {1, 2}
        BY <1>3, <2>2, <2>8
      <3>2. list[j] = top[j]
        BY <2>2, <2>5, <2>8, <3>1
      <3> QED
        BY <2>2, <3>1, <3>2
    <2>9. Named(list) = {[name |-> n, dir |-> t[Append(p, n)].dir] : n \in C}
      <3>1. ASSUME NEW j \in 1..(k + c), list[j].name \in Names
            PROVE  \E n \in C : [name |-> list[j].name, dir |-> list[j].dir] =
                                  [name |-> n, dir |-> t[Append(p, n)].dir]
        <4>1. j > k
          BY <2>8, <3>1, DriveAssumption
        <4>2. list[j] = Node(sorted[j - k]) /\ sorted[j - k] \in C
          BY <4>1, <2>7
        <4> QED
          BY <4>2, <2>11
      <3>2. ASSUME NEW n \in C
            PROVE  \E j \in 1..(k + c) : /\ list[j].name = n /\ n \in Names
                                         /\ list[j].dir = t[Append(p, n)].dir
        <4>1. PICK i \in 1..c : sorted[i] = n
          BY <1>4
        <4>2. i + k \in 1..(k + c) /\ i + k > k /\ (i + k) - k = i
          BY <1>3, <2>2
        <4>3. list[i + k] = Node(n)
          BY <2>7, <4>1, <4>2
        <4> QED
          BY <1>1, <2>11, <4>2, <4>3
      <3> DEFINE B == {[name |-> n, dir |-> t[Append(p, n)].dir] : n \in C}
      <3>3. ASSUME NEW x \in Named(list)
            PROVE  x \in B
        <4>1. PICK j \in 1..(k + c) : list[j].name \in Names /\ x = [name |-> list[j].name, dir |-> list[j].dir]
          BY <2>6, <3>3 DEF Named, ToSet
        <4> QED
          BY <4>1, <3>1
      <3>4. ASSUME NEW x \in B
            PROVE  x \in Named(list)
        <4>1. PICK n \in C : x = [name |-> n, dir |-> t[Append(p, n)].dir]
          BY <3>4
        <4>2. PICK j \in 1..(k + c) : /\ list[j].name = n /\ n \in Names
                                      /\ list[j].dir = t[Append(p, n)].dir
          BY <3>2
        <4>3. list[j] \in ToSet(list) /\ list[j].name \in Names
          BY <2>6, <4>2 DEF ToSet
        <4>4. x = [name |-> list[j].name, dir |-> list[j].dir]
          BY <4>1, <4>2
        <4> QED
          BY <4>3, <4>4 DEF Named
      <3> QED
        BY <3>3, <3>4
    <2>10. ASSUME NEW j \in 1..(k + c), NEW m \in 1..(k + c), list[j].name = list[m].name
           PROVE  j = m
      <3>1. CASE j > k /\ m > k
        <4>1. list[j].name = sorted[j - k] /\ list[m].name = sorted[m - k]
          BY <2>7, <2>11, <3>1
        <4>2. j - k = m - k
          BY <1>4, <2>7, <2>10, <3>1, <4>1
        <4> QED
          BY <1>3, <2>2, <4>2
      <3>2. CASE j > k /\ ~(m > k)
        <4>1. list[j].name \in C
          BY <2>7, <2>11, <3>2
        <4>2. list[m].name \in {0, 1}
          BY <2>8, <3>2
        <4> QED
          BY <1>1, <2>10, <4>1, <4>2
      <3>3. CASE ~(j > k) /\ m > k
        <4>1. list[m].name \in C
          BY <2>7, <2>11, <3>3
        <4>2. list[j].name \in {0, 1}
          BY <2>8, <3>3
        <4> QED
          BY <1>1, <2>10, <4>1, <4>2
      <3>4. CASE ~(j > k) /\ ~(m > k)
        BY <2>8, <2>10, <3>4
      <3> QED
        BY <3>1, <3>2, <3>3, <3>4
    <2>12. Sorted(list)
      <3>1. ASSUME NEW j \in 1..(k + c)
            PROVE  list[j].name \in Nat /\ list[j] # NoEntry /\ (j > k => list[j].name \in C)
        <4>1. CASE j > k
          <5>1. list[j].name \in C
            BY <2>7, <2>11, <4>1
          <5>2. list[j].name \in Nat /\ list[j].name # 0
            BY <1>1, <5>1
          <5> QED
            BY <5>1, <5>2 DEF NoEntry
        <4>2. CASE ~(j > k)
          BY <2>8, <4>2 DEF NoEntry
        <4> QED
          BY <4>1, <4>2
      <3>2. ASSUME NEW j \in 1..(k + c), NEW m \in 1..(k + c), j < m
            PROVE  list[j].name < list[m].name
        <4>1. CASE j > k
          <5>1. j \in Nat /\ m \in Nat /\ m > k /\ j - k < m - k
            BY <1>3, <2>2, <3>2, <4>1
          <5>2. list[j].name = sorted[j - k] /\ list[m].name = sorted[m - k]
            BY <2>7, <2>11, <4>1, <5>1
          <5>3. j - k \in 1..c /\ m - k \in 1..c
            BY <2>7, <4>1, <5>1
          <5> QED
            BY <1>4, <5>1, <5>2, <5>3
        <4>2. CASE ~(j > k) /\ m > k
          <5>1. list[m].name \in C
            BY <2>7, <2>11, <4>2
          <5> DEFINE n == list[m].name
          <5>4. n \in Nat /\ n # 0 /\ n # 1
            BY <1>1, <5>1
          <5>2. n \in Nat /\ n > 1
            <6> HIDE DEF n
            <6> QED
              BY <5>4
          <5>3. list[j].name \in {0, 1}
            BY <2>8, <4>2
          <5> QED
            BY <5>2, <5>3
        <4>3. CASE ~(j > k) /\ ~(m > k)
          <5>1. list[j].name = j - 1 /\ list[m].name = m - 1 /\ j \in {1, 2} /\ m \in {1, 2}
            BY <2>8, <4>3
          <5> QED
            BY <3>2, <5>1
        <4> QED
          BY <4>1, <4>2, <4>3
      <3> QED
        BY <2>6, <3>1, <3>2 DEF Sorted
    <2> QED
      BY <2>1, <2>6, <2>9, <2>10, <2>12 DEF Listed, C
  <1> QED
    BY <1>7, <1>8

-----------------------------------------------------------------------------
(* What lookups do to the lists and to the positions of the searches       *)

(* A cached path lists what the tree has, unless it is known not to.        *)
Lists(c, t) == ~c.refresh /\ ~c.kept => Listed(c.list, c.path, t)
ListsOf(ring, t) == \A i \in DOMAIN ring : Lists(ring[i], t)

(* The list of p has the entry e, unless it is known to be wrong.           *)
Has(ring, p, e) ==
  \A i \in DOMAIN ring :
    ring[i].path = p /\ ~ring[i].refresh /\ ~ring[i].kept => e \in ToSet(ring[i].list)

(* The position of a search in a list is that of the entry it stands at.    *)
Stands(list, s) ==
  /\ s.at \in 1..(Len(list) + 1)
  /\ s.at <= Len(list) => s.next = list[s.at]
  /\ s.at = Len(list) + 1 => s.next = NoEntry

(* The ids come from the counter; a search whose id is that of the list of  *)
(* its path has a position in that list.                                    *)
Numbered(c, gid) == c.id \in 0..gid /\ IsSeq(c.list)
Misses(c, s) == c.path = s.path /\ c.id = s.id /\ c.list # <<>> /\ ~Stands(c.list, s)

Positioned(s, gid, cache) ==
  /\ s.id \in 0..gid /\ s.at \in Nat /\ s.count \in Nat
  /\ s.key # 0 /\ s.count > 0 =>
       /\ s.unit \in DOMAIN cache
       /\ \A j \in DOMAIN cache[s.unit] : ~Misses(cache[s.unit][j], s)

Pointed(f) ==
  /\ f.gid \in Nat
  /\ \A u \in DOMAIN f.cache : \A i \in DOMAIN f.cache[u] : Numbered(f.cache[u][i], f.gid)
  /\ \A i \in DOMAIN f.files : Positioned(f.files[i], f.gid, f.cache)

(* A lookup on unit u, of which t is the tree. *)
Looks(f, g, u, t) ==
  /\ LookedUp(f, g)
  /\ \A v \in DOMAIN f.cache : v # u => g.cache[v] = f.cache[v]
  /\ ListsOf(f.cache[u], t) => ListsOf(g.cache[u], t)
  /\ Pointed(f) => Pointed(g)
  /\ \A p : \A e \in Entries(t, p) : Has(f.cache[u], p, e) => Has(g.cache[u], p, e)

LEMMA LooksNothing ==
  ASSUME NEW f, FsOK(f), NEW u, NEW t
  PROVE  Looks(f, f, u, t)
  BY LookedUpNothing DEF Looks

LEMMA LooksTwice ==
  ASSUME NEW f, FsOK(f), NEW g, NEW k, NEW u, NEW t, Looks(f, g, u, t), Looks(g, k, u, t)
  PROVE  Looks(f, k, u, t)
  <1>1. LookedUp(f, k)
    BY LookedUpTwice DEF Looks
  <1>2. DOMAIN g.cache = DOMAIN f.cache
    BY DEF Looks, LookedUp, FsOK
  <1> QED
    BY <1>1, <1>2 DEF Looks

(* A path in the cache that stands for another one: it is no more trusted.  *)
StandsFor(c, d) ==
  /\ c.path = d.path /\ c.id = d.id /\ c.list = d.list
  /\ ~c.refresh /\ ~c.kept => ~d.refresh /\ ~d.kept

LEMMA RingLooks ==
  ASSUME NEW f, FsOK(f), NEW u \in DOMAIN f.cache, NEW t, NEW r, PathRing(r), NEW g, IsFs(g),
         g.units = f.units, g.option = f.option, g.files = f.files, g.fcbs = f.fcbs,
         g.gid = f.gid, g.cache = [f.cache EXCEPT ![u] = r],
         \A j \in DOMAIN r : \E i \in DOMAIN f.cache[u] : StandsFor(r[j], f.cache[u][i])
  PROVE  Looks(f, g, u, t) /\ g.cache[u] = r
  <1>1. LookedUp(f, g) /\ g.cache[u] = r
    BY RingChanged
  <1>2. DOMAIN g.cache = DOMAIN f.cache /\ \A v \in DOMAIN f.cache : v # u => g.cache[v] = f.cache[v]
    OBVIOUS
  <1>3. ListsOf(f.cache[u], t) => ListsOf(r, t)
    BY DEF ListsOf, Lists, StandsFor
  <1>4. ASSUME Pointed(f)
        PROVE  Pointed(g)
    <2>1. \A v \in DOMAIN g.cache : \A i \in DOMAIN g.cache[v] : Numbered(g.cache[v][i], g.gid)
      BY <1>1, <1>2, <1>4 DEF Pointed, Numbered, StandsFor
    <2>2. ASSUME NEW i \in DOMAIN f.files
          PROVE  Positioned(f.files[i], g.gid, g.cache)
      <3> DEFINE s == f.files[i]
      <3>1. Positioned(s, f.gid, f.cache)
        BY <1>4 DEF Pointed
      <3> HIDE DEF s
      <3>2. ASSUME s.key # 0, s.count > 0, NEW j \in DOMAIN g.cache[s.unit]
            PROVE  ~Misses(g.cache[s.unit][j], s)
        <4>1. s.unit \in DOMAIN f.cache /\ \A m \in DOMAIN f.cache[s.unit] : ~Misses(f.cache[s.unit][m], s)
          BY <3>1, <3>2 DEF Positioned
        <4>2. CASE s.unit = u
          <5>1. PICK m \in DOMAIN f.cache[u] : StandsFor(r[j], f.cache[u][m])
            BY <1>1, <3>2, <4>2
          <5> QED
            BY <1>1, <4>1, <4>2, <5>1 DEF StandsFor, Misses
        <4>3. CASE s.unit # u
          BY <1>2, <3>2, <4>1, <4>3
        <4> QED
          BY <4>2, <4>3
      <3> QED
        BY <1>2, <3>1, <3>2 DEF Positioned, s
    <2> QED
      BY <1>4, <2>1, <2>2 DEF Pointed
  <1>5. ASSUME NEW p, NEW e, Has(f.cache[u], p, e)
        PROVE  Has(r, p, e)
    BY <1>5 DEF Has, StandsFor
  <1> QED
    BY <1>1, <1>2, <1>3, <1>4, <1>5 DEF Looks

(* The list of a directory is read again without a change: the entries are  *)
(* those that were there, each once.                                        *)
LEMMA SameEntries ==
  ASSUME NEW old, IsSeq(old), NEW new, IsSeq(new), ~Changed(old, new),
         \A j, m \in DOMAIN new : new[j].name = new[m].name => j = m
  PROVE  /\ DOMAIN new = DOMAIN old
         /\ \A j \in DOMAIN old : old[j] \in ToSet(new)
         /\ \A j, m \in DOMAIN old : old[j].name = old[m].name => j = m
  <1> DEFINE l == Len(old)
             T == ToSet(old)
  <1>1. l \in Nat /\ DOMAIN old = 1..l /\ DOMAIN new = 1..l /\ ToSet(new) = T
    BY SeqOfElements DEF Changed
  <1>2. IsFiniteSet(1..l) /\ Cardinality(1..l) = l
    <2>1. 1 \in Int /\ l \in Int
      BY <1>1
    <2> HIDE DEF l
    <2>2. IsFiniteSet(1..l) /\ Cardinality(1..l) = IF 1 > l THEN 0 ELSE l - 1 + 1
      BY <2>1, FS_Interval
    <2> QED
      BY <1>1, <2>1, <2>2
  <1>3. old = [j \in 1..l |-> old[j]] /\ new = [j \in 1..l |-> new[j]]
    BY ZenonT(30), <1>1 DEF IsSeq, Changed
  <1>4. (\A j \in 1..l : old[j] \in T) /\ (\A x \in T : \E j \in 1..l : old[j] = x)
    BY <1>1 DEF ToSet
  <1>5. (\A j \in 1..l : new[j] \in T) /\ (\A x \in T : \E j \in 1..l : new[j] = x)
    BY <1>1 DEF ToSet
  <1> HIDE DEF T, l
  <1>6. old \in Surjection(1..l, T)
    BY <1>3, <1>4 DEF Surjection
  <1>7. new \in Surjection(1..l, T)
    BY <1>3, <1>5 DEF Surjection
  <1>8. new \in Injection(1..l, T)
    <2>1. \A j, m \in 1..l : new[j] = new[m] => j = m
      BY <1>1
    <2>2. new \in [1..l -> T]
      BY <1>3, <1>5
    <2> QED
      BY <2>1, <2>2, Fun_IsInj
  <1>9. Cardinality(T) = l /\ Cardinality(1..l) = Cardinality(T)
    BY <1>2, <1>7, <1>8, FS_Surjection
  <1>10. old \in Injection(1..l, T)
    BY <1>2, <1>6, <1>9, FS_SurjSameCardinalityImpliesInj
  <1>11. \A j, m \in 1..l : old[j] = old[m] => j = m
    BY <1>10 DEF Injection, IsInjective
  <1>12. ASSUME NEW j \in 1..l, NEW m \in 1..l, old[j].name = old[m].name
         PROVE  j = m
    <2>1. PICK x \in 1..l : new[x] = old[j]
      BY <1>4, <1>5
    <2>2. PICK y \in 1..l : new[y] = old[m]
      BY <1>4, <1>5
    <2>3. x = y
      BY <1>1, <1>12, <2>1, <2>2
    <2> QED
      BY <1>11, <2>1, <2>2, <2>3
  <1> QED
    BY <1>1, <1>4, <1>12

LEMMA JoinedSeq ==
  ASSUME NEW a, IsSeq(a), NEW b, IsSeq(b)
  PROVE  IsSeq(a \o b)
  <1> DEFINE S == ToSet(a) \cup ToSet(b)
  <1>1. a \in Seq(ToSet(a)) /\ b \in Seq(ToSet(b))
    BY SeqOfElements
  <1>2. ToSet(a) \subseteq S /\ ToSet(b) \subseteq S
    OBVIOUS
  <1> HIDE DEF S
  <1>3. a \in Seq(S)
    BY <1>1, <1>2, SeqMonotonic
  <1>4. b \in Seq(S)
    BY <1>1, <1>2, SeqMonotonic
  <1> DEFINE s == a \o b
  <1>5. s \in Seq(S)
    BY <1>3, <1>4, ConcatProperties
  <1> HIDE DEF s
  <1>6. IsSeq(s)
    BY <1>5, SeqIsSeq
  <1> QED
    BY <1>6 DEF s

LEMMA NothingSeq ==
  ASSUME NEW s, IsSeq(s), Len(s) = 0
  PROVE  s = <<>>
  <1>1. s \in Seq(ToSet(s))
    BY SeqOfElements
  <1> QED
    BY <1>1, EmptySeq

(* The first entry with the name of e.                                      *)
Foremost(s, e) ==
  CHOOSE j \in DOMAIN s : s[j].name = e.name /\ \A k \in 1..(j - 1) : s[k].name # e.name

LEMMA ForemostFacts ==
  ASSUME NEW s, IsSeq(s), NEW e, NEW i \in DOMAIN s, s[i].name = e.name
  PROVE  /\ Foremost(s, e) \in DOMAIN s /\ s[Foremost(s, e)].name = e.name
         /\ Foremost(s, e) \in Nat /\ Foremost(s, e) # 0
  <1> DEFINE T == {j \in DOMAIN s : s[j].name = e.name}
  <1>1. DOMAIN s = 1..Len(s) /\ Len(s) \in Nat
    BY SeqOfElements
  <1>2. T \subseteq Nat /\ T # {}
    BY <1>1
  <1>3. PICK j \in T : \A k \in T : j <= k
    <2> HIDE DEF T
    <2> QED
      BY <1>2, Smallest
  <1>4. ASSUME NEW k \in 1..(j - 1)
        PROVE  s[k].name # e.name
    <2>1. k \in DOMAIN s /\ ~(j <= k)
      BY <1>1, <1>3
    <2> QED
      BY <1>3, <2>1
  <1>5. j \in DOMAIN s /\ s[j].name = e.name
    BY <1>3
  <1>6. Foremost(s, e) \in DOMAIN s /\ s[Foremost(s, e)].name = e.name
    BY <1>4, <1>5 DEF Foremost
  <1> QED
    BY <1>1, <1>6

(* What Refreshed makes of the position j in the list of c, for what        *)
(* scandir returned; list is the new list.                                  *)
MovedTo(c, list, scan, j) ==
  CASE j > Len(c.list) -> Len(list) + 1
    [] j <= Len(c.list) /\ Len(c.list) = 1 -> j
    [] OTHER -> IF c.list[j] \in ToSet(scan) /\ Foremost(c.list, c.list[j]) = j
                THEN Foremost(list, c.list[j]) ELSE 0

LEMMA MovedToFacts ==
  ASSUME NEW c, IsSeq(c.list), NEW scan, IsSeq(scan), NEW list,
         list = IF Len(c.list) = 1 THEN c.list \o scan ELSE scan,
         NEW j \in Nat, j # 0,
         \A k, m \in DOMAIN scan : scan[k].name = scan[m].name => k = m
  PROVE  /\ IsSeq(list) /\ MovedTo(c, list, scan, j) \in Nat
         /\ ~Changed(IF Len(c.list) = 1 THEN <<>> ELSE c.list, scan)
              => MovedTo(c, list, scan, j) # 0
  <1>1. Len(c.list) \in Nat /\ DOMAIN c.list = 1..Len(c.list)
    BY SeqOfElements
  <1>2. IsSeq(list)
    BY JoinedSeq
  <1>3. Len(list) \in Nat
    BY <1>2, SeqOfElements
  <1>4. CASE j > Len(c.list)
    <2>1. MovedTo(c, list, scan, j) = Len(list) + 1
      BY <1>4 DEF MovedTo
    <2> QED
      BY <1>2, <1>3, <2>1
  <1>5. CASE ~(j > Len(c.list)) /\ Len(c.list) = 1
    <2>1. j <= Len(c.list)
      BY <1>1, <1>5
    <2>2. MovedTo(c, list, scan, j) = j
      BY <1>5, <2>1 DEF MovedTo
    <2> QED
      BY <1>2, <2>2
  <1>6. CASE ~(j > Len(c.list)) /\ Len(c.list) # 1
    <2>1. j \in DOMAIN c.list /\ list = scan
      BY <1>1, <1>6
    <2> DEFINE e == c.list[j]
    <2>2. MovedTo(c, list, scan, j) = IF e \in ToSet(scan) /\ Foremost(c.list, e) = j
                                      THEN Foremost(list, e) ELSE 0
      BY <1>6 DEF MovedTo
    <2>3. CASE e \in ToSet(scan)
      <3>1. PICK i \in DOMAIN scan : scan[i] = e
        BY <2>3 DEF ToSet
      <3>2. Foremost(list, e) \in Nat /\ Foremost(list, e) # 0
        BY <2>1, <3>1, ForemostFacts
      <3>3. ~Changed(c.list, scan) => Foremost(c.list, e) = j
        <4>1. Foremost(c.list, e) \in DOMAIN c.list /\ c.list[Foremost(c.list, e)].name = e.name
          BY <2>1, ForemostFacts
        <4>2. ~Changed(c.list, scan)
                => \A k, m \in DOMAIN c.list : c.list[k].name = c.list[m].name => k = m
          BY SameEntries
        <4> HIDE DEF e
        <4> QED
          BY <2>1, <4>1, <4>2 DEF e
      <3> HIDE DEF e
      <3> QED
        BY <1>2, <1>6, <2>2, <2>3, <3>2, <3>3
    <2>4. CASE e \notin ToSet(scan)
      <3>1. Changed(c.list, scan)
        BY <2>1, <2>4, SameEntries
      <3> HIDE DEF e
      <3> QED
        BY <1>2, <1>6, <2>2, <2>4, <3>1
    <2> QED
      BY <2>3, <2>4
  <1> QED
    BY <1>4, <1>5, <1>6

Relisted(c, scan) == IF Len(c.list) = 1 THEN c.list \o scan ELSE scan
Before(c) == IF Len(c.list) = 1 THEN <<>> ELSE c.list

LEMMA MovedToSame ==
  ASSUME NEW c, IsSeq(c.list), NEW p, NEW t, NEW scan, IsSeq(scan), Listed(scan, p, t),
         NEW list, list = Relisted(c, scan), ~Changed(Before(c), scan),
         NEW j \in 1..(Len(c.list) + 1), NEW n, n = MovedTo(c, list, scan, j)
  PROVE  /\ n \in 1..(Len(list) + 1)
         /\ j <= Len(c.list) => n <= Len(list) /\ list[n] = c.list[j]
         /\ j = Len(c.list) + 1 => n = Len(list) + 1
  <1>1. Len(c.list) \in Nat /\ DOMAIN c.list = 1..Len(c.list)
    BY SeqOfElements
  <1>2. IsSeq(list)
    BY JoinedSeq DEF Relisted
  <1>3. Len(list) \in Nat /\ DOMAIN list = 1..Len(list)
    BY <1>2, SeqOfElements
  <1>4. CASE j > Len(c.list)
    <2>1. n = Len(list) + 1
      BY <1>4 DEF MovedTo
    <2> QED
      BY <1>1, <1>3, <1>4, <2>1
  <1>5. CASE ~(j > Len(c.list)) /\ Len(c.list) = 1
    <2>1. j = 1 /\ n = j
      BY <1>1, <1>5 DEF MovedTo
    <2> DEFINE S == ToSet(c.list) \cup ToSet(scan)
    <2>2. c.list \in Seq(S) /\ scan \in Seq(S)
      <3>1. c.list \in Seq(ToSet(c.list)) /\ scan \in Seq(ToSet(scan))
        BY SeqOfElements
      <3>2. ToSet(c.list) \subseteq S /\ ToSet(scan) \subseteq S
        OBVIOUS
      <3> HIDE DEF S
      <3> QED
        BY <3>1, <3>2, SeqMonotonic
    <2> HIDE DEF S
    <2>3. list = c.list \o scan /\ Len(scan) \in Nat
      BY <1>5, SeqOfElements DEF Relisted
    <2>4. Len(list) = Len(c.list) + Len(scan) /\ list[1] = c.list[1]
      <3> DEFINE a == c.list
      <3>1. /\ Len(a \o scan) = Len(a) + Len(scan)
            /\ \A i \in 1..(Len(a) + Len(scan)) :
                 (a \o scan)[i] = IF i <= Len(a) THEN a[i] ELSE scan[i - Len(a)]
        <4> HIDE DEF a
        <4> QED
          BY <2>2, ConcatProperties DEF a
      <3>2. Len(a) = 1
        BY <1>5
      <3> HIDE DEF a
      <3>3. 1 \in 1..(Len(a) + Len(scan)) /\ 1 <= Len(a)
        BY <2>3, <3>2
      <3>4. Len(a \o scan) = Len(a) + Len(scan) /\ (a \o scan)[1] = a[1]
        BY <3>1, <3>3
      <3> QED
        BY <2>3, <3>4 DEF a
    <2> QED
      BY <1>3, <1>5, <2>1, <2>3, <2>4
  <1>6. CASE ~(j > Len(c.list)) /\ Len(c.list) # 1
    <2>1. j \in DOMAIN c.list /\ list = scan /\ j # Len(c.list) + 1
      BY <1>1, <1>6 DEF Relisted
    <2> DEFINE e == c.list[j]
    <2>2. n = IF e \in ToSet(scan) /\ Foremost(c.list, e) = j THEN Foremost(scan, e) ELSE 0
      BY <1>6, <2>1 DEF MovedTo
    <2>3. ~Changed(c.list, scan)
      BY <1>6 DEF Before
    <2>4. e \in ToSet(scan) /\ Foremost(c.list, e) = j
      <3>1. Foremost(c.list, e) \in DOMAIN c.list /\ c.list[Foremost(c.list, e)].name = e.name
        BY <2>1, ForemostFacts
      <3>2. /\ \A k, m \in DOMAIN c.list : c.list[k].name = c.list[m].name => k = m
            /\ \A k \in DOMAIN c.list : c.list[k] \in ToSet(scan)
        <4>1. \A k, m \in DOMAIN scan : scan[k].name = scan[m].name => k = m
          BY DEF Listed
        <4> QED
          BY <2>3, <4>1, SameEntries
      <3> QED
        BY <2>1, <3>1, <3>2
    <2> HIDE DEF e
    <2>5. PICK i \in DOMAIN scan : scan[i] = e
      BY <2>4 DEF ToSet
    <2>6. n \in DOMAIN scan /\ scan[n].name = e.name
      BY <2>2, <2>4, <2>5, ForemostFacts
    <2>7. n = i
      BY <2>5, <2>6 DEF Listed
    <2>8. list[n] = c.list[j] /\ n \in 1..Len(list)
      BY <1>3, <2>1, <2>5, <2>7 DEF e
    <2> QED
      BY <1>3, <2>1, <2>8
  <1> QED
    BY <1>4, <1>5, <1>6
-----------------------------------------------------------------------------
(* Lookups again: the lists and the positions                              *)

(* A slot of the ring that is reused: nothing is listed in it yet.          *)
Fresh(c, ring) == c.refresh /\ c.list = <<>> /\ (c.id = 0 \/ \E i \in DOMAIN ring : c.id = ring[i].id)

(* A path leaves the ring, or is cleaned for reuse.                         *)
LEMMA FreedLooks ==
  ASSUME NEW f, FsOK(f), NEW u \in DOMAIN f.cache, NEW t, NEW r, PathRing(r), NEW g, IsFs(g), NEW p,
         g.units = f.units, g.option = f.option, g.fcbs = f.fcbs,
         g.gid = f.gid, g.cache = [f.cache EXCEPT ![u] = r],
         \/ g.files = f.files
         \/ /\ g.files = Repoint(f, u, p, AllFreed).files
            /\ \A j \in DOMAIN r : Fresh(r[j], f.cache[u]) \/ r[j].path # p,
         \A j \in DOMAIN r : \/ Fresh(r[j], f.cache[u])
                             \/ \E i \in DOMAIN f.cache[u] : StandsFor(r[j], f.cache[u][i])
  PROVE  Looks(f, g, u, t) /\ g.cache[u] = r
  <1>1. /\ DOMAIN g.cache = DOMAIN f.cache /\ g.cache[u] = r
        /\ \A v \in DOMAIN f.cache : v # u => g.cache[v] = f.cache[v]
    OBVIOUS
  <1> DEFINE k == Repoint(f, u, p, AllFreed)
  <1>2. LookedUp(f, k) /\ k.cache = f.cache /\ FsOK(k)
    BY RepointFacts DEF LookedUp
  <1>3. ASSUME NEW i \in DOMAIN f.files
        PROVE  LET s == f.files[i]
               IN k.files[i] = IF s.key # 0 /\ s.unit = u /\ s.path = p /\ s.at # 0
                               THEN [s EXCEPT !.at = AllFreed[@]] ELSE s
    BY DEF Repoint, FsOK, IsFs, FsFields
  <1> HIDE DEF k
  <1>4. LookedUp(f, g)
    <2>1. CASE g.files = f.files
      BY <2>1, RingChanged
    <2>2. CASE g.files = k.files
      <3>1. LookedUp(k, g)
        BY <1>2, <2>2, RingChanged DEF LookedUp
      <3> QED
        BY <1>2, <3>1, LookedUpTwice
    <2> QED
      BY <2>1, <2>2 DEF k
  <1>5. ListsOf(f.cache[u], t) => ListsOf(r, t)
    BY DEF ListsOf, Lists, StandsFor, Fresh
  <1>6. ASSUME Pointed(f)
        PROVE  Pointed(g)
    <2>1. \A v \in DOMAIN g.cache : \A i \in DOMAIN g.cache[v] : Numbered(g.cache[v][i], g.gid)
      <3>1. \A v \in DOMAIN f.cache : \A i \in DOMAIN f.cache[v] : Numbered(f.cache[v][i], g.gid)
        BY <1>6 DEF Pointed
      <3>2. IsSeq(<<>>) /\ 0 \in 0..g.gid
        BY <1>6 DEF Pointed, IsSeq
      <3>3. ASSUME NEW j \in DOMAIN r
            PROVE  Numbered(r[j], g.gid)
        <4>1. CASE Fresh(r[j], f.cache[u])
          BY <3>1, <3>2, <4>1 DEF Fresh, Numbered
        <4>2. CASE \E i \in DOMAIN f.cache[u] : StandsFor(r[j], f.cache[u][i])
          BY <3>1, <4>2 DEF StandsFor, Numbered
        <4> QED
          BY <4>1, <4>2
      <3> QED
        BY <1>1, <3>1, <3>3
    <2>2. ASSUME NEW i \in DOMAIN f.files
          PROVE  Positioned(g.files[i], g.gid, g.cache)
      <3> DEFINE s == f.files[i]
                 x == g.files[i]
      <3>1. Positioned(s, f.gid, f.cache)
        BY <1>6 DEF Pointed
      <3>2. /\ x.id = s.id /\ x.count = s.count /\ x.key = s.key /\ x.unit = s.unit /\ x.path = s.path
            /\ x.at \in Nat /\ x.next = s.next
            /\ x.at # s.at => /\ s.unit = u /\ s.path = p /\ g.files = k.files
        <4>0. IsSearch(s) /\ s.at \in Nat
          BY <3>1 DEF FsOK, SearchRing, Positioned
        <4>1. CASE g.files = f.files
          BY <4>0, <4>1
        <4>2. CASE g.files = k.files
          <5>1. \/ x = s
                \/ s.unit = u /\ s.path = p /\ x = [s EXCEPT !.at = AllFreed[@]]
            BY <1>3, <4>2
          <5>2. AllFreed[s.at] = 0
            BY <4>0 DEF AllFreed
          <5> HIDE DEF s, x
          <5>3. CASE x = s
            BY <4>0, <5>3
          <5>4. CASE s.unit = u /\ s.path = p /\ x = [s EXCEPT !.at = AllFreed[@]]
            BY <4>0, <4>2, <5>2, <5>4 DEF IsSearch, SearchFields
          <5> QED
            BY <5>1, <5>3, <5>4
        <4> QED
          BY <4>1, <4>2 DEF k
      <3> HIDE DEF s, x
      <3>3. ASSUME x.key # 0, x.count > 0, NEW j \in DOMAIN g.cache[x.unit]
            PROVE  ~Misses(g.cache[x.unit][j], x)
        <4>1. s.unit \in DOMAIN f.cache /\ \A m \in DOMAIN f.cache[s.unit] : ~Misses(f.cache[s.unit][m], s)
          BY <3>1, <3>2, <3>3 DEF Positioned
        <4>2. CASE s.unit = u
          <5>1. CASE Fresh(r[j], f.cache[u])
            BY <1>1, <3>2, <4>2, <5>1 DEF Fresh, Misses
          <5>2. CASE ~Fresh(r[j], f.cache[u])
            <6>1. j \in DOMAIN r /\ g.cache[x.unit][j] = r[j]
              BY <1>1, <3>2, <3>3, <4>2
            <6>2. PICK m \in DOMAIN f.cache[u] : StandsFor(r[j], f.cache[u][m])
              BY <5>2, <6>1
            <6>3. CASE x.at = s.at
              BY <3>2, <4>1, <4>2, <6>1, <6>2, <6>3 DEF StandsFor, Misses, Stands
            <6>4. CASE x.at # s.at
              <7>1. x.path = p /\ g.files = k.files
                BY <3>2, <6>4
              <7>2. CASE r[j].path # p
                BY <6>1, <7>1, <7>2 DEF Misses
              <7>3. CASE r[j].path = p
                <8>1. g.files = f.files
                  BY <5>2, <6>1, <7>3
                <8> QED
                  BY <6>4, <8>1 DEF x, s
              <7> QED
                BY <7>2, <7>3
            <6> QED
              BY <6>3, <6>4
          <5> QED
            BY <5>1, <5>2
        <4>3. CASE s.unit # u
          BY <1>1, <3>2, <3>3, <4>1, <4>3 DEF Misses, Stands
        <4> QED
          BY <4>2, <4>3
      <3>4. x.key # 0 /\ x.count > 0 => x.unit \in DOMAIN g.cache
        BY <1>1, <3>1, <3>2 DEF Positioned
      <3>5. x.id \in 0..g.gid /\ x.count \in Nat
        BY <3>1, <3>2 DEF Positioned
      <3> QED
        BY <3>2, <3>3, <3>4, <3>5 DEF Positioned, x
    <2>3. DOMAIN g.files = DOMAIN f.files
      BY <1>4 DEF LookedUp
    <2> QED
      BY <1>6, <2>1, <2>2, <2>3 DEF Pointed
  <1>7. ASSUME NEW q, NEW e, Has(f.cache[u], q, e)
        PROVE  Has(r, q, e)
    BY <1>7 DEF Has, StandsFor, Fresh
  <1> QED
    BY <1>1, <1>4, <1>5, <1>6, <1>7 DEF Looks

(* What a refresh makes of the cached path c, and of the counter.           *)
Counted(f, c, scan) ==
  IF Changed(IF Len(c.list) = 1 THEN <<>> ELSE c.list, scan) THEN f.gid + 1 ELSE f.gid
Refreshing(f, c, scan) ==
  [c EXCEPT !.refresh = FALSE, !.list = Relisted(c, scan), !.kept = Len(c.list) = 1,
            !.id = IF Counted(f, c, scan) = f.gid THEN @ ELSE Counted(f, c, scan)]
Moves(c, scan) == [j \in Nat |-> MovedTo(c, Relisted(c, scan), scan, j)]

LEMMA RefreshForm ==
  ASSUME NEW f, FsOK(f), NEW u \in DOMAIN f.cache, NEW i \in DOMAIN f.cache[u],
         NEW c, c = f.cache[u][i], NEW t, NEW scan, scan = Scan(t, c.path)
  PROVE  LET g == Refresh(f, u, t, i)
         IN /\ DOMAIN g.cache = DOMAIN f.cache
            /\ \A v \in DOMAIN f.cache : v # u => g.cache[v] = f.cache[v]
            /\ g.cache[u][i] = Refreshing(f, c, scan)
            /\ \A j \in DOMAIN f.cache[u] : j # i => g.cache[u][j] = f.cache[u][j]
            /\ g.gid = Counted(f, c, scan)
            /\ g.files = Repoint(f, u, c.path, Moves(c, scan)).files
  <1> DEFINE k == Repoint(f, u, c.path, Moves(c, scan))
             id == Counted(f, c, scan)
             d == Refreshing(f, c, scan)
             g == Refresh(f, u, t, i)
  <1>1. g = [k EXCEPT !.cache[u][i] = d, !.gid = id]
    BY DEF Refresh, Refreshed, Refreshing, Relisted, Counted, Moves, MovedTo, Foremost
  <1>2. k.cache = f.cache /\ FsOK(k)
    BY RepointFacts DEF LookedUp
  <1> HIDE DEF k, d, id, g
  <1>3. /\ g.cache = [f.cache EXCEPT ![u] = [f.cache[u] EXCEPT ![i] = d]]
        /\ g.gid = id /\ g.files = k.files
    BY <1>1, <1>2 DEF FsOK, IsFs, FsFields
  <1>4. /\ DOMAIN g.cache = DOMAIN f.cache
        /\ \A v \in DOMAIN f.cache : v # u => g.cache[v] = f.cache[v]
        /\ g.cache[u][i] = d
        /\ \A j \in DOMAIN f.cache[u] : j # i => g.cache[u][j] = f.cache[u][j]
    BY <1>3
  <1> QED
    BY <1>3, <1>4 DEF k, d, id, g

LEMMA RefreshLooks ==
  ASSUME NEW f, FsOK(f), NEW u \in DOMAIN f.cache, NEW i \in DOMAIN f.cache[u], NEW t, IsTree(t)
  PROVE  LET g == Refresh(f, u, t, i)
         IN /\ Looks(f, g, u, t) /\ DOMAIN g.cache[u] = DOMAIN f.cache[u]
            /\ g.cache[u][i].path = f.cache[u][i].path
  <1> DEFINE c == f.cache[u][i]
             scan == Scan(t, c.path)
             list == Relisted(c, scan)
             old == IF Len(c.list) = 1 THEN <<>> ELSE c.list
             d == Refreshing(f, c, scan)
             id == Counted(f, c, scan)
             moved == Moves(c, scan)
             g == Refresh(f, u, t, i)
             k == Repoint(f, u, c.path, moved)
  <1>1. LookedUp(f, g) /\ DOMAIN g.cache[u] = DOMAIN f.cache[u] /\ g.cache[u][i].path = c.path
    BY RefreshFacts
  <1>2. /\ DOMAIN g.cache = DOMAIN f.cache
        /\ \A v \in DOMAIN f.cache : v # u => g.cache[v] = f.cache[v]
        /\ g.cache[u][i] = d
        /\ \A j \in DOMAIN f.cache[u] : j # i => g.cache[u][j] = f.cache[u][j]
        /\ g.gid = id /\ g.files = k.files
    BY RefreshForm
  <1>3. PathRing(f.cache[u]) /\ IsPath(c)
    BY DEF FsOK, PathRing
  <1>4. IsSeq(scan) /\ Listed(scan, c.path, t)
    BY <1>3, ScanListed DEF IsPath
  <1>5. /\ d.path = c.path /\ d.list = list /\ ~d.refresh /\ d.kept = (Len(c.list) = 1)
        /\ d.id = IF id = f.gid THEN c.id ELSE id
    <2> HIDE DEF list, scan, c
    <2> QED
      BY <1>3 DEF Refreshing, IsPath, PathFields, list
  <1>6. \A j \in DOMAIN f.files :
          LET s == f.files[j]
          IN g.files[j] = IF s.key # 0 /\ s.unit = u /\ s.path = c.path /\ s.at # 0
                          THEN [s EXCEPT !.at = moved[@]] ELSE s
    <2> HIDE DEF moved, c
    <2> QED
      BY <1>2 DEF Repoint, FsOK, IsFs, FsFields
  <1> HIDE DEF g, k, d
  <1>8. ListsOf(f.cache[u], t) => ListsOf(g.cache[u], t)
    <2>1. Lists(d, t)
      BY <1>4, <1>5 DEF Lists, Relisted
    <2> QED
      BY <1>1, <1>2, <2>1 DEF ListsOf
  <1>9. ASSUME Pointed(f)
        PROVE  Pointed(g)
    <2>1. IsSeq(c.list) /\ c.id \in 0..f.gid /\ f.gid \in Nat
      BY <1>9 DEF Pointed, Numbered
    <2>2. g.gid \in Nat /\ g.gid >= f.gid /\ (g.gid = f.gid <=> ~Changed(old, scan))
      <3>1. id = IF Changed(old, scan) THEN f.gid + 1 ELSE f.gid
        BY DEF Counted
      <3> HIDE DEF old, scan, id
      <3> QED
        BY <1>2, <2>1, <3>1
    <2>3. IsSeq(list)
      <3> HIDE DEF c, scan
      <3> QED
        BY <1>4, <2>1, JoinedSeq DEF Relisted
    <2>4. \A v \in DOMAIN g.cache : \A j \in DOMAIN g.cache[v] : Numbered(g.cache[v][j], g.gid)
      <3>1. \A v \in DOMAIN f.cache : \A j \in DOMAIN f.cache[v] : Numbered(f.cache[v][j], g.gid)
        <4>1. \A x \in 0..f.gid : x \in 0..g.gid
          BY <2>1, <2>2
        <4> QED
          BY <1>9, <4>1 DEF Pointed, Numbered
      <3>2. Numbered(d, g.gid)
        <4>1. d.id \in {c.id, g.gid} /\ c.id \in 0..g.gid /\ g.gid \in 0..g.gid
          BY <1>2, <1>5, <2>1, <2>2
        <4> QED
          BY <1>5, <2>3, <4>1 DEF Numbered
      <3> QED
        BY <1>1, <1>2, <3>1, <3>2
    <2>5. ASSUME NEW m \in DOMAIN f.files
          PROVE  Positioned(g.files[m], g.gid, g.cache)
      <3> DEFINE s == f.files[m]
                 x == g.files[m]
                 hit == s.key # 0 /\ s.unit = u /\ s.path = c.path /\ s.at # 0
      <3>1. Positioned(s, f.gid, f.cache) /\ IsSearch(s)
        BY <1>9 DEF Pointed, FsOK, SearchRing
      <3>2. x = IF hit THEN [s EXCEPT !.at = moved[@]] ELSE s
        BY <1>6
      <3> HIDE DEF s, x
      <3>3. s.at \in Nat /\ s.id \in 0..f.gid /\ s.count \in Nat
        BY <3>1 DEF Positioned
      <3>4. hit => /\ moved[s.at] \in Nat
                   /\ ~Changed(old, scan) => moved[s.at] # 0
        <4> SUFFICES ASSUME hit PROVE moved[s.at] \in Nat /\ (~Changed(old, scan) => moved[s.at] # 0)
          OBVIOUS
        <4>1. \A a, b \in DOMAIN scan : scan[a].name = scan[b].name => a = b
          BY <1>4 DEF Listed
        <4>2. moved[s.at] = MovedTo(c, list, scan, s.at)
          BY <3>3 DEF Moves
        <4>3. list = IF Len(c.list) = 1 THEN c.list \o scan ELSE scan
          BY DEF Relisted
        <4> HIDE DEF moved, scan, list, c
        <4> QED
          BY <1>4, <2>1, <3>3, <4>1, <4>2, <4>3, MovedToFacts
      <3>5. /\ x.id = s.id /\ x.count = s.count /\ x.key = s.key /\ x.unit = s.unit /\ x.path = s.path
            /\ x.at \in Nat /\ (~hit => x.at = s.at) /\ (hit => x.at = moved[s.at]) /\ x.next = s.next
        <4> HIDE DEF moved
        <4>1. CASE hit
          <5>1. x = [s EXCEPT !.at = moved[@]]
            BY <3>2, <4>1
          <5> QED
            BY <3>1, <3>4, <4>1, <5>1 DEF IsSearch, SearchFields
        <4>2. CASE ~hit
          BY <3>2, <3>3, <4>2
        <4> QED
          BY <4>1, <4>2
      <3>6. ASSUME x.key # 0, x.count > 0, NEW j \in DOMAIN g.cache[x.unit], Misses(g.cache[x.unit][j], x)
            PROVE  FALSE
        <4>1. s.unit \in DOMAIN f.cache /\ \A a \in DOMAIN f.cache[s.unit] : ~Misses(f.cache[s.unit][a], s)
          BY <3>1, <3>5, <3>6 DEF Positioned
        <4>2. s.unit = u /\ j \in DOMAIN f.cache[u]
          <5>1. CASE hit
            BY <1>1, <3>5, <3>6, <5>1
          <5>2. CASE ~hit /\ s.unit # u
            <6>1. x.at = s.at /\ x.next = s.next /\ x.id = s.id /\ x.path = s.path
              BY <3>5, <5>2
            <6>2. g.cache[x.unit] = f.cache[s.unit] /\ j \in DOMAIN f.cache[s.unit]
              BY <1>2, <3>5, <3>6, <4>1, <5>2
            <6> QED
              BY ZenonT(30), <3>6, <4>1, <6>1, <6>2 DEF Misses, Stands
          <5>3. CASE s.unit = u
            BY <1>1, <3>5, <3>6, <5>3
          <5> QED
            BY <5>1, <5>2, <5>3
        <4>3. j = i
          <5> SUFFICES ASSUME j # i PROVE FALSE
            OBVIOUS
          <5>1. g.cache[u][j] = f.cache[u][j] /\ f.cache[u][j].path # c.path
            BY <1>3, <1>2, <4>2 DEF PathRing
          <5>2. s.path # c.path
            BY <3>5, <3>6, <4>2, <5>1 DEF Misses
          <5>3. x.at = s.at
            BY <3>5, <5>2
          <5>4. Misses(f.cache[u][j], x) /\ x.next = s.next /\ x.id = s.id /\ x.path = s.path
            BY <3>5, <3>6, <4>2, <5>1
          <5> QED
            BY <4>1, <4>2, <5>3, <5>4 DEF Misses, Stands
        <4>4. d.path = s.path /\ d.id = s.id /\ ~Stands(list, x) /\ d.list # <<>>
          BY <1>2, <1>5, <3>5, <3>6, <4>2, <4>3 DEF Misses
        <4>5. ~Changed(old, scan) /\ d.id = c.id
          <5>1. s.id # f.gid + 1
            BY <2>1, <3>3
          <5>2. id \in {f.gid, f.gid + 1} /\ (id = f.gid => ~Changed(old, scan))
            <6>1. id = IF Changed(old, scan) THEN f.gid + 1 ELSE f.gid
              BY DEF Counted
            <6> HIDE DEF id, old, scan
            <6> QED
              BY <2>1, <6>1
          <5> HIDE DEF c, old, scan, id
          <5> QED
            BY <1>5, <2>1, <4>4, <5>1, <5>2
        <4>6. CASE c.list # <<>>
          <5>1. Stands(c.list, s)
            BY <1>5, <4>1, <4>2, <4>4, <4>5, <4>6 DEF Misses
          <5>2. Len(c.list) \in Nat
            BY <2>1, SeqOfElements
          <5>3. s.at \in 1..(Len(c.list) + 1) /\ s.at \in Nat /\ s.at # 0
            BY <5>1, <5>2 DEF Stands
          <5>4. hit /\ x.at = moved[s.at]
            BY <1>5, <3>5, <3>6, <4>2, <4>4, <5>3
          <5>5. moved[s.at] = MovedTo(c, list, scan, s.at)
            BY <5>3 DEF Moves
          <5>6. list = Relisted(c, scan)
            OBVIOUS
          <5>8. /\ x.at \in 1..(Len(list) + 1)
                /\ s.at <= Len(c.list) => x.at <= Len(list) /\ list[x.at] = c.list[s.at]
                /\ s.at = Len(c.list) + 1 => x.at = Len(list) + 1
            <6>1. ~Changed(Before(c), scan)
              BY <4>5 DEF Before
            <6> HIDE DEF moved, scan, list, c
            <6>2. x.at = MovedTo(c, list, scan, s.at)
              BY <5>4, <5>5
            <6> QED
              BY <1>4, <2>1, <5>3, <5>6, <6>1, <6>2, MovedToSame
          <5>9. Len(list) \in Nat
            BY <2>3, SeqOfElements
          <5>10. Stands(list, x)
            <6> HIDE DEF list, c
            <6>1. CASE s.at <= Len(c.list)
              <7>1. s.next = c.list[s.at] /\ x.next = list[x.at] /\ x.at <= Len(list)
                BY <3>5, <5>1, <5>8, <6>1 DEF Stands
              <7>2. x.at # Len(list) + 1
                BY <5>8, <5>9, <7>1
              <7> QED
                BY <5>8, <7>1, <7>2 DEF Stands
            <6>2. CASE ~(s.at <= Len(c.list))
              <7>1. s.at = Len(c.list) + 1
                BY <5>2, <5>3, <6>2
              <7>2. x.at = Len(list) + 1 /\ x.next = NoEntry
                BY <3>5, <5>1, <5>8, <7>1 DEF Stands
              <7>3. ~(x.at <= Len(list))
                BY <5>9, <7>2
              <7> QED
                BY <5>8, <7>2, <7>3 DEF Stands
            <6> QED
              BY <6>1, <6>2
          <5> QED
            BY <4>4, <5>10
        <4>7. CASE c.list = <<>>
          <5>2. Len(<<>>) = 0 /\ Len(c.list) # 1
            BY <4>7
          <5>3. list = scan /\ ~Changed(<<>>, scan)
            BY <4>5, <4>7, <5>2 DEF Relisted
          <5>4. Len(scan) = 0
            BY <5>2, <5>3 DEF Changed
          <5>5. scan = <<>>
            BY <1>4, <5>4, NothingSeq
          <5> QED
            BY <1>5, <4>4, <5>3, <5>5
        <4> QED
          BY <4>6, <4>7
      <3>7. x.key # 0 /\ x.count > 0 => x.unit \in DOMAIN g.cache
        BY <1>2, <3>1, <3>5 DEF Positioned
      <3>8. x.id \in 0..g.gid /\ x.count \in Nat
        BY <2>1, <2>2, <3>3, <3>5
      <3> QED
        BY <3>5, <3>6, <3>7, <3>8 DEF Positioned, x
    <2>6. DOMAIN g.files = DOMAIN f.files
      BY <1>1 DEF LookedUp
    <2> QED
      BY <2>2, <2>4, <2>5, <2>6 DEF Pointed
  <1>10. ASSUME NEW p, NEW e \in Entries(t, p), Has(f.cache[u], p, e)
         PROVE  Has(g.cache[u], p, e)
    <2>1. d.path = p /\ ~d.kept => e \in ToSet(d.list)
      BY <1>5 DEF Relisted, Entries
    <2> QED
      BY <1>1, <1>2, <1>10, <2>1 DEF Has
  <1> QED
    BY <1>1, <1>2, <1>8, <1>9, <1>10 DEF Looks, g

(* A lookup step behind a lookup, on the same unit.                         *)
LEMMA LooksOn ==
  ASSUME NEW f, FsOK(f), NEW u \in DOMAIN f.cache, NEW t, NEW g, Looks(f, g, u, t)
  PROVE  FsOK(g) /\ u \in DOMAIN g.cache
  BY DEF Looks, LookedUp, FsOK

LEMMA CachedLooks ==
  ASSUME NEW f, FsOK(f), NEW u \in DOMAIN f.cache, NEW t, IsTree(t), NEW p \in Seq(Names)
  PROVE  LET g == Cached(f, u, t, p)
         IN Looks(f, g, u, t) /\ CachedAt(g.cache[u], p) # {}
  <1> DEFINE n == Len(f.cache[u])
             ring == f.cache[u]
             g == Cached(f, u, t, p)
  <1>1. CASE CachedAt(ring, p) # {}
    BY <1>1, LooksNothing DEF Cached
  <1>2. CASE CachedAt(ring, p) = {}
    <2>1. PathRing(ring) /\ DOMAIN ring = 1..n /\ n \in Nat
      BY SeqOfElements DEF FsOK, PathRing
    <2>2. ASSUME NEW k, Looks(f, k, u, t), NEW i \in DOMAIN k.cache[u], k.cache[u][i].path = p
          PROVE  LET x == Refresh(k, u, t, i)
                 IN Looks(f, x, u, t) /\ CachedAt(x.cache[u], p) # {}
      <3> DEFINE x == Refresh(k, u, t, i)
      <3>1. FsOK(k) /\ u \in DOMAIN k.cache
        BY <2>2, LooksOn
      <3>2. /\ Looks(k, x, u, t) /\ DOMAIN x.cache[u] = DOMAIN k.cache[u]
            /\ x.cache[u][i].path = k.cache[u][i].path
        BY <3>1, RefreshLooks
      <3> HIDE DEF x
      <3>3. Looks(f, x, u, t)
        BY <2>2, <3>2, LooksTwice
      <3>4. i \in CachedAt(x.cache[u], p)
        BY <2>2, <3>2 DEF CachedAt
      <3> QED
        BY <3>3, <3>4 DEF x
    <2>3. CASE n = CacheMax
      <3> DEFINE oldest == ring[n]
                 new == [NewPath(p) EXCEPT !.id = oldest.id]
                 r == Repoint(f, u, oldest.path, AllFreed)
                 k == [r EXCEPT !.cache[u][n] = new]
      <3>1. g = Refresh(k, u, t, n)
        BY <1>2, <2>3 DEF Cached
      <3>4. n \in DOMAIN ring
        BY <2>1, <2>3, DriveAssumption
      <3>2. IsPath(new) /\ new.path = p /\ Fresh(new, ring)
        <4>1. IsPath(new) /\ new.path = p /\ new.refresh /\ new.list = <<>> /\ new.id = ring[n].id
          BY DEF IsPath, PathFields, NewPath
        <4> HIDE DEF new
        <4> QED
          BY <3>4, <4>1 DEF Fresh
      <3>3. LookedUp(f, r) /\ r.cache = f.cache /\ r.gid = f.gid
        <4>1. LookedUp(f, r) /\ r.cache = f.cache
          BY RepointFacts
        <4>2. IsFs(f)
          BY DEF FsOK
        <4>3. r.gid = f.gid
          BY <4>2 DEF Repoint, IsFs, FsFields
        <4> QED
          BY <4>1, <4>3
      <3> HIDE DEF new, r, g
      <3> DEFINE q == [ring EXCEPT ![n] = new]
      <3>5. PathRing(q) /\ DOMAIN q = DOMAIN ring /\ q[n] = new
        BY <1>2, <2>1, <3>2, <3>4, PathReplaced
      <3>6. /\ IsFs(k) /\ k.cache = [f.cache EXCEPT ![u] = q] /\ k.gid = f.gid /\ k.files = r.files
            /\ k.units = f.units /\ k.option = f.option /\ k.fcbs = f.fcbs
        BY <3>3 DEF LookedUp, FsOK, IsFs, FsFields
      <3>7. \A j \in DOMAIN q : j # n => q[j] = ring[j] /\ ring[j].path # oldest.path
        BY <2>1, <3>4 DEF PathRing
      <3>8. \A j \in DOMAIN q : \/ Fresh(q[j], ring)
                                \/ /\ q[j].path # oldest.path
                                   /\ \E i \in DOMAIN ring : StandsFor(q[j], ring[i])
        BY <3>2, <3>5, <3>7 DEF StandsFor
      <3> HIDE DEF q, k
      <3>9. Looks(f, k, u, t) /\ k.cache[u] = q
        <4>1. k.files = Repoint(f, u, oldest.path, AllFreed).files
          BY <3>6 DEF r
        <4>2. PICK o : o = oldest.path
          OBVIOUS
        <4>3. /\ k.files = Repoint(f, u, o, AllFreed).files
              /\ \A j \in DOMAIN q : Fresh(q[j], f.cache[u]) \/ q[j].path # o
          BY <3>8, <4>1, <4>2
        <4>4. \A j \in DOMAIN q : \/ Fresh(q[j], f.cache[u])
                                  \/ \E i \in DOMAIN f.cache[u] : StandsFor(q[j], f.cache[u][i])
          BY <3>8
        <4> HIDE DEF ring
        <4> QED
          BY <3>5, <3>6, <4>3, <4>4, FreedLooks
      <3>10. n \in DOMAIN k.cache[u] /\ k.cache[u][n].path = p
        BY <3>2, <3>4, <3>5, <3>9
      <3> QED
        BY <2>2, <3>1, <3>9, <3>10 DEF g
    <2>4. CASE n # CacheMax
      <3> DEFINE new == NewPath(p)
                 k == [f EXCEPT !.cache[u] = Append(@, new)]
                 q == Append(ring, new)
      <3>1. g = Refresh(k, u, t, n + 1)
        BY <1>2, <2>4 DEF Cached
      <3>2. IsPath(new) /\ new.path = p /\ Fresh(new, ring)
        BY DEF IsPath, PathFields, NewPath, Fresh
      <3> HIDE DEF new, g
      <3>3. PathRing(q)
        BY <1>2, <2>1, <2>4, <3>2, PathAppended
      <3>4. /\ DOMAIN q = 1..(n + 1) /\ n + 1 \in DOMAIN q
            /\ \A j \in DOMAIN q : q[j] = IF j = n + 1 THEN new ELSE ring[j]
        BY <2>1, AppendedSeq DEF PathRing
      <3>5. /\ IsFs(k) /\ k.cache = [f.cache EXCEPT ![u] = q] /\ k.gid = f.gid
            /\ k.units = f.units /\ k.option = f.option /\ k.files = f.files /\ k.fcbs = f.fcbs
        BY DEF FsOK, IsFs, FsFields
      <3> HIDE DEF q, k
      <3>6. ASSUME NEW j \in DOMAIN q
            PROVE  Fresh(q[j], ring) \/ \E i \in DOMAIN ring : StandsFor(q[j], ring[i])
        <4>1. CASE j = n + 1
          BY <3>2, <3>4, <4>1
        <4>2. CASE j # n + 1
          <5>1. j \in DOMAIN ring /\ q[j] = ring[j]
            BY <2>1, <3>4, <4>2
          <5> QED
            BY <5>1 DEF StandsFor
        <4> QED
          BY <4>1, <4>2
      <3>7. Looks(f, k, u, t) /\ k.cache[u] = q
        BY <3>3, <3>5, <3>6, FreedLooks
      <3>8. n + 1 \in DOMAIN k.cache[u] /\ k.cache[u][n + 1].path = p
        BY <3>2, <3>4, <3>7
      <3> QED
        BY <2>2, <3>1, <3>7, <3>8 DEF g
    <2> QED
      BY <2>3, <2>4
  <1> QED
    BY <1>1, <1>2

(* A cached path comes to the front.                                        *)
LEMMA FrontLooks ==
  ASSUME NEW f, FsOK(f), NEW u \in DOMAIN f.cache, NEW t, NEW i \in DOMAIN f.cache[u]
  PROVE  Looks(f, [f EXCEPT !.cache[u] = ToFront(@, i)], u, t)
  <1> DEFINE r == f.cache[u]
             q == ToFront(r, i)
             g == [f EXCEPT !.cache[u] = ToFront(@, i)]
  <1>1. PathRing(r) /\ IsSeq(r) /\ DOMAIN r = 1..Len(r) /\ Len(r) \in Nat
    BY SeqOfElements DEF FsOK, PathRing
  <1>2. PathRing(q)
    BY <1>1, PathFronted
  <1>3. /\ DOMAIN q = DOMAIN r
        /\ \A j \in DOMAIN r : q[j] = IF j = 1 THEN r[i] ELSE IF j <= i THEN r[j - 1] ELSE r[j]
    BY <1>1, ToFrontSeq
  <1>4. /\ IsFs(g) /\ g.cache = [f.cache EXCEPT ![u] = q] /\ g.gid = f.gid
        /\ g.units = f.units /\ g.option = f.option /\ g.files = f.files /\ g.fcbs = f.fcbs
    BY DEF FsOK, IsFs, FsFields
  <1> HIDE DEF q, g
  <1>5. ASSUME NEW j \in DOMAIN q
        PROVE  \E m \in DOMAIN r : StandsFor(q[j], r[m])
    <2>1. PICK m \in DOMAIN r : q[j] = r[m]
      <3>1. j \in 1..Len(r) /\ (j # 1 => j - 1 \in 1..Len(r)) /\ i \in 1..Len(r)
        BY <1>1, <1>3
      <3> QED
        BY <1>1, <1>3, <3>1
    <2> QED
      BY <2>1 DEF StandsFor
  <1>6. Looks(f, g, u, t)
    BY <1>2, <1>4, <1>5, RingLooks
  <1> QED
    BY <1>6 DEF g

LEMMA VisitLooks ==
  ASSUME NEW f, FsOK(f), NEW u \in DOMAIN f.cache, NEW t, IsTree(t), NEW p \in Seq(Names)
  PROVE  Looks(f, Visit(f, u, t, p), u, t)
  <1> DEFINE a == Cached(f, u, t, p)
             i == CHOOSE j \in CachedAt(a.cache[u], p) : TRUE
             b == IF a.cache[u][i].refresh THEN Refresh(a, u, t, i) ELSE a
             g == [b EXCEPT !.cache[u] = ToFront(@, i)]
  <1>1. Visit(f, u, t, p) = g
    BY DEF Visit
  <1>2. Looks(f, a, u, t) /\ CachedAt(a.cache[u], p) # {}
    BY CachedLooks
  <1>3. i \in CachedAt(a.cache[u], p)
    BY <1>2
  <1> HIDE DEF a, i
  <1>4. FsOK(a) /\ u \in DOMAIN a.cache /\ i \in DOMAIN a.cache[u]
    BY <1>2, <1>3, LooksOn DEF CachedAt
  <1>5. Looks(a, b, u, t) /\ i \in DOMAIN b.cache[u]
    <2>1. CASE a.cache[u][i].refresh
      BY <2>1, <1>4, RefreshLooks
    <2>2. CASE ~a.cache[u][i].refresh
      BY <2>2, <1>4, LooksNothing
    <2> QED
      BY <2>1, <2>2
  <1> HIDE DEF b
  <1>6. FsOK(b) /\ u \in DOMAIN b.cache
    BY <1>4, <1>5, LooksOn
  <1>7. Looks(b, g, u, t)
    BY <1>5, <1>6, FrontLooks
  <1>8. Looks(f, b, u, t)
    BY <1>2, <1>5, LooksTwice
  <1> QED
    BY <1>1, <1>7, <1>8, LooksTwice

LEMMA DescendLooks ==
  ASSUME NEW f, FsOK(f), NEW u \in DOMAIN f.cache, NEW t, IsTree(t), NEW p \in Seq(Names),
         NEW n \in 0..Len(p), NEW made, Looks(f, made.f, u, t)
  PROVE  Looks(f, Descend(made, u, t, p, n).f, u, t)
  <1> DEFINE q == SubSeq(p, 1, n)
             g == Visit(made.f, u, t, q)
  <1>1. q \in Seq(Names)
    OBVIOUS
  <1> HIDE DEF q
  <1>2. FsOK(made.f) /\ u \in DOMAIN made.f.cache
    BY LooksOn
  <1>3. Looks(made.f, g, u, t)
    BY <1>1, <1>2, VisitLooks
  <1>4. Looks(f, g, u, t)
    BY <1>3, LooksTwice
  <1>5. Descend(made, u, t, p, n).f = IF made.ok THEN g ELSE made.f
    BY DEF Descend, q
  <1> HIDE DEF g
  <1> QED
    BY <1>4, <1>5

LEMMA MakeCacheLooks ==
  ASSUME NEW f, FsOK(f), NEW u \in DOMAIN f.cache, NEW t, IsTree(t), NEW p \in Seq(Names)
  PROVE  Looks(f, MakeCache(f, u, t, p).f, u, t)
  <1>1. PICK made : /\ MadeTo(f, u, t, p, Len(p), made)
                    /\ MakeCache(f, u, t, p) = made[Len(p)]
    BY MakeCacheSteps
  <1> DEFINE start == [f |-> f, ok |-> TRUE]
             before(n) == IF n = 0 THEN start ELSE made[n - 1]
             T == {n \in 0..Len(p) : ~Looks(f, made[n].f, u, t)}
  <1>2. Len(p) \in Nat
    OBVIOUS
  <1>3. ASSUME NEW n \in 0..Len(p), Looks(f, before(n).f, u, t)
        PROVE  Looks(f, made[n].f, u, t)
    <2>1. made[n] = Descend(before(n), u, t, p, n)
      BY <1>1 DEF MadeTo
    <2> HIDE DEF before
    <2> QED
      BY <1>3, <2>1, DescendLooks
  <1>4. Looks(f, before(0).f, u, t)
    BY LooksNothing
  <1>5. T = {}
    <2> SUFFICES ASSUME T # {}
                 PROVE  FALSE
      OBVIOUS
    <2>1. PICK n \in T : \A j \in T : n <= j
      <3>1. T \subseteq Nat
        BY <1>2
      <3> HIDE DEF T
      <3> QED
        BY <3>1, Smallest
    <2>2. n \in 0..Len(p) /\ ~Looks(f, made[n].f, u, t)
      BY <2>1
    <2>3. CASE n = 0
      BY <2>2, <2>3, <1>3, <1>4
    <2>4. CASE n # 0
      <3>1. n - 1 \in 0..Len(p) /\ n - 1 \notin T
        BY <1>2, <2>1, <2>2, <2>4
      <3>2. Looks(f, made[n - 1].f, u, t)
        BY <3>1
      <3>3. Looks(f, before(n).f, u, t)
        BY <3>2, <2>4
      <3> QED
        BY <2>2, <3>3, <1>3
    <2> QED
      BY <2>3, <2>4
  <1>6. Len(p) \in 0..Len(p)
    BY <1>2
  <1>7. Looks(f, made[Len(p)].f, u, t)
    BY <1>5, <1>6
  <1> QED
    BY <1>1, <1>7

LEMMA ReleasedLooks ==
  ASSUME NEW f, FsOK(f), NEW u \in DOMAIN f.cache, NEW t, NEW paths
  PROVE  Looks(f, [f EXCEPT !.cache[u] = Released(@, paths)], u, t)
  <1> DEFINE r == f.cache[u]
             q == Released(r, paths)
             g == [f EXCEPT !.cache[u] = Released(@, paths)]
  <1>1. PathRing(q)
    BY ReleasedPaths DEF FsOK
  <1>2. /\ IsFs(g) /\ g.cache = [f.cache EXCEPT ![u] = q] /\ g.gid = f.gid
        /\ g.units = f.units /\ g.option = f.option /\ g.files = f.files /\ g.fcbs = f.fcbs
    BY DEF FsOK, IsFs, FsFields
  <1> HIDE DEF g
  <1>3. ASSUME NEW j \in DOMAIN q
        PROVE  \E m \in DOMAIN r : StandsFor(q[j], r[m])
    <2>1. j \in DOMAIN r /\ (q[j] = r[j] \/ q[j] = [r[j] EXCEPT !.refresh = TRUE])
      BY DEF Released
    <2>2. IsPath(r[j])
      BY <2>1 DEF FsOK, PathRing
    <2> HIDE DEF q, r
    <2>3. StandsFor(q[j], r[j])
      BY <2>1, <2>2 DEF StandsFor, IsPath, PathFields
    <2> QED
      BY <2>1, <2>3
  <1> HIDE DEF q
  <1>4. Looks(f, g, u, t)
    BY <1>1, <1>2, <1>3, RingLooks
  <1> QED
    BY <1>4 DEF g

LEMMA CleanLooks ==
  ASSUME NEW f, FsOK(f), NEW u \in DOMAIN f.cache, NEW t, NEW p
  PROVE  /\ Looks(f, CleanAll(f, u), u, t) /\ Looks(f, CleanCache(f, u, p), u, t)
         /\ Looks(f, CleanCacheChild(f, u, p), u, t)
  <1>1. Looks(f, CleanAll(f, u), u, t)
    BY ReleasedLooks DEF CleanAll
  <1>2. Looks(f, CleanCache(f, u, p), u, t)
    BY ReleasedLooks DEF CleanCache
  <1>3. Looks(f, CleanCacheChild(f, u, p), u, t)
    BY ReleasedLooks DEF CleanCacheChild
  <1> QED
    BY <1>1, <1>2, <1>3

LEMMA DeleteCacheLooks ==
  ASSUME NEW f, FsOK(f), NEW u \in DOMAIN f.cache, NEW t, NEW p
  PROVE  Looks(f, DeleteCache(f, u, p), u, t)
  <1> DEFINE at == CachedAt(f.cache[u], p)
             i == CHOOSE j \in at : TRUE
             r == Repoint(f, u, p, AllFreed)
             g == [r EXCEPT !.cache[u] = Without(@, i)]
             ring == f.cache[u]
             q == Without(ring, i)
  <1>1. CASE at = {}
    BY <1>1, LooksNothing DEF DeleteCache
  <1>2. CASE at # {}
    <2>1. DeleteCache(f, u, p) = g
      BY <1>2 DEF DeleteCache
    <2>2. LookedUp(f, r) /\ r.cache = f.cache
      BY RepointFacts
    <2>3. i \in DOMAIN ring /\ ring[i].path = p
      BY <1>2 DEF CachedAt
    <2>4. r.gid = f.gid
      <3>1. IsFs(f)
        BY DEF FsOK
      <3> QED
        BY <3>1 DEF Repoint, IsFs, FsFields
    <2> HIDE DEF r, i
    <2>5. PathRing(q)
      BY <2>3, PathRemoved DEF FsOK
    <2>6. PathRing(ring) /\ IsSeq(ring) /\ DOMAIN ring = 1..Len(ring) /\ Len(ring) \in Nat
      BY SeqOfElements DEF FsOK, PathRing
    <2>7. /\ DOMAIN q = 1..(Len(ring) - 1)
          /\ \A j \in DOMAIN q : q[j] = IF j < i THEN ring[j] ELSE ring[j + 1]
      <3>1. /\ q \in Seq(ToSet(ring)) /\ Len(q) = Len(ring) - 1
            /\ \A j \in 1..(Len(ring) - 1) : q[j] = IF j < i THEN ring[j] ELSE ring[j + 1]
        BY <2>3, <2>6, RemovedSeq
      <3> HIDE DEF q
      <3> QED
        BY <3>1, SeqIsSeq
    <2>8. /\ IsFs(g) /\ g.cache = [f.cache EXCEPT ![u] = q] /\ g.gid = f.gid /\ g.files = r.files
          /\ g.units = f.units /\ g.option = f.option /\ g.fcbs = f.fcbs
      BY <2>2, <2>4 DEF LookedUp, FsOK, IsFs, FsFields
    <2> HIDE DEF q, g
    <2>9. ASSUME NEW j \in DOMAIN q
          PROVE  q[j].path # p /\ \E m \in DOMAIN ring : StandsFor(q[j], ring[m])
      <3>1. PICK m \in DOMAIN ring : m # i /\ q[j] = ring[m]
        <4>1. i \in 1..Len(ring) /\ j \in 1..(Len(ring) - 1)
          BY <2>3, <2>6, <2>7
        <4>2. CASE j < i
          <5>1. j \in DOMAIN ring /\ j # i /\ q[j] = ring[j]
            BY <2>6, <2>7, <4>1, <4>2
          <5> QED
            BY <5>1
        <4>3. CASE ~(j < i)
          <5>1. j + 1 \in DOMAIN ring /\ j + 1 # i /\ q[j] = ring[j + 1]
            BY <2>6, <2>7, <4>1, <4>3
          <5> QED
            BY <5>1
        <4> QED
          BY <4>2, <4>3
      <3>2. ring[m].path # p
        BY <2>3, <2>6, <3>1 DEF PathRing
      <3> QED
        BY <3>1, <3>2 DEF StandsFor
    <2>10. Looks(f, g, u, t)
      <3>1. g.files = Repoint(f, u, p, AllFreed).files
        BY <2>8 DEF r
      <3> QED
        BY <2>5, <2>8, <2>9, <3>1, FreedLooks
    <2> QED
      BY <2>1, <2>10
  <1> QED
    BY <1>1, <1>2

LEMMA CopyCacheLooks ==
  ASSUME NEW f, FsOK(f), NEW u \in DOMAIN f.cache, NEW t, NEW p
  PROVE  Looks(f, CopyCache(f, u, p).f, u, t)
  <1> DEFINE at == CachedAt(f.cache[u], p)
             i == CHOOSE j \in at : TRUE
             g == [f EXCEPT !.cache[u] = ToFront(@, i)]
  <1>1. CASE at = {}
    <2> DEFINE r == f.cache[u]
               k == [f EXCEPT !.cache[u] = r]
    <2>1. CopyCache(f, u, p).f = k
      BY <1>1 DEF CopyCache
    <2>2. /\ IsFs(k) /\ k.cache = [f.cache EXCEPT ![u] = r] /\ k.gid = f.gid
          /\ k.units = f.units /\ k.option = f.option /\ k.files = f.files /\ k.fcbs = f.fcbs
      BY DEF FsOK, IsFs, FsFields
    <2>3. PathRing(r) /\ \A j \in DOMAIN r : StandsFor(r[j], r[j])
      BY DEF FsOK, StandsFor
    <2> HIDE DEF k
    <2>4. Looks(f, k, u, t)
      BY <2>2, <2>3, RingLooks
    <2> QED
      BY <2>1, <2>4
  <1>2. CASE at # {}
    <2>1. CopyCache(f, u, p).f = g
      BY <1>2 DEF CopyCache
    <2>2. i \in DOMAIN f.cache[u]
      BY <1>2 DEF CachedAt
    <2> HIDE DEF i
    <2>3. Looks(f, g, u, t)
      BY <2>2, FrontLooks
    <2> QED
      BY <2>1, <2>3
  <1> QED
    BY <1>1, <1>2

LEMMA FindLooks ==
  ASSUME NEW f, FsOK(f), NEW u \in DOMAIN f.cache, NEW t, IsTree(t), NEW p \in Seq(Names)
  PROVE  Looks(f, Find(f, u, t, p).f, u, t)
  <1> DEFINE copy == CopyCache(f, u, p)
             make == MakeCache(copy.f, u, t, p)
  <1>1. Looks(f, copy.f, u, t)
    BY CopyCacheLooks
  <1>2. FsOK(copy.f) /\ u \in DOMAIN copy.f.cache
    BY <1>1, LooksOn
  <1>3. CASE copy.ok
    BY <1>1, <1>3 DEF Find
  <1>4. CASE ~copy.ok
    <2>1. Looks(copy.f, make.f, u, t)
      BY <1>2, MakeCacheLooks
    <2>2. Looks(f, make.f, u, t)
      BY <1>1, <2>1, LooksTwice
    <2>3. CASE make.ok
      <3>1. Find(f, u, t, p) = make
        BY <1>4, <2>3 DEF Find
      <3> QED
        BY <2>2, <3>1
    <2>4. CASE ~make.ok
      <3> DEFINE g == CleanAll(make.f, u)
      <3>1. Find(f, u, t, p).f = g
        BY <1>4, <2>4 DEF Find
      <3>2. FsOK(make.f) /\ u \in DOMAIN make.f.cache
        BY <2>2, LooksOn
      <3>3. Looks(make.f, g, u, t)
        BY <3>2, CleanLooks
      <3> HIDE DEF g
      <3> QED
        BY <2>2, <3>1, <3>3, LooksTwice
    <2> QED
      BY <2>3, <2>4
  <1> QED
    BY <1>3, <1>4

-----------------------------------------------------------------------------
(* Paths and what is below them                                            *)

LEMMA SubSeqPoints ==
  ASSUME NEW q \in Seq(Names), NEW m \in 0..Len(q)
  PROVE  /\ SubSeq(q, 1, m) \in Seq(Names) /\ Len(SubSeq(q, 1, m)) = m
         /\ \A i \in 1..m : SubSeq(q, 1, m)[i] = q[i]
  OBVIOUS

LEMMA SamePoints ==
  ASSUME NEW p \in Seq(Names), NEW q \in Seq(Names), Len(p) = Len(q),
         \A i \in 1..Len(p) : p[i] = q[i]
  PROVE  p = q
  BY SeqEqual

LEMMA PrefixPoints ==
  ASSUME NEW a \in Seq(Names), NEW q \in Seq(Names)
  PROVE  IsPrefix(a, q) <=> Len(a) <= Len(q) /\ \A i \in 1..Len(a) : a[i] = q[i]
  <1>1. ASSUME Len(a) <= Len(q)
        PROVE  SubSeq(a, 1, Len(a)) = SubSeq(q, 1, Len(a))
                 <=> \A i \in 1..Len(a) : a[i] = q[i]
    <2> DEFINE x == SubSeq(a, 1, Len(a))
               y == SubSeq(q, 1, Len(a))
    <2>1. Len(a) \in 0..Len(a) /\ Len(a) \in 0..Len(q) /\ Len(a) \in Nat
      BY <1>1
    <2>2. x \in Seq(Names) /\ Len(x) = Len(a) /\ \A i \in 1..Len(a) : x[i] = a[i]
      BY <2>1, SubSeqPoints
    <2>3. y \in Seq(Names) /\ Len(y) = Len(a) /\ \A i \in 1..Len(a) : y[i] = q[i]
      BY <2>1, SubSeqPoints
    <2> HIDE DEF x, y
    <2>4. x = y <=> \A i \in 1..Len(a) : a[i] = q[i]
      BY <2>2, <2>3, SamePoints
    <2> QED
      BY <2>4 DEF x, y
  <1> QED
    BY <1>1 DEF IsPrefix

LEMMA JoinedPoints ==
  ASSUME NEW a \in Seq(Names), NEW x \in Seq(Names)
  PROVE  /\ a \o x \in Seq(Names) /\ Len(a \o x) = Len(a) + Len(x)
         /\ \A i \in 1..Len(a) : (a \o x)[i] = a[i]
         /\ \A i \in 1..Len(x) : (a \o x)[Len(a) + i] = x[i]
  <1>1. PICK c : c = a \o x
    OBVIOUS
  <1>2. c \in Seq(Names) /\ Len(c) = Len(a) + Len(x)
        /\ \A i \in 1..(Len(a) + Len(x)) : c[i] = IF i <= Len(a) THEN a[i] ELSE x[i - Len(a)]
    BY <1>1, ConcatProperties
  <1>3. Len(a) \in Nat /\ Len(x) \in Nat
    OBVIOUS
  <1>4. ASSUME NEW i \in 1..Len(a)
        PROVE  c[i] = a[i]
    BY <1>2, <1>3
  <1>5. ASSUME NEW i \in 1..Len(x)
        PROVE  c[Len(a) + i] = x[i]
    <2>1. Len(a) + i \in 1..(Len(a) + Len(x)) /\ ~(Len(a) + i <= Len(a)) /\ Len(a) + i - Len(a) = i
      BY <1>3
    <2> QED
      BY <1>2, <2>1
  <1> QED
    BY <1>1, <1>2, <1>4, <1>5

LEMMA JoinedPrefix ==
  ASSUME NEW a \in Seq(Names), NEW x \in Seq(Names)
  PROVE  IsPrefix(a, a \o x) /\ Below(a, a \o x) = x
  <1>1. PICK c : c = a \o x
    OBVIOUS
  <1>2. /\ c \in Seq(Names) /\ Len(c) = Len(a) + Len(x)
        /\ \A i \in 1..Len(a) : c[i] = a[i]
        /\ \A i \in 1..Len(x) : c[Len(a) + i] = x[i]
    BY <1>1, JoinedPoints
  <1>3. Len(a) \in Nat /\ Len(x) \in Nat
    OBVIOUS
  <1>4. IsPrefix(a, c)
    BY <1>2, <1>3, PrefixPoints
  <1>5. Below(a, c) = x
    <2> DEFINE y == SubSeq(c, Len(a) + 1, Len(c))
    <2>1. y \in Seq(Names) /\ Len(y) = Len(x) /\ \A i \in 1..Len(y) : y[i] = c[Len(a) + i]
      BY <1>2, <1>3
    <2> HIDE DEF y
    <2>2. \A i \in 1..Len(y) : y[i] = x[i]
      BY <1>2, <2>1
    <2>3. y = x
      BY <2>1, <2>2, SamePoints
    <2> QED
      BY <2>3 DEF y, Below
  <1> QED
    BY <1>1, <1>4, <1>5

LEMMA PrefixJoined ==
  ASSUME NEW a \in Seq(Names), NEW q \in Seq(Names), IsPrefix(a, q)
  PROVE  Below(a, q) \in Seq(Names) /\ q = a \o Below(a, q)
  <1>1. Len(a) <= Len(q) /\ \A i \in 1..Len(a) : a[i] = q[i]
    BY PrefixPoints
  <1>2. Len(a) \in Nat /\ Len(q) \in Nat
    OBVIOUS
  <1>3. PICK x : x = Below(a, q)
    OBVIOUS
  <1>4. x \in Seq(Names) /\ Len(x) = Len(q) - Len(a) /\ \A i \in 1..Len(x) : x[i] = q[Len(a) + i]
    BY <1>1, <1>2, <1>3 DEF Below
  <1>5. PICK c : c = a \o x
    OBVIOUS
  <1>6. /\ c \in Seq(Names) /\ Len(c) = Len(a) + Len(x)
        /\ \A i \in 1..Len(a) : c[i] = a[i]
        /\ \A i \in 1..Len(x) : c[Len(a) + i] = x[i]
    BY <1>4, <1>5, JoinedPoints
  <1>7. Len(c) = Len(q)
    BY <1>2, <1>4, <1>6
  <1>8. ASSUME NEW i \in 1..Len(c)
        PROVE  c[i] = q[i]
    <2>1. CASE i <= Len(a)
      BY <1>1, <1>2, <1>6, <2>1
    <2>2. CASE ~(i <= Len(a))
      <3>1. i - Len(a) \in 1..Len(x) /\ Len(a) + (i - Len(a)) = i
        BY <1>2, <1>4, <1>7, <2>2
      <3> QED
        BY <1>4, <1>6, <3>1
    <2> QED
      BY <2>1, <2>2
  <1>9. c = q
    BY <1>6, <1>7, <1>8, SamePoints
  <1> QED
    BY <1>3, <1>4, <1>5, <1>9

(* What is below a path: shorter and longer paths.                          *)
LEMMA PrefixShort ==
  ASSUME NEW a \in Seq(Names), NEW q \in Seq(Names), NEW m \in 0..Len(q),
         IsPrefix(a, SubSeq(q, 1, m))
  PROVE  IsPrefix(a, q) /\ Len(a) <= m
  <1>1. PICK p : p = SubSeq(q, 1, m)
    OBVIOUS
  <1>2. p \in Seq(Names) /\ Len(p) = m /\ \A i \in 1..m : p[i] = q[i]
    BY <1>1, SubSeqPoints
  <1>3. Len(a) <= m /\ \A i \in 1..Len(a) : a[i] = p[i]
    BY <1>1, <1>2, PrefixPoints
  <1>4. Len(a) \in Nat /\ Len(q) \in Nat
    OBVIOUS
  <1>5. Len(a) <= Len(q) /\ \A i \in 1..Len(a) : a[i] = q[i]
    BY <1>2, <1>3, <1>4
  <1> QED
    BY <1>3, <1>5, PrefixPoints

LEMMA AppendPoints ==
  ASSUME NEW p \in Seq(Names), NEW x \in Names
  PROVE  /\ Append(p, x) \in Seq(Names) \ {Root} /\ Len(Append(p, x)) = Len(p) + 1
         /\ Append(p, x)[Len(p) + 1] = x /\ \A i \in 1..Len(p) : Append(p, x)[i] = p[i]
         /\ \A m \in 0..Len(p) : SubSeq(Append(p, x), 1, m) = SubSeq(p, 1, m)
         /\ SubSeq(p, 1, Len(p)) = p
  <1>1. PICK q : q = Append(p, x)
    OBVIOUS
  <1>2. Len(p) \in Nat
    OBVIOUS
  <1>3. /\ q \in Seq(Names) /\ Len(q) = Len(p) + 1
        /\ q[Len(p) + 1] = x /\ \A i \in 1..Len(p) : q[i] = p[i]
    BY <1>1, AppendProperties
  <1>4. q # Root
    BY <1>2, <1>3 DEF Root
  <1>5. ASSUME NEW m \in 0..Len(p)
        PROVE  SubSeq(q, 1, m) = SubSeq(p, 1, m)
    <2>1. m \in 0..Len(q) /\ m \in Nat
      BY <1>2, <1>3
    <2>2. PICK y : y = SubSeq(q, 1, m)
      OBVIOUS
    <2>3. PICK z : z = SubSeq(p, 1, m)
      OBVIOUS
    <2>4. y \in Seq(Names) /\ Len(y) = m /\ \A i \in 1..m : y[i] = q[i]
      BY <1>3, <2>1, <2>2, SubSeqPoints
    <2>5. z \in Seq(Names) /\ Len(z) = m /\ \A i \in 1..m : z[i] = p[i]
      BY <2>3, SubSeqPoints
    <2>6. \A i \in 1..Len(y) : y[i] = z[i]
      BY <1>2, <1>3, <2>1, <2>4, <2>5
    <2>7. y = z
      BY <2>4, <2>5, <2>6, SamePoints
    <2> QED
      BY <2>2, <2>3, <2>7
  <1>6. SubSeq(p, 1, Len(p)) = p
    OBVIOUS
  <1> QED
    BY <1>1, <1>3, <1>4, <1>5, <1>6

LEMMA PrefixAppend ==
  ASSUME NEW a \in Seq(Names), NEW p \in Seq(Names), NEW x \in Names, IsPrefix(a, Append(p, x))
  PROVE  a = Append(p, x) \/ IsPrefix(a, p)
  <1>1. PICK q : q = Append(p, x)
    OBVIOUS
  <1>2. q \in Seq(Names) /\ Len(q) = Len(p) + 1 /\ \A i \in 1..Len(p) : q[i] = p[i]
    BY <1>1, AppendPoints
  <1>3. Len(a) <= Len(q) /\ \A i \in 1..Len(a) : a[i] = q[i]
    BY <1>1, <1>2, PrefixPoints
  <1>4. Len(a) \in Nat /\ Len(p) \in Nat
    OBVIOUS
  <1>5. CASE Len(a) = Len(q)
    <2>1. a = q
      BY <1>2, <1>3, <1>5, SamePoints
    <2> QED
      BY <1>1, <2>1
  <1>6. CASE Len(a) # Len(q)
    <2>1. Len(a) <= Len(p)
      BY <1>2, <1>3, <1>4, <1>6
    <2>2. \A i \in 1..Len(a) : a[i] = p[i]
      BY <1>2, <1>3, <1>4, <2>1
    <2> QED
      BY <2>1, <2>2, PrefixPoints
  <1> QED
    BY <1>5, <1>6

(* The beginnings of a joined path.                                         *)
LEMMA JoinedStarts ==
  ASSUME NEW a \in Seq(Names), NEW x \in Seq(Names), NEW m \in 0..(Len(a) + Len(x))
  PROVE  /\ m <= Len(a) => SubSeq(a \o x, 1, m) = SubSeq(a, 1, m)
         /\ m >= Len(a) => SubSeq(a \o x, 1, m) = a \o SubSeq(x, 1, m - Len(a))
  <1>1. PICK c : c = a \o x
    OBVIOUS
  <1>2. /\ c \in Seq(Names) /\ Len(c) = Len(a) + Len(x)
        /\ \A i \in 1..Len(a) : c[i] = a[i]
        /\ \A i \in 1..Len(x) : c[Len(a) + i] = x[i]
    BY <1>1, JoinedPoints
  <1>3. Len(a) \in Nat /\ Len(x) \in Nat /\ m \in Nat
    OBVIOUS
  <1>4. PICK y : y = SubSeq(c, 1, m)
    OBVIOUS
  <1>5. y \in Seq(Names) /\ Len(y) = m /\ \A i \in 1..m : y[i] = c[i]
    BY <1>2, <1>4, SubSeqPoints
  <1>6. ASSUME m <= Len(a)
        PROVE  y = SubSeq(a, 1, m)
    <2>1. m \in 0..Len(a)
      BY <1>3, <1>6
    <2>2. PICK z : z = SubSeq(a, 1, m)
      OBVIOUS
    <2>3. z \in Seq(Names) /\ Len(z) = m /\ \A i \in 1..m : z[i] = a[i]
      BY <2>1, <2>2, SubSeqPoints
    <2>4. ASSUME NEW i \in 1..m
          PROVE  y[i] = z[i]
      <3>1. i \in 1..Len(a)
        BY <1>3, <1>6
      <3> QED
        BY <1>2, <1>5, <2>3, <3>1
    <2>5. y = z
      BY <1>5, <2>3, <2>4, SamePoints
    <2> QED
      BY <2>2, <2>5
  <1>7. ASSUME m >= Len(a)
        PROVE  y = a \o SubSeq(x, 1, m - Len(a))
    <2>1. m - Len(a) \in 0..Len(x) /\ m - Len(a) \in Nat
      BY <1>3, <1>7
    <2>2. PICK w : w = SubSeq(x, 1, m - Len(a))
      OBVIOUS
    <2>3. w \in Seq(Names) /\ Len(w) = m - Len(a) /\ \A i \in 1..(m - Len(a)) : w[i] = x[i]
      BY <2>1, <2>2, SubSeqPoints
    <2>4. PICK z : z = a \o w
      OBVIOUS
    <2>5. /\ z \in Seq(Names) /\ Len(z) = Len(a) + Len(w)
          /\ \A i \in 1..Len(a) : z[i] = a[i]
          /\ \A i \in 1..Len(w) : z[Len(a) + i] = w[i]
      BY <2>3, <2>4, JoinedPoints
    <2>6. Len(z) = m
      BY <1>3, <2>3, <2>5
    <2>7. ASSUME NEW i \in 1..m
          PROVE  y[i] = z[i]
      <3>1. CASE i <= Len(a)
        BY <1>2, <1>3, <1>5, <2>5, <3>1
      <3>2. CASE ~(i <= Len(a))
        <4>1. PICK j : j = i - Len(a)
          OBVIOUS
        <4>2. j \in 1..Len(w) /\ j \in 1..Len(x) /\ j \in 1..(m - Len(a)) /\ Len(a) + j = i
          BY <1>3, <2>1, <2>3, <3>2, <4>1
        <4>3. c[i] = x[j] /\ z[i] = w[j] /\ w[j] = x[j]
          BY <1>2, <2>3, <2>5, <4>2
        <4> QED
          BY <1>5, <4>3
      <3> QED
        BY <3>1, <3>2
    <2>8. y = z
      BY <1>5, <2>5, <2>6, <2>7, SamePoints
    <2> QED
      BY <2>2, <2>4, <2>8
  <1> QED
    BY <1>1, <1>4, <1>6, <1>7

=============================================================================

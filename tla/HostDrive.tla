------------------------------ MODULE HostDrive ------------------------------
(***************************************************************************)
(* A drive of the host file system of the X68000 bridge (CHostDrv,         *)
(* CHostPath, CHostFilename of cfilesystem.cpp): the directories of the    *)
(* host that are cached, with the entries they had when they were read,    *)
(* the lookup of a path through that cache, and the search of a directory  *)
(* that FILES starts and NFILES continues.                                 *)
(*                                                                         *)
(* The operators map a file system f to the one after the call. They use   *)
(* f.cache (unit -> ring of cached paths, the most recent one first),      *)
(* f.gid (the counter g_nId) and f.files (the search buffers: they keep a  *)
(* pointer into the list of a cached path, that Repoint follows). A host   *)
(* tree h maps paths, sequences of names, to nodes.                        *)
(*                                                                         *)
(* The names are valid for the host and for Human68k alike: the conversion *)
(* of other names and the folding of case are not modelled. The version of *)
(* a file stands for its size, time and attributes.                        *)
(***************************************************************************)
EXTENDS Naturals, SequencesExt

CONSTANTS
  Names,      (* names, as numbers from 2 up, in the order of scandir       *)
  CacheMax    (* XM6_HOST_DIRENTRY_CACHE_MAX                                *)

ASSUME DriveAssumption ==
  Names \subseteq Nat \ {0, 1} /\ IsFiniteSet(Names) /\ CacheMax \in Nat \ {0}

Root == <<>>

(* The entries "." and ".." of a directory that is not the root.            *)
Dots == <<[name |-> 0, dir |-> TRUE, ver |-> 0], [name |-> 1, dir |-> TRUE, ver |-> 0]>>

(* What a search stands at behind the last entry.                           *)
NoEntry == [name |-> 0, dir |-> FALSE, ver |-> 0]

(* The host.                                                                *)
Exists(h, p) == p = Root \/ p \in DOMAIN h
IsDir(h, p) == p = Root \/ (p \in DOMAIN h /\ h[p].dir)
Contents(h, p) == {n \in Names : Append(p, n) \in DOMAIN h}

AsciiSort(names) ==
  CHOOSE s \in [1..Cardinality(names) -> names] : \A i, j \in DOMAIN s : i < j => s[i] < s[j]

(* What scandir and stat tell of a directory: nothing when it is not there. *)
Scan(h, p) ==
  LET sorted == AsciiSort(Contents(h, p))
      Entry(n) == [name |-> n, dir |-> h[Append(p, n)].dir, ver |-> h[Append(p, n)].ver]
  IN IF ~IsDir(h, p) THEN <<>>
     ELSE (IF p = Root THEN <<>> ELSE Dots) \o [i \in DOMAIN sorted |-> Entry(sorted[i])]

Entries(h, p) == ToSet(Scan(h, p))

(* An entry and a mask of attributes.                                       *)
CheckAttribute(e, attr) ==
  \/ attr = "all"
  \/ attr = "file" /\ ~e.dir
  \/ attr = "dir" /\ e.dir

FindFilename(list, n, attr) ==
  {i \in DOMAIN list : list[i].name = n /\ CheckAttribute(list[i], attr)}

(* A cached path. The generation id changes when the entries do; kept (for  *)
(* the properties) tells that the last refresh left the old list in place.  *)
NewPath(p) == [path |-> p, refresh |-> TRUE, id |-> 0, list |-> <<>>, kept |-> FALSE]

CachedAt(ring, p) == {i \in DOMAIN ring : ring[i].path = p}

(* CRing::Remove. (By application: TLC 2.19 forgets what EXCEPT changed in  *)
(* a function that it has not enumerated when SubSeq, and with it RemoveAt, *)
(* makes a tuple of that function.)                                         *)
Without(ring, i) == [j \in 1..(Len(ring) - 1) |-> ring[IF j < i THEN j ELSE j + 1]]

(* Mutant of ToFront: the element is not separated first.                   *)
ToFrontCopied(ring, i) == <<ring[i]>> \o ring

(* CRing::Insert.                                                           *)
ToFront(ring, i) == <<ring[i]>> \o Without(ring, i)

(* CRing::InsertTail.                                                       *)
ToTail(ring, i) == Append(Without(ring, i), ring[i])

(* The pointers of the searches into the list of a path, after its entries  *)
(* moved or were freed (0).                                                 *)
Repoint(f, u, p, moved) ==
  [f EXCEPT !.files =
     [i \in DOMAIN f.files |->
        LET s == f.files[i]
        IN IF s.key # 0 /\ s.unit = u /\ s.path = p /\ s.at # 0
           THEN [s EXCEPT !.at = moved[@]] ELSE s]]

AllFreed == [j \in Nat |-> 0]

(* Mutant of Changed: entries that are gone are no change. *)
ChangedGrown(old, new) == ~(ToSet(new) \subseteq ToSet(old))

(* bUpdate of Refresh: an entry that is new, not the same, or gone.         *)
Changed(old, new) == Len(old) # Len(new) \/ ToSet(old) # ToSet(new)

(* CHostPath::Refresh. The old entries are moved to a backup, out of which  *)
(* the first of a name is taken again when it did not change; InsertRing    *)
(* does not move a list of exactly one entry. Refreshed is the rest of it,  *)
(* for the cached path c and what scandir returned.                         *)
Refreshed(f, u, i, c, scan) ==
  LET single == Len(c.list) = 1
      list == IF single THEN c.list \o scan ELSE scan
      changed == Changed(IF single THEN <<>> ELSE c.list, scan)
      First(s, e) ==
        CHOOSE j \in DOMAIN s : s[j].name = e.name /\ \A k \in 1..(j - 1) : s[k].name # e.name
      moved ==
        [j \in Nat |->
           CASE j > Len(c.list) -> Len(list) + 1
             [] j <= Len(c.list) /\ single -> j
             [] OTHER -> IF c.list[j] \in ToSet(scan) /\ First(c.list, c.list[j]) = j
                         THEN First(list, c.list[j]) ELSE 0]
      New(gid) ==
        [Repoint(f, u, c.path, moved) EXCEPT
           !.cache[u][i] = [c EXCEPT !.refresh = FALSE, !.list = list, !.kept = single,
                                     !.id = IF gid = f.gid THEN @ ELSE gid],
           !.gid = gid]
  IN New(IF changed THEN f.gid + 1 ELSE f.gid)

Refresh(f, u, h, i) == Refreshed(f, u, i, f.cache[u][i], Scan(h, f.cache[u][i].path))

(* The part of MakeCache for a path that is not cached: the oldest path is  *)
(* cleaned for reuse when the cache is full.                                *)
Cached(f, u, h, p) ==
  LET n == Len(f.cache[u])
      Reused(oldest) == [Repoint(f, u, oldest.path, AllFreed) EXCEPT
                           !.cache[u][n] = [NewPath(p) EXCEPT !.id = oldest.id]]
  IN IF CachedAt(f.cache[u], p) # {} THEN f
     ELSE Refresh(IF n = CacheMax THEN Reused(f.cache[u][n])
                  ELSE [f EXCEPT !.cache[u] = Append(@, NewPath(p))],
                  u, h, IF n = CacheMax THEN n ELSE n + 1)

(* One directory on the way of MakeCache: cached, up to date, and first.    *)
Visit(f, u, h, p) ==
  LET UpToDate(g, i) == IF g.cache[u][i].refresh THEN Refresh(g, u, h, i) ELSE g
      InFront(g, i) == [UpToDate(g, i) EXCEPT !.cache[u] = ToFront(@, i)]
      Found(g) == InFront(g, CHOOSE j \in CachedAt(g.cache[u], p) : TRUE)
  IN Found(Cached(f, u, h, p))

(* The directory of the first n names of p, when the way made so far leads  *)
(* to it; it has to list the next one.                                      *)
Descend(made, u, h, p, n) ==
  LET Led(g) ==
        [f |-> g,
         ok |-> n = Len(p) \/ FindFilename(g.cache[u][1].list, p[n + 1], "dir") # {}]
  IN IF made.ok THEN Led(Visit(made.f, u, h, SubSeq(p, 1, n))) ELSE made

(* CHostDrv::MakeCache: from the root down.                                 *)
MakeCache(f, u, h, p) ==
  LET made[n \in 0..Len(p)] ==
        Descend(IF n = 0 THEN [f |-> f, ok |-> TRUE] ELSE made[n - 1], u, h, p, n)
  IN made[Len(p)]

Paths(ring) == {ring[i].path : i \in DOMAIN ring}

Released(ring, paths) ==
  [i \in DOMAIN ring |-> IF ring[i].path \in paths THEN [ring[i] EXCEPT !.refresh = TRUE] ELSE ring[i]]

(* CHostDrv::CleanCache, for all paths, one path, and the paths below one.  *)
CleanAll(f, u) == [f EXCEPT !.cache[u] = Released(@, Paths(@))]
CleanCache(f, u, p) == [f EXCEPT !.cache[u] = Released(@, {p})]
CleanCacheChild(f, u, p) == [f EXCEPT !.cache[u] = Released(@, {q \in Paths(@) : IsPrefix(p, q)})]

(* CHostDrv::DeleteCache.                                                   *)
DeleteCache(f, u, p) ==
  LET at == CachedAt(f.cache[u], p)
  IN IF at = {} THEN f
     ELSE [Repoint(f, u, p, AllFreed) EXCEPT
             !.cache[u] = Without(@, CHOOSE i \in at : TRUE)]

(* CHostDrv::CopyCache: a path that is cached moves to the front, also when *)
(* it has to be refreshed.                                                  *)
CopyCache(f, u, p) ==
  LET at == CachedAt(f.cache[u], p)
      Copied(ring) == [f |-> [f EXCEPT !.cache[u] = ring],
                       ok |-> at # {} /\ ~ring[1].refresh]
  IN Copied(IF at = {} THEN f.cache[u] ELSE ToFront(f.cache[u], CHOOSE i \in at : TRUE))

(* CHostDrv::Find, as far as the path: it is the first one of the ring when *)
(* it is found, and the whole cache is released when it is not.             *)
Find(f, u, h, p) ==
  LET Made(make) == IF make.ok THEN make ELSE [f |-> CleanAll(make.f, u), ok |-> FALSE]
      Looked(copy) == IF copy.ok THEN copy ELSE Made(MakeCache(copy.f, u, h, p))
  IN Looked(CopyCache(f, u, p))

(* Mutant of Positions: a changed list is continued by the count alone.     *)
PositionsByCount(c, s) ==
  CASE s.count > 0 /\ s.id = c.id ->
         IF s.at = 0 THEN 1..(Len(c.list) + 1) ELSE {s.at}
    [] OTHER -> {IF s.count > Len(c.list) THEN Len(c.list) + 1 ELSE s.count + 1}

(* CHostPath::FindFilenameWildcard, for a pattern that every name matches:  *)
(* the position p the search s is continued at in the cached path c, and    *)
(* the search after it. A position in a list that was freed (0) may turn    *)
(* out to be any.                                                           *)
Positions(c, s) ==
  LET same == {i \in DOMAIN c.list : c.list[i] = s.next}
  IN CASE s.count = 0 -> {1}
       [] s.count > 0 /\ s.id = c.id ->
            IF s.at = 0 THEN 1..(Len(c.list) + 1) ELSE {s.at}
       [] s.count > 0 /\ s.id # c.id /\ same # {} ->
            {CHOOSE i \in same : \A j \in same : i <= j}
       [] OTHER -> {IF s.count > Len(c.list) THEN Len(c.list) + 1 ELSE s.count + 1}

FindFilenameWildcard(c, s, u, p) ==
  LET hits == {i \in p..Len(c.list) : CheckAttribute(c.list[i], s.attr)}
      hit == IF hits = {} THEN Len(c.list) + 1
             ELSE CHOOSE i \in hits : \A j \in hits : i <= j
      at == IF hits = {} THEN hit ELSE hit + 1
      next == IF at <= Len(c.list) THEN c.list[at] ELSE NoEntry
      same == s.count > 0 /\ s.id # c.id /\ p <= Len(c.list) /\ c.list[p] = s.next
  IN [found |-> hits # {},
      name |-> IF hits = {} THEN 0 ELSE c.list[hit].name,
      search |-> [s EXCEPT !.unit = u, !.id = c.id, !.at = at, !.next = next,
                           !.count = (IF same THEN p - 1 ELSE @) + (at - p)]]
=============================================================================

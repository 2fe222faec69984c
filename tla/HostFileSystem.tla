--------------------------- MODULE HostFileSystem ---------------------------
(***************************************************************************)
(* The file system of the X68000 host bridge: the calls of CFileSys        *)
(* (cfilesystem.cpp) as the handlers of SCSIBR (scsi_host_bridge.cpp) make *)
(* them for the messages of the RASDRV driver.                             *)
(*                                                                         *)
(* An operator named as a method of CFileSys maps the file system f and    *)
(* the host trees h (one per unit) to those after the call and its result. *)
(* An action FS_... is the handler of one message: the call, the answer    *)
(* that the driver fetches, and the history the properties look at.        *)
(*                                                                         *)
(* The trees of the units are disjoint, and nobody else changes them. A    *)
(* drive is never write protected and its medium never offline             *)
(* (CHostDrv::Init is only ever given the flags 0).                        *)
(***************************************************************************)
EXTENDS HostDrive, Integers, FiniteSets, TLC

CONSTANTS
  DriveMax,    (* CHostEntry::DriveMax                                      *)
  FilesMax,    (* XM6_HOST_FILES_MAX: search buffers                        *)
  FcbMax,      (* XM6_HOST_FCB_MAX: open files                              *)
  SectorMax,   (* XM6_HOST_PSEUDO_CLUSTER_MAX                               *)
  Keys,        (* addresses of FILES buffers and FCBs of the driver, > 0    *)
  UnitCounts,  (* the numbers of base paths INIT DEVICE may come with       *)
  Workloads    (* what a behaviour starts with and is made of: the tree of  *)
               (* the host, the calls of the driver, their number, the keys *)
               (* it uses, the directories it names, the longest path, and  *)
               (* whether it names units and attributes that lead nowhere   *)

(* A tree: whatever is in it is in a directory. *)
IsTree(t) ==
  \A q \in DOMAIN t :
    /\ q \in Seq(Names) \ {Root} /\ t[q] \in [dir : BOOLEAN, ver : 0..1]
    /\ \A n \in 0..(Len(q) - 1) : IsDir(t, SubSeq(q, 1, n))

ASSUME HostAssumption ==
  /\ DriveMax \in Nat /\ FilesMax \in Nat \ {0} /\ FcbMax \in Nat \ {0}
  /\ SectorMax \in Nat \ {0} /\ Keys \subseteq Nat \ {0} /\ UnitCounts \subseteq 0..DriveMax
  /\ \A w \in Workloads : w.keys \subseteq Keys /\ w.dirs \subseteq Seq(Names) /\ IsTree(w.tree)

VARIABLES
  fs,       (* CFileSys *)
  host,     (* unit -> path -> [dir, ver] *)
  reply,    (* fsresult, and the unit and path of the entry found, if any *)
  watch,    (* history: for each key, the search that FILES started *)
  excuses,  (* history: "restart": the counter of the ids went back to 0;  *)
            (* "zero": a lookup of key 0 has found a free search buffer    *)
  work,     (* the workload of this behaviour *)
  calls     (* the calls made *)

fsVars == <<fs, host, reply, watch, excuses, work, calls>>

Units == 0..(DriveMax - 1)

NoSearch ==
  [key |-> 0, unit |-> 0, path |-> Root, attr |-> "all", count |-> 0, id |-> 0,
   at |-> 0, next |-> NoEntry]

(* CHostFcb. file is the host file it has open (Root: that was deleted),    *)
(* name the path it was opened with, dirty data that stdio still holds;     *)
(* special is m_bFlag, with which an FCB may come to be open without a FILE *)
(* (mode "none").                                                           *)
NoFcb ==
  [key |-> 0, unit |-> 0, name |-> Root, file |-> Root, mode |-> "read", special |-> FALSE,
   update |-> FALSE, dirty |-> FALSE]

NoWatch == [st |-> "none", unit |-> 0, path |-> Root, owed |-> {}, steady |-> TRUE]

(* The result of a call. *)
Ret(f, h, code) == [fs |-> f, host |-> h, result |-> code, name |-> 0]

(* The unit checks every call starts with. *)
OnUnit(f, h, u, missing, r) ==
  CASE u >= DriveMax -> Ret(f, h, "INVALIDUNIT")
    [] u < DriveMax /\ u >= f.units -> Ret(f, h, missing)
    [] OTHER -> r

-----------------------------------------------------------------------------
(* The host: what its calls change.                                        *)

Put(h, u, q, node) ==
  [h EXCEPT ![u] = [r \in DOMAIN @ \cup {q} |-> IF r = q THEN node ELSE @[r]]]
Drop(h, u, q) == [h EXCEPT ![u] = [r \in DOMAIN @ \ {q} |-> @[r]]]
Touch(h, u, q) == [h EXCEPT ![u][q].ver = 1 - @]

CanRename(t, a, b) ==
  /\ Exists(t, a) /\ IsDir(t, Front(b))
  /\ \/ a = b
     \/ ~t[a].dir /\ (b \notin DOMAIN t \/ ~t[b].dir)
     \/ t[a].dir /\ ~IsPrefix(a, b) /\ (b \notin DOMAIN t \/ (t[b].dir /\ Contents(t, b) = {}))

Below(a, q) == SubSeq(q, Len(a) + 1, Len(q))

Renamed(h, u, a, b) ==
  LET t == h[u]
      stay == {q \in DOMAIN t : ~IsPrefix(a, q) /\ ~IsPrefix(b, q)}
      moved == {b \o Below(a, q) : q \in {r \in DOMAIN t : IsPrefix(a, r)}}
  IN IF a = b THEN h
     ELSE [h EXCEPT ![u] = [q \in stay \cup moved |->
                              IF q \in moved THEN t[a \o Below(b, q)] ELSE t[q]]]

(* The open files of unit u when the host file q is deleted or replaced,    *)
(* and when the host path a is renamed to b.                                *)
Unlinked(f, u, q) ==
  [f EXCEPT !.fcbs = [i \in DOMAIN @ |->
     IF @[i].unit = u /\ @[i].file = q THEN [@[i] EXCEPT !.file = Root] ELSE @[i]]]

Followed(f, u, a, b) ==
  LET Moved(c) == IF c.unit = u /\ c.file # Root /\ IsPrefix(a, c.file)
                  THEN [c EXCEPT !.file = b \o Below(a, @)] ELSE c
  IN [f EXCEPT !.fcbs = [i \in DOMAIN @ |-> Moved(@[i])]]

(* What is written of the FCBs cs by fclose, fflush or a seek.              *)
Flushed(h, cs) ==
  LET Written(u, q) == \E c \in cs : c.dirty /\ c.unit = u /\ c.file = q
  IN [u \in DOMAIN h |-> [q \in DOMAIN h[u] |->
        IF Written(u, q) THEN [h[u][q] EXCEPT !.ver = 1 - @] ELSE h[u][q]]]

-----------------------------------------------------------------------------
(* The search buffers (CHostFilesManager) and the open files               *)
(* (CHostFcbManager): rings, the one used last in front.                   *)

At(ring, k) == {i \in DOMAIN ring : ring[i].key = k}
Searched(ring, k) == ToFront(ring, CHOOSE i \in At(ring, k) : \A j \in At(ring, k) : i <= j)

(* The last element makes room for e, in front. *)
TakeLast(ring, e) == <<e>> \o Without(ring, Len(ring))

(* Mutant of FilesAlloc: the first buffer is taken. *)
FilesAllocFirst(f, k) ==
  [f EXCEPT !.files = <<[NoSearch EXCEPT !.key = k]>> \o Tail(@)]

(* The last one is taken, whether it is free or not. *)
FilesAlloc(f, k) == [f EXCEPT !.files = TakeLast(@, [NoSearch EXCEPT !.key = k])]

FilesFree(f, i) == [f EXCEPT !.files = ToTail([@ EXCEPT ![i] = NoSearch], i)]

FcbSearch(f, k) == [f EXCEPT !.fcbs = Searched(@, k)]

(* The caller answers FS_OUTOFMEM when the last one is in use. *)
FcbAlloc(f, c) ==
  [f EXCEPT !.fcbs = TakeLast(@, [c EXCEPT !.update = Last(f.fcbs).update])]

(* Mutant of FcbFree: the FCB stays where it is in the ring. *)
FcbFreeInPlace(f, h, code) ==
  Ret([f EXCEPT !.fcbs[1] = [NoFcb EXCEPT !.update = Head(f.fcbs).update]],
      Flushed(h, {Head(f.fcbs)}), code)

(* Free closes the file: the buffered data are written. The update flag is  *)
(* not reset by whoever uses the FCB next.                                  *)
FcbFree(f, h, code) ==
  Ret([f EXCEPT !.fcbs = ToTail([@ EXCEPT ![1] = [NoFcb EXCEPT !.update = Head(f.fcbs).update]], 1)],
      Flushed(h, {Head(f.fcbs)}), code)

-----------------------------------------------------------------------------
(* The file a call names: directory d, name n, an attribute. (A LET with a   *)
(* parameter, here and below, is what follows a call: it is given what that *)
(* call left.)                                                              *)
FindFile(f, h, u, d, n, attr) ==
  LET Found(g, list, hits) ==
        [f |-> g, ok |-> hits # {},
         dir |-> hits # {} /\ list[CHOOSE i \in hits : \A j \in hits : i <= j].dir]
      Then(a) ==
        IF ~a.ok THEN [f |-> a.f, ok |-> FALSE, dir |-> FALSE]
        ELSE Found(a.f, a.f.cache[u][1].list, FindFilename(a.f.cache[u][1].list, n, attr))
  IN Then(Find(f, u, h[u], d))

(* CleanCache for all drives also restarts the counter of the ids.          *)
SetOption(f, option) ==
  LET g == [f EXCEPT !.cache = [u \in DOMAIN @ |-> Released(@[u], Paths(@[u]))], !.gid = 0]
  IN [(IF option # f.option THEN g ELSE f) EXCEPT !.option = option]

Reset(f) ==
  SetOption([f EXCEPT !.files = <<>>, !.fcbs = <<>>, !.cache = <<>>,
                      !.sectors = [i \in DOMAIN @ |-> 0], !.count = 0], 0)

(* Init and InitOption: n base paths, and the runtime flags.                *)
InitDevice(f, h, n, option) ==
  LET g == SetOption(f, option)
  IN Ret([g EXCEPT !.units = n, !.cache = [u \in 0..(n - 1) |-> <<>>],
                   !.files = [i \in 1..FilesMax |-> NoSearch],
                   !.fcbs = [i \in 1..FcbMax |-> NoFcb]], h, "OK")

CheckDir(f, h, u, d) ==
  LET Then(a) == Ret(a.f, h, IF a.ok THEN "OK" ELSE "DIRNOTFND")
  IN OnUnit(f, h, u, "INVALIDFUNC",
       IF d = Root THEN Ret(f, h, "OK") ELSE Then(Find(f, u, h[u], d)))

CanMake(h, u, d, n) == IsDir(h[u], d) /\ ~Exists(h[u], Append(d, n))
Made(h, u, d, n) == Put(h, u, Append(d, n), [dir |-> TRUE, ver |-> 0])

(* Mutant of MakeDir: the cache of the directory is left as it was. *)
MakeDirUncleaned(f, h, u, d, n) ==
  LET Then(a) == IF a.ok /\ CanMake(h, u, d, n) THEN Ret(a.f, Made(h, u, d, n), "OK")
                 ELSE Ret(a.f, h, "INVALIDPATH")
  IN OnUnit(f, h, u, "MEDIAOFFLINE", Then(Find(f, u, h[u], d)))

MakeDir(f, h, u, d, n) ==
  LET Then(a) == IF a.ok /\ CanMake(h, u, d, n)
                 THEN Ret(CleanCache(a.f, u, d), Made(h, u, d, n), "OK")
                 ELSE Ret(a.f, h, "INVALIDPATH")
  IN OnUnit(f, h, u, "MEDIAOFFLINE", Then(Find(f, u, h[u], d)))

(* The cache of the directory itself is deleted before rmdir may refuse.    *)
RemoveDir(f, h, u, d, n) ==
  LET q == Append(d, n)
      empty == q \in DOMAIN h[u] /\ IsDir(h[u], q) /\ Contents(h[u], q) = {}
      Deleted(g) == IF empty THEN Ret(CleanCache(g, u, d), Drop(h, u, q), "OK")
                    ELSE Ret(g, h, "CANTDELETE")
      Then(a) == IF a.ok THEN Deleted(DeleteCache(a.f, u, q)) ELSE Ret(a.f, h, "DIRNOTFND")
  IN OnUnit(f, h, u, "MEDIAOFFLINE", Then(FindFile(f, h, u, d, n, "dir")))

(* Of a directory the lists below its parent are released, and none when an *)
(* entry that was kept says that it is a file; those below the new place    *)
(* are not. The lists that stay are marked, for the properties, as kept.    *)
Rename(f, h, u, d, n, dNew, nNew) ==
  LET from == Append(d, n)
      to == Append(dNew, nNew)
      Stale(dir, g) == {q \in Paths(g.cache[u]) : IsPrefix(to, q) \/ (~dir /\ IsPrefix(from, q))}
      Unlisted(dir, g) ==
        IF from = to THEN g
        ELSE [Followed(Unlinked(g, u, to), u, from, to) EXCEPT !.cache[u] =
                [i \in DOMAIN @ |->
                   IF @[i].path \in Stale(dir, g) THEN [@[i] EXCEPT !.kept = TRUE] ELSE @[i]]]
      Renaming(dir, g) ==
        IF ~CanRename(h[u], from, to) THEN Ret(g, h, "FILENOTFND")
        ELSE Ret(CleanCache(CleanCache(Unlisted(dir, g), u, d), u, dNew),
                 Renamed(h, u, from, to), "OK")
      Both(dir, b) ==
        IF ~b.ok THEN Ret(b.f, h, "INVALIDPATH")
        ELSE Renaming(dir, IF dir THEN CleanCacheChild(b.f, u, d) ELSE b.f)
      Then(a) == IF a.ok THEN Both(a.dir, Find(a.f, u, h[u], dNew)) ELSE Ret(a.f, h, "FILENOTFND")
  IN OnUnit(f, h, u, "MEDIAOFFLINE", Then(FindFile(f, h, u, d, n, "all")))

Delete(f, h, u, d, n) ==
  LET q == Append(d, n)
      Then(a) ==
        IF ~a.ok THEN Ret(a.f, h, "FILENOTFND")
        ELSE IF ~(q \in DOMAIN h[u] /\ ~h[u][q].dir) THEN Ret(a.f, h, "CANTDELETE")
        ELSE Ret(CleanCache(Unlinked(a.f, u, q), u, d), Drop(h, u, q), "OK")
  IN OnUnit(f, h, u, "MEDIAOFFLINE", Then(FindFile(f, h, u, d, n, "file")))

(* attr: "get" (0xFF), "volume", or an attribute of which the read-only     *)
(* flag is applied: it is the "same" the entry has, or the mode of the host *)
(* file, a part of its version here, changes.                               *)
Attribute(f, h, u, d, n, attr) ==
  LET Again(h1, b) == Ret(b.f, h1, IF b.ok THEN "OK" ELSE "FILENOTFND")
      Changing(g, h1) == Again(h1, FindFile(CleanCache(g, u, d), h1, u, d, n, "all"))
      Then(a) ==
        IF ~a.ok THEN Ret(a.f, h, "FILENOTFND")
        ELSE IF attr = "get" THEN Ret(a.f, h, "OK")
        ELSE IF attr = "volume" THEN Ret(a.f, h, "CANTACCESS")
        ELSE IF attr = "set" /\ ~Exists(h[u], Append(d, n)) THEN Ret(a.f, h, "FILENOTFND")
        ELSE Changing(a.f, IF attr = "same" THEN h ELSE Touch(h, u, Append(d, n)))
  IN OnUnit(f, h, u, "MEDIAOFFLINE", Then(FindFile(f, h, u, d, n, "all")))

(* The search of the first buffer, in the path that is first in the cache.  *)
Step(f, h, u, p) ==
  LET Then(path, found) ==
        LET g == [f EXCEPT !.files[1] = [found.search EXCEPT !.path = path]]
        IN IF found.found THEN [Ret(g, h, "OK") EXCEPT !.name = found.name]
           ELSE Ret(FilesFree(g, 1), h, "FILENOTFND")
  IN Then(f.cache[u][1].path, FindFilenameWildcard(f.cache[u][1], f.files[1], u, p))

FilesVolume(f, h, d) == Ret(f, h, IF d = Root THEN "VOLUME" ELSE "FILENOTFND")

(* FILES frees the buffer of the same key, whatever follows.                *)
Files(f, h, u, k, d, attr) ==
  LET Then(a) ==
        IF a.ok
        THEN Step([a.f EXCEPT !.files[1].unit = u, !.files[1].path = d, !.files[1].attr = attr],
                  h, u, 1)
        ELSE Ret(FilesFree(a.f, 1), h, IF d = Root THEN "FILENOTFND" ELSE "DIRNOTFND")
      Freed(f0) ==
        OnUnit(f0, h, u, "MEDIAOFFLINE",
          IF attr = "volume" THEN FilesVolume(f0, h, d)
          ELSE Then(Find(FilesAlloc(f0, k), u, h[u], d)))
  IN Freed(IF At(f.files, k) = {} THEN f ELSE FilesFree(f, CHOOSE i \in At(f.files, k) : TRUE))

(* NFILES, as far as the directory of the search; and p is the position the *)
(* search is continued at.                                                  *)
NFilesFound(f, h, u, k) == Find([f EXCEPT !.files = Searched(@, k)], u, h[u],
                                f.files[CHOOSE i \in At(f.files, k) : TRUE].path)

NFiles(f, h, u, k, p) ==
  LET Then(a) == IF a.ok THEN Step(a.f, h, u, p) ELSE Ret(FilesFree(a.f, 1), h, "FILENOTFND")
  IN OnUnit(f, h, u, "MEDIAOFFLINE",
       IF At(f.files, k) = {} THEN Ret(f, h, "INVALIDPTR") ELSE Then(NFilesFound(f, h, u, k)))

(* What fopen("w+b") and fopen("wb") leave of a file. *)
Truncated(h, u, q) == IF q \in DOMAIN h[u] THEN Touch(h, u, q)
                      ELSE Put(h, u, q, [dir |-> FALSE, ver |-> 0])

(* how: "new", "force" (an existing file is truncated), or an attribute      *)
(* that no file has. special: the application asks for dictionary access.   *)
Create(f, h, u, k, d, n, how, special) ==
  LET q == Append(d, n)
      refused == IsDir(h[u], q) \/ ~IsDir(h[u], d) \/ (how = "new" /\ Exists(h[u], q))
      c == [NoFcb EXCEPT !.key = k, !.unit = u, !.name = q, !.file = q, !.mode = "full",
                         !.special = special]
      Allocated(g) ==
        IF refused THEN FcbFree(g, h, "FILEEXIST")
        ELSE Ret(CleanCache(g, u, d), Truncated(h, u, q), "OK")
      Then(a) ==
        IF ~a.ok THEN Ret(a.f, h, "INVALIDPATH")
        ELSE IF how = "attribute" THEN Ret(a.f, h, "CANTACCESS")
        ELSE IF Last(a.f.fcbs).key # 0 THEN Ret(a.f, h, "OUTOFMEM")
        ELSE Allocated(FcbAlloc(a.f, c))
  IN OnUnit(f, h, u, "MEDIAOFFLINE",
       IF At(f.fcbs, k) # {} THEN Ret(FcbSearch(f, k), h, "INVALIDPTR")
       ELSE Then(Find(f, u, h[u], d)))

(* "wb" truncates the file, or creates it when only the cache knows it. A   *)
(* special FCB is open even when it is a directory's or fopen fails.        *)
Open(f, h, u, k, d, n, mode, special) ==
  LET q == Append(d, n)
      refused == IsDir(h[u], q) \/ ~IsDir(h[u], d) \/ (mode # "write" /\ ~Exists(h[u], q))
      c == [NoFcb EXCEPT !.key = k, !.unit = u, !.name = q, !.special = special,
                         !.file = IF refused THEN Root ELSE q,
                         !.mode = IF refused THEN "none" ELSE mode]
      Allocated(g) ==
        IF mode = "illegal" THEN FcbFree(g, h, "ILLEGALMOD")
        ELSE IF refused /\ ~special THEN FcbFree(g, h, "INVALIDPATH")
        ELSE Ret(g, IF mode = "write" /\ ~refused THEN Truncated(h, u, q) ELSE h, "OK")
      Then(a) ==
        IF ~a.ok THEN Ret(a.f, h, "FILENOTFND")
        ELSE IF Last(a.f.fcbs).key # 0 THEN Ret(a.f, h, "OUTOFMEM")
        ELSE Allocated(FcbAlloc(a.f, c))
  IN OnUnit(f, h, u, "MEDIAOFFLINE",
       IF At(f.fcbs, k) # {} THEN Ret(FcbSearch(f, k), h, "INVALIDPRM")
       ELSE Then(FindFile(f, h, u, d, n, "all")))

(* The directory is the one the file had when it was opened.                *)
Close(f, h, u, k) ==
  OnUnit(f, h, u, "MEDIAOFFLINE",
    LET g == FcbSearch(f, k)
        c == g.fcbs[1]
        r == FcbFree(g, h, "OK")
    IN IF At(f.fcbs, k) = {} THEN Ret(f, h, "INVALIDPRM")
       ELSE IF c.update THEN [r EXCEPT !.fs = CleanCache(@, u, Front(c.name))] ELSE r)

(* The calls on an open file: it is found by its key alone, and freed, with *)
(* whatever was written, when the call fails.                               *)
OnFile(f, h, k, r) == IF At(f.fcbs, k) = {} THEN Ret(f, h, "NOTOPENED") ELSE r

(* stdio is called for the FCB in front: the process ends when it has no    *)
(* FILE.                                                                    *)
OnStream(f, h, r) == IF f.fcbs[1].mode = "none" THEN Ret(f, h, "CRASHED") ELSE r

Read(f, h, k) ==
  OnFile(f, h, k,
    LET g == FcbSearch(f, k)
    IN OnStream(g, h,
         IF g.fcbs[1].mode = "write" THEN FcbFree(g, h, "INVALIDFUNC") ELSE Ret(g, h, "OK")))

(* how: "truncate" (size 0), "through", or "held" by stdio for now.         *)
Write(f, h, k, how) ==
  OnFile(f, h, k,
    LET g == FcbSearch(f, k)
        c == g.fcbs[1]
        wrote == [c EXCEPT !.update = TRUE,
                           !.dirty = CASE how = "truncate" -> @ [] how = "held" -> TRUE
                                       [] how = "through" -> FALSE]
    IN OnStream(g, h,
         IF c.mode = "read"
         THEN FcbFree(g, h, IF how = "truncate" THEN "CANTSEEK" ELSE "CANTWRITE")
         ELSE Ret([g EXCEPT !.fcbs[1] = wrote],
                  IF how = "held" THEN h ELSE Flushed(h, {[c EXCEPT !.dirty = TRUE]}), "OK")))

(* Nothing is left to write of the FCBs at the places in the ring.          *)
Synced(f, places) ==
  [f EXCEPT !.fcbs = [i \in DOMAIN @ |-> IF i \in places THEN [@[i] EXCEPT !.dirty = FALSE] ELSE @[i]]]

Seek(f, h, k, mode) ==
  OnFile(f, h, k,
    LET g == FcbSearch(f, k)
    IN IF mode = "illegal" THEN FcbFree(g, h, "INVALIDPRM")
       ELSE OnStream(g, h,
              IF mode = "negative" THEN FcbFree(g, h, "CANTSEEK")
              ELSE Ret(Synced(g, {1}), Flushed(h, {g.fcbs[1]}), "OK")))

(* The time is set by the name the file was opened with, whether it can be  *)
(* or not when the FCB is special. Without a FILE all of them are flushed.  *)
TimeStamp(f, h, u, k, time) ==
  IF time = 0 THEN Ret(f, h, "OK")
  ELSE OnUnit(f, h, u, "MEDIAOFFLINE", OnFile(f, h, k,
    LET g == FcbSearch(f, k)
        c == g.fcbs[1]
        all == IF c.mode = "none" THEN DOMAIN g.fcbs ELSE {1}
        synced == Synced(g, all)
        h1 == Flushed(h, {g.fcbs[i] : i \in all})
        there == Exists(h1[c.unit], c.name)
    IN IF ~there /\ ~c.special THEN FcbFree(synced, h1, "INVALIDPRM")
       ELSE Ret(CleanCache(synced, u, Front(c.name)),
                IF there THEN Touch(h1, c.unit, c.name) ELSE h1, "OK")))

(* What a drive tells of itself does not change: CHostDrv always has the    *)
(* same capacity, media byte and status.                                    *)
GetCapacity(f, h, u) == OnUnit(f, h, u, "MEDIAOFFLINE", Ret(f, h, "OK"))

CtrlDrive(f, h, u, function) ==
  OnUnit(f, h, u, "INVALIDFUNC",
    Ret(f, h, CASE function \in {0, 9} -> "STATUS" [] function \in 1..7 -> "OK"
                [] function = 8 -> "ONE" [] OTHER -> "INVALIDFUNC"))

GetDPB(f, h, u) == Ret(f, h, IF u >= DriveMax THEN "INVALIDUNIT" ELSE "OK")

(* A sector number is the key of a search, which gets the next pseudo       *)
(* cluster, or the first sector of a pseudo cluster (0: of none), of whose  *)
(* file as much as can be read is returned: read tells whether it can.      *)
DiskRead(f, h, u, size, k, cluster, read) ==
  OnUnit(f, h, u, "MEDIAOFFLINE",
    LET of == IF cluster = 0 THEN 0 ELSE f.sectors[cluster]
    IN IF size # 1 THEN Ret(f, h, "INVALIDPRM")
       ELSE IF At(f.files, k) # {} /\ cluster = 0
            THEN Ret([f EXCEPT !.files = Searched(@, k), !.sectors[f.count + 1] = k,
                               !.count = (@ + 1) % SectorMax], h, "OK")
       ELSE IF cluster # 0 /\ At(f.files, of) # {}
            THEN Ret([f EXCEPT !.files = Searched(@, of)], h, read)
       ELSE Ret(f, h, "INVALIDPRM"))

DiskWrite(f, h, u) == OnUnit(f, h, u, "MEDIAOFFLINE", Ret(f, h, "INVALIDPRM"))

(* Of the functions only -2 changes anything. *)
Ioctrl(f, h, u, function, param) ==
  OnUnit(f, h, u, "INVALIDFUNC",
    CASE function = -2 -> Ret(SetOption(f, param), h, "OK")
      [] function \in {0, 1, -1, -3} -> Ret(f, h, "OK")
      [] function = 2 /\ param \in {-1, 0, 1} -> Ret(f, h, "OK")
      [] OTHER -> Ret(f, h, "NOTIOCTRL"))

Flush(f, h, u) == OnUnit(f, h, u, "INVALIDFUNC", Ret(f, h, "OK"))
CheckMedia(f, h, u) == OnUnit(f, h, u, "INVALIDFUNC", Ret(f, h, "OK"))
Lock(f, h, u) == OnUnit(f, h, u, "MEDIAOFFLINE", Ret(f, h, "OK"))

-----------------------------------------------------------------------------
(* History: what a search owes, and whether it can be held to it.           *)

Same(h, u, q) == q \in DOMAIN host[u] \cap DOMAIN h[u] /\ host[u][q] = h[u][q]

Attributed(h, u, d, attr) ==
  {n \in Names : Append(d, n) \in DOMAIN h[u] /\ CheckAttribute(h[u][Append(d, n)], attr)}

(* The host has the entry the search s of directory d stands at, as it was  *)
(* when it was listed.                                                      *)
InPlace(h, u, d, s) == s.next \in Entries(h[u], d) \cup {NoEntry}

(* No list on the way to the directory d was kept.                          *)
Straight(f, u, d) == \A i \in DOMAIN f.cache[u] : f.cache[u][i].kept => ~IsPrefix(f.cache[u][i].path, d)

Observed(f, h) ==
  [k \in Keys |->
     LET w == watch[k]
         at == At(f.files, k)
         s == f.files[CHOOSE i \in at : TRUE]
     IN IF w.st # "open" THEN w
        ELSE IF at = {} THEN NoWatch
        ELSE [w EXCEPT
               !.owed = {n \in @ : Same(h, w.unit, Append(w.path, n))},
               !.steady = @ /\ InPlace(h, w.unit, w.path, s) /\ Straight(f, w.unit, w.path)]]

(* After FILES, and after NFILES. *)
Started(k, u, d, attr, r) ==
  CASE r.result = "OK" ->
         [st |-> "open", unit |-> u, path |-> d,
          owed |-> Attributed(r.host, u, d, attr) \ {r.name},
          steady |-> InPlace(r.host, u, d, r.fs.files[1]) /\ Straight(r.fs, u, d)]
    [] r.result = "FILENOTFND" /\ attr # "volume" ->
         [st |-> "ended", unit |-> u, path |-> d, owed |-> Attributed(r.host, u, d, attr),
          steady |-> Straight(r.fs, u, d)]
    [] OTHER -> [NoWatch EXCEPT !.st = "ended"]

Continued(u, k, r) ==
  LET w == watch[k]
      steady == w.steady /\ u = w.unit /\ Straight(r.fs, u, w.path)
  IN CASE w.st = "open" /\ r.result = "OK" ->
            [w EXCEPT !.owed = @ \ {r.name},
                      !.steady = steady /\ InPlace(r.host, u, w.path, r.fs.files[1])]
       [] w.st = "open" /\ r.result = "FILENOTFND" -> [w EXCEPT !.st = "ended", !.steady = steady]
       [] OTHER -> w

-----------------------------------------------------------------------------
(* The messages.                                                           *)

(* WriteFs: the driver sends the call op, if the process has not ended.     *)
WriteFs(op) ==
  /\ op \in work.ops /\ calls < work.max /\ reply.result # "CRASHED"
  /\ calls' = calls + 1
  /\ UNCHANGED work

(* What ReadFsResult and ReadFsOut will return; p is the path of an entry.  *)
Answer(r, u, p) ==
  /\ fs' = r.fs /\ host' = r.host
  /\ reply' = [result |-> r.result, unit |-> u, found |-> p]

(* The handlers of the calls that only report. *)
Reported(op, r) ==
  /\ WriteFs(op) /\ Answer(r, 0, Root) /\ watch' = Observed(r.fs, r.host)
  /\ excuses' = IF r.fs.option # fs.option THEN excuses \cup {"restart"} ELSE excuses

UnitArgs == IF work.strange THEN 0..DriveMax ELSE {0}
Dirs == work.dirs

(* Nothing is cached and no search has begun: nothing is left to excuse.    *)
FS_InitDevice ==
  /\ WriteFs("init")
  /\ \E n \in UnitCounts, option \in 0..1 : Answer(InitDevice(Reset(fs), host, n, option), 0, Root)
  /\ watch' = [k \in Keys |-> NoWatch] /\ excuses' = {}

FS_CheckDir == \E u \in UnitArgs, d \in Dirs : Reported("checkdir", CheckDir(fs, host, u, d))

FS_MakeDir ==
  \E u \in UnitArgs, d \in Dirs, n \in Names : Reported("makedir", MakeDir(fs, host, u, d, n))

FS_RemoveDir ==
  \E u \in UnitArgs, d \in Dirs, n \in Names : Reported("removedir", RemoveDir(fs, host, u, d, n))

(* Bound: the renamed tree stays within the longest path. *)
FS_Rename ==
  \E u \in UnitArgs, d, dNew \in Dirs, n, nNew \in Names :
    /\ Reported("rename", Rename(fs, host, u, d, n, dNew, nNew))
    /\ \A v \in Units : \A q \in DOMAIN host'[v] : Len(q) <= work.depth

FS_Delete ==
  \E u \in UnitArgs, d \in Dirs, n \in Names : Reported("delete", Delete(fs, host, u, d, n))

FS_Attribute ==
  \E u \in UnitArgs, d \in Dirs, n \in Names, attr \in {"get", "volume", "same", "set"} :
    Reported("attribute", Attribute(fs, host, u, d, n, attr))

Entry(d, r) == IF r.name \in Names THEN Append(d, r.name) ELSE Root

FS_Files ==
  /\ WriteFs("files") /\ UNCHANGED excuses
  /\ \E u \in UnitArgs, k \in work.keys, d \in Dirs,
        attr \in IF work.strange THEN {"all", "file", "volume"} ELSE {"all"} :
       LET Then(r) == /\ Answer(r, u, Entry(d, r))
                      /\ watch' = [Observed(r.fs, r.host) EXCEPT ![k] = Started(k, u, d, attr, r)]
       IN Then(Files(fs, host, u, k, d, attr))

FS_NFiles ==
  /\ WriteFs("nfiles") /\ UNCHANGED excuses
  /\ \E u \in UnitArgs, k \in work.keys :
       LET From(a) == IF a.ok THEN Positions(a.f.cache[u][1], a.f.files[1]) ELSE {1}
           Then(r) == /\ Answer(r, u, IF r.name = 0 THEN Root ELSE Entry(r.fs.files[1].path, r))
                      /\ watch' = [Observed(r.fs, r.host) EXCEPT ![k] = Continued(u, k, r)]
           known == u < fs.units /\ At(fs.files, k) # {}
       IN \E p \in IF known THEN From(NFilesFound(fs, host, u, k)) ELSE {1} :
            Then(NFiles(fs, host, u, k, p))

FS_Create ==
  \E u \in UnitArgs, k \in work.keys, d \in Dirs, n \in Names, how \in {"new", "force", "attribute"},
     special \in BOOLEAN :
    Reported("create", Create(fs, host, u, k, d, n, how, special))

FS_Open ==
  \E u \in UnitArgs, k \in work.keys, d \in Dirs, n \in Names,
     mode \in {"read", "write", "full", "illegal"}, special \in BOOLEAN :
    Reported("open", Open(fs, host, u, k, d, n, mode, special))

FS_Close == \E u \in UnitArgs, k \in work.keys : Reported("close", Close(fs, host, u, k))
FS_Read == \E k \in work.keys : Reported("read", Read(fs, host, k))
FS_Write == \E k \in work.keys, how \in {"truncate", "held", "through"} : Reported("write", Write(fs, host, k, how))
FS_Seek == \E k \in work.keys, mode \in {"legal", "negative", "illegal"} : Reported("seek", Seek(fs, host, k, mode))
FS_TimeStamp ==
  \E u \in UnitArgs, k \in work.keys, time \in 0..1 : Reported("timestamp", TimeStamp(fs, host, u, k, time))

FS_GetCapacity == \E u \in UnitArgs : Reported("drive", GetCapacity(fs, host, u))
FS_CtrlDrive == \E u \in UnitArgs, function \in {0, 1, 8, 10} : Reported("drive", CtrlDrive(fs, host, u, function))
FS_GetDPB == \E u \in UnitArgs : Reported("drive", GetDPB(fs, host, u))

FS_DiskRead ==
  /\ WriteFs("diskread")
  /\ \E u \in UnitArgs, size \in 1..2, k \in work.keys \cup {0}, cluster \in 0..SectorMax,
        read \in {"OK", "INVALIDPRM"} :
       LET Free(g) == g # fs /\ g.files # <<>> /\ Head(g.files).key = 0
           Then(r) == /\ Answer(r, 0, Root) /\ watch' = Observed(r.fs, r.host)
                      /\ excuses' = IF Free(r.fs) THEN excuses \cup {"zero"} ELSE excuses
       IN Then(DiskRead(fs, host, u, size, k, cluster, read))

FS_DiskWrite == \E u \in UnitArgs : Reported("drive", DiskWrite(fs, host, u))

FS_Ioctrl ==
  \E u \in UnitArgs, function \in -4..2, param \in 0..2 :
    /\ function = -2 => param < 2
    /\ Reported("ioctrl", Ioctrl(fs, host, u, function, param))

FS_Flush == \E u \in UnitArgs : Reported("drive", Flush(fs, host, u))
FS_CheckMedia == \E u \in UnitArgs : Reported("drive", CheckMedia(fs, host, u))
FS_Lock == \E u \in UnitArgs : Reported("drive", Lock(fs, host, u))

(* The constructor of SCSIBR. *)
FsInit ==
  /\ fs = [units |-> 0, option |-> 0, gid |-> 0, cache |-> <<>>, files |-> <<>>, fcbs |-> <<>>,
           sectors |-> [i \in 1..SectorMax |-> 0], count |-> 0]
  /\ reply = [result |-> "OK", unit |-> 0, found |-> Root]
  /\ watch = [k \in Keys |-> NoWatch]
  /\ excuses = {}
  /\ work \in Workloads
  /\ host = [u \in Units |-> work.tree]
  /\ calls = 0

FsNext ==
  \/ FS_InitDevice \/ FS_CheckDir \/ FS_MakeDir \/ FS_RemoveDir \/ FS_Rename \/ FS_Delete
  \/ FS_Attribute \/ FS_Files \/ FS_NFiles \/ FS_Create \/ FS_Open \/ FS_Close \/ FS_Read
  \/ FS_Write \/ FS_Seek \/ FS_TimeStamp \/ FS_GetCapacity \/ FS_CtrlDrive \/ FS_GetDPB
  \/ FS_DiskRead \/ FS_DiskWrite \/ FS_Ioctrl \/ FS_Flush \/ FS_CheckMedia \/ FS_Lock

FsSpec == FsInit /\ [][FsNext]_fsVars

-----------------------------------------------------------------------------
(* Properties                                                              *)

(* The rings have their sizes and hold no key twice, and every cached path  *)
(* is cached once.                                                          *)
FsTypeOK ==
  /\ fs.units \in 0..DriveMax /\ DOMAIN fs.cache = 0..(fs.units - 1)
  /\ Len(fs.files) \in {0, FilesMax} /\ Len(fs.fcbs) \in {0, FcbMax}
  /\ \A k \in Keys : Cardinality(At(fs.files, k)) <= 1 /\ Cardinality(At(fs.fcbs, k)) <= 1
  /\ \A u \in DOMAIN fs.cache :
       /\ Len(fs.cache[u]) <= CacheMax
       /\ \A i \in DOMAIN fs.cache[u] : CachedAt(fs.cache[u], fs.cache[u][i].path) = {i}

Named(list) == {[name |-> e.name, dir |-> e.dir] : e \in {x \in ToSet(list) : x.name \in Names}}

(* A cached directory that is not due to be refreshed lists exactly what    *)
(* the host has there, each name once: every call that changes a directory  *)
(* releases the lists it makes wrong, through evictions, renamed parents    *)
(* and calls that fail halfway. The lists that were kept are the known      *)
(* exceptions: see ListedFilesExist.                                        *)
ListingMatchesHost ==
  \A u \in DOMAIN fs.cache : \A i \in DOMAIN fs.cache[u] :
    LET c == fs.cache[u][i]
    IN ~c.refresh /\ ~c.kept =>
         /\ Named(c.list) = {[name |-> n, dir |-> host[u][Append(c.path, n)].dir] :
                               n \in Contents(host[u], c.path)}
         /\ \A j, m \in DOMAIN c.list : c.list[j].name = c.list[m].name => j = m

(* A search that has been told there is nothing more was given every entry  *)
(* that was there when it started and did not change since, although files  *)
(* were created and deleted and its list was refreshed or evicted meanwhile *)
(* (cfilesystem.cpp:1427). It cannot be held to that when the entry it      *)
(* stood at is gone or no more what was listed of it, nor when a list on    *)
(* its way was kept or the counter of the ids restarted.                    *)
SearchComplete ==
  \A k \in Keys :
    watch[k].st = "ended" /\ watch[k].steady /\ "restart" \notin excuses => watch[k].owed = {}

(* A search whose id is that of the list holds a position in that list, and *)
(* no pointer to an entry that was freed: the ids tell every two lists      *)
(* apart, until the counter they are taken from is restarted. (A path that  *)
(* is not on the host takes over the id of the one it evicts, with nothing  *)
(* to list: the id may come back to an empty list of the path it was of.)   *)
NoStalePosition ==
  \A i \in DOMAIN fs.files :
    LET s == fs.files[i]
    IN s.key # 0 /\ s.count > 0 /\ "restart" \notin excuses =>
         \A j \in CachedAt(fs.cache[s.unit], s.path) :
           fs.cache[s.unit][j].id = s.id => s.at # 0 \/ fs.cache[s.unit][j].list = <<>>

(* FILES takes the buffer of a running search only when all buffers are in  *)
(* use. (A lookup of key 0 puts a free buffer in front: then it may.)       *)
SearchKeptWhileFree ==
  [][\A k \in Keys :
       watch[k].st = "open" /\ watch'[k].st = "none" /\ "zero" \notin excuses /\ fs'.files # <<>>
         => \/ \A i \in DOMAIN fs.files : fs.files[i].key # 0
            \/ \A j \in DOMAIN fs'.files : fs'.files[j].key = 0]_fsVars

(* A file is refused for want of an FCB only when every FCB is open: Alloc  *)
(* looks at the last of the ring alone (cfilesystem.cpp:2635), which is     *)
(* enough because every call keeps the free ones last.                      *)
OutOfMemoryWhenFull ==
  [][reply'.result = "OUTOFMEM" /\ reply.result # "OUTOFMEM"
       => \A i \in DOMAIN fs.fcbs : fs.fcbs[i].key # 0]_fsVars

(* An entry that FILES or NFILES reports is on the host.                    *)
ListedFilesExist ==
  reply.found # Root => reply.found \in DOMAIN host[reply.unit]

=============================================================================

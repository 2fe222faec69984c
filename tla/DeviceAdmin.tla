----------------------------- MODULE DeviceAdmin -----------------------------
(***************************************************************************)
(* The administration of devices by remote commands: ProcessCmd, Attach,   *)
(* Detach and Insert of rascsi.cpp, with the device factory, the           *)
(* controller manager, the list of reserved image files and the image      *)
(* operations of rascsi_image.cpp.                                         *)
(*                                                                         *)
(* The monitor thread works on one command at a time. A command for        *)
(* devices runs twice over its device definitions, dry and for real; each  *)
(* definition is one step. The initiators eject media in between: they     *)
(* are served by the main thread, which the monitor thread excludes only   *)
(* while it adds or deletes a device. (A command that is executed while    *)
(* the monitor thread is inside a step belongs to RascsiThreads.)          *)
(*                                                                         *)
(* Device objects have an identity, because the factory may keep pointers  *)
(* to deleted ones.                                                        *)
(***************************************************************************)
EXTENDS Integers, FiniteSets, SequencesExt

CONSTANTS
  Ids,         (* device IDs                                                *)
  Luns,        (* LUNs, with 0                                              *)
  Files,       (* paths of image files                                      *)
  NoFile,      (* no filename given                                         *)
  Commands,    (* commands for devices the clients send                     *)
  MaxDevices   (* bound: device objects that exist at a time                *)

Types == {"disk", "cd", "net"}

(* What is wrong with a definition: an illegal vendor, product or revision, *)
(* a block size the device does not have, or parameters that make Init()    *)
(* fail (only devices without an image file have such an Init).             *)
Faults == {"none", "name", "block", "init"}

Definitions ==
  {def \in [id : Ids, lun : Luns, type : Types, file : Files \cup {NoFile}, fault : Faults] :
     /\ def.type = "net" => def.file = NoFile
     /\ def.fault = "init" => def.type = "net"}

Operations == {"ATTACH", "DETACH", "INSERT", "EJECT", "STOP"}

ASSUME AdminAssumption ==
  /\ 0 \in Luns
  /\ NoFile \notin Files
  /\ MaxDevices \in Nat
  /\ \A c \in Commands : c.op \in Operations /\ c.defs \in Seq(Definitions)

VARIABLES
  sys,          (* the devices, see IsWorld                                   *)
  files,        (* image files that exist                                   *)
  reserved_ids,
  cmd,          (* the command of the monitor thread                        *)
  pc,           (* what it does with it                                     *)
  next,         (* the definition it will look at next                      *)
  snapshot,     (* reserved_files when the command came                     *)
  running,      (* the process has not died of a bad pointer                *)
  faults        (* history: effects of known faults that are still felt     *)

vars == <<sys, files, reserved_ids, cmd, pc, next, snapshot, running, faults>>

Handles == 1..MaxDevices

(* live: not deleted. path: diskpath, which stays when the medium is        *)
(* ejected. open: there is a cache for this path.                           *)
Device ==
  [id : Ids, lun : Luns, type : Types, path : Files \cup {NoFile},
   open : BOOLEAN, ready : BOOLEAN, removed : BOOLEAN, live : BOOLEAN]

(* heap: device objects somebody has a pointer to. factory: the multimap of *)
(* DeviceFactory, for every ID in its order. controllers: the devices at    *)
(* the LUNs of every controller. reserved: reserved_files.                  *)
NothingAttached ==
  [heap |-> <<>>, factory |-> [i \in Ids |-> <<>>], controllers |-> <<>>,
   reserved |-> <<>>]

IsReservations(f) == DOMAIN f \subseteq Files /\ f \in [DOMAIN f -> Ids \X Luns]

IsController(c, w) == DOMAIN c \subseteq Luns /\ c \in [DOMAIN c -> DOMAIN w.heap]

IsWorld(w) ==
  /\ DOMAIN w.heap \subseteq Handles /\ w.heap \in [DOMAIN w.heap -> Device]
  /\ w.factory \in [Ids -> Seq(DOMAIN w.heap)]
  /\ DOMAIN w.controllers \subseteq Ids
  /\ \A i \in DOMAIN w.controllers : IsController(w.controllers[i], w)
  /\ IsReservations(w.reserved)

NoCommand == [op |-> "none", defs |-> <<>>]

TypeOK ==
  /\ IsWorld(sys)
  /\ files \subseteq Files
  /\ reserved_ids \subseteq Ids
  /\ cmd \in Commands \cup {NoCommand}
  /\ pc \in {"idle", "dry", "execute", "reserve"}
  /\ next \in 1..(Len(cmd.defs) + 1)
  /\ IsReservations(snapshot)
  /\ running \in BOOLEAN
  /\ faults \in [robbed : SUBSET Files, stale : SUBSET Files,
                 renamed : SUBSET Files, incomplete : SUBSET Ids]

-----------------------------------------------------------------------------
(* Devices, controllers and reserved files                                 *)

Attached(w) == UNION {Range(w.controllers[i]) : i \in DOMAIN w.controllers}

HasDevice(w, id, lun) == id \in DOMAIN w.controllers /\ lun \in DOMAIN w.controllers[id]

InFactory(w) == UNION {Range(w.factory[i]) : i \in Ids}

Place(dev) == <<dev.id, dev.lun>>

(* The map f with y at x.                                                   *)
With(f, x, y) == [z \in DOMAIN f \cup {x} |-> IF z = x THEN y ELSE f[z]]

(* CreateDevice: the new object is the last of its ID in the multimap.      *)
NewHandle(w) == CHOOSE h \in Handles : h \notin DOMAIN w.heap

CreateDevice(w, def) ==
  LET dev == [id |-> def.id, lun |-> def.lun, type |-> def.type, path |-> NoFile,
              open |-> FALSE, ready |-> FALSE,
              removed |-> def.type # "net" /\ def.file = NoFile, live |-> TRUE]
  IN [w EXCEPT !.heap = With(@, NewHandle(w), dev),
               !.factory[def.id] = Append(@, NewHandle(w))]

(* DeleteDevice drops the first entry for this place and deletes the object *)
(* it was given. (An object nobody points to any more is forgotten.)        *)
DeleteDevice(w, d) ==
  LET dev == w.heap[d]
      entries == w.factory[dev.id]
      matches == {i \in DOMAIN entries : w.heap[entries[i]].lun = dev.lun}
      first == CHOOSE i \in matches : \A j \in matches : i <= j
      left == [w EXCEPT !.factory[dev.id] = RemoveAt(entries, first)]
      kept == InFactory(left) \cup Attached(left)
  IN IF matches = {}
     THEN w
     ELSE [left EXCEPT !.heap = [h \in kept |->
             IF h = d THEN [dev EXCEPT !.live = FALSE] ELSE w.heap[h]]]

(* CreateScsiController. *)
AddDevice(w, d) ==
  LET dev == w.heap[d]
      luns == IF dev.id \in DOMAIN w.controllers THEN w.controllers[dev.id] ELSE <<>>
  IN [w EXCEPT !.controllers = With(@, dev.id, With(luns, dev.lun, d))]

(* Mutant of RemoveDevice: the controller keeps the device.                 *)
RemoveDeviceNot(w, d) == w

RemoveDevice(w, d) ==
  [w EXCEPT !.controllers[w.heap[d].id] = Restrict(@, DOMAIN @ \ {w.heap[d].lun})]

(* Open of a disk device and of Disk.                                       *)
OpenFile(w, d, f) ==
  [w EXCEPT !.heap[d].path = f, !.heap[d].open = TRUE, !.heap[d].ready = TRUE,
            !.heap[d].removed = FALSE]

ReserveFile(w, d, f) == [w EXCEPT !.reserved = With(@, f, Place(w.heap[d]))]

UnreserveFile(w, d) ==
  [w EXCEPT !.reserved = Restrict(@, DOMAIN @ \ {w.heap[d].path})]

Ejects(w, d) == w.heap[d].ready /\ w.heap[d].type = "cd"

(* Mutant of Eject: the file stays reserved.                                *)
EjectKeepsFile(w, d) ==
  IF Ejects(w, d)
  THEN [w EXCEPT !.heap[d].open = FALSE, !.heap[d].ready = FALSE, !.heap[d].removed = TRUE]
  ELSE w

(* Eject of Device and of Disk, also the forced one of the monitor thread.  *)
Eject(w, d) ==
  IF Ejects(w, d)
  THEN [UnreserveFile(w, d) EXCEPT !.heap[d].open = FALSE, !.heap[d].ready = FALSE,
                                   !.heap[d].removed = TRUE]
  ELSE w

(* History: UnreserveFile took the reservation of another device that has   *)
(* this file open.                                                          *)
Robs(w, d) ==
  LET f == w.heap[d].path
  IN {g \in {f} \cap DOMAIN w.reserved : w.reserved[g] # Place(w.heap[d])}

-----------------------------------------------------------------------------
(* Commands                                                                *)

Def == cmd.defs[next]
Dev == sys.controllers[Def.id][Def.lun]
dryRun == pc = "dry"

OpenFiles(w) == {w.heap[d].path : d \in {h \in Attached(w) : w.heap[h].open}}
HasNoLunZero(w, i) ==
  i \in DOMAIN w.controllers /\ 0 \notin DOMAIN w.controllers[i] /\ w.controllers[i] # <<>>

(* Effects of faults are forgotten when they are over.                      *)
Blame(w, robbed, stale, renamed, incomplete) ==
  faults' = [robbed |-> (faults.robbed \cup robbed) \cap OpenFiles(w),
             stale |-> (faults.stale \cup stale) \cap (DOMAIN w.reserved \cup DOMAIN snapshot),
             renamed |-> (faults.renamed \cup renamed) \cap OpenFiles(w),
             incomplete |-> {i \in faults.incomplete \cup incomplete : HasNoLunZero(w, i)}]

(* Mutant of Idle: the position in the last command stays.                  *)
IdleKeepsNext == pc' = "idle" /\ cmd' = NoCommand /\ next' = next /\ snapshot' = <<>>

Idle == pc' = "idle" /\ cmd' = NoCommand /\ next' = 1 /\ snapshot' = <<>>

(* A definition cannot be processed: the command ends. Only a dry run is    *)
(* undone, and only what it did to the reserved files.                      *)
Refuse(w) ==
  LET left == IF dryRun THEN [w EXCEPT !.reserved = snapshot] ELSE w
  IN /\ sys' = left
     /\ Idle
     /\ Blame(left, {}, {}, {}, IF dryRun THEN {} ELSE {def.id : def \in Range(cmd.defs)})

Accept(w, robbed) ==
  /\ sys' = w
  /\ next' = next + 1
  /\ pc' = IF dryRun THEN "dry" ELSE "execute"
  /\ UNCHANGED <<cmd, snapshot>>
  /\ Blame(w, robbed, {}, {}, {})

(* Attach(). The check of the names returns without deleting the device.    *)
Attach ==
  LET d == NewHandle(sys)
      created == CreateDevice(sys, Def)
      opened == IF Def.file = NoFile THEN created
                ELSE ReserveFile(OpenFile(created, d, Def.file), d, Def.file)
      valid == /\ Def.fault # "block"
               /\ Def.type = "disk" => Def.file # NoFile
               /\ Def.file \notin DOMAIN sys.reserved
  IN /\ cmd.op = "ATTACH"
     /\ \/ /\ Def.id \in reserved_ids \/ HasDevice(sys, Def.id, Def.lun)
           /\ Refuse(sys)
        \/ /\ Def.id \notin reserved_ids /\ ~HasDevice(sys, Def.id, Def.lun)
           /\ \/ /\ Def.fault = "name"
                 /\ Refuse(created)
              \/ /\ Def.fault # "name"
                 /\ ~valid \/ Def.file # NoFile
                 /\ Refuse(DeleteDevice(created, d))
              \/ /\ Def.fault # "name" /\ valid
                 /\ Def.file \in files \cup {NoFile}
                 /\ \/ /\ dryRun
                       /\ Accept(DeleteDevice(opened, d), {})
                    \/ /\ ~dryRun /\ Def.fault = "init"
                       /\ Refuse(DeleteDevice(opened, d))
                    \/ /\ ~dryRun /\ Def.fault # "init"
                       /\ Accept(AddDevice(opened, d), {})

(* Every other operation needs the device, most need a property of it.      *)
Supports(op, dev) ==
  /\ op = "STOP" => dev.type # "net"
  /\ op \in {"INSERT", "EJECT"} => dev.type = "cd"

Denied ==
  /\ cmd.op # "ATTACH"
  /\ HasDevice(sys, Def.id, Def.lun) => ~Supports(cmd.op, sys.heap[Dev])
  /\ Refuse(sys)

Allowed(op) ==
  /\ cmd.op = op
  /\ HasDevice(sys, Def.id, Def.lun)
  /\ Supports(op, sys.heap[Dev])

(* Detach(). LUN 0 stays while the factory knows another LUN of this ID.    *)
OtherLuns == {h \in Range(sys.factory[Def.id]) : sys.heap[h].lun # 0}

Detach ==
  /\ Allowed("DETACH")
  /\ \/ /\ Def.lun = 0 /\ OtherLuns # {}
        /\ Refuse(sys)
     \/ /\ Def.lun # 0 \/ OtherLuns = {}
        /\ IF dryRun
           THEN Accept(sys, {})
           ELSE Accept(DeleteDevice(RemoveDevice(UnreserveFile(sys, Dev), Dev), Dev),
                       Robs(sys, Dev))

(* Insert(), up to the opening of the file.                                 *)
Insert ==
  LET complete == sys.heap[Dev].removed /\ Def.fault # "name" /\ Def.file # NoFile
  IN /\ Allowed("INSERT")
     /\ \/ /\ ~complete
           /\ Refuse(sys)
        \/ /\ complete /\ dryRun
           /\ Accept(sys, {})
        \/ /\ complete /\ ~dryRun
           /\ Refuse(sys)
        \/ /\ complete /\ ~dryRun
           /\ Def.fault # "block"
           /\ Def.file \notin DOMAIN sys.reserved
           /\ Def.file \in files
           /\ sys' = OpenFile(sys, Dev, Def.file)
           /\ pc' = "reserve"
           /\ UNCHANGED <<cmd, next, snapshot, faults>>

(* Mutant of InsertReserve: no reservation.                                 *)
InsertReserveNothing ==
  /\ running /\ pc = "reserve"
  /\ pc' = "execute"
  /\ next' = next + 1
  /\ UNCHANGED <<sys, files, reserved_ids, cmd, snapshot, running, faults>>

(* The reservation: an initiator may have ejected the medium already.       *)
InsertReserve ==
  LET stale == IF sys.heap[Dev].open THEN {} ELSE {Def.file}
      w == ReserveFile(sys, Dev, Def.file)
  IN /\ running /\ pc = "reserve"
     /\ sys' = w
     /\ pc' = "execute"
     /\ next' = next + 1
     /\ Blame(w, {}, stale, {}, {})
     /\ UNCHANGED <<files, reserved_ids, cmd, snapshot, running>>

EjectMedium ==
  /\ Allowed("EJECT")
  /\ IF dryRun
     THEN Accept(sys, {})
     ELSE Accept(Eject(sys, Dev), IF Ejects(sys, Dev) THEN Robs(sys, Dev) ELSE {})

Stop ==
  /\ Allowed("STOP")
  /\ Accept(IF dryRun THEN sys ELSE [sys EXCEPT !.heap[Dev].ready = FALSE], {})

(* ProcessCmd for one device definition. *)
ProcessDevice ==
  /\ running
  /\ pc \in {"dry", "execute"}
  /\ next <= Len(cmd.defs)
  /\ Attach \/ Denied \/ Detach \/ Insert \/ EjectMedium \/ Stop
  /\ UNCHANGED <<files, reserved_ids, running>>

(* A command for devices arrives. (Bound: MaxDevices leaves an ATTACH room   *)
(* for its devices.)                                                        *)
Receive ==
  /\ running /\ pc = "idle"
  /\ \E c \in Commands :
       /\ c.op = "ATTACH" => Cardinality(Handles \ DOMAIN sys.heap) >= Len(c.defs)
       /\ cmd' = c
  /\ pc' = "dry"
  /\ snapshot' = sys.reserved
  /\ UNCHANGED <<sys, files, reserved_ids, next, running, faults>>

(* ValidateLunSetup: the places the command names and those the factory     *)
(* knows.                                                                   *)
Named == {Place(def) : def \in Range(cmd.defs)}
Known == {Place(sys.heap[h]) : h \in InFactory(sys)}
(* Mutant of ValidLunSetup: only devices that exist are looked at.          *)
ValidLunSetupKnown == \A p \in Known : <<p[1], 0>> \in Known

ValidLunSetup == \A p \in Named \cup Known : <<p[1], 0>> \in Named \cup Known

(* The dry run is over: the list of reserved files is restored.             *)
Validate ==
  LET w == [sys EXCEPT !.reserved = snapshot]
  IN /\ running /\ pc = "dry" /\ next > Len(cmd.defs)
     /\ sys' = w
     /\ Blame(w, {}, {}, {}, {})
     /\ \/ /\ ValidLunSetup
           /\ pc' = "execute"
           /\ next' = 1
           /\ UNCHANGED <<cmd, snapshot>>
        \/ /\ ~ValidLunSetup
           /\ Idle
     /\ UNCHANGED <<files, reserved_ids, running>>

Reply ==
  /\ running /\ pc = "execute" /\ next > Len(cmd.defs)
  /\ Idle
  /\ UNCHANGED <<sys, files, reserved_ids, running, faults>>

(* DETACH_ALL *)
DetachAll ==
  LET w == NothingAttached
  IN /\ running /\ pc = "idle"
     /\ sys' = w
     /\ Blame(w, {}, {}, {}, {})
     /\ UNCHANGED <<files, reserved_ids, cmd, pc, next, snapshot, running>>

(* Mutant of SetReservedIds: IDs in use are accepted.                       *)
SetReservedIdsUnchecked(S) ==
  /\ running /\ pc = "idle"
  /\ reserved_ids' = S
  /\ UNCHANGED <<sys, files, cmd, pc, next, snapshot, running, faults>>

(* RESERVE_IDS *)
SetReservedIds(S) ==
  /\ running /\ pc = "idle"
  /\ S \cap DOMAIN sys.controllers = {}
  /\ reserved_ids' = S
  /\ UNCHANGED <<sys, files, cmd, pc, next, snapshot, running, faults>>

(* CREATE_IMAGE *)
CreateImage(f) ==
  /\ running /\ pc = "idle"
  /\ f \notin files
  /\ files' = files \cup {f}
  /\ UNCHANGED <<sys, reserved_ids, cmd, pc, next, snapshot, running, faults>>

(* Mutant of DeleteImage: the reserved files are not looked at.             *)
DeleteImageUnchecked(f) ==
  /\ running /\ pc = "idle"
  /\ f \in files
  /\ files' = files \ {f}
  /\ UNCHANGED <<sys, reserved_ids, cmd, pc, next, snapshot, running, faults>>

(* DELETE_IMAGE *)
DeleteImage(f) ==
  /\ running /\ pc = "idle"
  /\ f \in files
  /\ f \notin DOMAIN sys.reserved
  /\ files' = files \ {f}
  /\ UNCHANGED <<sys, reserved_ids, cmd, pc, next, snapshot, running, faults>>

(* RENAME_IMAGE does not look at the reserved files.                        *)
RenameImage(f, g) ==
  /\ running /\ pc = "idle"
  /\ f \in files /\ g \notin files
  /\ files' = (files \ {f}) \cup {g}
  /\ Blame(sys, {}, {}, {f}, {})
  /\ UNCHANGED <<sys, reserved_ids, cmd, pc, next, snapshot, running>>

-----------------------------------------------------------------------------
(* The other thread                                                        *)

(* START STOP UNIT with the eject bit, for a medium that is not locked. It  *)
(* leaves a stale reservation when the monitor thread will restore the list *)
(* it took before.                                                          *)
ScsiEject(d) ==
  LET w == Eject(sys, d)
      stale == IF dryRun THEN {sys.heap[d].path} \cap DOMAIN snapshot ELSE {}
  IN /\ running
     /\ Ejects(sys, d)
     /\ sys' = w
     /\ faults' = [faults EXCEPT !.robbed = (@ \cup Robs(sys, d)) \cap OpenFiles(w),
                                 !.stale = @ \cup stale]
     /\ UNCHANGED <<files, reserved_ids, cmd, pc, next, snapshot, running>>

(* The factory has a pointer to a deleted device. Whoever uses it reads     *)
(* what is left of the device (as the other actions do), or the process     *)
(* dies.                                                                    *)
Crash ==
  /\ running
  /\ \E h \in InFactory(sys) : ~sys.heap[h].live
  /\ pc # "idle"
  /\ running' = FALSE
  /\ UNCHANGED <<sys, files, reserved_ids, cmd, pc, next, snapshot, faults>>

-----------------------------------------------------------------------------

Init ==
  /\ sys = NothingAttached
  /\ files = Files
  /\ reserved_ids = {}
  /\ cmd = NoCommand
  /\ pc = "idle"
  /\ next = 1
  /\ snapshot = <<>>
  /\ running = TRUE
  /\ faults = [robbed |-> {}, stale |-> {}, renamed |-> {}, incomplete |-> {}]

Next ==
  \/ Receive
  \/ ProcessDevice
  \/ InsertReserve
  \/ Validate
  \/ Reply
  \/ DetachAll
  \/ \E S \in SUBSET Ids : SetReservedIds(S)
  \/ \E f \in Files : CreateImage(f) \/ DeleteImage(f)
  \/ \E f, g \in Files : RenameImage(f, g)
  \/ \E d \in Attached(sys) : ScsiEject(d)
  \/ Crash

Spec == Init /\ [][Next]_vars

-----------------------------------------------------------------------------
(* Properties                                                              *)

(* The devices the controllers dispatch commands to have not been deleted,  *)
(* and sit at the place they were attached to: also when the factory has    *)
(* lost track of its devices.                                               *)
AttachedAreLive ==
  \A i \in DOMAIN sys.controllers : \A l \in DOMAIN sys.controllers[i] :
    /\ sys.heap[sys.controllers[i][l]].live
    /\ Place(sys.heap[sys.controllers[i][l]]) = <<i, l>>

(* No two devices write to the same image: each has a cache of its own, so  *)
(* that they would overwrite each other's blocks. (Excepted are files whose *)
(* reservation another device took away, see ReservedFilesAreInUse.)        *)
ImageUsedOnce ==
  \A d, e \in Attached(sys) :
    /\ sys.heap[d].open /\ sys.heap[e].open /\ d # e
    /\ sys.heap[d].path = sys.heap[e].path
    => sys.heap[d].path \in faults.robbed

(* Between commands the reserved files are those the attached devices have  *)
(* open, with their places. Excepted are the effects of two faults: a file  *)
(* whose reservation another device took away, and one ejected by an        *)
(* initiator while the monitor thread was about to restore or to add the    *)
(* reservation.                                                             *)
ReservationsMatch ==
  pc = "idle" =>
    /\ \A d \in Attached(sys) : sys.heap[d].open =>
         \/ sys.heap[d].path \in faults.robbed
         \/ /\ sys.heap[d].path \in DOMAIN sys.reserved
            /\ sys.reserved[sys.heap[d].path] = Place(sys.heap[d])
    /\ \A f \in DOMAIN sys.reserved :
         \/ f \in faults.stale
         \/ \E d \in Attached(sys) :
              /\ sys.heap[d].open /\ sys.heap[d].path = f
              /\ Place(sys.heap[d]) = sys.reserved[f]

(* The image of a device exists as long as the device has it open: every    *)
(* access of the cache opens it by its path. RENAME_IMAGE is the exception. *)
OpenImageExists ==
  OpenFiles(sys) \subseteq files \cup faults.renamed \cup faults.robbed

(* Between commands every ID in use has a LUN 0 (Error and REQUEST SENSE    *)
(* rely on it), unless a command failed after some of its devices had been  *)
(* processed, or the factory still has an entry for a LUN 0 that no         *)
(* controller has (see DryRunLeavesNoDevice), which ValidateLunSetup takes  *)
(* for a device.                                                            *)
LunZeroExists ==
  pc = "idle" =>
    \A i \in Ids : HasNoLunZero(sys, i) => i \in faults.incomplete \/ <<i, 0>> \in Known

(* A reserved ID has no device, whatever was attached, detached or reserved *)
(* before.                                                                  *)
ReservedIdsUnused ==
  \A i \in reserved_ids \cap DOMAIN sys.controllers : sys.controllers[i] = <<>>

(* Attach, line 501: "Stop the dry run here, before permanently modifying   *)
(* something". Between commands the factory has the devices of the          *)
(* controllers and no other: a dry run leaves none behind.                  *)
DryRunLeavesNoDevice == pc = "idle" => InFactory(sys) = Attached(sys)

(* file_support.h, line 28: "The list of image files in use and the IDs and *)
(* LUNs using these files". A file an attached device has open is on it.    *)
ReservedFilesAreInUse ==
  pc = "idle" => OpenFiles(sys) \subseteq DOMAIN sys.reserved
=============================================================================

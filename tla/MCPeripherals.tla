--------------------------- MODULE MCPeripherals ---------------------------
(***************************************************************************)
(* The components beside the disk path, checked together: the host file    *)
(* system, the X68000 drivers and the bridge, the printer, the bus         *)
(* handshake, and the disk track cache with tracks of several sectors.     *)
(* They share no state. In a behaviour one of them moves, chosen at the    *)
(* start, and the others stay as they begin: the states are the sum of     *)
(* theirs and not their product.                                           *)
(***************************************************************************)
EXTENDS HostFileSystem, HostBridge, ScsiPrinter, BusHandshake

CONSTANTS Components, Torn, Done, Failed, NoTrack, v1, v2

VARIABLES
  component,                                      (* the one that moves     *)
  open, cache, stamp, serial, file, result, since (* the disk track cache   *)

cacheVars == <<open, cache, stamp, serial, file, result, since>>
peripheralVars == <<component, fsVars, bridgeVars, printerVars, busVars, cacheVars>>

(* Two tracks, of which the last one is short, and one slot.                *)
Saving == INSTANCE DiskCache WITH
  BlockCount <- 3, SectorsPerTrack <- 2, CacheMax <- 1, SerialModulus <- 2,
  Values <- {v1, v2}

-----------------------------------------------------------------------------
(* What the driver of the bridge does in a behaviour, on which tree.        *)

File == [dir |-> FALSE, ver |-> 0]
Dir == [dir |-> TRUE, ver |-> 0]

Root2 == {Root}
OneFile == <<3>> :> File
TwoFiles == <<2>> :> File @@ <<3>> :> File
FileAndDir == <<2>> :> Dir @@ <<3>> :> File @@ <<2, 2>> :> File
Nested == <<2>> :> Dir @@ <<2, 2>> :> Dir @@ <<2, 2, 2>> :> File @@ <<3>> :> Dir
Wide == <<2>> :> Dir @@ <<3>> :> Dir @@ <<2, 2>> :> Dir @@ <<2, 3>> :> File

Calling(ops, keys, max, dirs, tree) ==
  [ops |-> ops \cup {"init"}, keys |-> keys, max |-> max, tree |-> tree, dirs |-> dirs,
   depth |-> 3, strange |-> FALSE]

(* A search among files that come and go.                                   *)
Searching == Calling({"files", "nfiles", "create", "delete"}, {1}, 7, {Root}, TwoFiles)

(* Directories that are renamed and removed, and some that are evicted.     *)
Moving == Calling({"removedir", "rename", "files"}, {1}, 4, {Root, <<2>>, <<3>>}, Nested)
Evicting == Calling({"files", "nfiles", "makedir", "checkdir"}, {1}, 5, {Root, <<3>>, <<2, 2>>}, Wide)

(* One open file with everything that is done to it, and more files than    *)
(* FCBs.                                                                    *)
Writing == Calling({"create", "open", "close", "write", "seek", "timestamp"}, {1}, 5, {Root}, OneFile)
Opening == Calling({"open", "close", "read"}, {1, 2, 3}, 5, {Root}, OneFile)

(* More searches than buffers, with the reads of pseudo sectors, and a      *)
(* search over a change of the options.                                     *)
Crowding == Calling({"files", "nfiles", "diskread"}, {1, 2, 3}, 5, {Root}, TwoFiles)
Restarting == Calling({"files", "nfiles", "ioctrl", "delete", "create"}, {1}, 5, {Root}, TwoFiles)

(* Every call, with units and attributes that lead nowhere.                 *)
Straying ==
  [ops |-> {"init", "checkdir", "makedir", "removedir", "rename", "delete", "attribute", "files",
            "nfiles", "create", "open", "close", "read", "write", "seek", "timestamp", "drive",
            "diskread", "ioctrl"},
   keys |-> {1}, max |-> 2, tree |-> FileAndDir, dirs |-> {Root, <<2>>}, depth |-> 2,
   strange |-> TRUE]

MCWorkloads ==
  {Searching, Moving, Evicting, Writing, Opening, Crowding, Restarting, Straying}

(* A directory that has a single file (see GhostEntry.cfg).                 *)
MCLonelyFile == {Calling({"files", "delete"}, {1}, 4, {Root}, OneFile)}

-----------------------------------------------------------------------------
(* What the X68000 does in a behaviour of the drivers.                      *)

Loaded(opcodes, type, kinds, requests, packets, breaks) ==
  [opcodes |-> opcodes, type |-> type, kinds |-> kinds, requests |-> requests,
   packets |-> packets, fails |-> breaks]

(* TEST UNIT READY and what GetMessage10 and SendMessage10 are for, by      *)
(* their names and by their registration.                                   *)
Meant == {0, 40, 42}
Registered == {0, 8, 10}

(* Two requests and a poll; two packets sent and a poll; a request amid the *)
(* reception of two packets. With the bridge that is registered, requests   *)
(* and packets sent with polls between them.                                *)
MCLoads ==
  {Loaded(Meant, 0, DOMAIN ConnectionsOf, 2, 1, 1), Loaded(Meant, 0, {"trap", "call"}, 2, 1, 1),
   Loaded(Meant, 1, {"read"}, 1, 2, 2),
   Loaded(Registered, 0, DOMAIN ConnectionsOf \cup {"trap", "call"}, 2, 1, 1)}

-----------------------------------------------------------------------------
Moves(c) == component = c /\ UNCHANGED component

FilesMove == Moves("files") /\ UNCHANGED <<bridgeVars, printerVars, busVars, cacheVars>>
BridgeMoves == Moves("bridge") /\ UNCHANGED <<fsVars, printerVars, busVars, cacheVars>>
PrinterMoves == Moves("printer") /\ UNCHANGED <<fsVars, bridgeVars, busVars, cacheVars>>
BusMoves == Moves("bus") /\ UNCHANGED <<fsVars, bridgeVars, printerVars, cacheVars>>
CacheMoves == Moves("cache") /\ UNCHANGED <<fsVars, bridgeVars, printerVars, busVars>>

PeripheralsInit ==
  /\ component \in Components
  /\ FsInit /\ (component # "files" => work = CHOOSE w \in Workloads : TRUE)
  /\ BridgeInit /\ (component # "bridge" => load = CHOOSE l \in Loads : TRUE)
  /\ PrinterInit
  /\ BusInit
  /\ Saving!Init /\ (component # "cache" => \A b \in Saving!Blocks : file[b] = v1)

PeripheralsNext ==
  \/ FilesMove /\ FsNext
  \/ BridgeMoves /\ BridgeNext
  \/ PrinterMoves /\ PrinterNext
  \/ BusMoves /\ BusNext
  \/ CacheMoves /\ Saving!Next

(* The fairness of PrinterSpec, BusSpec and BridgeSpec, for the one that    *)
(* moves.                                                                  *)
PeripheralsSpec ==
  /\ PeripheralsInit /\ [][PeripheralsNext]_peripheralVars
  /\ WF_peripheralVars(PrinterMoves /\ Tick)
  /\ \A i \in Initiators : WF_peripheralVars(PrinterMoves /\ ReserveUnit(i))
  /\ WF_peripheralVars(BusMoves /\ TargetStep)
  /\ WF_peripheralVars(BusMoves /\ (SelectPolled \/ SelectEnd))
  /\ \A step \in {"poll", "fetch", "request", "send", "free"} :
       WF_peripheralVars(BridgeMoves /\ BridgeFairStep(step))

-----------------------------------------------------------------------------
(* The cache implements a BlockStore (devices/disk_track_cache.cpp), also   *)
(* when a save fails between the sectors of one track.                      *)
ImplementsBlockStore == Saving!ImplementsBlockStore

=============================================================================

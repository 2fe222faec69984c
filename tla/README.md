# RaSCSI in TLA+

RaSCSI turns a Raspberry Pi into up to eight SCSI devices: hard disks,
magneto-optical and CD-ROM drives, a network adapter, a printer and others. The
program `rascsi` is a SCSI target on a real bus, and a server for remote
commands that attach, detach and change devices while initiators use them. This
directory holds a formal model of it, and of the programs at the other end of
the bus that come with it: the X68000 drivers and the dump tool. Paths are
relative to `src/src/raspberrypi/`, those that begin with `x68k/` to `src/src/`.

1. The system
2. Modules
3. What the runs show
4. Fairness
5. What is proved
6. Differences between the code and what it says
7. What is not modelled
8. Plan

## 1. The system

### Components

| Component | State | Operations | What makes it correct |
|---|---|---|---|
| **SCSI controller** `controllers/scsi_controller.cpp`, one per device ID | phase, status, block count, offset and length, next block, CDB, ATN messages, identified LUN; the lines MSG, C/D, I/O and BSY | `Process`, one handler per phase, called again and again by the main loop; `Error`, `Send`, `Receive`, `XferIn`, `XferOut`, `XferMsg` nested in them | the lines belong to the phase; the block count never wraps; each command ends with a status that is true; the bus is let go |
| **Devices** `devices/primary_device.cpp`, `disk.cpp`, `scsi*.cpp` | sense code, ready, removed, locked, ..., the cache | one method per SCSI command, called by the controller's execute phase; reading and writing of blocks | an error leaves sense data where REQUEST SENSE finds them |
| **Track cache** `devices/disk_track_cache.cpp` | 16 slots with a track and a serial number, change flags per sector | `ReadSector`, `WriteSector`, `Save`; `Assign`, `Load`, `UpdateSerialNumber` inside | reads return the last write; nothing but a write that is still pending is ever lost |
| **Device factory, controller manager, reserved files** `devices/device_factory.cpp`, `controllers/controller_manager.cpp`, `devices/file_support.cpp` | multimap of devices per ID, map of controllers, map of reserved image files, reserved IDs | create and delete devices, add and remove LUNs, reserve and free files | an attached device exists; one device per image; a LUN 0 per ID |
| **Remote commands** `rascsi.cpp` (`ProcessCmd`, `Attach`, `Detach`, `Insert`), `rascsi_image.cpp` | the command, its dry run, the snapshot of the reserved files; image files | ATTACH, DETACH, INSERT, EJECT, STOP, ..., CREATE/DELETE/RENAME/COPY_IMAGE | the dry run changes nothing; an image in use stays |
| **Main loop, monitor thread, signals** `rascsi.cpp` | `active`, `running`, `ctrl_mutex` | selection and service of a connection; one remote command at a time; SIGHUP, SIGINT, SIGTERM | a connection keeps its controller and devices; commands are answered |
| **Printer** `devices/scsi_printer.cpp` | reservation with its time, spool file | RESERVE, RELEASE, PRINT, SYNCHRONIZE BUFFER, STOP PRINT | only the initiator that holds the printer prints; nothing is printed twice |
| **Bus** `gpiobus.cpp` | the lines | handshakes with REQ and ACK, polling of SEL | target and initiator agree on the number of bytes |
| **Host bridge** `devices/scsi_host_bridge.cpp` | the result, data and optional data of the last request; one packet and its mark | vendor commands that execute a file call, return its result, hand a packet over | what it returns belongs to the request it is returned for |
| **Host file system** `devices/cfilesystem.cpp` | per drive a ring of cached directories with their entries; rings of search buffers and of open files; an option word | 25 calls of Human68k (FILES, NFILES, CREATE, OPEN, ...) on files of the host | a listing is true, a search complete; a buffer is refused only when none is free |
| **X68000 drivers** `x68k/RASDRV/BRIDGE.C`, `x68k/RASETHER/` | the request, the result received; handlers, polling interval, interrupt masks | requests of several connections; polling for packets from an interrupt; sending | answers are those of the request; packets in order, once; reception recovers |
| **Dump tool** `rasdump.cpp` | the command, its phases, the bytes received | INQUIRY, READ CAPACITY, READ, WRITE as an initiator; end by a signal | it agrees with the target on what was transferred |
| DaynaPort, host services | packets; a shutdown mode | read, write, link commands; START STOP UNIT | as devices |
| TAP driver, responses, other tools, clients | see section 7 | | |

### How they interact

* The **main loop** polls for a selection, takes `ctrl_mutex`, asks the
  controller manager which controller has the selected ID, and calls `Process`
  of this controller until the phase is busfree. A call of `Process` runs one
  phase handler; this calls the device, and the device calls the controller back
  (`DataIn`, `DataOut`, `Status`, `Error`). The callbacks nest, and return into
  code that goes on.
* A disk device owns a **track cache** and calls it for each block; the cache
  opens the image file by its name for each access.
* The **monitor thread** serves one client at a time. It waits until `active` is
  false, and takes `ctrl_mutex` only for the moment it adds or removes a LUN.
  It shares devices, reserved files and the controllers with the main loop.
* The **X68000 drivers** share the bridge and the bus. The file driver makes a
  request in two to four connections; an interrupt of the Ethernet driver may come
  between any two, and asks for the length of a packet and then for its data. The
  bridge keeps one result, one data buffer and one packet for all of them.
* The **bridge** calls `CFileSys` for each request. Its caches of directories, its
  searches and its open files refer to each other by paths, keys, ids and pointers.
* **Target and initiator** meet in REQ, ACK and RST only; each wait gives up after
  three seconds, on either side at a different byte.
* **Signal handlers** run on the thread they interrupt. SIGHUP clears
  `running`, the others delete all devices and exit.

### What is hard

Nested callbacks that change the phase under their caller (the controller).
Failures of file operations in the middle of a write-back (the cache). Initiators
that drop ATN, send short CDBs, stop answering or assert RST anywhere. Remote
commands with several devices of which one fails; ejects by an initiator between
the steps of a remote command. Two threads, one mutex that is held for parts of a
command only, and signal handlers. A search that goes on in a directory whose cached
list was refreshed, evicted or freed. A reservation that expires while its data are
in the spool file. Connections that break off before or after the other side has
acted. `PROJECT.json` lists each such place with its
line under `hazards`.

## 2. Modules

| Module | Models | Composed with |
|---|---|---|
| `ScsiController` | the controller and, through it, how the commands of each kind of device make it behave | |
| `DiskCache` | the track cache over its file | implements `BlockStore` |
| `BlockStore` | what the cache promises: a store of blocks with deferred writes | |
| `DeviceAdmin` | remote commands, factory, controllers, reserved files, images, ejects by initiators | |
| `RascsiThreads` | main loop, monitor thread, signals, mutex and flags | abstracts a connection of `ScsiController` to the state "process" and a command of `DeviceAdmin` to its effect on the controllers |
| `HostDrive` | a drive of the host file system: cached directories, lookups, searches | a part of `HostFileSystem`, of operators only |
| `HostFileSystem` | the calls of the host file system and the handlers of its messages | extends `HostDrive` |
| `HostBridge` | the X68000 drivers, the bridge and the bus between them | abstracts a file call to the number of its request, a packet to the number of its frame, a connection of `BusHandshake` to "went well" or "broke off" |
| `ScsiPrinter` | the printer with its reservation and spool file, for several initiators | its bus is served one command at a time |
| `BusHandshake` | rasdump and a target, byte by byte | the target's phases are those of `ScsiController` |
| `MCPeripherals` | values of the constants for TLC, and the choice of the component that moves | extends the five modules above and INSTANCEs `DiskCache` |
| `MC*` | values of the constants for TLC | extend the module they are named after |
| `*_proofs` | theorems | extend the module they are named after |
| `BridgePrinter_proofs` | theorems about `HostBridge` and about `ScsiPrinter` | extends both, which share no state |
| `HostSearch_proofs` | theorems about the lists and the searches of `HostFileSystem` | extends `HostFileSystem_proofs`, which has the rings, and the lemmas about listings and lookups |

**ScsiController.** One call of `Process` is one step; the rest of the behaviour
is the initiator's (ATN). The nested handlers are operators over a controller
record `c`, the history `k` of the connection, and the sense codes `s`. A handler
that runs `Error` and goes on is written with the record that `Error` leaves
behind, so the model goes wrong where the code does. A transfer completes or is
cut at any byte, because every handshake gives up after three seconds. What a
device does with a command is one of the `Responses` for its class of operations;
data, mode pages and addresses are left out. The variable `conn` is history: what
the initiator has seen of the connection. Properties are stated over it.

**DiskCache.** One call of the cache is one step: the serial number, the choice of
the slot, the eviction with its partial write-back, the load and the access
(`Hit`, `Fill`, `Evict`, and their failures). A write that fails half way leaves
whole sectors written, one torn, the rest old. `Close` is the destruction of the
cache, and stands for a crash, too. `since` is history.

**DeviceAdmin.** The variable `sys` holds the objects with an identity (`heap`),
the factory, the controllers and the reserved files. A definition of a command is
one step of the dry run or of the execution. `Insert` is two steps, for the image
is opened before it is reserved; the snapshot of the reserved files and its
restoration belong to the first step and to the step after the dry run; an
initiator's eject may come between any two of them. `faults` is history: what has
been damaged by a fault that section 3 or 6 lists, so that the other properties
can be stated around it.

**RascsiThreads.** Every access to the mutex, to a flag or to the map of
controllers is a step. `DeleteAllControllersAndDevices` is one step per
controller, and one to clear the map. A call on a deleted object is undefined; the
model lets the process die (`Crash`) or continue with what is left in memory.

**HostFileSystem.** A call maps the file system `fs` and the trees of the host to
those after it; an action is the handler of one message with the call it makes. The
rings are sequences, most recent first: `ToFront` is what the list operations of the
code do to them. A pointer into a list of entries is a position that every refresh,
eviction or deletion moves or clears (`Repoint`), so that a stale one would show. A
node of the host has a version that stands for its size, time and attributes. With
dictionary access (`special`, the flag `OP_SPECIAL`) a directory, or a file that
`fopen` refuses, may be open without a FILE: setting its time stamp flushes all open
files, and the process ends at READ, WRITE or SEEK (`OnStream`, "CRASHED").
`watch` is history: what each search still owes to its caller.

**HostBridge.** One connection of a driver is one step, or two (selection and
transfer) where the interrupt may look at the bus between them. A connection that
breaks off may do so before or after the bridge has acted. The bridge acts only on
opcodes that it dispatches to its own handlers (`load.opcodes`, `Served`); others end
with CHECK CONDITION, on which a driver gives up and leaves the bus held (`Refusal`). It is
modelled with the opcodes that the drivers send, as the names of its handlers say it is meant,
and with those that it registers at this commit. `drive` and `nic` are
what the bridge keeps, each with the request or frame it belongs to. `DI` is two
steps, since an interrupt may come between its two instructions.

**ScsiPrinter.** One command with its data is one step. `age` and `silent` count
ticks since the reservation and since its holder's last command, up to one more
than the timeout. A chunk in the spool file carries who sent it and whether under a
reservation. Computers crash and come back anywhere.

**BusHandshake.** One change of a signal, or one wait that ends, is one step. The
target is slow only between calls of `Process`, for it has disabled the interrupts
inside a handshake; rasdump may be slow or killed anywhere, and starts again with
a reset pulse. Every byte is distinct, so a repeated or lost one is visible. A block
that the device fails to write frees the bus, as `lost_write` shows (`BlockDone`).

**MCPeripherals.** The parts share no state, so a behaviour chooses one of them and
the others stay as they begin: the states are the sum of theirs.

## 3. What the runs show

| Run | States | Question | Properties |
|---|---|---|---|
| `disks` | 82,547 | an ID with one or two disks, all block commands | types; `LinesMatchPhase`, `NoBlockUnderflow`, `CompletesOrExcused`, `StatusTruthful`, `BlocksInOrder`, `CheckHasSense`, `SenseIsLocal`, `BusIsFreed` |
| `other_devices` | 72,087 | DaynaPort, printer, host services, whose commands use the byte transfer and leave the standard paths | the three of them that these commands can affect: `CompletesOrExcused`, `StatusTruthful`, `BusIsFreed` |
| `eviction` | 86,130 | three tracks compete for two slots while serial numbers wrap | `OneSlotPerTrack`, `CleanMatchesFile`, `EvictsLeastRecent`, `ImplementsBlockStore` |
| `peripherals`, files | 47,805 | eight workloads of calls of the host file system, below | `FsTypeOK`, `ListingMatchesHost`, `SearchComplete`, `NoStalePosition`, `SearchKeptWhileFree`, `OutOfMemoryWhenFull` |
| `peripherals`, bridge | 41,098 | requests, packets sent and packets received while connections break off, with a bridge that serves the drivers and with one that refuses them | `ResultsAreOwn`, `PacketsInOrder`, `NetworkRecovers` |
| `peripherals`, printer | 2,312 | three computers, one without an ID, that crash and come back | `JobsNotMixed`, `ReservedDataKept`, `ReservationEnds` |
| `peripherals`, bus | 74,914 | rasdump and a target with kills and timeouts | `TransfersAgree`, `TargetLetsGo` |
| `peripherals`, cache | 2,652 | tracks of two sectors, the last one short, are saved in part | `ImplementsBlockStore` |
| `administration` | 5,281,456 | 20 commands for three places and two images, ejects by an initiator between any two steps | `AttachedAreLive`, `ImageUsedOnce`, `ReservationsMatch`, `OpenImageExists`, `LunZeroExists`, `ReservedIdsUnused` |
| `threads` | 158,210 | nine commands, SIGHUP and SIGTERM against the main loop | `ServedLunZero`, `ServedDevicesStay`, `CommandAnswered` |

Six runs show a place where the code does not do what it says:

* `lost_write`: after a block that could not be written, `XferOutBlockOriented`
  calls `Error` and returns false, on which `Receive` calls `Error` again. The
  second call finds the status phase and frees the bus: the initiator gets no
  status at all.
* `verify_length`: the controller takes 0x2E for VERIFY(10), which is 0x2F. A
  VERIFY(10) of several blocks goes on receiving with a length of 0.
* `leaked_device`: an ATTACH with an illegal vendor, product or revision leaves its
  device in the factory, even in the dry run. The dry run of the next ATTACH at this
  place makes the factory keep a pointer to a deleted device.
* `robbed_file`: a drive whose medium was ejected takes away, when it is detached,
  the reservation that another device has made for the same image since.
* `served_controller`: DETACH_ALL deletes controllers without the mutex, while the
  main loop may be serving one of them.
* `ghost_entry`: the ring operation that keeps the old entries of a directory aside
  does nothing for a ring with one element. The entry of a directory that had a
  single file is still listed after the file has been deleted.

What some of the properties say about the code, and what they except:

* `LunZeroExists`: `ValidateLunSetup` takes every entry of the factory for a device
  (`rascsi.cpp:257`). The device that an ATTACH with an illegal name leaves there
  (`leaked_device`) at LUN 0 makes it accept an ID without LUN 0, until the entry is
  replaced. The proof found this; the commands of `administration` now have such an ATTACH.
* `ListingMatchesHost`: every call that changes a directory releases the cached
  lists it makes wrong. Left out are lists that were kept by the fault of `ghost_entry`, and two
  kinds that a rename keeps (`cfilesystem.cpp:2965`): those at and below the new name, and those
  below the old one when such a kept list still says that it is a file.
* `NoStalePosition`: ids tell lists apart until SetOption restarts
  their counter (`cfilesystem.h:537`). A path that is not on the host takes over a slot of the
  cache with its id, but has no entries: an empty list is no place for a search to go wrong in.
* `SearchComplete`: a search whose own entry has gone falls back on a count and may then skip or
  repeat entries: this is not held against it, nor what it does after the counter of the ids
  restarted or through a list that was kept. The entry has also gone when it is no more what was listed: a
  file that is being written is listed with the size it had, and changes under the search at the
  next refresh without any call for it. The search of a directory with such a file may miss others.
* `ResultsAreOwn`: the drivers ignore status bytes, so a command that the bridge
  refused leaves the result of an earlier one to be fetched (`refused`).
* `NetworkRecovers` assumes a bridge that serves the opcodes of the drivers (`Served`). The
  bridge of this commit does not (section 6): for it the property says what happens
  instead, that `scsistop` is set by the first poll and never cleared, since every
  SCSI_GETPACKETLEN is refused. In both cases a poll between the two instructions of `DI` overwrites the
  register they save. A caller in supervisor mode is then left with its interrupts masked, and
  nothing is polled again (`Stuck`); one that came by a trap has them restored.
* `TransfersAgree`: the wait after an ICD prefix is not looked at
  (`gpiobus.cpp:762`); the byte behind it may then count twice (`icdLate`). In
  the run the commands without data may have a prefix (`IcdKinds`).
* `ReservationEnds`: an expired reservation still refuses everything but RESERVE UNIT,
  so it ends because another initiator keeps trying that command.

### Bounds

* `disks`, `other_devices`: transfers of at most 2 blocks (`MaxBlocks`), so that there is a
  first, a next and a last block; a message buffer of 3 (256 in the code),
  so that its counter wraps; block counts modulo 16 (2^32), more than any
  reachable count, so that an underflow shows. Two LUNs: LUN 1 may be missing, and
  stands for all but LUN 0, which the code treats in a special way. The number of
  connections is not bounded, and sense codes and the CDB stay from one to the next.
* `eviction`: 3 blocks of 1 sector each, so one track more than slots; serials
  modulo 4, so that they wrap between any two uses. The cache of `peripherals`: 3 blocks
  in tracks of 2, one slot, serials modulo 2. Two values per block suffice
  to tell a block that was written from one that was not; the order of evictions
  and the saving of partial tracks are separate concerns of the code, which is why
  there are two instances.
* The files of `peripherals`: two names, paths of at most three, three cached directories
  (16 in the code), two search buffers (20), two FCBs (100), one unit in use out of two. Eight
  `Workloads` choose a tree, calls, keys, directories and a number of calls from 2 to 7:
  a search among files that come and go; directories renamed and removed; more
  directories than the cache holds; a file with everything that is done to an open
  one; more files than FCBs; more searches than buffers; a search over a change of
  options; every call, with units and attributes that lead nowhere. Each has as many
  directories, keys or calls as the case it is named after needs and one more.
* The drivers: four `Loads`: two requests of any kind and a poll, two packets sent
  and a poll, a request amid the reception of two packets, each with one or two
  connections that break off, and two requests or packets sent, of any kind, with the bridge that
  refuses them. Two requests are enough for one to find what the other left. `PollInterval` 1
  and `PollingSleep` 2 are the smallest that differ; one handler (`HandlerMax`).
* The printer: a timeout of 2 ticks, two chunks in the spool file. Three initiators: a
  holder, a rival and one without an ID.
* The bus: CDBs of two bytes, two blocks of one byte, two commands: a first and a last of
  each, and a command before.
* `administration`: two IDs, one of them with two LUNs, two files, at most 3 device
  objects (`MaxDevices`). Files are interchangeable in the code; two are
  needed for an image that is free and one that is not. The commands cover each
  operation, each kind of fault and pairs in which the second fails. An ATTACH
  with no room for its objects is not explored.
* `threads`: two IDs, two LUNs, commands with one or two definitions. Two
  definitions give an ATTACH a state between them; DETACH_ALL has two controllers
  to delete one after the other.

## 4. Fairness

* `ScsiController`: weak fairness of `Process`, since the main loop calls it until
  the phase is busfree, and of `DropAtn`: an initiator ends the message out phase
  at some time. Handshakes need none: `WaitSignal` gives up after three seconds.
  `BusIsFreed` excepts the execute phase, where an unknown sub-command of the
  DaynaPort's SetInterfaceMode leaves the controller.
* `RascsiThreads`: weak fairness of the monitor thread once it has a command, and of
  the signal handler. There is none for clients or initiators, and none for the
  main loop. The mutex is not fair, and the monitor thread looks at `active` only
  twice a second: with a bus that is busy at each look a command waits for ever.
  So `CommandAnswered` assumes that initiators leave the bus alone from some time on.

* `ScsiPrinter`: time passes (`Tick`), and each computer that runs tries RESERVE UNIT again
  and again; both are assumptions about the environment, without which a
  reservation that nobody challenges lasts, as it should.
* `BusHandshake`: weak fairness of the target's steps, since the main loop goes on and each
  wait is bounded, and of rasdump's selection, a loop with a bounded count. None
  for the rest of the initiator: it may hang for ever inside a transfer. A
  foreign initiator that held SEL for ever would keep the target in the selection
  phase; rasdump cannot.
* `HostBridge`: interrupts come; the waits of a connection end, by `BusHandshake`; and the
  bridge frees a bus that was left after its timeout (`TargetLetsGo`). None for
  requests, arriving frames or handlers.

The other modules state safety only.

## 5. What is proved

All theorems hold for every value of the constants that satisfies the named
assumptions of the modules (`DevicesAssumption`, `BoundsAssumption`,
`CacheAssumption`, `ContentsAssumption`, `ThreadsAssumption`, `InitiatorsAssumption`,
`TimeoutAssumption`, `PollingAssumption`, `AdminAssumption`, `BusAssumption`,
`DriveAssumption`, `HostAssumption`): sets of IDs, LUNs, files, trees and commands that fit together, lengths and bounds that are not 0. TLC
checked each invariant on small instances first.

**ScsiController**

* `TypeCorrect`, `BusCorrect`, `NoUnderflow`: `TypeOK`; `LinesMatchPhase` and
  `NoBlockUnderflow`. The handlers nest, so there is one lemma per handler: given
  arguments of the right kind (`Args`; `Held`: BSY is driven unless RST was seen;
  `HasBlocks`: at least one block is left), the handler ends the step in a state
  that satisfies the invariant. `BusInv`, which is both properties together, is
  inductive relative to `TypeOK`. The two are proved together because both rest on
  the same facts about the handlers: which phase a nested call has entered, and
  whether BSY is still driven when it returns.
* `StatusIsTrue`, `BlocksMovedInOrder`, `SenseIsThere`, `ConnectionCompletes`: what the
  initiator is told, from one invariant, `ReportInv`. It says for each phase what
  the handlers before it have left: before a command has come, nothing has failed
  and nothing was moved (`Beginning`); in a transfer the blocks that were moved and
  those that are left make up the CDB's (`Reading`, `Writing`), and no error was met
  (`Clean`), for every error leaves the transfer phases at once; the status is GOOD
  only if this still holds (`Ending`). The sense data are those of the device that
  REQUEST SENSE asks, because the LUN of the connection is the one the error went to.
* `SenseStaysLocal`: `SenseIsLocal`. A step passes the sense data through the handlers it
  nests; each hands them on changed, if at all, at the LUN it was called for (`AskedOnly`), and
  every error of a connection goes to the device the connection is for, or to LUN 0 when
  its LUN is missing (`Aimed`), unless the CDB or a message was cut short.

**DiskCache**

* `CacheCorrect`, `TrackInOneSlot`: `OneSlotPerTrack` and `CleanMatchesFile`, inductive
  with the types (`CacheInv`). An evicted track is saved before its slot is
  reused; if the save fails, its changed sectors are still marked, and the
  sectors that were saved equal the file.
* `LeastRecentEvicted`: with `AgeInv`, which says that a track was
  used after another one unless its stamp is smaller. The stamps are bounded by
  the serial number until that wraps.
* `CacheRefinesStore`: the cache implements `BlockStore`. The
  refinement mapping takes a block's contents from the slot that holds its track,
  or from the file; `CacheInv` makes the choice of the slot irrelevant
  (`MappingFromInv`). Each action has a lemma that names the step of the store it
  implements, or shows a stutter.

**DeviceAdmin**

* `DevicesLive`: `AttachedAreLive`. The inductive invariant is about the objects,
  whatever the command does with them (`WorldOK`): what is attached is live and in
  the factory, it stands at its own place, no two devices have one place, and the factory
  lists every device at most once. `DeleteDevice` runs for devices that were removed from their
  controller or never had one, but the code looks for what to delete by its LUN: so the proof
  needs that a device that was created by a leak and then freed is never attached. An operation
  of the code has a lemma each (`CreateDevice`, `AddDevice`, `RemoveDevice`, `Eject`, ...).
  `Base` adds the types, where a command stands (`Stage`), and that an ATTACH which was
  let begin finds room for its objects (`Room`).
* `ReservedIdsFree`: `ReservedIdsUnused`, from `Base`: RESERVE_IDS refuses IDs in use, ATTACH
  refuses reserved ones, and neither comes between the steps of the other.
* `ReservationsKept`, `ImagesUsedOnce`, `ImagesExist`: one invariant, `Images`. The reservations
  that count are those of the snapshot while the dry run lasts (`Listed`). Every device that is
  open, but for the one between the two steps of INSERT, has its image reserved (`Backed`),
  and each reservation is needed by a device at its place (`Needed`), unless `faults` says otherwise.
  One device per image follows, since a file has one reservation and a place one device; and an
  image exists because DELETE_IMAGE looks at the reservations.
* `LunZero`: `LunZeroExists`. `Zeros` follows an ATTACH through its definitions: a LUN 0 that is not there
  yet is one that the command has still to create (`Pending`), for the dry run has looked at
  all of them; when the command fails before, the ID is `incomplete`.

**RascsiThreads**

* `ThreadsCorrect`: `ServedLunZero`. The invariant `ThreadsInv` adds
  `LockInv` (the mutex is held exactly in the critical sections), `TargetInv` (a
  controller in use that was not deleted is in the map and has a LUN) and
  `CommandInv`. The last is the argument that matters: `Detach` checks before
  it locks that LUN 0 is the last one, and this is still true under the lock
  because no other thread adds a LUN.
* `ServedDevicesKept`: `ServedDevicesStay`, from `LockInv` and `TargetInv`.

**ScsiPrinter**

* `JobsOfOne`, `ReservedDataStay`. No command looks at who sent what is in
  the spool file; what keeps jobs apart is that every change of the holder
  empties it. `PrinterInv` says so: while an initiator with an ID holds the printer all
  chunks are its own (`SpoolOfHolder`), otherwise none is protected (`SpoolOfOthers`);
  and a holder was silent for at least the age of the reservation (`AgeOfHolder`), so that
  one that is taken over has been silent for the timeout.

**HostBridge**

* `PacketsDelivered`: `PacketsInOrder`. The frame in the buffer of the bridge,
  while it is marked, is the last one that was read from the network, and the
  handlers have had earlier ones only (`Buffered`). The poller is about to fetch the
  buffer only when it is marked, although requests, other polls and broken
  connections come between the length and the data.
* `ResultsOwn`: `ResultsAreOwn`. `ResultInv` splits a request by what its next connection is for.
  While it is handed over nothing was received; once the command was written and not
  refused, the bridge holds the result and the data of this request (`Executed`) until
  the request ends, because polls never touch them; and what was received before a connection broke
  is of this request too (`FetchingData`).

**BusHandshake**

* `SidesAgree`: `TransfersAgree`, for commands and blocks of any length and any number of
  commands. A wait of the target that fails dooms the command: from then on the target takes
  no byte, sends no data, and says GOOD no more (`Doomed`). While it is not doomed the two sides are
  in the same phase of the same command or one phase apart (`Meeting`), and their counters differ by
  no more than the byte that is on the bus (`ReadData`, `CommandSent`, `DataSent`). A byte that says
  GOOD therefore vouches for the data of its command on both sides (`Vouched`), wherever it is:
  on the bus, sampled, or stored. The invariant needs that a killed rasdump that starts again
  cannot meet the rest of an old command: its reset pulse has emptied the target's handshake, and
  REQ is seen again only in a phase the target has entered since.

**HostFileSystem**

* `RingsCorrect`, `OutOfMemoryRight`, `SearchKept`: `FsTypeOK`, `OutOfMemoryWhenFull` and
  `SearchKeptWhileFree`, for any history of calls, remounts and changes of the host's trees. The
  invariant, `RingsInv`, is about the three rings (`FsOK`): their sizes never change, no key and no
  cached path occurs twice, and free file control blocks stand behind those in use. An open
  search still has the buffer it was given, and free search buffers stand behind open ones unless
  a lookup with key 0 came between (`Watched`).
* A ring is only ever changed in one of four ways, each with a lemma: an entry goes to the front
  (`RingFronted`), a free one is taken (`RingTaken`), one is freed and goes to the end (`RingFreed`), one
  is changed where it stands (`RingUpdated`). A lookup, with the refreshes, the evictions and
  directories of any depth that it brings, changes the caches, the ids and the pointers of searches but no
  file control block and no search buffer (`LookedUp`). The depth is a recursive function over the
  path (`Descend`); that it is well defined and what it leaves alone is shown by taking the
  least depth at which it would fail.
* Each call then keeps every search and says OUTOFMEM only when the ring is full (`Serving`), except FILES,
  NFILES and DISKREAD, which have a form of their own (`Starts`, `Resumes`, `Reads`): a search
  that disappears before its NFILES has ended it was displaced while no buffer was free, or after a
  lookup with key 0, or all searches were dropped at once by an initialisation.

* `ListingRight`, `PositionsRight`: `ListingMatchesHost` and `NoStalePosition`. Neither is inductive. That a
  call releases all the lists it makes wrong needs that the host has no entry whose directory it has not
  (`Trees`), and that what a list says is right in both directions and for every name once
  (`Listed`, `ListsOf`); both hold through creations, removals and renames of whole subtrees
  (`RenamedRight`). The ids need that no id is above the counter, and that whatever
  search stands in a list that was freed, by path and by id, has an empty list to come back to
  (`Pointed`). Together they are `FsRight`.
* The facts they rest on: there is a sorted sequence of every finite set of names, which `AsciiSort`
  therefore returns (`SortedExists`), and what `Scan` makes of it (`ScanListed`); what a refresh does
  to the list, to its id and to every pointer into it (`RefreshLooks`), and from it what a lookup may do
  to the caches and the searches (`Looks`): no list it leaves is wrong, and no search is left with a
  stale pointer. A call may change the host behind a list only if it
  releases or marks the list (`Distrusted`, `HostRight`); `Upholds` composes the steps of a call.

* `SearchesComplete`: `SearchComplete`, for any calls between the first FILES of a search and the NFILES that
  ends it. Its invariant is `TracksKept`: each search that can be held to what it owes (its entry is on the
  host as it was listed, and no list on its way was kept by one of the two faults) stands at or before the first
  name that it owes, and its entry is in the list of its directory if that is cached and not due for a
  refresh (`Tracked`, `Holds`). Names are sorted, so what is ahead by name is ahead in every list that is right.
* A search may therefore lose its list and come back to another one: by its id, and then it stands in the
  list at its entry (`PositionsRight`), or by its entry, which is listed (`Has`); in both cases NFILES continues at or
  before whatever is owed (`ContinuedAhead`), gives the next entry and owes one less, or gives none and owes
  nothing (`StepOwes`). What has to be shown of every call is that it loses no entry from a list that the host
  has before and after it (`Carried`, a part of `Upholds`), and that it changes no search but its own (`Traced`).
* FILES and NFILES that do not find the directory owe nothing, because it is not there: a lookup of a directory
  that exists arrives unless a list on its way was kept (`FindArrives`, `NothingThere`).

Model-checked only:

* liveness (`BusIsFreed`, `CommandAnswered`, `ReservationEnds`, `TargetLetsGo`,
  `NetworkRecovers`), which is beyond the proof system, as is anything with ENABLED.

## 6. Differences between the code and what it says

Met while modelling. Those of section 3 have a run; these have none:

* `rascsi_interface.proto:51` says that DETACH detaches all LUNs equal to or higher
  than the one given. The code detaches one, and refuses LUN 0 if there are others.
* A device that was stopped cannot be started: START demands a device that is ready
  (`devices/device.cpp:127-143`). Its destructor does not flush the cache then.
* RENAME_IMAGE does not look at the reserved files (`faults.renamed`).
* An eject by an initiator between the snapshot of the reserved files and its
  restoration, or inside INSERT, leaves a reservation behind (`faults.stale`).
* An ATTACH of several devices that fails after the first may leave an ID without
  LUN 0 (`faults.incomplete`). `ValidateLunSetup` then refuses every command for
  devices, DETACH of this very ID included. An entry that `leaked_device` left at LUN 0
  has the opposite effect: an ID that has no LUN 0 is accepted.
* The dry run does not see devices that the same command is about to attach, so the
  same place twice in one ATTACH passes it.
* Reservations are keyed by the path as given; two names of one file are two files.
* `FlushCache` ignores whether the cache could be saved.
* When the cache's serial number wraps, all slots become equally old.
* Controller: a message out phase that is cut leaves `atnmsg` set; REQUEST SENSE with
  allocation length 0 to a missing LUN sends no status; a short CDB without IDENTIFY
  uses the LUN of an earlier one; commands to a missing LUN overwrite the sense data
  of LUN 0; a 257th ATN message makes the controller forget the first 256; `Reset`
  does not clear the shutdown mode.
* File system: the fault of `ghost_entry`; a rename leaves lists at and below the new name, and through the
  stale entry of a file also those below the old one; a path that is not on the host inherits the id of
  the one it evicts (`Clean` does not reset `m_nId`); a file being written makes searches of its directory
  fall back on a count, because its listed size is stale; after a rename, `Close` and the setting of a time stamp clean the list of the
  old directory; `m_bUpdate` is never reset; calls that fail on an open file free its FCB
  but keep the cached size; an FCB that is open without a FILE (`OP_SPECIAL`, `cfilesystem.cpp:2411`) is
  given to `fread`, `fwrite` and `fseek`; a lookup of key 0 (`cfilesystem.cpp:3787`) brings a free search
  buffer to the front, so that the next FILES may displace a running search.
* RASDRV: `FS_Read` ignores that the optional data were not received, and `SCSI_CalCmd` that
  the data were not, and both report success; a lost result is reported as an error that
  the user may retry, which executes the call twice; `FS_Write` never fetches the FCB
  with its new position.
* Bridge and drivers do not fit: the bridge registers the opcodes 0x08 and 0x0A
  (`scsi_host_bridge.cpp:33`), the drivers send 0x28 and 0x2A (`x68k/RASDRV/BRIDGE.C:95`,
  `x68k/RASETHER/scsictl.c:160`). These fall to `Disk`, which refuses them for a block that the
  bridge does not have. So every request that RASDRV sends ends as "media offline", and no poll of RASETHER
  ever succeeds (`NetworkRecovers`).
* RASETHER: `AddList` never replaces a handler and `DeleteList` never finds one, because
  both compare the function `malloc` with -1 (`x68k/RASETHER/main.c:190`): reception is never switched off.
  Whether the data of a packet that is sent reach the bridge is not looked at. The
  driver never resets a bus that is held.
* Printer: STOP PRINT does nothing, although a comment says that printing can be
  cancelled; a partial write leaves bytes that the retry repeats; after an expiry and a
  takeover the old holder's data are gone without a word; a bus reset keeps the reservation;
  computers without an ID share one.
* rasdump takes any count above 0 for a success, ignores the value of the status, and does not
  check the result of the remainder block (`rasdump.cpp:976`). When the last ACK is late the
  initiator counts one byte more than the target. A reset pulse of 1 ms may be missed
  between two calls of `Process`.
* SHUT_DOWN and the information commands do not wait until the bus is idle. Three
  refusals in `MonThread` (`rascsi.cpp:1224`, `1241`, `1248`) do not close the socket.

## 7. What is not modelled

* **Host file system**: the conversion of names between Human68k and the host, wildcards, the folding
  of case, free space, the text of volume labels; write protected and offline drives,
  which no code sets up; two units whose base paths overlap (their caches are
  independent, so each may be stale for what the other changes).
* **Bridge and drivers**: the messages for MAC addresses, the combined packet messages that no driver
  uses, the loading of the drivers, the TAP device's set-up: what is read from it is a sequence of frames.
* **rasdump**: the image file and the output; **scsimon, rasutil**.
* A SIGHUP that ends the serving of a connection in the middle of a transfer (`rascsi.cpp:1549`).
* **Responses, protocol buffers, localisation, dispatch tables**: formatting, or no state.
* **rasctl and the Python programs**: clients that send remote commands.
* Of modelled components: data (mode pages, INQUIRY, geometry, contents of packets,
  names), timing, GPIO registers, argument parsing, folders and permissions of images,
  synchronous transfer (never enabled), RST seen inside a handler other than `Error`
  (the next `Process` sees it).
* PROTECT, UNPROTECT and START change nothing that `DeviceAdmin` has.

## 8. Plan

Done, in this order: `ScsiController` with its proofs, `DiskCache` and `BlockStore` with
the refinement proof, `DeviceAdmin`, `RascsiThreads` with its proofs, `HostDrive` and
`HostFileSystem`, `ScsiPrinter` with its proofs, `BusHandshake`, `HostBridge` with its proofs; then
the proofs about `DeviceAdmin` and `BusHandshake`, the rest of those about `ScsiController`, and the
proofs about the rings, the listings, the ids and the searches of `HostFileSystem`.

All safety and action properties that the passing runs check are proved; what is left to TLC is liveness.

Next:

1. A medium's life: ready, stopped, removed, locked of a disk, `FlushCache` and the cache
   over `BlockStore`, for commands of initiators and unlocked remote commands
   (`rascsi.cpp:797`). A GOOD SYNCHRONIZE CACHE should mean that the blocks are in the file.

------------------------------ MODULE HostBridge ------------------------------
(***************************************************************************)
(* The X68000 drivers and the bridge they share (scsi_host_bridge.cpp).    *)
(* The file system driver (x68k/RASDRV/BRIDGE.C) makes a request in        *)
(* several connections: the command, its result, its data. The Ethernet    *)
(* driver (x68k/RASETHER) polls for packets from an interrupt, which may   *)
(* come between any two of them, and sends packets with the interrupts     *)
(* masked.                                                                 *)
(*                                                                         *)
(* A connection may break off before or after the bridge has acted; the    *)
(* bus is then held until the bridge gives up or the bus is reset. Another *)
(* reset can do no more harm: the bridge keeps nothing that it clears. A   *)
(* request is its number, and so is what the bridge has computed for it.   *)
(* What the file system makes of a request is in HostFileSystem.           *)
(***************************************************************************)
EXTENDS Integers, SequencesExt

CONSTANTS
  PollInterval, (* poll_interval: interrupts from one poll to the next      *)
  PollingSleep, (* POLLING_SLEEP: the same, once the bridge did not answer  *)
  HandlerMax,   (* NPRT: receive handlers                                   *)
  Loads         (* the opcodes that the bridge dispatches to its handlers;  *)
                (* intr_type; bounds: kinds, of requests and of ways to     *)
                (* send; how many of these, of frames that arrive, and of   *)
                (* connections that break off                               *)

ASSUME PollingAssumption ==
  PollInterval \in Nat \ {0} /\ PollingSleep \in Nat \ {0} /\ HandlerMax \in Nat \ {0}

VARIABLES
  link,   (* the SCSI bus: "free" or "held" *)
  drive,  (* the bridge: fsresult, fsout, fsopt, each with the request it is of *)
  nic,    (* the bridge: packet, the frame in packet_buf (0: packet_len is 0), *)
          (* and enable, packet_enable                                         *)
  tap,    (* the frames: how many have arrived and were read; mine, history:   *)
          (* those that were put in packet_buf                                 *)
  call,   (* what runs on the X68000: a request of RASDRV, a SendPacket        *)
  poller, (* IntProcess, over it *)
  cpu,    (* are interrupts masked in the status register and in sendp_sr;     *)
          (* torn, history: a poll came between the two instructions of DI     *)
  net,    (* RASETHER: imr, scsistop, intr_type, poll_current, idle, num_of_prt *)
  answer, (* the request just answered *)
  got,    (* the packets the handlers were given *)
  lost,   (* history: packets whose transfer broke off                         *)
  load,   (* the opcodes and the bounds of this behaviour *)
  fails   (* connections that broke off *)

bridgeVars == <<link, drive, nic, tap, call, poller, cpu, net, answer, got, lost, load, fails>>

driverState == <<call, poller, cpu, net, answer>>

Fail == fails < load.fails /\ fails' = fails + 1
Fine == UNCHANGED fails

(* A connection that went well, or whose status or message byte was not     *)
(* received, which the Ethernet driver does not look at.                    *)
Connected == (Fine /\ link' = "free") \/ (Fail /\ link' = "held")

(* Not selected, or broken off before the bridge has acted.                 *)
NotConnected == Fail /\ link' \in {"free", "held"}

BrokenOff == Fail /\ link' = "held"

(* The drivers send READ(10) and WRITE(10). The bridge acts on them only if *)
(* they are registered with its dispatcher: otherwise they are commands of  *)
(* Disk, for a block that the bridge does not have, and end with CHECK      *)
(* CONDITION before any data. A driver that receives data or looks at the   *)
(* sending of its data gives up, and leaves the bridge with its status.     *)
DriverOpcodes == {40, 42}
Served == DriverOpcodes \subseteq load.opcodes
Refusal == ~Served /\ Fine /\ link' = "held"

-----------------------------------------------------------------------------
(* The requests of RASDRV.                                                 *)

(* The connections of a command, and those before and behind it.            *)
SendCmd == <<"command", "result">>
CalCmd == <<"command", "result", "out">>
WriteOpt == "data"
ReadOpt == "opt"

(* The connections of the requests on names, on a search or an open file,   *)
(* of FS_Read and FS_Write, and of those that are answered on the host.     *)
OnName == SendCmd
OnKey == CalCmd
OnRead == <<"command", "result", "out", ReadOpt>>
OnWrite == <<WriteOpt, "command", "result">>
OnHost == <<>>

ConnectionsOf ==
  [name |-> OnName, key |-> OnKey, read |-> OnRead, write |-> OnWrite, local |-> OnHost]

NoRequest == [of |-> 0, value |-> 0, used |-> 0]
MEDIAOFFLINE == [of |-> 0, value |-> -1, used |-> 0]

Idle(n) ==
  [at |-> "idle", of |-> n, kind |-> "none", todo |-> <<>>, ret |-> NoRequest, out |-> 0, opt |-> 0,
   refused |-> FALSE, broken |-> FALSE, masked |-> FALSE]

Ready == poller = "none" /\ UNCHANGED <<poller, cpu, net, tap, nic, got, lost>>

(* ExecuteCommand. *)
ExecuteCommand(kind) ==
  /\ Ready /\ call.at = "idle" /\ call.of < load.requests /\ kind \in load.kinds
  /\ call' = [Idle(call.of + 1) EXCEPT !.at = "select", !.kind = kind, !.todo = ConnectionsOf[kind]]
  /\ answer' = Idle(0)
  /\ UNCHANGED <<link, drive, fails>>

GoesOn == [call EXCEPT !.at = "select", !.todo = Tail(@)]

(* Given up: the bridge counts as offline. A result that has been received  *)
(* stands, and FS_Read goes on with it.                                     *)
GivenUp ==
  [GoesOn EXCEPT !.broken = TRUE,
     !.todo = IF Head(call.todo) = "out" THEN @ ELSE <<>>,
     !.ret = IF Head(call.todo) \in {"out", ReadOpt} THEN @ ELSE MEDIAOFFLINE]

(* S_SELECT, and once more behind S_RESET, which frees a bus that is held.  *)
SelectBridge ==
  /\ Ready /\ call.at = "select" /\ call.todo # <<>>
  /\ \/ Fine /\ link' = "held" /\ call' = [call EXCEPT !.at = "transfer"]
     \/ Fail /\ link' = "free" /\ call' = GivenUp
  /\ UNCHANGED <<drive, answer>>

(* WriteFs, or WriteFsOpt. *)
WriteDrive ==
  IF Head(call.todo) = WriteOpt
  THEN drive' = [drive EXCEPT !.opt = call.of]
  ELSE \E value \in IF call.kind = "read" THEN {-1, 0, 1} ELSE {-1, 0} :
         drive' = [result |-> [of |-> call.of, value |-> value, used |-> drive.opt],
                   out |-> IF call.kind = "name" THEN 0 ELSE call.of,
                   opt |-> IF value = 1 THEN call.of ELSE drive.opt]

Transferring(what) ==
  Ready /\ call.at = "transfer" /\ Head(call.todo) \in what /\ UNCHANGED answer

(* Mutant of WriteConnection: what S_DATAOUT_P returns is not looked at.    *)
WriteConnectionUnchecked ==
  /\ Transferring({"command", WriteOpt})
  /\ \/ Served /\ Fine /\ link' = "free" /\ WriteDrive /\ call' = GoesOn
     \/ BrokenOff /\ ((Served /\ WriteDrive) \/ UNCHANGED drive) /\ call' = GoesOn
     \/ Refusal /\ UNCHANGED drive /\ call' = GoesOn

(* A command or its data are written. The status byte is not looked at:     *)
(* when the bridge refuses what it has received, the request goes on.       *)
WriteConnection ==
  /\ Transferring({"command", WriteOpt})
  /\ \/ /\ Served /\ link' = "free"
        /\ \/ Fine /\ WriteDrive /\ call' = GoesOn
           \/ Fail /\ UNCHANGED drive /\ call' = [GoesOn EXCEPT !.refused = TRUE]
     \/ BrokenOff /\ ((Served /\ WriteDrive) \/ UNCHANGED drive) /\ call' = GivenUp
     \/ Refusal /\ UNCHANGED drive /\ call' = GivenUp

(* What is left to do once the result is known: no data behind an error, no *)
(* optional data when FS_Read has read nothing.                             *)
Remaining(todo, value) ==
  CASE value < 0 -> <<>>
    [] value = 0 /\ todo = <<"out", ReadOpt>> -> <<"out">>
    [] OTHER -> todo

(* The bridge refuses to send data it does not have: the last command it    *)
(* has executed was another one.                                            *)
NoOutData == Head(call.todo) = "out" /\ drive.out = 0

(* ReadFsResult, ReadFsOut or ReadFsOpt, for a command that was served.     *)
ReadConnection ==
  /\ Transferring({"result", "out", ReadOpt})
  /\ UNCHANGED drive
  /\ \/ /\ Fine /\ ~NoOutData /\ link' = "free"
        /\ call' = CASE Head(call.todo) = "result" ->
                          [GoesOn EXCEPT !.ret = drive.result,
                                         !.todo = Remaining(@, drive.result.value)]
                     [] Head(call.todo) = "out" -> [GoesOn EXCEPT !.out = drive.out]
                     [] OTHER -> [GoesOn EXCEPT !.opt = drive.opt]
     \/ Fine /\ NoOutData /\ link' = "free" /\ call' = GivenUp
     \/ BrokenOff /\ call' = GivenUp

(* A handler passes no data on behind an error.                             *)
PassedOn(c) == IF c.ret.value < 0 THEN [c EXCEPT !.out = 0] ELSE c

SetResult ==
  /\ Ready /\ call.at = "select" /\ call.todo = <<>>
  /\ answer' = PassedOn(call) /\ call' = Idle(call.of)
  /\ UNCHANGED <<link, drive, fails>>

-----------------------------------------------------------------------------
(* The packets.                                                            *)

FramePending == tap.read < tap.arrived

(* Mutant of ReceivePacket: a packet that was not fetched is overwritten.   *)
ReceivePacketAlways ==
  IF ~FramePending
  THEN nic' = [nic EXCEPT !.packet = 0] /\ UNCHANGED tap
  ELSE \E mine \in BOOLEAN :
         /\ nic' = [packet |-> IF mine THEN tap.read + 1 ELSE 0, enable |-> mine]
         /\ tap' = [tap EXCEPT !.read = @ + 1, !.mine = IF mine THEN @ \cup {tap.read + 1} ELSE @]

(* A frame for another address, or too long, is dropped.                    *)
ReceivePacket ==
  IF nic.enable THEN UNCHANGED <<nic, tap>>
  ELSE IF ~FramePending THEN nic' = [nic EXCEPT !.packet = 0] /\ UNCHANGED tap
  ELSE \E mine \in BOOLEAN :
         /\ nic' = [packet |-> IF mine THEN tap.read + 1 ELSE 0, enable |-> mine]
         /\ tap' = [tap EXCEPT !.read = @ + 1, !.mine = IF mine THEN @ \cup {tap.read + 1} ELSE @]

GetPacketBuf == nic' = [nic EXCEPT !.enable = FALSE]

(* UpdateIntProcess: nothing happens when the interval is the same.         *)
UpdateIntProcess(n, interval) ==
  IF n.poll = interval THEN n ELSE [n EXCEPT !.poll = interval, !.idle = 0]

(* The interrupt comes, in the middle of what runs. It is skipped while an  *)
(* IOCS call is executed, and when the bus is not free. The EI of IntProcess *)
(* restores the mask it runs under, and sendp_sr keeps it.                  *)
IntProcess ==
  /\ poller = "none" /\ ~cpu.masked
  /\ LET waits == net.type = 0 /\ net.idle + 1 < net.poll
         skips == net.imr = 0 \/ call.at = "transfer"
     IN /\ net' = [net EXCEPT !.idle = IF waits THEN @ + 1 ELSE IF net.type = 0 THEN 0 ELSE @]
        /\ poller' = IF waits \/ skips \/ link = "held" THEN "none" ELSE "length"
        /\ cpu' = IF waits \/ skips THEN cpu
                  ELSE [cpu EXCEPT !.saved = TRUE, !.torn = @ \/ call.at = "mask"]
  /\ UNCHANGED <<link, drive, nic, tap, call, answer, got, lost, fails>>

(* SCSI_GETPACKETLEN, and what IntProcess makes of it.                      *)
GetPacketLen ==
  /\ poller = "length"
  /\ \/ /\ Served /\ Connected /\ ReceivePacket
        /\ net' = IF net.stop THEN UpdateIntProcess([net EXCEPT !.stop = FALSE], PollInterval) ELSE net
        /\ poller' = IF nic'.packet = 0 THEN "none" ELSE "buffer"
     \/ /\ \/ (NotConnected \/ Refusal) /\ UNCHANGED <<nic, tap>>
           \/ Served /\ BrokenOff /\ ReceivePacket
        /\ net' = UpdateIntProcess([net EXCEPT !.stop = TRUE], PollingSleep)
        /\ poller' = "none"
  /\ UNCHANGED <<drive, call, cpu, answer, got, lost>>

(* SCSI_GETPACKETBUF, when SCSI_GETPACKETLEN has been served.               *)
FetchPacket ==
  /\ poller = "buffer"
  /\ \/ /\ link = "free" /\ Connected /\ GetPacketBuf
        /\ got' = Append(got, nic.packet) /\ poller' = "handlers" /\ UNCHANGED lost
     \/ /\ (link = "free" /\ NotConnected) \/ (link = "held" /\ UNCHANGED <<link, fails>>)
        /\ poller' = "none" /\ UNCHANGED <<nic, got, lost>>
     \/ /\ link = "free" /\ BrokenOff /\ GetPacketBuf
        /\ lost' = lost \cup {nic.packet} /\ poller' = "none" /\ UNCHANGED got
  /\ UNCHANGED <<drive, tap, call, cpu, net, answer>>

(* SCSI_SENDPACKET. Whether the data reach the bridge is not looked at, and *)
(* status and message are received also from a bridge that refuses it.      *)
SendConnection ==
  \/ link = "free" /\ (Connected \/ NotConnected)
  \/ link = "held" /\ UNCHANGED <<link, fails>>

(* The handlers, which may answer a packet with one of theirs.              *)
Handlers ==
  /\ poller = "handlers" /\ poller' = "none"
  /\ UNCHANGED <<link, fails>> \/ SendConnection
  /\ UNCHANGED <<drive, nic, tap, call, cpu, net, answer, got, lost>>

-----------------------------------------------------------------------------
(* The sending of packets, by a trap or by a call in supervisor mode.       *)

Sending(at) ==
  /\ poller = "none" /\ call.at = at
  /\ UNCHANGED <<drive, nic, tap, poller, net, answer, got, lost>>

SendPacket(how) ==
  /\ Sending("idle") /\ ~net.stop /\ call.of < load.requests /\ how \in load.kinds
  /\ call' = [Idle(call.of + 1) EXCEPT !.at = "save", !.kind = how, !.masked = cpu.masked]
  /\ UNCHANGED <<link, cpu, fails>>

(* Mutant of SaveMask: DI does not save the status register. *)
SaveMaskNot ==
  /\ Sending("save")
  /\ call' = [call EXCEPT !.at = "mask"]
  /\ UNCHANGED <<link, cpu, fails>>

(* DI: move.w sr,sendp_sr. *)
SaveMask ==
  /\ Sending("save")
  /\ cpu' = [cpu EXCEPT !.saved = cpu.masked, !.torn = @ /\ cpu.masked] /\ call' = [call EXCEPT !.at = "mask"]
  /\ UNCHANGED <<link, fails>>

(* DI: ori.w #$700,sr. *)
Mask ==
  /\ Sending("mask")
  /\ cpu' = [cpu EXCEPT !.masked = TRUE] /\ call' = [call EXCEPT !.at = "send"]
  /\ UNCHANGED <<link, fails>>

Send ==
  /\ Sending("send") /\ SendConnection
  /\ call' = [call EXCEPT !.at = "unmask"]
  /\ UNCHANGED cpu

(* EI, and the return: the one from a trap restores the register as well.   *)
Unmask ==
  /\ Sending("unmask")
  /\ cpu' = [cpu EXCEPT !.masked = IF call.kind = "trap" THEN call.masked ELSE cpu.saved]
  /\ call' = Idle(call.of)
  /\ UNCHANGED <<link, fails>>

(* AddList: it never finds the handler to replace, because it compares      *)
(* malloc with what it always is; for the same reason DeleteList finds none *)
(* to delete. The first handler has packets received.                       *)
AddList ==
  /\ poller = "none" /\ call.at = "idle"
  /\ net.handlers < HandlerMax
  /\ net' = [net EXCEPT !.handlers = @ + 1, !.imr = IF net.handlers = 0 THEN 1 ELSE @]
  /\ UNCHANGED <<link, drive, nic, tap, call, poller, cpu, answer, got, lost, fails>>

-----------------------------------------------------------------------------
Arrive ==
  /\ tap.arrived < load.packets /\ tap' = [tap EXCEPT !.arrived = @ + 1]
  /\ UNCHANGED <<link, drive, nic, driverState, got, lost, fails>>

(* The bridge gives up a connection that the driver has left.               *)
BridgeFrees ==
  /\ link = "held" /\ call.at # "transfer" /\ link' = "free"
  /\ UNCHANGED <<drive, nic, tap, driverState, got, lost, fails>>

BridgeInit ==
  /\ link = "free"
  /\ drive = [result |-> NoRequest, out |-> 0, opt |-> 0]
  /\ nic = [packet |-> 0, enable |-> FALSE]
  /\ tap = [arrived |-> 0, read |-> 0, mine |-> {}]
  /\ call = Idle(0) /\ answer = Idle(0)
  /\ poller = "none"
  /\ cpu = [masked |-> FALSE, saved |-> FALSE, torn |-> FALSE]
  /\ load \in Loads
  /\ net = [imr |-> 0, stop |-> FALSE, type |-> load.type, poll |-> PollInterval, idle |-> 0,
            handlers |-> 0]
  /\ got = <<>> /\ lost = {} /\ fails = 0

DriveStep == SelectBridge \/ WriteConnection \/ ReadConnection \/ SetResult
SendStep == SaveMask \/ Mask \/ Send \/ Unmask
PollStep == GetPacketLen \/ FetchPacket \/ Handlers

BridgeActs ==
  \/ \E kind \in DOMAIN ConnectionsOf : ExecuteCommand(kind)
  \/ DriveStep
  \/ \E how \in {"trap", "call"} : SendPacket(how)
  \/ SendStep
  \/ AddList
  \/ IntProcess
  \/ PollStep
  \/ Arrive
  \/ BridgeFrees

BridgeNext == BridgeActs /\ UNCHANGED load

(* Interrupts come, every wait of a connection ends (see BusHandshake), and *)
(* the bridge frees the bus after a timeout.                                *)
BridgeFairStep(step) ==
  /\ UNCHANGED load
  /\ \/ step = "poll" /\ IntProcess
     \/ step = "fetch" /\ PollStep
     \/ step = "request" /\ DriveStep
     \/ step = "send" /\ SendStep
     \/ step = "free" /\ BridgeFrees

BridgeFairness ==
  \A step \in {"poll", "fetch", "request", "send", "free"} : WF_bridgeVars(BridgeFairStep(step))

BridgeSpec == BridgeInit /\ [][BridgeNext]_bridgeVars /\ BridgeFairness

-----------------------------------------------------------------------------
(* A result and the data that RASDRV passes on are those of its request,    *)
(* and a file is written with the data of the request, whatever the polls   *)
(* and the requests before it have left in the bridge: unless the bridge    *)
(* has refused a connection, or data behind the result were not received    *)
(* (x68k/RASDRV/BRIDGE.C, SCSI_SendCmd and SCSI_CalCmd).                    *)
ResultsAreOwn ==
  (answer.kind \notin {"none", "local"} /\ answer.ret # MEDIAOFFLINE /\ ~answer.refused) =>
    /\ answer.ret.of = answer.of
    /\ answer.kind = "write" => answer.ret.used = answer.of
    /\ answer.out \in {0, answer.of} /\ answer.opt \in {0, answer.of}
    /\ (answer.kind \in {"key", "read"} /\ answer.ret.value >= 0 /\ ~answer.broken) =>
         answer.out = answer.of
    /\ (answer.kind = "read" /\ answer.ret.value > 0 /\ ~answer.broken) => answer.opt = answer.of

(* The handlers get the packets in order and once, and miss only one whose  *)
(* transfer broke off behind the command: one whose length could not be     *)
(* read is offered again (scsictl.c, IntProcess; scsi_host_bridge.cpp,      *)
(* ReceivePacket).                                                          *)
PacketsInOrder ==
  /\ \A i, j \in DOMAIN got : i < j => got[i] < got[j]
  /\ \A p \in tap.mine : p \in Range(got) \/ p \in lost \/ (nic.enable /\ nic.packet = p)

(* While packets are received from a bridge that serves the drivers, every  *)
(* frame is fetched in the end and the driver notices that the bridge       *)
(* answers again, unless a poll between the two instructions of DI leaves a *)
(* caller with its interrupts masked. A bridge that does not dispatch the   *)
(* opcodes of the drivers, as at this commit, counts as stopped for good    *)
(* from the first poll on, with the same exception (x68k/RASETHER/asmsub.s, *)
(* scsictl.c, IntProcess; scsi_host_bridge.cpp, Dispatch).                  *)
Stuck == cpu.masked /\ cpu.torn /\ call.at = "idle"
NetworkRecovers ==
  /\ (Served /\ net.imr = 1 /\ (net.stop \/ nic.enable \/ FramePending)) ~>
       (Stuck \/ (~net.stop /\ ~nic.enable /\ ~FramePending))
  /\ (~Served /\ net.imr = 1) ~> (Stuck \/ []net.stop)

=============================================================================

--------------------------- MODULE ScsiController ---------------------------
(***************************************************************************)
(* The target side of one SCSI connection: the phase machine of            *)
(* controllers/scsi_controller.cpp. The main loop of rascsi calls          *)
(* Process() again and again while it holds ctrl_mutex; every call is one  *)
(* step here, with all the handlers it calls nested in it (a phase handler *)
(* that fails calls Error, which enters the status phase or frees the bus, *)
(* and then returns into its caller, which goes on).                       *)
(*                                                                         *)
(* The initiator is the environment. It picks the LUN, the messages and    *)
(* the CDBs, keeps or drops ATN, stops in the middle of a handshake (all   *)
(* handshakes give up after 3 seconds, then return fewer bytes), and       *)
(* asserts RST at any time: Process looks at RST when it starts, and Error *)
(* looks at it again.                                                      *)
(*                                                                         *)
(* The devices are abstracted to what a command can make the controller do *)
(* (Responses). Handlers are written over a controller record c, the       *)
(* history k of the connection and the sense codes s, because they nest.   *)
(***************************************************************************)
EXTENDS Integers, Sequences

CONSTANTS
  Luns,        (* LUN numbers an initiator may address, attached or not     *)
  DeviceMaps,  (* the device types attached to this ID, per LUN             *)
  Operations,  (* classes of commands the initiator sends                   *)
  MaxBlocks,   (* bound: blocks of one transfer (a byte or two in the CDB)  *)
  MsbSize,     (* size of the ATN message buffer, 256 in scsi_t             *)
  Modulus      (* 2^32, the block count is a uint32_t                       *)

Kinds == {"disk", "daynaport", "printer", "hostservices"}

(* "write" is WRITE and VERIFY(16), which writes as well. "datain" is any   *)
(* other command that returns data, "nodata" one that transfers nothing.    *)
AllOperations ==
  {"read", "write", "verify10", "modeselect", "datain", "inquiry",
   "nodata", "sense", "packet", "setif", "print", "shutdown"}

(* rascsi.cpp, ValidateLunSetup: an ID in use has a LUN 0.                  *)
ASSUME DevicesAssumption ==
  /\ Luns \subseteq 0..31
  /\ \A m \in DeviceMaps :
       /\ DOMAIN m \subseteq Luns
       /\ 0 \in DOMAIN m
       /\ \A l \in DOMAIN m : m[l] \in Kinds

ASSUME BoundsAssumption ==
  /\ MaxBlocks \in Nat \ {0}
  /\ Modulus \in Nat /\ MaxBlocks < Modulus
  /\ MsbSize \in Nat \ {0}
  /\ Operations \subseteq AllOperations

VARIABLES
  ctrl,     (* the members of ScsiController and its ctrl_t and scsi_t      *)
  devices,  (* ctrl.luns: the type of the device at every attached LUN      *)
  sense,    (* the status_code of each of these devices                     *)
  bus,      (* BSY, MSG, C/D and I/O as this target drives them             *)
  atn,      (* ATN as the initiator drives it (until the message out phase  *)
            (* is over: nobody looks at it later)                           *)
  running,  (* false once BusFree has executed exit(0)                      *)
  conn      (* history of the connection, as its initiator saw it           *)

vars == <<ctrl, devices, sense, bus, atn, running, conn>>

(***************************************************************************)
(* Types                                                                   *)
(***************************************************************************)

None == -1

Phases == {"busfree", "selection", "msgout", "command", "execute",
           "datain", "dataout", "status", "msgin"}

(* count: blocks to read, write or verify; for other operations 0 when the  *)
(* allocation or parameter length is 0.                                     *)
BlockOperations == {"read", "write", "verify10"}

NoCdb(lun) == [op |-> "none", lun |-> lun, count |-> 0]

Cdb ==
  {cdb \in [op : Operations, lun : Luns, count : 0..MaxBlocks] :
     cdb.op \in BlockOperations \/ cdb.count <= 1}

(* Message codes. IDENTIFY carries the LUN in its lower five bits.          *)
EXTENDED == 1
ABORT == 6
NOP == 8
DEVICE_RESET == 12
IDENTIFY == 128

Messages == {EXTENDED, ABORT, NOP, DEVICE_RESET} \cup {IDENTIFY + l : l \in Luns}

MessageBuffer ==
  [msc : 0..(MsbSize - 1), stop : {0, EXTENDED, ABORT, DEVICE_RESET},
   lun : Luns \cup {None}]

NoMessages == [msc |-> 0, stop |-> 0, lun |-> None]

UInt32 == 0..(Modulus - 1)

SenseCodes == {"NO SENSE", "SENSE DATA"}

(* length: 1 while bytes of the current block remain to be moved, else 0.   *)
(* next: next block to read or write, counted from the first of the CDB.    *)
Controller ==
  [phase : Phases, status : {"GOOD", "CHECK CONDITION"}, cmd : Cdb \cup {NoCdb(l) : l \in Luns},
   blocks : UInt32, length : {0, 1}, next : Nat,
   identified_lun : Luns \cup {None}, atnmsg : BOOLEAN, msb : MessageBuffer,
   is_byte_transfer : BOOLEAN,
   shutdown_mode : {"NONE", "STOP_RASCSI", "STOP_PI"}]

Lines == [bsy : BOOLEAN, msg : BOOLEAN, cd : BOOLEAN, io : BOOLEAN]

(* lun: the LUN the command addresses. status, complete: what has been      *)
(* delivered. moved: numbers of the blocks delivered or written, in order.  *)
(* failed: a device reported an error. lost: the error came while data was  *)
(* written. cut: a handshake ended early in some phase. aborted: an ABORT   *)
(* or BUS DEVICE RESET message was obeyed. reset: RST was seen.             *)
Connection ==
  [lun : Luns, status : {"NONE", "GOOD", "CHECK CONDITION"},
   complete : BOOLEAN, moved : Seq(Nat), failed : BOOLEAN, lost : BOOLEAN,
   cut : SUBSET Phases, aborted : BOOLEAN, reset : BOOLEAN]

TypeOK ==
  /\ ctrl \in Controller
  /\ devices \in DeviceMaps
  /\ sense \in [DOMAIN devices -> SenseCodes]
  /\ bus \in Lines
  /\ atn \in BOOLEAN
  /\ running \in BOOLEAN
  /\ conn \in Connection

(***************************************************************************)
(* The bus lines                                                           *)
(***************************************************************************)

Idle == [bsy |-> FALSE, msg |-> FALSE, cd |-> FALSE, io |-> FALSE]

(* The SetMSG, SetCD and SetIO calls at the start of a phase. They reach    *)
(* the bus only while BSY is asserted: SetBSY(false) and Reset turn the     *)
(* pins of all target signals into inputs.                                  *)
Drive(b, phase) ==
  IF b.bsy
  THEN [bsy |-> TRUE, msg |-> phase \in {"msgout", "msgin"},
        cd |-> phase \in {"command", "status", "msgout", "msgin"},
        io |-> phase \in {"datain", "status", "msgin"}]
  ELSE b

(***************************************************************************)
(* Handlers that finish a call of Process. Each gives every variable but   *)
(* devices its next value.                                                 *)
(***************************************************************************)

Continue(c, k, s, b) ==
  /\ ctrl' = c
  /\ conn' = k
  /\ sense' = s
  /\ bus' = b
  /\ UNCHANGED <<devices, running>>

ResetController(c) ==
  [c EXCEPT !.phase = "busfree", !.status = "GOOD", !.blocks = 0, !.next = 0,
            !.length = 0, !.identified_lun = None, !.atnmsg = FALSE,
            !.msb = NoMessages, !.is_byte_transfer = FALSE]

(* Reset() and bus->Reset(). Neither touches shutdown_mode, nor the status  *)
(* codes of the devices.                                                    *)
Reset(c, k, s) ==
  Continue(ResetController(c), [k EXCEPT !.reset = TRUE], s, Idle)

(* BusFree(), called in any other phase. exit(0) ends the process.          *)
BusFree(c, k, s) ==
  /\ ctrl' = [c EXCEPT !.phase = "busfree", !.status = "GOOD",
                       !.atnmsg = FALSE, !.identified_lun = None,
                       !.is_byte_transfer = FALSE]
  /\ conn' = k
  /\ sense' = s
  /\ bus' = Idle
  /\ running' = (c.shutdown_mode # "STOP_RASCSI")
  /\ UNCHANGED devices

(* Mutants of ToStatus: blocks or the status byte not set.                  *)
ToStatusKeepBlocks(c, status) ==
  [c EXCEPT !.phase = "status", !.status = status, !.length = 1]

ToStatusKeepStatus(c, status) ==
  [c EXCEPT !.phase = "status", !.length = 1, !.blocks = 1]

(* Status(), DataIn(), DataOut() and MsgIn(), called in any other phase.    *)
ToStatus(c, status) ==
  [c EXCEPT !.phase = "status", !.status = status, !.length = 1, !.blocks = 1]

EnterStatus(c, k, s, b) ==
  Continue(ToStatus(c, c.status), k, s, Drive(b, "status"))

EnterDataIn(c, k, s, b) ==
  Continue([c EXCEPT !.phase = "datain"], k, s, Drive(b, "datain"))

EnterDataOut(c, k, s, b) ==
  Continue([c EXCEPT !.phase = "dataout"], k, s, Drive(b, "dataout"))

(* Mutant of EnterMsgIn: the lines keep the previous phase.                 *)
EnterMsgInSilently(c, k, s, b) ==
  Continue([c EXCEPT !.phase = "msgin", !.length = 1, !.blocks = 1], k, s, b)

EnterMsgIn(c, k, s, b) ==
  Continue([c EXCEPT !.phase = "msgin", !.length = 1, !.blocks = 1],
           k, s, Drive(b, "msgin"))

(***************************************************************************)
(* LUNs and errors                                                         *)
(***************************************************************************)

GetEffectiveLun(c) ==
  IF c.identified_lun # None THEN c.identified_lun ELSE c.cmd.lun

HasDeviceForLun(l) == l \in DOMAIN devices

(* Mutant of ErrorLun: an IDENTIFY message is ignored.                      *)
ErrorLunOfCdb(c, asc) ==
  IF HasDeviceForLun(c.cmd.lun) /\ asc # "INVALID LUN" THEN c.cmd.lun ELSE 0

(* The LUN whose device keeps the sense data of an error. Of these data it  *)
(* only matters that they are there, of the sense code (asc) which LUN it   *)
(* makes Error choose.                                                      *)
ErrorLun(c, asc) ==
  IF HasDeviceForLun(GetEffectiveLun(c)) /\ asc # "INVALID LUN"
  THEN GetEffectiveLun(c) ELSE 0

(* Mutant of SetSense: an invalid LUN leaves no sense data.                 *)
SetSenseIfValid(c, s, asc) ==
  IF asc = "INVALID LUN" THEN s ELSE [s EXCEPT ![ErrorLun(c, asc)] = "SENSE DATA"]

SetSense(c, s, asc) == [s EXCEPT ![ErrorLun(c, asc)] = "SENSE DATA"]

(* Mutants of Error: every transfer phase frees the bus, or none does.      *)
ErrorFreesBus(c, k, s, b, asc) ==
  \/ Reset(c, k, s)
  \/ /\ c.phase \in {"datain", "dataout", "status", "msgin"}
     /\ BusFree(c, k, s)
  \/ /\ c.phase \notin {"datain", "dataout", "status", "msgin"}
     /\ Continue(ToStatus(c, "CHECK CONDITION"), k, SetSense(c, s, asc),
                 Drive(b, "status"))

ErrorKeepsBus(c, k, s, b, asc) ==
  \/ Reset(c, k, s)
  \/ Continue(ToStatus(c, "CHECK CONDITION"), k, SetSense(c, s, asc),
              Drive(b, "status"))

(* Error(): RST is looked at first; an error while the status or the        *)
(* message is sent frees the bus; any other goes to the status phase.       *)
Error(c, k, s, b, asc) ==
  \/ Reset(c, k, s)
  \/ /\ c.phase \in {"status", "msgin"}
     /\ BusFree(c, k, s)
  \/ /\ c.phase \notin {"status", "msgin"}
     /\ Continue(ToStatus(c, "CHECK CONDITION"), k, SetSense(c, s, asc),
                 Drive(b, "status"))

(* XferOutBlockOriented calls Error when the device throws, and then        *)
(* returns false, upon which Receive calls Error a second time.             *)
ErrorTwice(c, k, s, b) ==
  \/ Error(ToStatus(c, "CHECK CONDITION"), k, SetSense(c, s, "OTHER"),
           Drive(b, "status"), "OTHER")
  \/ Error(ResetController(c), [k EXCEPT !.reset = TRUE], s, Idle,
           "OTHER")

(***************************************************************************)
(* Command execution                                                       *)
(***************************************************************************)

(* What Dispatch() of a device makes of a CDB: throw an error, enter the    *)
(* status, data-in or data-out phase, or leave the phase as it is (only     *)
(* SetInterfaceMode of the DaynaPort with an unknown sub-command). A count  *)
(* of 0 is a transfer length of 0: DataIn() and DataOut() then call         *)
(* Status(), and Disk does so itself.                                       *)
Responses(kind, cdb) ==
  LET data(response) == IF cdb.count = 0 THEN "status" ELSE response
  IN {"error"} \cup
     CASE kind = "disk" /\ cdb.op = "read" -> {data("datain")}
       [] kind = "disk" /\ cdb.op \in {"write", "verify10"}
            -> {data("dataout")}
       [] kind = "daynaport" /\ cdb.op = "packet" /\ cdb.count = 1
            -> {"dataout"}
       [] kind = "daynaport" /\ cdb.op = "setif" ->
            {"status", "none"} \cup (IF cdb.count = 1 THEN {"dataout"} ELSE {})
       [] kind = "printer" /\ cdb.op = "print"
            -> {data("byteout")}
       [] kind = "hostservices" /\ cdb.op = "shutdown"
            -> {"STOP_RASCSI", "STOP_PI"}
       [] kind \in {"disk", "hostservices"} /\ cdb.op = "modeselect"
            -> {data("dataout")}
       [] cdb.op \in {"inquiry", "datain"} -> {data("datain")}
       [] cdb.op = "nodata" -> {"status"}
       [] OTHER -> {}

(* The call of Dispatch() in Execute, for every command but REQUEST SENSE.  *)
Dispatch(c, k, s, b, kind) ==
  LET transfer == [c EXCEPT !.length = 1, !.next = 1,
                            !.blocks = c.cmd.count]
  IN \E response \in Responses(kind, c.cmd) :
       \/ /\ response = "error"
          /\ Error(c, [k EXCEPT !.failed = TRUE], s, b, "OTHER")
       \/ /\ response = "status"
          /\ EnterStatus(c, k, s, b)
       \/ /\ response = "datain"
          /\ EnterDataIn(transfer, k, s, b)
       \/ /\ response = "dataout"
          /\ EnterDataOut(transfer, k, s, b)
       \/ /\ response = "byteout"
          /\ EnterDataOut([transfer EXCEPT !.is_byte_transfer = TRUE], k, s, b)
       \/ /\ response \in {"STOP_RASCSI", "STOP_PI"}
          /\ EnterStatus([c EXCEPT !.shutdown_mode = response], k, s, b)
       \/ /\ response = "none"
          /\ Continue(c, k, s, b)

(* The rest of PrimaryDevice::RequestSense, once the device is known.       *)
(* Without an error to report a device that is not ready throws NOT READY.  *)
(* With an allocation length of 0 DataIn() calls Status(), which in the     *)
(* status phase calls Send(), which takes the status byte for sent.         *)
ReturnSense(c, k, s, b, lun) ==
  \/ /\ s[lun] = "NO SENSE"
     /\ Error(c, [k EXCEPT !.failed = TRUE], s, b, "OTHER")
  \/ /\ c.cmd.count = 0
     /\ IF c.phase = "status"
        THEN EnterMsgIn(c, k, s, b)
        ELSE EnterStatus(c, k, s, b)
  \/ /\ c.cmd.count = 1
     /\ EnterDataIn([c EXCEPT !.length = 1], k, s, b)

(* PrimaryDevice::RequestSense. For a missing LUN it calls Error, which     *)
(* enters the status phase (or resets, if RST is seen), sets the status     *)
(* back to GOOD and goes on.                                                *)
RequestSense(c, k, s, b, lun) ==
  IF HasDeviceForLun(GetEffectiveLun(c))
  THEN ReturnSense(c, k, s, b, lun)
  ELSE \/ ReturnSense([ToStatus(c, "GOOD") EXCEPT !.length = 0], k,
                      SetSense(c, s, "INVALID LUN"), Drive(b, "status"), 0)
       \/ ReturnSense(ResetController(c), [k EXCEPT !.reset = TRUE], s, Idle, 0)

(* Execute(). Pending sense data is discarded except by REQUEST SENSE.      *)
Execute(cdb, c0, k0, s, b) ==
  LET c == [c0 EXCEPT !.phase = "execute", !.cmd = cdb, !.blocks = 1,
                      !.length = 0,
                      !.status = IF cdb.op = "sense" THEN @ ELSE "GOOD"]
      k == [k0 EXCEPT !.lun = GetEffectiveLun(c)]
      lun == IF HasDeviceForLun(GetEffectiveLun(c))
             THEN GetEffectiveLun(c) ELSE 0
  IN \/ /\ ~HasDeviceForLun(GetEffectiveLun(c))
        /\ cdb.op \notin {"inquiry", "sense"}
        /\ Error(c, [k EXCEPT !.failed = TRUE], s, b, "INVALID LUN")
     \/ /\ cdb.op = "sense"
        /\ RequestSense(c, k, s, b, lun)
     \/ /\ cdb.op # "sense"
        /\ HasDeviceForLun(GetEffectiveLun(c)) \/ cdb.op = "inquiry"
        /\ Dispatch(c, k, [s EXCEPT ![lun] = "NO SENSE"], b, devices[lun])

(* Command(). When the CDB arrives incomplete, ctrl.cmd still holds the     *)
(* previous one.                                                            *)
Command(c0, k, s, b) ==
  LET c == [c0 EXCEPT !.phase = "command", !.length = 1, !.blocks = 1]
      lines == Drive(b, "command")
  IN \E cdb \in Cdb :
       \/ Execute(cdb, c, k, s, lines)
       \/ Error(c, [k EXCEPT !.cut = @ \cup {"command"},
                             !.lun = IF c.identified_lun # None
                                     THEN c.identified_lun ELSE cdb.lun],
                s, lines, "OTHER")

(***************************************************************************)
(* Selection and messages                                                  *)
(***************************************************************************)

(* The main loop found this controller by the ID on the bus: BusFree() and  *)
(* Selection() of the first call of Process. (next and all of the old CDB   *)
(* but its LUN are not read any more; they are dropped here.)               *)
Select ==
  /\ running
  /\ ctrl.phase = "busfree"
  /\ ctrl' = [ctrl EXCEPT !.phase = "selection", !.next = 0,
                          !.cmd = NoCdb(ctrl.cmd.lun)]
  /\ bus' = [bus EXCEPT !.bsy = TRUE]
  /\ atn' \in BOOLEAN
  /\ conn' = [lun |-> 0, status |-> "NONE", complete |-> FALSE, moved |-> <<>>,
              failed |-> FALSE, lost |-> FALSE, cut |-> {}, aborted |-> FALSE,
              reset |-> FALSE]
  /\ UNCHANGED <<devices, sense, running>>

(* Selection() once the initiator has released SEL.                         *)
Selection ==
  /\ ctrl.phase = "selection"
  /\ \/ /\ atn
        /\ Continue([ctrl EXCEPT !.phase = "msgout", !.atnmsg = TRUE,
                                 !.msb = NoMessages, !.length = 1, !.blocks = 1],
                    conn, sense, Drive(bus, "msgout"))
     \/ /\ ~atn
        /\ Command(ctrl, conn, sense, bus)
  /\ UNCHANGED atn

(* XferMsg stores a message. What the parser will find in the buffer is     *)
(* kept instead of its bytes: the first message that ends the parsing and   *)
(* the LUN of the last IDENTIFY before it. When msc wraps around, all that  *)
(* came before is lost.                                                     *)
Stops == {EXTENDED, ABORT, DEVICE_RESET}

(* Mutant of XferMsg: the LUN is not masked out of IDENTIFY.                *)
XferMsgUnmasked(m) ==
  [msc |-> (ctrl.msb.msc + 1) % MsbSize,
   stop |-> IF ctrl.msb.stop = 0 /\ m \in Stops THEN m ELSE ctrl.msb.stop,
   lun |-> IF m >= IDENTIFY THEN m ELSE ctrl.msb.lun]

XferMsg(m) ==
  LET msb == ctrl.msb
  IN IF msb.msc + 1 = MsbSize THEN NoMessages
     ELSE [msc |-> msb.msc + 1,
           stop |-> IF msb.stop = 0 /\ m \in Stops THEN m ELSE msb.stop,
           lun |-> IF msb.stop = 0 /\ m >= IDENTIFY THEN m - IDENTIFY
                                                    ELSE msb.lun]

Identified(msb) == IF msb.lun = None THEN ctrl.identified_lun ELSE msb.lun

(* The message out part of Receive(). ATN keeps the phase; then the         *)
(* messages are parsed. Synchronous transfer is never enabled, so that an   *)
(* extended message is answered with MESSAGE REJECT. (The buffer is not     *)
(* read again before Selection has emptied it.)                             *)
MessageReceived(m) ==
  LET msb == XferMsg(m)
      c == [ctrl EXCEPT !.msb = NoMessages, !.identified_lun = Identified(msb)]
  IN \/ /\ atn
        /\ Continue([ctrl EXCEPT !.msb = msb, !.length = 1, !.blocks = 1],
                    conn, sense, bus)
     \/ /\ ~atn
        /\ msb.stop = 0
        /\ Command([c EXCEPT !.atnmsg = FALSE], conn, sense, bus)
     \/ /\ ~atn
        /\ msb.stop = EXTENDED
        /\ EnterMsgIn(c, conn, sense, bus)
     \/ /\ ~atn
        /\ msb.stop \in {ABORT, DEVICE_RESET}
        /\ BusFree(c, [conn EXCEPT !.aborted = TRUE], sense)

(* MsgOut()                                                                 *)
MsgOut ==
  /\ ctrl.phase = "msgout"
  /\ \/ /\ ctrl.length = 1
        /\ Continue([ctrl EXCEPT !.length = 0], conn, sense, bus)
        /\ UNCHANGED atn
     \/ /\ ctrl.length = 1
        /\ Error(ctrl, [conn EXCEPT !.cut = @ \cup {"msgout"}], sense, bus,
                 "OTHER")
        /\ atn' = FALSE
     \/ /\ ctrl.length = 0
        /\ UNCHANGED atn
        /\ \E m \in Messages : MessageReceived(m)

(* The initiator has sent its last message.                                 *)
DropAtn ==
  /\ atn
  /\ ctrl.phase = "msgout"
  /\ atn' = FALSE
  /\ UNCHANGED <<ctrl, devices, sense, bus, running, conn>>

(***************************************************************************)
(* Data transfer                                                           *)
(***************************************************************************)

(* ctrl.blocks-- on a uint32_t.                                             *)
Decrement(n) == (n - 1) % Modulus

(* The handshake part of Send() and Receive(): all bytes of the block are   *)
(* moved, or the initiator stops answering.                                 *)
Handshake(k) ==
  /\ ctrl.length = 1
  /\ \/ Continue([ctrl EXCEPT !.length = 0], k, sense, bus)
     \/ Error(ctrl, [conn EXCEPT !.cut = @ \cup {ctrl.phase}], sense, bus,
              "OTHER")

(* Mutant of NextBlock: the same block again.                               *)
SameBlock(c) == [c EXCEPT !.length = 1]

(* The next block is read, or there is room for it.                         *)
NextBlock(c) == [c EXCEPT !.length = 1, !.next = @ + 1]

(* DataIn(): Send() and XferIn(). A read error of a later block is reported *)
(* as ABORTED COMMAND.                                                      *)
DataIn ==
  LET c == [ctrl EXCEPT !.blocks = Decrement(@)]
      reads == /\ HasDeviceForLun(GetEffectiveLun(c))
               /\ c.cmd.op = "read"
  IN /\ ctrl.phase = "datain"
     /\ UNCHANGED atn
     /\ \/ Handshake([conn EXCEPT
              !.moved = IF ctrl.cmd.op = "read" /\ ctrl.next > 0
                        THEN Append(@, ctrl.next - 1) ELSE @])
        \/ /\ ctrl.length = 0
           /\ \/ /\ c.blocks = 0
                 /\ EnterStatus(c, conn, sense, bus)
              \/ /\ c.blocks # 0
                 /\ reads
                 /\ Continue(NextBlock(c), conn, sense, bus)
              \/ /\ c.blocks # 0
                 /\ Error(c, [conn EXCEPT !.failed = TRUE], sense, bus,
                          "OTHER")

(* XferOutBlockOriented and what Receive does with its result: the next     *)
(* block, or FlushUnit and the status phase. WRITE and VERIFY(16) write the *)
(* block; the controller knows VERIFY(10) by an opcode it does not have, so *)
(* its data is received and dropped.                                        *)
XferOut(c) ==
  LET kind == devices[GetEffectiveLun(c)]
      writes == kind = "disk" /\ c.cmd.op = "write" /\ c.next > 0
      written == [conn EXCEPT !.moved = Append(@, c.next - 1)]
      failed == [conn EXCEPT !.failed = TRUE, !.lost = TRUE]
      Proceed(d, k) == IF d.blocks = 0 THEN EnterStatus(d, k, sense, bus)
                                       ELSE Continue(d, k, sense, bus)
  IN \/ /\ kind = "hostservices"
        /\ Error(c, [conn EXCEPT !.failed = TRUE], sense, bus,
                 "OTHER")
     \/ /\ writes \/ c.cmd.op = "modeselect"
        /\ kind # "hostservices"
        /\ ErrorTwice(c, failed, sense, bus)
     \/ /\ writes
        /\ c.blocks = 0
        /\ Proceed([c EXCEPT !.next = @ + 1], written)
     \/ /\ writes
        /\ c.blocks # 0
        /\ \/ Proceed(NextBlock(c), written)
           \/ Error([c EXCEPT !.next = @ + 1], [written EXCEPT !.failed = TRUE],
                    sense, bus, "OTHER")
     \/ /\ kind = "daynaport" /\ c.cmd.op = "packet"
        /\ Proceed([c EXCEPT !.blocks = 0], conn)
     \/ /\ ~writes /\ kind # "hostservices" /\ c.cmd.op # "packet"
        /\ Proceed(c, conn)

(* ReceiveBytes for a printer: one byte sequence, no block count.           *)
XferBytes(c) ==
  \/ EnterStatus(c, conn, sense, bus)
  \/ Error(c, [conn EXCEPT !.failed = TRUE], sense, bus, "OTHER")

DataOut ==
  /\ ctrl.phase = "dataout"
  /\ UNCHANGED atn
  /\ \/ Handshake(conn)
     \/ /\ ctrl.length = 0
        /\ ~ctrl.is_byte_transfer
        /\ XferOut([ctrl EXCEPT !.blocks = Decrement(@)])
     \/ /\ ctrl.length = 0
        /\ ctrl.is_byte_transfer
        /\ XferBytes([ctrl EXCEPT !.is_byte_transfer = FALSE])

(* Status(): the status byte, then the message in phase.                    *)
Status ==
  /\ ctrl.phase = "status"
  /\ UNCHANGED atn
  /\ \/ Handshake([conn EXCEPT !.status = ctrl.status])
     \/ /\ ctrl.length = 0
        /\ EnterMsgIn(ctrl, conn, sense, bus)

(* MsgIn(): COMMAND COMPLETE frees the bus, the answer to an extended       *)
(* message is followed by the command phase.                                *)
MsgIn ==
  /\ ctrl.phase = "msgin"
  /\ UNCHANGED atn
  /\ \/ Handshake([conn EXCEPT !.complete = ~ctrl.atnmsg])
     \/ /\ ctrl.length = 0
        /\ ctrl.atnmsg
        /\ Command([ctrl EXCEPT !.atnmsg = FALSE], conn, sense, bus)
     \/ /\ ctrl.length = 0
        /\ ~ctrl.atnmsg
        /\ BusFree(ctrl, conn, sense)

(* Process() finds RST asserted before it looks at the phase.               *)
ResetSeen ==
  /\ running
  /\ ctrl.phase # "busfree"
  /\ Reset(ctrl, conn, sense)
  /\ atn' = FALSE

(***************************************************************************)
(* Specification. There is no handler for the execute phase: there Process *)
(* does nothing (with assertions enabled it aborts).                       *)
(***************************************************************************)

Process == running /\ (Selection \/ MsgOut \/ DataIn \/ DataOut \/ Status \/ MsgIn)

NoConnection ==
  [lun |-> 0, status |-> "NONE", complete |-> TRUE, moved |-> <<>>,
   failed |-> FALSE, lost |-> FALSE, cut |-> {}, aborted |-> FALSE,
   reset |-> FALSE]

Init ==
  /\ devices \in DeviceMaps
  /\ sense = [l \in DOMAIN devices |-> "NO SENSE"]
  /\ ctrl = [phase |-> "busfree", status |-> "GOOD",
             cmd |-> NoCdb(0),
             blocks |-> 0, length |-> 0, next |-> 0, identified_lun |-> None,
             atnmsg |-> FALSE, msb |-> NoMessages, is_byte_transfer |-> FALSE,
             shutdown_mode |-> "NONE"]
  /\ bus = Idle
  /\ atn = FALSE
  /\ running = TRUE
  /\ conn = NoConnection

Next == Select \/ Process \/ ResetSeen \/ DropAtn

Spec == Init /\ [][Next]_vars

(* The main loop keeps calling Process until the phase is busfree (its only *)
(* other exit is the end of the process); the initiator releases SEL after  *)
(* the selection and ends the message out phase at some point. Handshakes   *)
(* need no fairness: WaitSignal gives up after 3 seconds.                   *)
FairSpec == Spec /\ WF_vars(Process) /\ WF_vars(DropAtn)

(***************************************************************************)
(* Properties                                                              *)
(***************************************************************************)

(* BUS::phase_table: what MSG, C/D and I/O mean to everybody on the bus.    *)
(* The table gives the lines that are asserted.                             *)
PhaseTable ==
  [dataout |-> {}, datain |-> {"I/O"}, command |-> {"C/D"},
   status |-> {"C/D", "I/O"}, msgout |-> {"MSG", "C/D"},
   msgin |-> {"MSG", "C/D", "I/O"}]

InformationPhases == DOMAIN PhaseTable

(* Whoever watches the bus while the target holds BSY sees the phase the    *)
(* controller is in: no path through nested handlers leaves MSG, C/D and    *)
(* I/O of another phase behind (phase_handler, SetMSG/SetCD/SetIO calls).   *)
LinesMatchPhase ==
  /\ bus.bsy /\ ctrl.phase \in InformationPhases
       => /\ bus.msg <=> "MSG" \in PhaseTable[ctrl.phase]
          /\ bus.cd <=> "C/D" \in PhaseTable[ctrl.phase]
          /\ bus.io <=> "I/O" \in PhaseTable[ctrl.phase]
  /\ bus.bsy => ctrl.phase # "busfree"
  /\ ~bus.bsy /\ ctrl.phase # "busfree" => conn.reset

(* ctrl.blocks is unsigned and is decremented when a block has been moved:  *)
(* in a transfer phase on a live bus it is never 0, so that it cannot wrap  *)
(* around (asserted in DataIn and MsgIn, relied upon in Send and Receive).  *)
NoBlockUnderflow ==
  bus.bsy /\ ctrl.phase \in InformationPhases \ {"command"}
    => ctrl.blocks \in 1..MaxBlocks

(* A connection ends with a status and COMMAND COMPLETE, unless it was      *)
(* reset or aborted, or the initiator stopped answering while the status or *)
(* the message was sent. Two exceptions are faults of the code: a block     *)
(* that could not be written (LostWriteIsReported) and REQUEST SENSE with   *)
(* allocation length 0 to a missing LUN, which sends no status.             *)
CompletesOrExcused ==
  LET excused == \/ conn.reset \/ conn.aborted \/ conn.lost
                 \/ conn.cut \cap {"status", "msgin"} # {}
      noStatus == /\ ctrl.cmd.op = "sense" /\ ctrl.cmd.count = 0
                  /\ conn.lun \notin DOMAIN devices
  IN ctrl.phase = "busfree" /\ ~excused
       => /\ conn.complete
          /\ conn.status # "NONE" \/ noStatus \/ conn = NoConnection

(* A command that completes with GOOD did all of its work: no device has    *)
(* reported an error on the way and no handshake was cut short, although    *)
(* errors surface in nested calls that return into the normal flow. (After  *)
(* a message out phase that was cut short the initiator gets CHECK          *)
(* CONDITION, and then, because atnmsg is still set, a command phase.)      *)
StatusTruthful ==
  conn.complete /\ conn.status = "GOOD"
    => ~conn.failed /\ conn.cut \subseteq {"msgout"}

(* READ, WRITE and VERIFY(16) that complete with GOOD have moved exactly    *)
(* the blocks the CDB asks for, each one once and in order: ctrl.next,      *)
(* ctrl.blocks and the block in the buffer stay in step over all calls.     *)
BlocksInOrder ==
  /\ conn.complete /\ conn.status = "GOOD"
  /\ ctrl.cmd.op \in {"read", "write"}
  => conn.moved = [i \in 1..ctrl.cmd.count |-> i - 1]

(* Selected without a usable CDB: the handlers then use the LUN of the CDB  *)
(* of an earlier connection.                                                *)
StaleLun == conn.cut \cap {"command", "msgout"} # {}

(* After CHECK CONDITION the device that REQUEST SENSE will ask holds sense *)
(* data; LUN 0 does for a missing LUN. An incomplete CDB without IDENTIFY   *)
(* is the exception: Error then looks at the LUN of an earlier CDB.         *)
CheckHasSense ==
  /\ conn.complete /\ conn.status = "CHECK CONDITION"
  /\ ~conn.reset /\ ~StaleLun
  => sense[IF HasDeviceForLun(conn.lun) THEN conn.lun ELSE 0] # "NO SENSE"

(* A command changes the sense data of no other device than the one it is   *)
(* addressed to (LUN 0 for a missing LUN): sense data that another          *)
(* initiator or driver has yet to fetch survives.                           *)
SenseIsLocal ==
  [][\A l \in DOMAIN devices :
       sense'[l] # sense[l] =>
         \/ l = conn'.lun
         \/ l = 0 /\ ~HasDeviceForLun(conn'.lun)
         \/ StaleLun' \/ conn'.reset]_vars

(* Whatever the initiator does, the target lets go of the bus. The only     *)
(* exception is the execute phase, for which Process has no handler (the    *)
(* DaynaPort's SetInterfaceMode leaves the controller there).               *)
BusIsFreed == ctrl.phase # "busfree" ~> ctrl.phase \in {"busfree", "execute"}

(* Receive, line 697: "If result FALSE, move to status phase". A block that *)
(* the device failed to take leads to a status, unless the bus is reset or  *)
(* the initiator does not fetch it.                                         *)
LostWriteIsReported ==
  /\ ctrl.phase = "busfree"
  /\ conn.lost /\ ~conn.reset /\ "status" \notin conn.cut
  => conn.status # "NONE"

(* Receive, lines 703-705: "Continue to receive if block !=0", which        *)
(* asserts that there is something left to receive.                         *)
MoreBlocksHaveLength ==
  [][ctrl.phase = "dataout" /\ ctrl.length = 0 /\ ctrl'.phase = "dataout"
       => ctrl'.length > 0]_vars

=============================================================================

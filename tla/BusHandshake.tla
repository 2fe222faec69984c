---------------------------- MODULE BusHandshake ----------------------------
(***************************************************************************)
(* The REQ/ACK handshake of gpiobus.cpp between the target (the phases of  *)
(* scsi_controller.cpp, byte by byte) and an initiator (rasdump.cpp), with *)
(* the waits that give up after 3 s or on a reset.                         *)
(*                                                                         *)
(* The initiator may be slow anywhere, and is killed and started again.    *)
(* The target is only slow between its calls of Process: within a          *)
(* handshake it has disabled the interrupts, so that the initiator waits   *)
(* in vain for a signal only when the target is not about to change it.    *)
(*                                                                         *)
(* A byte on the bus is <<operation, what, which>>: every one is different. *)
(***************************************************************************)
EXTENDS Naturals, Sequences

CONSTANTS
  CdbLen,    (* bytes of a command                                          *)
  BlockTotal, (* blocks of a data transfer                                  *)
  BlockLen,  (* bytes of a block                                            *)
  OpMax,     (* bound: commands of rasdump                                  *)
  IcdKinds   (* bound: the kinds of commands that are sent behind a prefix  *)

ASSUME BusAssumption ==
  CdbLen \in Nat \ {0} /\ BlockTotal \in Nat \ {0} /\ BlockLen \in Nat \ {0} /\ OpMax \in Nat

VARIABLES
  bus,   (* bsy, req, mci (the phase lines), tdat: driven by the target;    *)
         (* sel, ack, idat, rst: driven by the initiator                    *)
  tgt,   (* the target *)
  ini,   (* rasdump *)
  icdLate  (* history: the wait after an ICD command that is not looked at  *)
           (* (gpiobus.cpp:762) has failed                                  *)

busVars == <<bus, tgt, ini, icdLate>>

Kinds == {"none", "in", "out"}
DataLen == BlockTotal * BlockLen

NoByte == <<0, "none", 0>>
IsIcd(byte) == byte[2] = "command" /\ byte[3] = 0

-----------------------------------------------------------------------------
(* The target. at: it stands between two calls ("between", or "done" behind *)
(* a block), or waits in a handshake: for ACK ("ack"), for its end ("clear" *)
(* when it receives; "offer", before a byte, and "drain", behind the last   *)
(* one, when it sends), or has noticed an error.                            *)

TargetFree ==
  [ph |-> "busfree", at |-> "between", n |-> 0, blocks |-> 0, byte |-> NoByte, icd |-> FALSE,
   cdb |-> <<>>, data |-> <<>>, status |-> "GOOD", failed |-> FALSE]

Quiet(b) == [b EXCEPT !.bsy = FALSE, !.req = FALSE, !.mci = "dataout", !.tdat = NoByte]

BusFree == tgt' = [tgt EXCEPT !.ph = "busfree", !.at = "between"] /\ bus' = Quiet(bus)

(* Process and Error, on a reset. *)
TargetReset == bus.rst /\ BusFree

(* A phase is entered: its lines are set, the transfer comes with the next  *)
(* call.                                                                    *)
Enter(phase, t) ==
  /\ tgt' = [t EXCEPT !.ph = phase, !.at = "between", !.n = 0, !.failed = FALSE]
  /\ bus' = [bus EXCEPT !.mci = phase]

Status(code) == Enter("status", [tgt EXCEPT !.status = code])

(* Mutant of Error: the status phase is started again after an error in it. *)
ErrorToStatus ==
  /\ tgt.at = "error"
  /\ TargetReset \/ (~bus.rst /\ Status("CHECK CONDITION"))

Error ==
  /\ tgt.at = "error"
  /\ \/ TargetReset
     \/ ~bus.rst /\ tgt.ph \in {"status", "msgin"} /\ BusFree
     \/ ~bus.rst /\ tgt.ph \notin {"status", "msgin"} /\ Status("CHECK CONDITION")

(* BusFree and Selection *)
Selected ==
  /\ tgt.ph = "busfree" /\ bus.sel /\ ~bus.bsy /\ bus.idat[2] = "id"
  /\ tgt' = [tgt EXCEPT !.ph = "selection"]
  /\ bus' = [bus EXCEPT !.bsy = TRUE]

(* CommandHandShake begins as soon as SEL is negated. *)
Command ==
  /\ tgt.ph = "selection"
  /\ \/ TargetReset
     \/ /\ ~bus.rst /\ ~bus.sel
        /\ tgt' = [TargetFree EXCEPT !.ph = "command", !.at = "ack"]
        /\ bus' = [bus EXCEPT !.mci = "command", !.req = TRUE]

(* The device may refuse any command. What it makes of bytes that are not   *)
(* the command that was sent is not known.                                  *)
CommandOf(cdb) == \E op \in 1..OpMax : cdb = [k \in 1..CdbLen |-> <<op, "command", k>>]

Execute ==
  /\ tgt.ph = "execute"
  /\ \/ Status("CHECK CONDITION")
     \/ \E kind \in IF CommandOf(tgt.cdb) THEN {ini.kinds[tgt.cdb[1][1]]} ELSE Kinds :
          \/ kind = "none" /\ Status("GOOD")
          \/ kind = "in" /\ Enter("datain", [tgt EXCEPT !.blocks = BlockTotal])
          \/ kind = "out" /\ Enter("dataout", [tgt EXCEPT !.blocks = BlockTotal])

-----------------------------------------------------------------------------
(* The target receives: CommandHandShake and ReceiveHandShake.              *)

Request(t) == tgt' = [t EXCEPT !.at = "ack"] /\ bus' = [bus EXCEPT !.req = TRUE]

StartReceive ==
  /\ tgt.ph = "dataout" /\ tgt.at = "between"
  /\ TargetReset \/ (~bus.rst /\ Request(tgt))

ReceiveAck ==
  /\ tgt.ph \in {"command", "dataout"} /\ tgt.at = "ack"
  /\ bus' = [bus EXCEPT !.req = FALSE]
  /\ tgt' = IF bus.ack /\ ~bus.rst THEN [tgt EXCEPT !.at = "clear", !.byte = bus.idat]
            ELSE [tgt EXCEPT !.at = "error"]

(* A byte was received. *)
Counted ==
  LET t == IF tgt.ph = "command" THEN [tgt EXCEPT !.cdb = Append(@, tgt.byte)]
           ELSE [tgt EXCEPT !.data = Append(@, tgt.byte), !.n = @ + 1]
  IN IF tgt.ph = "command" /\ tgt.cdb = <<>> /\ ~tgt.icd /\ IsIcd(tgt.byte)
     THEN Request([tgt EXCEPT !.icd = TRUE])
     ELSE IF tgt.ph = "command" /\ Len(t.cdb) = CdbLen
     THEN tgt' = [t EXCEPT !.ph = "execute", !.at = "between"] /\ UNCHANGED bus
     ELSE IF tgt.ph = "dataout" /\ t.n = BlockLen
     THEN tgt' = [t EXCEPT !.at = "done"] /\ UNCHANGED bus
     ELSE Request(t)

(* Mutant of ReceiveClear: the result of the wait is not looked at.         *)
ReceiveClearUnchecked ==
  /\ tgt.ph \in {"command", "dataout"} /\ tgt.at = "clear"
  /\ Counted
  /\ UNCHANGED icdLate

(* The first byte behind the ICD prefix counts whether ACK clears or not.   *)
ReceiveClear ==
  LET cleared == ~bus.ack /\ ~bus.rst
      unchecked == tgt.ph = "command" /\ tgt.icd /\ tgt.cdb = <<>>
  IN /\ tgt.ph \in {"command", "dataout"} /\ tgt.at = "clear"
     /\ icdLate' = (icdLate \/ (unchecked /\ ~cleared))
     /\ \/ (cleared \/ unchecked) /\ Counted
        \/ ~cleared /\ ~unchecked /\ tgt' = [tgt EXCEPT !.at = "error"] /\ UNCHANGED bus

-----------------------------------------------------------------------------
(* The target sends: SendHandShake.                                         *)

SentByte(t) ==
  LET op == IF t.cdb = <<>> THEN 0 ELSE t.cdb[1][1]
  IN CASE t.ph = "datain" -> <<op, "datain", (BlockTotal - t.blocks) * BlockLen + t.n + 1>>
       [] t.ph = "status" -> <<op, t.status, 0>>
       [] OTHER -> <<op, "message", 0>>

Offer(t) == tgt' = [t EXCEPT !.at = "offer"] /\ bus' = [bus EXCEPT !.req = FALSE, !.tdat = SentByte(t)]

StartSend ==
  /\ tgt.ph \in {"datain", "status", "msgin"} /\ tgt.at = "between"
  /\ TargetReset \/ (~bus.rst /\ Offer(tgt))

SendOffer ==
  /\ tgt.at = "offer"
  /\ \/ ~bus.ack /\ ~bus.rst /\ Request(tgt)
     \/ (bus.ack \/ bus.rst) /\ tgt' = [tgt EXCEPT !.at = "drain", !.failed = TRUE] /\ UNCHANGED bus

SendAck ==
  LET t == [tgt EXCEPT !.n = @ + 1]
      last == t.n = IF tgt.ph = "datain" THEN BlockLen ELSE 1
      acked == bus.ack /\ ~bus.rst
  IN /\ tgt.ph \in {"datain", "status", "msgin"} /\ tgt.at = "ack"
     /\ \/ acked /\ ~last /\ Offer(t)
        \/ /\ ~acked \/ last
           /\ tgt' = [IF acked THEN t ELSE tgt EXCEPT !.at = "drain", !.failed = ~acked]
           /\ bus' = [bus EXCEPT !.req = FALSE]

(* The last wait of SendHandShake: its result is not looked at.             *)
SendDrain ==
  /\ tgt.at = "drain"
  /\ tgt' = [tgt EXCEPT !.at = IF tgt.failed THEN "error" ELSE "done"]
  /\ UNCHANGED bus

(* Send and Receive, when a block is complete. A device that fails to write *)
(* it has Error called twice: by XferOutBlockOriented, which enters the     *)
(* status phase, and from there by Receive, which frees the bus. A device   *)
(* that refuses the next block has it called once.                          *)
BlockDone ==
  /\ tgt.at = "done" /\ tgt.ph \in {"datain", "dataout"}
  /\ \/ TargetReset
     \/ ~bus.rst /\ tgt.ph = "dataout" /\ BusFree
     \/ /\ ~bus.rst /\ tgt.blocks > 1
        /\ \/ tgt' = [tgt EXCEPT !.at = "error"] /\ UNCHANGED bus
           \/ Enter(tgt.ph, [tgt EXCEPT !.blocks = @ - 1])
     \/ ~bus.rst /\ tgt.blocks = 1 /\ Status("GOOD")

StatusDone ==
  /\ tgt.at = "done" /\ tgt.ph = "status"
  /\ TargetReset \/ (~bus.rst /\ Enter("msgin", tgt))

MessageDone == tgt.at = "done" /\ tgt.ph = "msgin" /\ BusFree

(* The interrupts are disabled: the next step of the handshake is made at   *)
(* once.                                                                    *)
Prompt ==
  \/ tgt.at = "error"
  \/ tgt.at = "ack" /\ bus.ack
  \/ tgt.at \in {"clear", "offer", "drain"} /\ ~bus.ack

TargetStep ==
  \/ /\ \/ Selected \/ Command \/ Execute \/ Error
        \/ StartReceive \/ ReceiveAck \/ StartSend \/ SendOffer \/ SendAck \/ SendDrain
        \/ BlockDone \/ StatusDone \/ MessageDone
     /\ UNCHANGED <<ini, icdLate>>
  \/ ReceiveClear /\ UNCHANGED ini

-----------------------------------------------------------------------------
(* The initiator: rasdump. at: it is not running ("off"), pulses RST, is    *)
(* between two commands ("idle"), selects ("select", "selected"), waits for *)
(* a phase ("wait", then "capture" of the phase lines), or is in the        *)
(* handshake of a byte: before REQ ("req"), before it asserts ACK           *)
(* ("raise"), waiting for the end of REQ ("wane"), before it negates ACK    *)
(* ("drop"). "result" is the end of a command.                              *)

LetGo(b) == [b EXCEPT !.sel = FALSE, !.ack = FALSE, !.idat = NoByte]

Off ==
  [at |-> "off", op |-> 0, kinds |-> <<>>, icd |-> FALSE, ask |-> 0, stage |-> "command",
   mci |-> "command", n |-> 0, byte |-> NoByte, good |-> FALSE, count |-> 0, data |-> <<>>,
   status |-> NoByte, ok |-> FALSE]

IniStep(at) == ini.at = at /\ UNCHANGED <<tgt, icdLate>>

(* main, up to the first command.                                           *)
Start ==
  /\ IniStep("off") /\ ini.op < OpMax
  /\ ini' = [ini EXCEPT !.at = "pulse"]
  /\ bus' = [LetGo(bus) EXCEPT !.rst = TRUE]

(* 1 ms later: a target that waits in a handshake has noticed RST.          *)
Unnoticed == tgt.at \in {"between", "done"}

Pulse ==
  /\ IniStep("pulse") /\ Unnoticed
  /\ ini' = [ini EXCEPT !.at = "idle"]
  /\ bus' = [bus EXCEPT !.rst = FALSE]

(* TestUnitReady, RequestSense, Inquiry, ..., Write10, up to Selection. What *)
(* rasdump asks for may be more than the target has.                        *)
Begin ==
  /\ IniStep("idle") /\ ini.op < OpMax
  /\ \E kind \in Kinds, icd \in BOOLEAN, more \in 0..1 :
       /\ kind # "in" => more = 0
       /\ icd => kind \in IcdKinds
       /\ ini' = [Off EXCEPT !.at = "select", !.op = ini.op + 1, !.kinds = Append(ini.kinds, kind),
                             !.icd = icd, !.ask = DataLen + more]
  /\ bus' = [bus EXCEPT !.sel = TRUE, !.idat = <<ini.op + 1, "id", 0>>]

(* BusFree at the end of every command. *)
Finish(ok) ==
  /\ ini' = [ini EXCEPT !.at = "result", !.ok = ok]
  /\ bus' = LetGo(bus)

WaitFor(stage, i) == ini' = [i EXCEPT !.at = "wait", !.stage = stage, !.n = 0]

(* BSY is seen, or it is not after 10000 polls.                             *)
SelectPolled ==
  /\ IniStep("select")
  /\ \/ bus.bsy /\ ini' = [ini EXCEPT !.at = "selected"]
     \/ ~bus.bsy /\ ini' = [ini EXCEPT !.at = "unselected"]
  /\ UNCHANGED bus

SelectEnd ==
  \/ IniStep("selected") /\ WaitFor("command", ini) /\ bus' = [bus EXCEPT !.sel = FALSE]
  \/ IniStep("unselected") /\ Finish(FALSE)

(* WaitPhase, which the target makes wait in vain when it is slow.          *)
WaitPhase ==
  LET there == bus.req /\ bus.bsy /\ bus.mci = ini.stage
  IN /\ IniStep("wait")
     /\ \/ there /\ ini' = [ini EXCEPT !.at = "capture"] /\ UNCHANGED bus
        \/ ~there /\ ~Prompt /\ Finish(FALSE)

Sends == ini.stage \in {"command", "dataout"}

SentLen ==
  CASE ini.stage = "command" -> IF ini.icd THEN CdbLen + 1 ELSE CdbLen
    [] ini.stage \in {"datain", "dataout"} -> ini.ask
    [] OTHER -> 1

(* The next byte: SetDAT, when it is sent.                                  *)
NextByte(i) ==
  /\ ini' = [i EXCEPT !.at = "req"]
  /\ bus' = IF Sends THEN [bus EXCEPT !.ack = FALSE,
                           !.idat = <<i.op, i.stage, IF i.stage = "command" /\ i.icd THEN i.n ELSE i.n + 1>>]
            ELSE [bus EXCEPT !.ack = FALSE]

(* ReceiveHandShake and SendHandShake look at the phase lines again.        *)
Capture == IniStep("capture") /\ NextByte([ini EXCEPT !.mci = bus.mci])

(* The transfer is over, with n bytes: what the caller makes of it.         *)
Transferred(i) ==
  LET next == CASE i.kinds[i.op] = "none" -> "status" [] i.kinds[i.op] = "in" -> "datain"
                [] OTHER -> "dataout"
      free(ok, r) == ini' = [r EXCEPT !.at = "result", !.ok = ok] /\ bus' = LetGo(bus)
      going(stage, r) == WaitFor(stage, r) /\ bus' = [bus EXCEPT !.ack = FALSE]
  IN CASE i.stage = "command" -> IF i.n = SentLen THEN going(next, i) ELSE free(FALSE, i)
       [] i.stage \in {"datain", "dataout"} ->
            IF i.n > 0 THEN going("status", [i EXCEPT !.count = i.n]) ELSE free(FALSE, i)
       [] i.stage = "status" ->
            IF i.n = 1 THEN going("msgin", [i EXCEPT !.status = i.byte]) ELSE free(FALSE, i)
       [] OTHER -> free(i.n = 1, i)

(* REQ is seen; the phase is the captured one, or the transfer ends.        *)
SeeRequest ==
  /\ IniStep("req")
  /\ \/ bus.req /\ bus.mci = ini.mci /\ ini' = [ini EXCEPT !.at = "raise"] /\ UNCHANGED bus
     \/ bus.req /\ bus.mci # ini.mci /\ Transferred(ini)
     \/ ~bus.req /\ ~Prompt /\ Transferred(ini)

(* The data are sampled, when they are received, and ACK is asserted.       *)
RaiseAck ==
  /\ IniStep("raise")
  /\ ini' = [ini EXCEPT !.at = "wane", !.byte = IF Sends THEN @ ELSE bus.tdat]
  /\ bus' = [bus EXCEPT !.ack = TRUE]

(* The end of REQ is seen, with the phase at that time. The target is       *)
(* always prompt here, so that the wait for it does not time out.           *)
SeeRequestOff ==
  /\ IniStep("wane") /\ ~bus.req
  /\ ini' = [ini EXCEPT !.at = "drop", !.good = (bus.mci = ini.mci)]
  /\ UNCHANGED bus

DropAck ==
  LET i == IF ~ini.good THEN ini
           ELSE [ini EXCEPT !.n = @ + 1,
                            !.data = IF ini.stage = "datain" THEN Append(@, ini.byte) ELSE @]
  IN /\ IniStep("drop")
     /\ \/ ini.good /\ i.n < SentLen /\ NextByte(i)
        \/ (~ini.good \/ i.n = SentLen) /\ Transferred(i)

(* rasdump goes on after a command that has a result, else it ends.         *)
NextCommand ==
  /\ IniStep("result")
  /\ ini' = [ini EXCEPT !.at = IF ini.ok THEN "idle" ELSE "off"]
  /\ UNCHANGED bus

(* It is killed: KillHandler releases the bus.                              *)
Kill ==
  /\ ini.at # "off" /\ (bus.rst => Unnoticed) /\ UNCHANGED <<tgt, icdLate>>
  /\ ini' = [ini EXCEPT !.at = "off"]
  /\ bus' = [LetGo(bus) EXCEPT !.rst = FALSE]

IniNext ==
  \/ Start \/ Pulse \/ Begin \/ SelectPolled \/ SelectEnd \/ WaitPhase \/ Capture \/ SeeRequest
  \/ RaiseAck \/ SeeRequestOff \/ DropAck \/ NextCommand \/ Kill

BusInit ==
  /\ bus = [bsy |-> FALSE, req |-> FALSE, mci |-> "dataout", tdat |-> NoByte,
            sel |-> FALSE, ack |-> FALSE, idat |-> NoByte, rst |-> FALSE]
  /\ tgt = TargetFree
  /\ ini = Off
  /\ icdLate = FALSE

BusNext == TargetStep \/ IniNext

(* The target goes on, and rasdump does while it selects: it polls BSY a    *)
(* bounded number of times and then negates SEL. Elsewhere the initiator    *)
(* may hang.                                                                *)
BusFairness == WF_busVars(TargetStep) /\ WF_busVars(SelectPolled \/ SelectEnd)

BusSpec == BusInit /\ [][BusNext]_busVars /\ BusFairness

-----------------------------------------------------------------------------
(* Properties                                                              *)

InOrder(bytes, op, what) == \A k \in DOMAIN bytes : bytes[k] = <<op, what, k>>

(* What the target has accepted of a command and of its data are the bytes  *)
(* the initiator sent, in their order, none twice and none left out; and    *)
(* when rasdump has a result with all the data and a good status, a read    *)
(* has got the data of this command and a write has delivered them. It      *)
(* takes no byte of a transfer that was given up, of another phase, or of   *)
(* the command before (gpiobus.cpp:965). Only the unchecked wait behind an  *)
(* ICD prefix (gpiobus.cpp:762) can let a byte count twice.                 *)
TransfersAgree ==
  /\ icdLate \/ \E op \in 0..OpMax : InOrder(tgt.cdb, op, "command") /\ InOrder(tgt.data, op, "dataout")
  /\ ini.at = "result" /\ ini.ok /\ ini.count \in {0, DataLen} /\ ini.status = <<ini.op, "GOOD", 0>> =>
       CASE ini.kinds[ini.op] = "in" -> Len(ini.data) = ini.count /\ InOrder(ini.data, ini.op, "datain")
         [] ini.kinds[ini.op] = "out" -> icdLate \/ (Len(tgt.data) = DataLen /\ InOrder(tgt.data, ini.op, "dataout"))
         [] OTHER -> TRUE

(* However the initiator hangs, or dies, the target leaves the bus: every   *)
(* wait is bounded, and so is the chain of phases that errors lead to, up   *)
(* to the status and message phases, in which an error frees the bus        *)
(* (scsi_controller.cpp:511).                                               *)
TargetLetsGo == tgt.ph # "busfree" ~> tgt.ph = "busfree"

=============================================================================

-------------------------- MODULE BusHandshake_proofs --------------------------
(***************************************************************************)
(* Target and initiator agree on what was transferred, for commands and    *)
(* blocks of any length and any number of commands. The argument follows   *)
(* the handshake: a wait that gives up at the target dooms the command (it *)
(* takes and sends no more data, and no good status), and while it is not  *)
(* doomed the counters of both sides differ by no more than the byte that  *)
(* is on the bus.                                                          *)
(***************************************************************************)
EXTENDS BusHandshake, SequenceTheorems, TLAPS

Whats ==
  {"none", "id", "command", "datain", "dataout", "GOOD", "CHECK CONDITION", "message"}
Bytes == Nat \X Whats \X Nat

Stages == {"command", "datain", "dataout", "status", "msgin"}
Sending == {"datain", "status", "msgin"}
Phases == {"busfree", "selection", "execute"} \cup Stages

Lines ==
  [bsy : BOOLEAN, req : BOOLEAN, mci : Stages, tdat : Bytes,
   sel : BOOLEAN, ack : BOOLEAN, idat : Bytes, rst : BOOLEAN]

Targets ==
  [ph : Phases, at : {"between", "done", "ack", "clear", "offer", "drain", "error"},
   n : Nat, blocks : Nat, byte : Bytes, icd : BOOLEAN, cdb : Seq(Bytes), data : Seq(Bytes),
   status : {"GOOD", "CHECK CONDITION"}, failed : BOOLEAN]

Initiators ==
  [at : {"off", "pulse", "idle", "select", "selected", "unselected", "wait", "capture",
         "req", "raise", "wane", "drop", "result"},
   op : Nat, kinds : Seq(Kinds), icd : BOOLEAN, ask : Nat, stage : Stages, mci : Stages,
   n : Nat, byte : Bytes, good : BOOLEAN, count : Nat, data : Seq(Bytes), status : Bytes,
   ok : BOOLEAN]

BusTypeOK == bus \in Lines /\ tgt \in Targets /\ ini \in Initiators /\ icdLate \in BOOLEAN

-----------------------------------------------------------------------------
(* Each side by itself                                                      *)

(* The command the target has, and how far it is in the data of it.         *)
Op(t) == IF t.cdb = <<>> THEN 0 ELSE t.cdb[1][1]
Position(t) == (BlockTotal - t.blocks) * BlockLen + t.n

(* The target's lines, and where it may stand in each phase.                *)
TargetLines ==
  /\ bus.req <=> tgt.at = "ack"
  /\ tgt.ph \in Stages => bus.mci = tgt.ph
  /\ tgt.ph = "execute" => bus.mci = "command"
  /\ tgt.ph \in {"busfree", "selection"} => bus.mci = "dataout"
  /\ tgt.ph \in {"busfree", "selection", "execute"} => tgt.at = "between"
  /\ tgt.ph = "command" => tgt.at \in {"ack", "clear", "error"}
  /\ tgt.ph = "dataout" => tgt.at \in {"between", "ack", "clear", "done", "error"}
  /\ tgt.ph \in Sending => tgt.at \in {"between", "offer", "ack", "drain", "done", "error"}
  /\ tgt.ph \in Sending /\ tgt.at \in {"offer", "ack"} => bus.tdat = SentByte(tgt)
  /\ bus.tdat[2] = "GOOD" =>
       tgt.ph \in {"status", "msgin"} /\ bus.tdat = <<Op(tgt), "GOOD", 0>> /\ tgt.status = "GOOD"

TargetCount ==
  /\ tgt.ph \in {"datain", "dataout"} =>
       tgt.blocks \in 1..BlockTotal /\ tgt.n <= BlockLen /\ (tgt.at = "done" => tgt.n = BlockLen)
  /\ tgt.at \in {"between", "offer", "ack", "clear"} =>
       /\ tgt.ph \in {"datain", "dataout"} => tgt.n < BlockLen
       /\ tgt.ph \in {"status", "msgin"} => tgt.n = 0
  /\ tgt.ph = "datain" /\ tgt.at = "drain" /\ ~tgt.failed => tgt.n = BlockLen
  /\ tgt.ph \in {"command", "execute"} => tgt.data = <<>>
  /\ tgt.ph = "dataout" => Len(tgt.data) = Position(tgt)

Handshake == {"req", "raise", "wane", "drop"}
Transferring == Handshake \cup {"capture"}

(* The target may be in a command of this initiator, and answer it.         *)
Served ==
  \/ ini.at \in Transferring
  \/ ini.at = "wait" /\ ini.stage # "command"
  \/ ini.at = "result" /\ ini.ok

(* The initiator has not got to its command yet.                            *)
Opening ==
  \/ ini.at \in {"idle", "select", "selected", "unselected"}
  \/ ini.at = "wait" /\ ini.stage = "command"

(* The byte that rasdump sends with n bytes behind it.                      *)
Index == IF ini.stage = "command" /\ ini.icd THEN ini.n ELSE ini.n + 1

InitiatorLines ==
  /\ bus.ack <=> ini.at \in {"wane", "drop"}
  /\ bus.rst <=> ini.at = "pulse"
  /\ bus.sel <=> ini.at \in {"select", "selected", "unselected"}
  /\ ini.at \in Handshake => ini.n < SentLen
  /\ ini.at \in Handshake /\ Sends => bus.idat = <<ini.op, ini.stage, Index>>
  /\ ini.at \in {"wait", "capture"} => ini.n = 0
  /\ Len(ini.kinds) = ini.op /\ ini.op <= OpMax
  /\ Served \/ (Opening /\ ini.at # "idle") => ini.op >= 1 /\ ini.ask > 0

-----------------------------------------------------------------------------
(* Both together                                                            *)

(* A wait of the target has failed: no data and no good status will follow. *)
Doomed ==
  \/ tgt.at = "error" \/ (tgt.at = "drain" /\ tgt.failed)
  \/ tgt.ph = "status" /\ tgt.status # "GOOD"
  \/ tgt.ph \in {"msgin", "busfree"}

(* The phases of the two agree unless the command is doomed.                *)
Meeting ==
  /\ Served => tgt.ph # "selection"
  /\ ini.at \in {"capture", "raise"} => Doomed \/ (tgt.at = "ack" /\ tgt.ph = ini.stage)
  /\ ini.at \in Handshake => Doomed \/ ini.mci = ini.stage
  /\ tgt.at = "ack" /\ bus.ack /\ (~icdLate \/ tgt.ph \in Sending) =>
       ini.at = "wane" /\ (Doomed \/ tgt.ph = ini.stage)
  /\ \/ ini.stage = "status" /\ ini.at \in Transferring
     \/ ini.stage = "msgin" /\ ini.at = "wait"
     => tgt.ph \in {"status", "msgin", "busfree"}
  /\ \/ ini.stage = "msgin" /\ ini.at \in Transferring
     \/ ini.at = "result" /\ ini.ok
     => tgt.ph \in {"msgin", "busfree"}
  /\ ini.stage \in {"datain", "dataout"} /\ ini.at \in Transferring =>
       Doomed \/ tgt.ph \in {ini.stage, "status"}
  /\ ini.stage = "command" /\ ini.at \in Transferring /\ ~icdLate => Doomed \/ tgt.ph = "command"

(* What a good status for command o says of the data rasdump has received,  *)
(* and of those the target has.                                             *)
ReadWhole(o) == ini.count = DataLen => InOrder(ini.data, o, "datain")
WrittenWhole ==
  icdLate \/ (Op(tgt) \in 1..ini.op /\ (ini.kinds[Op(tgt)] = "out" => Len(tgt.data) = DataLen))

Vouched(byte) ==
  byte[2] = "GOOD" => byte = <<Op(tgt), "GOOD", 0>> /\ ReadWhole(Op(tgt)) /\ WrittenWhole

(* The data rasdump receives: counts ... *)
ReadCount ==
  /\ Opening /\ ini.at # "idle" => ini.data = <<>> /\ ini.count = 0
  /\ ini.at = "result" /\ ini.ok => ini.stage = "msgin"
  /\ Served =>
       /\ ini.stage \in {"command", "dataout"} => ini.data = <<>>
       /\ ini.stage \in {"command", "datain", "dataout"} => ini.count = 0
       /\ ini.stage = "datain" => Len(ini.data) = ini.n /\ ini.kinds[ini.op] = "in"
       /\ ini.stage = "dataout" => ini.kinds[ini.op] = "out"
       /\ ini.stage \in {"status", "msgin"} /\ ini.kinds[ini.op] = "in" =>
            Len(ini.data) = ini.count

(* ... and contents: they are those the target has sent, and the status is  *)
(* that of the same command.                                                *)
ReadData ==
  /\ Served /\ ~Doomed /\ tgt.ph = "datain" =>
       (ini.stage = "command" \/ (ini.stage = "datain" /\ ini.at = "wait") => Position(tgt) = 0)
  /\ ini.stage = "datain" /\ ini.at \in Transferring /\ ~Doomed =>
       /\ InOrder(ini.data, Op(tgt), "datain")
       /\ ini.at \in {"wane", "drop"} => ini.byte = <<Op(tgt), "datain", ini.n + 1>>
       /\ tgt.ph = "datain" =>
            Position(tgt) = IF bus.ack /\ tgt.at # "ack" THEN ini.n + 1 ELSE ini.n

StatusRead ==
  /\ ini.stage = "status" /\ ini.at \in {"wait", "capture", "req"} /\ ~Doomed =>
       ReadWhole(Op(tgt)) /\ (ini.data # <<>> => tgt.ph \in {"datain", "status"})
  /\ ini.stage = "status" /\ ini.at = "raise" => Vouched(bus.tdat)
  /\ ini.stage = "status" /\ ini.at \in {"wane", "drop"} => Vouched(ini.byte)
  /\ Served /\ (ini.stage = "msgin" \/ ini.at = "result") => Vouched(ini.status)

(* The bytes the target has taken.                                          *)
Accepted == Len(tgt.cdb) + IF tgt.icd THEN 1 ELSE 0

Prefix(byte) == byte[3] = 0 /\ tgt.cdb = <<>> /\ ~tgt.icd

Taken ==
  /\ InOrder(tgt.cdb, Op(tgt), "command") /\ InOrder(tgt.data, Op(tgt), "dataout")
  /\ tgt.cdb # <<>> => Op(tgt) \in 1..ini.op
  /\ tgt.cdb = <<>> => tgt.data = <<>>
  /\ tgt.ph = "command" => Len(tgt.cdb) < CdbLen
  /\ tgt.ph \in {"execute", "datain", "dataout"} => Len(tgt.cdb) = CdbLen
  /\ tgt.ph = "datain" => ini.kinds[Op(tgt)] = "in"
  /\ tgt.ph = "dataout" => ini.kinds[Op(tgt)] = "out"
  /\ tgt.ph \in {"status", "msgin"} /\ tgt.status = "GOOD" => WrittenWhole

(* The byte it is about to count.                                           *)
Ready ==
  /\ tgt.ph = "command" /\ tgt.at = "clear" =>
       /\ tgt.byte[1] \in 1..ini.op /\ tgt.byte[2] = "command"
       /\ Prefix(tgt.byte) \/ (/\ tgt.byte[3] = Len(tgt.cdb) + 1
                               /\ tgt.cdb # <<>> => tgt.byte[1] = Op(tgt))
  /\ tgt.ph = "dataout" /\ tgt.at = "clear" =>
       tgt.byte = <<Op(tgt), "dataout", Len(tgt.data) + 1>>

(* rasdump is in the command the target is in, and has counted what it has. *)
CommandSent ==
  /\ Opening /\ tgt.ph = "command" =>
       tgt.cdb = <<>> /\ ~tgt.icd /\ tgt.at \in {"ack", "error"}
  /\ ini.stage = "command" /\ ini.at \in Transferring /\ ~Doomed =>
       /\ tgt.cdb # <<>> => Op(tgt) = ini.op
       /\ tgt.icd <=> ini.icd /\ Accepted > 0
       /\ tgt.at = "ack" => ini.n = Accepted /\ ini.at # "drop"
       /\ tgt.at = "clear" =>
            \/ ini.at \in {"wane", "drop"} /\ ini.n = Accepted /\ tgt.byte = bus.idat
            \/ /\ ini.at = "req" /\ ini.n = Accepted + 1
               /\ tgt.byte = <<ini.op, "command", IF ini.icd THEN ini.n - 1 ELSE ini.n>>

DataSent ==
  /\ ini.stage = "dataout" /\ ini.at = "wait" /\ ~Doomed =>
       /\ tgt.ph \in {"command", "execute", "dataout"} =>
            (tgt.cdb # <<>> => Op(tgt) = ini.op) /\ tgt.data = <<>>
       /\ tgt.ph = "command" /\ tgt.at = "clear" => tgt.byte[1] = ini.op
       /\ tgt.ph = "dataout" => tgt.at \in {"between", "ack"}
  /\ ini.stage = "dataout" /\ ini.at \in Transferring /\ tgt.ph = "dataout" /\ ~Doomed =>
       /\ Op(tgt) = ini.op
       /\ tgt.at = "ack" => ini.n = Len(tgt.data)
       /\ tgt.at \in {"between", "done"} => ini.n = Len(tgt.data) /\ ini.at = "req"
       /\ tgt.at = "clear" =>
            \/ ini.at \in {"wane", "drop"} /\ ini.n = Len(tgt.data) /\ tgt.byte = bus.idat
            \/ ini.at = "req" /\ ini.n = Len(tgt.data) + 1

Writing == icdLate \/ (Taken /\ Ready /\ CommandSent /\ DataSent)

BusInv ==
  /\ BusTypeOK /\ TargetLines /\ TargetCount /\ InitiatorLines
  /\ Meeting /\ ReadCount /\ ReadData /\ StatusRead /\ Writing

-----------------------------------------------------------------------------
(* The beginning, and steps that change nothing of a transfer               *)

LEMMA NoByteType == NoByte \in Bytes /\ NoByte[2] = "none"
  BY DEF NoByte, Bytes, Whats

LEMMA ByteType ==
  ASSUME NEW op \in Nat, NEW what \in Whats, NEW k \in Nat
  PROVE  <<op, what, k>> \in Bytes
  BY DEF Bytes

LEMMA ByteParts == \A byte \in Bytes : byte = <<byte[1], byte[2], byte[3]>>
  BY DEF Bytes

LEMMA Multiples == \A m \in Nat : m * BlockLen \in Nat
  BY BusAssumption

LEMMA DataLenType == DataLen \in Nat /\ DataLen # 0
<1>1. DataLen \in Nat
  BY Multiples, BusAssumption DEF DataLen
<1>2. DataLen # 0
  BY BusAssumption DEF DataLen
<1> QED
  BY <1>1, <1>2

LEMMA InvInit == BusInit => BusInv
<1> SUFFICES ASSUME BusInit PROVE BusInv
  OBVIOUS
<1>1. BusTypeOK
  <2>1. bus \in Lines
    BY NoByteType DEF BusInit, Lines, Stages
  <2>2. tgt \in Targets
    BY NoByteType DEF BusInit, Targets, TargetFree, Phases
  <2>3. ini \in Initiators
    BY NoByteType DEF BusInit, Initiators, Off, Stages
  <2> QED
    BY <2>1, <2>2, <2>3 DEF BusTypeOK, BusInit
<1>2. TargetLines /\ TargetCount
  BY DEF BusInit, TargetLines, TargetCount, TargetFree, NoByte, Stages, Sending
<1>3. InitiatorLines
  BY BusAssumption DEF BusInit, InitiatorLines, Off, Served, Opening, Transferring, Handshake, TargetFree
<1>4. Meeting /\ ReadCount /\ ReadData /\ StatusRead
  BY DEF BusInit, Meeting, ReadCount, ReadData, StatusRead, Off, Served, Transferring, Handshake, TargetFree
<1>5. Writing
  BY DEF BusInit, Writing, Taken, Ready, CommandSent, DataSent, Off, Opening, Transferring, Handshake,
         TargetFree, InOrder, Op
<1> QED
  BY <1>1, <1>2, <1>3, <1>4, <1>5 DEF BusInv

(* The target frees the bus: TargetReset, Error, and the end of the phases. *)
LEMMA FreeKeeps ==
  ASSUME BusInv, BusFree, UNCHANGED <<ini, icdLate>>
  PROVE  BusInv'
<1>1. BusTypeOK'
  BY NoByteType DEF BusInv, BusTypeOK, Lines, Targets, BusFree, Quiet, Phases, Stages
<1>2. /\ tgt'.ph = "busfree" /\ tgt'.at = "between" /\ Doomed' /\ Op(tgt') = Op(tgt)
      /\ tgt'.data = tgt.data /\ tgt'.cdb = tgt.cdb
      /\ ~bus'.req /\ bus'.mci = "dataout" /\ bus'.tdat = NoByte
      /\ bus'.ack = bus.ack /\ bus'.sel = bus.sel /\ bus'.rst = bus.rst /\ bus'.idat = bus.idat
  BY DEF BusInv, BusTypeOK, Lines, Targets, BusFree, Quiet, Doomed, Op
<1>3. TargetLines' /\ TargetCount'
  BY <1>2 DEF TargetLines, TargetCount, Stages, Sending, NoByte
<1>4. InitiatorLines'
  BY <1>2 DEF BusInv, InitiatorLines, Served, Opening, Sends, SentLen, Index
<1>5. Meeting'
  BY <1>2 DEF BusInv, Meeting, Served, Sending
<1>6. ReadCount' /\ ReadData' /\ StatusRead'
  BY <1>2 DEF BusInv, ReadCount, ReadData, StatusRead, Served, Opening, Vouched, ReadWhole,
              WrittenWhole, NoByte
<1>7. Writing'
  BY <1>2 DEF BusInv, Writing, Taken, Ready, CommandSent, DataSent, Opening, WrittenWhole
<1> QED
  BY <1>1, <1>3, <1>4, <1>5, <1>6, <1>7 DEF BusInv

-----------------------------------------------------------------------------
(* The initiator outside its transfers                                      *)

(* It changes its own lines only, and the kinds of its commands stay.       *)
OwnLines ==
  /\ bus' \in Lines
  /\ bus'.bsy = bus.bsy /\ bus'.req = bus.req /\ bus'.mci = bus.mci /\ bus'.tdat = bus.tdat

SameCommands ==
  /\ ini' \in Initiators /\ ini.op <= ini'.op /\ ini'.op <= OpMax /\ Len(ini'.kinds) = ini'.op
  /\ \A k \in 1..ini.op : ini'.kinds[k] = ini.kinds[k]

LEMMA OwnStep ==
  ASSUME BusInv, OwnLines, SameCommands, UNCHANGED <<tgt, icdLate>>
  PROVE  /\ BusTypeOK' /\ TargetLines' /\ TargetCount' /\ (Doomed' <=> Doomed)
         /\ WrittenWhole => WrittenWhole'
         /\ icdLate \/ (Taken /\ Ready) => icdLate' \/ (Taken' /\ Ready')
<1>1. BusTypeOK' /\ TargetLines' /\ TargetCount' /\ (Doomed' <=> Doomed)
  BY DEF BusInv, BusTypeOK, OwnLines, SameCommands, TargetLines, TargetCount, Doomed, SentByte,
         Op, Position
<1>2. /\ tgt' = tgt /\ Op(tgt') = Op(tgt) /\ icdLate' = icdLate
      /\ \A k \in 1..ini.op : k \in 1..ini'.op /\ ini'.kinds[k] = ini.kinds[k]
  BY DEF BusInv, BusTypeOK, Initiators, SameCommands
<1>3. WrittenWhole => WrittenWhole'
  BY <1>2 DEF WrittenWhole
<1>4. Taken => Taken'
  <2> SUFFICES ASSUME Taken PROVE Taken'
    OBVIOUS
  <2>1. tgt.cdb # <<>> => Op(tgt) \in 1..ini.op /\ ini'.kinds[Op(tgt)] = ini.kinds[Op(tgt)]
    BY <1>2 DEF Taken
  <2>2. tgt.ph \in {"execute", "datain", "dataout"} => tgt.cdb # <<>>
    BY BusAssumption DEF BusInv, BusTypeOK, Targets, Taken
  <2> QED
    BY <1>2, <1>3, <2>1, <2>2 DEF Taken, InOrder
<1>5. Ready => Ready'
  <2>1. \A k \in 1..ini.op : k \in 1..ini'.op
    BY <1>2
  <2> QED
    BY <1>2, <2>1 DEF Ready, Prefix
<1> QED
  BY <1>1, <1>2, <1>3, <1>4, <1>5

(* It ends a command without a result, is killed, or begins to reset.       *)
LEMMA LeaveKeeps ==
  ASSUME BusInv, OwnLines, SameCommands, UNCHANGED <<tgt, icdLate>>,
         ini'.at \in {"off", "pulse", "result"}, ini'.at = "result" => ~ini'.ok,
         ~bus'.sel, ~bus'.ack, bus'.rst <=> ini'.at = "pulse"
  PROVE  BusInv'
<1>1. ~Served' /\ ~Opening' /\ ini'.at \notin Transferring /\ ini'.at \notin Handshake
  BY DEF Served, Opening, Transferring, Handshake
<1>2. InitiatorLines'
  BY <1>1 DEF SameCommands, InitiatorLines
<1>3. Meeting' /\ ReadCount' /\ ReadData' /\ StatusRead'
  BY <1>1 DEF Meeting, ReadCount, ReadData, StatusRead, Transferring, Handshake
<1>4. Writing'
  BY <1>1, OwnStep DEF BusInv, Writing, CommandSent, DataSent
<1> QED
  BY <1>2, <1>3, <1>4, OwnStep DEF BusInv

(* It is on its way to a command: what is in the target is older, or has    *)
(* not begun.                                                               *)
LEMMA OpeningKeeps ==
  ASSUME BusInv, OwnLines, SameCommands, UNCHANGED <<tgt, icdLate>>, Opening',
         Opening \/ tgt.ph # "command", ini'.n = 0 \/ ini'.at # "wait",
         ini'.at # "idle" => ini'.op >= 1 /\ ini'.ask > 0 /\ ini'.data = <<>> /\ ini'.count = 0,
         ~bus'.ack, ~bus'.rst, bus'.sel <=> ini'.at \in {"select", "selected", "unselected"}
  PROVE  BusInv'
<1>1. /\ ~Served' /\ ini'.at \notin Transferring /\ ini'.at \notin Handshake
      /\ ini'.at \notin {"pulse", "result", "capture", "wane", "drop"}
      /\ ini'.at = "wait" => ini'.stage = "command"
  BY DEF Served, Opening, Transferring, Handshake
<1>2. InitiatorLines'
  BY <1>1 DEF SameCommands, InitiatorLines
<1>3. Meeting' /\ ReadCount' /\ ReadData' /\ StatusRead'
  BY <1>1 DEF Meeting, ReadCount, ReadData, StatusRead, Transferring, Handshake
<1>4. Writing'
  BY <1>1, OwnStep DEF BusInv, Writing, CommandSent, DataSent
<1> QED
  BY <1>2, <1>3, <1>4, OwnStep DEF BusInv

LEMMA LetGoIs ==
  ASSUME BusInv
  PROVE  /\ LetGo(bus) \in Lines /\ LetGo(bus).bsy = bus.bsy /\ LetGo(bus).req = bus.req
         /\ LetGo(bus).mci = bus.mci /\ LetGo(bus).tdat = bus.tdat
         /\ ~LetGo(bus).sel /\ ~LetGo(bus).ack /\ LetGo(bus).rst = bus.rst
  BY NoByteType DEF BusInv, BusTypeOK, Lines, LetGo

LEMMA CommandsKept ==
  ASSUME BusInv, ini' \in Initiators, ini'.op = ini.op, ini'.kinds = ini.kinds
  PROVE  SameCommands
  BY DEF BusInv, BusTypeOK, InitiatorLines, Initiators, SameCommands

LEMMA LeavingSteps ==
  ASSUME BusInv, Start \/ Kill
  PROVE  BusInv'
<1>1. CASE Start
  <2>1. OwnLines /\ ~bus'.sel /\ ~bus'.ack /\ bus'.rst
    BY <1>1, LetGoIs DEF Start, OwnLines, Lines
  <2>2. ini' \in Initiators /\ ini'.op = ini.op /\ ini'.kinds = ini.kinds /\ ini'.at = "pulse"
    BY <1>1 DEF BusInv, BusTypeOK, Initiators, Start
  <2> QED
    BY <1>1, <2>1, <2>2, CommandsKept, LeaveKeeps DEF Start, IniStep
<1>2. CASE Kill
  <2>1. OwnLines /\ ~bus'.sel /\ ~bus'.ack /\ ~bus'.rst
    BY <1>2, LetGoIs DEF Kill, OwnLines, Lines
  <2>2. ini' \in Initiators /\ ini'.op = ini.op /\ ini'.kinds = ini.kinds /\ ini'.at = "off"
    BY <1>2 DEF BusInv, BusTypeOK, Initiators, Kill
  <2> QED
    BY <1>2, <2>1, <2>2, CommandsKept, LeaveKeeps DEF Kill
<1> QED
  BY <1>1, <1>2

(* Finish, and the ends of a transfer without a result.                     *)
LEMMA FinishKeeps ==
  ASSUME BusInv, NEW i \in Initiators, i.op = ini.op, i.kinds = ini.kinds, ini.at # "pulse",
         ini' = [i EXCEPT !.at = "result", !.ok = FALSE], bus' = LetGo(bus),
         UNCHANGED <<tgt, icdLate>>
  PROVE  BusInv'
<1>1. OwnLines /\ ~bus'.sel /\ ~bus'.ack /\ ~bus'.rst
  BY LetGoIs DEF OwnLines, BusInv, InitiatorLines
<1>2. /\ ini' \in Initiators /\ ini'.op = ini.op /\ ini'.kinds = ini.kinds
      /\ ini'.at = "result" /\ ~ini'.ok
  BY DEF Initiators
<1> QED
  BY <1>1, <1>2, CommandsKept, LeaveKeeps

LEMMA OpeningSteps ==
  ASSUME BusInv, Pulse \/ Begin \/ SelectPolled \/ SelectEnd \/ NextCommand
  PROVE  BusInv'
<1>1. CASE Pulse
  <2>1. OwnLines /\ ~bus'.sel /\ ~bus'.ack /\ ~bus'.rst
    BY <1>1 DEF BusInv, BusTypeOK, InitiatorLines, Lines, Pulse, IniStep, OwnLines
  <2>2. ini' \in Initiators /\ ini'.op = ini.op /\ ini'.kinds = ini.kinds /\ ini'.at = "idle"
    BY <1>1 DEF BusInv, BusTypeOK, Initiators, Pulse
  <2>3. UNCHANGED <<tgt, icdLate>> /\ tgt.ph # "command"
    BY <1>1 DEF BusInv, TargetLines, Pulse, IniStep, Unnoticed
  <2> QED
    BY <2>1, <2>2, <2>3, CommandsKept, OpeningKeeps DEF Opening
<1>2. CASE Begin
  <2>1. PICK kind \in Kinds, icd \in BOOLEAN, more \in 0..1 :
          ini' = [Off EXCEPT !.at = "select", !.op = ini.op + 1, !.kinds = Append(ini.kinds, kind),
                             !.icd = icd, !.ask = DataLen + more]
    BY <1>2 DEF Begin
  <2>2. /\ OwnLines /\ bus'.sel /\ ~bus'.ack /\ ~bus'.rst
        /\ UNCHANGED <<tgt, icdLate>> /\ ini.at = "idle" /\ ini.op < OpMax
    <3>1. <<ini.op + 1, "id", 0>> \in Bytes
      <4>1. ini.op + 1 \in Nat /\ 0 \in Nat /\ "id" \in Whats
        BY DEF BusInv, BusTypeOK, Initiators, Whats
      <4> QED
        BY <4>1, ByteType
    <3> QED
      BY <1>2, <3>1 DEF BusInv, BusTypeOK, InitiatorLines, Lines, Begin, IniStep, OwnLines
  <2>3. ini' \in Initiators /\ ini'.at = "select" /\ ini'.op = ini.op + 1
        /\ ini'.kinds = Append(ini.kinds, kind)
    <3>1. DataLen + more \in Nat
      <4>1. more \in 0..1
        BY <2>1
      <4>2. more \in Nat
        BY <4>1
      <4> QED
        BY <4>2, DataLenType
    <3>2. ini.op + 1 \in Nat /\ Append(ini.kinds, kind) \in Seq(Kinds)
      BY <2>1 DEF BusInv, BusTypeOK, Initiators
    <3>3. Off \in Initiators
      BY NoByteType DEF Initiators, Off, Stages
    <3> HIDE DEF DataLen
    <3> QED
      BY <2>1, <3>1, <3>2, <3>3 DEF Initiators
  <2>4. SameCommands
    BY <2>2, <2>3, BusAssumption DEF BusInv, BusTypeOK, InitiatorLines, Initiators, SameCommands
  <2>5. ini'.op >= 1 /\ ini'.ask > 0 /\ ini'.data = <<>> /\ ini'.count = 0
    <3>1. more \in Nat
      BY <2>1
    <3>2. DataLen + more > 0
      BY <3>1, DataLenType
    <3> QED
      BY <2>1, <2>3, <3>2 DEF BusInv, BusTypeOK, Initiators, Off
  <2> QED
    BY <2>2, <2>3, <2>4, <2>5, OpeningKeeps DEF Opening
<1>3. CASE SelectPolled
  <2>1. /\ ini' \in Initiators /\ ini'.op = ini.op /\ ini'.kinds = ini.kinds
        /\ ini'.at \in {"selected", "unselected"}
        /\ ini'.ask = ini.ask /\ ini'.data = ini.data /\ ini'.count = ini.count
    BY <1>3 DEF BusInv, BusTypeOK, Initiators, SelectPolled
  <2>2. /\ OwnLines /\ bus' = bus /\ bus.sel /\ ~bus.ack /\ ~bus.rst /\ ini.op >= 1 /\ Opening
        /\ UNCHANGED <<tgt, icdLate>> /\ ini.ask > 0 /\ ini.data = <<>> /\ ini.count = 0
    BY <1>3 DEF BusInv, BusTypeOK, InitiatorLines, ReadCount, SelectPolled, IniStep, OwnLines, Opening
  <2> QED
    BY <2>1, <2>2, CommandsKept, OpeningKeeps DEF Opening
<1>4. CASE SelectEnd
  <2>1. CASE IniStep("selected") /\ WaitFor("command", ini) /\ bus' = [bus EXCEPT !.sel = FALSE]
    <3>1. /\ ini' \in Initiators /\ ini'.op = ini.op /\ ini'.kinds = ini.kinds
          /\ ini'.at = "wait" /\ ini'.stage = "command" /\ ini'.n = 0
          /\ ini'.ask = ini.ask /\ ini'.data = ini.data /\ ini'.count = ini.count
      BY <2>1 DEF BusInv, BusTypeOK, Initiators, WaitFor, Stages
    <3>2. OwnLines /\ ~bus'.sel /\ ~bus'.ack /\ ~bus'.rst
      BY <2>1 DEF BusInv, BusTypeOK, InitiatorLines, Lines, IniStep, OwnLines
    <3>3. /\ ini.op >= 1 /\ Opening /\ UNCHANGED <<tgt, icdLate>>
          /\ ini.ask > 0 /\ ini.data = <<>> /\ ini.count = 0
      BY <2>1 DEF BusInv, InitiatorLines, ReadCount, IniStep, Opening
    <3> QED
      BY <3>1, <3>2, <3>3, CommandsKept, OpeningKeeps DEF Opening
  <2>2. CASE IniStep("unselected") /\ Finish(FALSE)
    BY <2>2, FinishKeeps DEF IniStep, Finish, BusInv, BusTypeOK
  <2> QED
    BY <1>4, <2>1, <2>2 DEF SelectEnd
<1>5. CASE NextCommand
  <2>1. /\ ini' \in Initiators /\ ini'.op = ini.op /\ ini'.kinds = ini.kinds
        /\ ini'.at = IF ini.ok THEN "idle" ELSE "off"
    BY <1>5 DEF BusInv, BusTypeOK, Initiators, NextCommand
  <2>2. /\ OwnLines /\ bus' = bus /\ ini.at = "result" /\ UNCHANGED <<tgt, icdLate>>
        /\ ~bus.sel /\ ~bus.ack /\ ~bus.rst
    BY <1>5 DEF BusInv, BusTypeOK, InitiatorLines, NextCommand, IniStep, OwnLines
  <2>3. CASE ini.ok
    <3>1. tgt.ph # "command"
      BY <2>2, <2>3 DEF BusInv, Meeting
    <3> QED
      BY <2>1, <2>2, <2>3, <3>1, CommandsKept, OpeningKeeps DEF Opening
  <2>4. CASE ~ini.ok
    BY <2>1, <2>2, <2>4, CommandsKept, LeaveKeeps
  <2> QED
    BY <2>3, <2>4
<1> QED
  BY <1>1, <1>2, <1>3, <1>4, <1>5


-----------------------------------------------------------------------------
(* The target: what all its steps keep, and those that give a command up    *)

(* It changes its own lines only.                                           *)
TargetStepOnly ==
  /\ bus' \in Lines /\ tgt' \in Targets /\ ini' = ini /\ icdLate' \in BOOLEAN
  /\ bus'.sel = bus.sel /\ bus'.ack = bus.ack /\ bus'.idat = bus.idat /\ bus'.rst = bus.rst

SameBytes == tgt'.cdb = tgt.cdb /\ tgt'.data = tgt.data /\ tgt'.icd = tgt.icd

LEMMA TargetKeeps ==
  ASSUME BusInv, TargetStepOnly
  PROVE  BusTypeOK' /\ InitiatorLines' /\ ReadCount'
<1>1. BusTypeOK'
  BY DEF BusInv, BusTypeOK, TargetStepOnly
<1>2. InitiatorLines'
  BY DEF BusInv, TargetStepOnly, InitiatorLines, Served, Opening, Sends, SentLen, Index
<1>3. ReadCount'
  BY DEF BusInv, TargetStepOnly, ReadCount, Served, Opening
<1> QED
  BY <1>1, <1>2, <1>3

LEMMA SameOp ==
  ASSUME SameBytes, ini' = ini, icdLate' = icdLate
  PROVE  /\ Op(tgt') = Op(tgt) /\ Op(tgt)' = Op(tgt) /\ (WrittenWhole' <=> WrittenWhole) /\ Accepted' = Accepted
         /\ \A o : ReadWhole(o)' <=> ReadWhole(o)
         /\ bus'.tdat = bus.tdat => (Vouched(bus.tdat)' <=> Vouched(bus.tdat))
         /\ (Vouched(ini.byte)' <=> Vouched(ini.byte))
         /\ (Vouched(ini.status)' <=> Vouched(ini.status))
<1>1. Op(tgt') = Op(tgt) /\ Op(tgt)' = Op(tgt) /\ Accepted' = Accepted
  BY DEF SameBytes, Op, Accepted
<1>2. WrittenWhole' <=> WrittenWhole
  BY <1>1 DEF WrittenWhole, SameBytes
<1>3. \A o : ReadWhole(o)' <=> ReadWhole(o)
  BY DEF ReadWhole
<1> QED
  BY <1>1, <1>2, <1>3 DEF Vouched

(* A wait failed, or the device refused a block.                            *)
LEMMA DoomKeeps ==
  ASSUME BusInv, TargetStepOnly, SameBytes, icdLate' = icdLate,
         tgt.ph \in Stages, tgt'.ph = tgt.ph, tgt'.n = tgt.n, tgt'.blocks = tgt.blocks,
         tgt'.status = tgt.status, ~bus'.req, bus'.mci = bus.mci, bus'.tdat = bus.tdat,
         tgt'.at = "error" \/ (tgt'.at = "drain" /\ tgt'.failed /\ tgt.ph \in Sending)
  PROVE  BusInv'
<1>1. Doomed'
  BY DEF Doomed
<1>2. TargetLines' /\ TargetCount'
  BY SameOp DEF BusInv, TargetLines, TargetCount, Position, SameBytes, TargetStepOnly, Sending, Stages
<1>3. Meeting'
  BY <1>1 DEF BusInv, TargetStepOnly, Meeting, Served, Transferring, Handshake
<1>4. ReadData' /\ StatusRead'
  BY <1>1, SameOp DEF BusInv, TargetStepOnly, ReadData, StatusRead, Served
<1>5. icdLate \/ (Taken' /\ Ready')
  <2>1. Ready'
    BY DEF Ready
  <2> QED
    BY <2>1, SameOp DEF BusInv, TargetStepOnly, SameBytes, Writing, Taken, Sending
<1>6. icdLate \/ (CommandSent' /\ DataSent')
  BY <1>1, SameOp DEF BusInv, TargetStepOnly, SameBytes, Writing, CommandSent, DataSent, Opening, Sending
<1> QED
  BY <1>2, <1>3, <1>4, <1>5, <1>6, TargetKeeps DEF BusInv, Writing

(* The status phase with a status that is not good.                         *)
LEMMA CheckKeeps ==
  ASSUME BusInv, Status("CHECK CONDITION"), UNCHANGED <<ini, icdLate>>,
         tgt.ph \in {"command", "execute", "datain", "dataout"}, ~bus.req
  PROVE  BusInv'
<1>1. TargetStepOnly /\ SameBytes
  BY DEF BusInv, BusTypeOK, Status, Enter, Lines, Targets, Stages, Phases, TargetStepOnly, SameBytes
<1>2. /\ tgt'.ph = "status" /\ tgt'.at = "between" /\ tgt'.n = 0 /\ tgt'.status = "CHECK CONDITION"
      /\ bus'.mci = "status" /\ ~bus'.req /\ bus'.tdat = bus.tdat
  BY DEF BusInv, BusTypeOK, Status, Enter, Lines, Targets
<1>3. Doomed'
  BY <1>2 DEF Doomed
<1>4. TargetLines' /\ TargetCount'
  BY <1>2 DEF BusInv, TargetLines, TargetCount, Sending, Stages
<1>5. Meeting'
  BY <1>1, <1>2, <1>3 DEF BusInv, TargetStepOnly, Meeting, Served, Transferring, Handshake
<1>6. ReadData' /\ StatusRead'
  BY <1>1, <1>2, <1>3, SameOp DEF BusInv, TargetStepOnly, ReadData, StatusRead, Served
<1>7. Writing'
  BY <1>1, <1>2, <1>3, SameOp
  DEF BusInv, TargetStepOnly, SameBytes, Writing, Taken, Ready, CommandSent, DataSent, Opening
<1> QED
  BY <1>1, <1>4, <1>5, <1>6, <1>7, TargetKeeps DEF BusInv

LEMMA ErrorKeeps ==
  ASSUME BusInv, Error, UNCHANGED <<ini, icdLate>>
  PROVE  BusInv'
<1>1. CASE BusFree
  BY <1>1, FreeKeeps
<1>2. CASE tgt.ph \notin {"status", "msgin"} /\ Status("CHECK CONDITION")
  <2>1. tgt.ph \in {"command", "execute", "datain", "dataout"} /\ ~bus.req
    BY <1>2 DEF Error, BusInv, BusTypeOK, TargetLines, Targets, Phases, Stages
  <2> QED
    BY <1>2, <2>1, CheckKeeps
<1> QED
  BY <1>1, <1>2 DEF Error, TargetReset

-----------------------------------------------------------------------------
(* The target: selection, and the execution of a command                    *)

LEMMA SelectedKeeps ==
  ASSUME BusInv, Selected, UNCHANGED <<ini, icdLate>>
  PROVE  BusInv'
<1>1. TargetStepOnly /\ SameBytes
  BY DEF BusInv, BusTypeOK, Selected, Lines, Targets, Phases, TargetStepOnly, SameBytes
<1>2. /\ tgt.ph = "busfree" /\ tgt'.ph = "selection" /\ tgt'.at = tgt.at /\ tgt'.n = tgt.n
      /\ bus'.mci = bus.mci /\ bus'.req = bus.req /\ bus'.tdat = bus.tdat
  BY DEF BusInv, BusTypeOK, Selected, Lines, Targets
<1>3. ~Served /\ ini.at \notin Transferring /\ ini.at \notin Handshake /\ ini.at # "wane"
      /\ ini.at # "result" /\ ini.at # "wait"
  BY DEF Selected, BusInv, InitiatorLines, Served, Transferring, Handshake
<1>4. TargetLines' /\ TargetCount'
  BY <1>1, <1>2, SameOp DEF BusInv, TargetLines, TargetCount, Sending, Stages, Position, TargetStepOnly
<1>5. Meeting' /\ ReadData' /\ StatusRead'
  BY <1>1, <1>2, <1>3 DEF BusInv, TargetLines, TargetStepOnly, Meeting, ReadData, StatusRead, Served,
                          Transferring, Handshake
<1>6. Writing'
  BY <1>1, <1>2, <1>3, SameOp
  DEF BusInv, TargetStepOnly, SameBytes, Writing, Taken, Ready, CommandSent, DataSent, Opening
<1> QED
  BY <1>1, <1>4, <1>5, <1>6, TargetKeeps DEF BusInv

LEMMA CommandKeeps ==
  ASSUME BusInv, Command, UNCHANGED <<ini, icdLate>>
  PROVE  BusInv'
<1>1. CASE TargetReset
  BY <1>1, FreeKeeps DEF TargetReset
<1>2. CASE ~bus.rst /\ ~bus.sel /\ tgt' = [TargetFree EXCEPT !.ph = "command", !.at = "ack"]
           /\ bus' = [bus EXCEPT !.mci = "command", !.req = TRUE]
  <2>1. TargetStepOnly
    <3>1. TargetFree \in Targets
      BY NoByteType DEF Targets, TargetFree, Phases
    <3>2. tgt' \in Targets
      BY <1>2, <3>1 DEF Targets, Phases, Stages
    <3> QED
      BY <1>2, <3>2 DEF BusInv, BusTypeOK, Lines, Stages, TargetStepOnly
  <2>2. /\ tgt'.ph = "command" /\ tgt'.at = "ack" /\ tgt'.cdb = <<>> /\ tgt'.data = <<>>
        /\ tgt'.icd = FALSE /\ tgt'.n = 0 /\ tgt'.status = "GOOD" /\ Op(tgt') = 0 /\ Accepted' = 0
        /\ bus'.mci = "command" /\ bus'.req = TRUE /\ bus'.tdat = bus.tdat
    BY <1>2 DEF BusInv, BusTypeOK, Lines, TargetFree, Op, Accepted
  <2>3. ~Served /\ ini.at \notin Transferring /\ ini.at \notin Handshake /\ ~bus.ack
    BY DEF Command, BusInv, Meeting, InitiatorLines, Served, Transferring, Handshake
  <2>4. TargetLines' /\ TargetCount'
    BY <2>2 DEF Command, BusInv, TargetLines, TargetCount, Sending, Stages
  <2>5. Meeting' /\ ReadData' /\ StatusRead'
    BY <2>1, <2>2, <2>3 DEF TargetStepOnly, Meeting, ReadData, StatusRead, Served, Transferring, Handshake
  <2>6. Writing'
    BY <2>1, <2>2, <2>3, BusAssumption
    DEF BusInv, TargetStepOnly, Writing, Taken, Ready, CommandSent, DataSent, Opening, InOrder, Served,
        Transferring, Handshake
  <2> QED
    BY <2>1, <2>4, <2>5, <2>6, TargetKeeps DEF BusInv
<1> QED
  BY <1>1, <1>2 DEF Command


LEMMA CommandIsOf ==
  ASSUME BusInv, tgt.ph = "execute", ~icdLate
  PROVE  CommandOf(tgt.cdb) /\ tgt.cdb[1][1] = Op(tgt)
<1>1. /\ InOrder(tgt.cdb, Op(tgt), "command") /\ Len(tgt.cdb) = CdbLen
      /\ tgt.cdb # <<>> => Op(tgt) \in 1..ini.op
  BY DEF BusInv, Writing, Taken
<1>2. tgt.cdb \in Seq(Bytes) /\ ini.op \in Nat /\ ini.op <= OpMax
  BY DEF BusInv, BusTypeOK, Targets, Initiators, InitiatorLines
<1>3. tgt.cdb # <<>> /\ DOMAIN tgt.cdb = 1..CdbLen
  <2>1. Len(tgt.cdb) # 0 /\ DOMAIN tgt.cdb = 1..Len(tgt.cdb)
    BY <1>1, <1>2, BusAssumption
  <2> QED
    BY <1>1, <2>1
<1>4. Op(tgt) \in 1..OpMax
  BY <1>1, <1>2, <1>3, BusAssumption
<1>5. tgt.cdb = [k \in 1..CdbLen |-> <<Op(tgt), "command", k>>]
  <2>1. tgt.cdb = [k \in 1..CdbLen |-> tgt.cdb[k]]
    BY <1>1, <1>2, LenProperties
  <2>2. \A k \in 1..CdbLen : tgt.cdb[k] = <<Op(tgt), "command", k>>
    BY <1>1, <1>3 DEF InOrder
  <2> QED
    BY <2>1, <2>2
<1> QED
  BY <1>3, <1>4, <1>5 DEF CommandOf, Op

LEMMA PositionStart ==
  ASSUME NEW t, t.blocks = BlockTotal, t.n = 0
  PROVE  Position(t) = 0
<1>1. (BlockTotal - t.blocks) * BlockLen = 0
  BY BusAssumption
<1> QED
  BY <1>1 DEF Position

(* Of the initiator's stages, this leaves the wait for the next phase, and  *)
(* with a byte that counted twice the end of the command.                   *)
LEMMA ExecutedBehind ==
  ASSUME BusInv, tgt.ph = "execute"
  PROVE  /\ ~Doomed /\ tgt.at = "between" /\ ~bus.req
         /\ ini.at \notin {"capture", "raise"}
         /\ ini.at \in Transferring => ini.stage = "command" /\ icdLate
         /\ ini.at = "wait" => ini.stage # "msgin"
         /\ ~(ini.at = "result" /\ ini.ok)
<1>1. ~Doomed /\ tgt.at = "between" /\ ~bus.req
  BY DEF BusInv, TargetLines, Doomed
<1>2. ini.stage \in Stages
  BY DEF BusInv, BusTypeOK, Initiators
<1> QED
  BY <1>1, <1>2 DEF BusInv, Meeting, Stages

LEMMA ExecutedKeeps ==
  ASSUME BusInv, UNCHANGED <<ini, icdLate>>, tgt.ph = "execute", NEW phase, NEW t,
         Enter(phase, t),
         \/ phase = "status" /\ t = [tgt EXCEPT !.status = "GOOD"]
         \/ phase \in {"datain", "dataout"} /\ t = [tgt EXCEPT !.blocks = BlockTotal],
         icdLate \/ ini.kinds[Op(tgt)] = CASE phase = "status" -> "none" [] phase = "datain" -> "in"
                                           [] OTHER -> "out"
  PROVE  BusInv'
<1>1. /\ tgt'.ph = phase /\ phase \in {"status", "datain", "dataout"} /\ tgt'.at = "between"
      /\ tgt'.n = 0 /\ tgt'.failed = FALSE
      /\ phase \in {"datain", "dataout"} => tgt'.blocks = BlockTotal
      /\ phase = "status" => tgt'.status = "GOOD"
      /\ bus'.mci = phase /\ bus'.req = bus.req /\ bus'.tdat = bus.tdat
  BY DEF BusInv, BusTypeOK, Enter, Lines, Targets
<1>2. TargetStepOnly /\ SameBytes
  <2>1. t \in Targets /\ t.cdb = tgt.cdb /\ t.data = tgt.data /\ t.icd = tgt.icd
    <3>1. tgt \in Targets
      BY DEF BusInv, BusTypeOK
    <3>2. CASE t = [tgt EXCEPT !.status = "GOOD"]
      BY <3>1, <3>2 DEF Targets
    <3>3. CASE t = [tgt EXCEPT !.blocks = BlockTotal]
      BY <3>1, <3>3, BusAssumption DEF Targets
    <3> QED
      BY <3>2, <3>3
  <2>2. tgt' \in Targets /\ SameBytes
    BY <1>1, <2>1 DEF Enter, Targets, Phases, Stages, SameBytes
  <2> QED
    BY <1>1, <2>2 DEF BusInv, BusTypeOK, Enter, Lines, Stages, TargetStepOnly
<1>3. ~Doomed'
  BY <1>1 DEF Doomed
<1>4. Position(tgt') = 0 \/ phase = "status"
  BY <1>1, PositionStart
<1>5. tgt.data = <<>>
  BY DEF BusInv, TargetCount
<1>6. icdLate \/ Op(tgt) \in 1..ini.op
  <2> SUFFICES ASSUME ~icdLate PROVE tgt.cdb # <<>>
    BY DEF BusInv, Writing, Taken
  <2> QED
    BY BusAssumption DEF BusInv, BusTypeOK, Targets, Writing, Taken
<1>7. TargetLines' /\ TargetCount'
  <2>1. Op(tgt') = Op(tgt) /\ bus'.tdat[2] # "GOOD"
    BY <1>1, <1>2, SameOp DEF BusInv, TargetLines
  <2>2. TargetLines'
    BY <1>1, <1>2, <2>1, ExecutedBehind DEF TargetLines, Sending, Stages
  <2>3. TargetCount'
    BY <1>1, <1>2, <1>4, <1>5, BusAssumption DEF TargetCount, SameBytes
  <2> QED
    BY <2>2, <2>3
<1>8. Meeting'
  BY <1>1, <1>2, <1>3, ExecutedBehind DEF BusInv, TargetStepOnly, Meeting, Served, Transferring, Handshake
<1>9. ReadData' /\ StatusRead'
  <2>1. ReadData'
    BY <1>1, <1>2, <1>3, <1>4, ExecutedBehind DEF TargetStepOnly, ReadData
  <2>2. StatusRead'
    BY <1>1, <1>2, <1>3, ExecutedBehind, SameOp DEF BusInv, TargetStepOnly, StatusRead, Served
  <2> QED
    BY <2>1, <2>2
<1>10. Writing'
  <2> SUFFICES ASSUME ~icdLate PROVE Taken' /\ Ready' /\ CommandSent' /\ DataSent'
    BY DEF Writing
  <2>1. Taken' /\ Ready'
    BY <1>1, <1>2, <1>5, <1>6, SameOp DEF BusInv, TargetStepOnly, SameBytes, Writing, Taken, Ready, WrittenWhole
  <2>2. CommandSent'
    BY <1>1, <1>2, ExecutedBehind DEF TargetStepOnly, CommandSent
  <2>3. DataSent'
    BY <1>1, <1>2, <1>3, <1>5, ExecutedBehind, SameOp
    DEF BusInv, TargetStepOnly, SameBytes, Writing, DataSent
  <2> QED
    BY <2>1, <2>2, <2>3
<1> QED
  BY <1>2, <1>7, <1>8, <1>9, <1>10, TargetKeeps DEF BusInv

LEMMA ExecuteKeeps ==
  ASSUME BusInv, Execute, UNCHANGED <<ini, icdLate>>
  PROVE  BusInv'
<1>1. CASE Status("CHECK CONDITION")
  BY <1>1, CheckKeeps, ExecutedBehind DEF Execute
<1>2. CASE ~Status("CHECK CONDITION")
  <2>1. PICK kind \in IF CommandOf(tgt.cdb) THEN {ini.kinds[tgt.cdb[1][1]]} ELSE Kinds :
          \/ kind = "none" /\ Status("GOOD")
          \/ kind = "in" /\ Enter("datain", [tgt EXCEPT !.blocks = BlockTotal])
          \/ kind = "out" /\ Enter("dataout", [tgt EXCEPT !.blocks = BlockTotal])
    BY <1>2 DEF Execute
  <2>2. icdLate \/ kind = ini.kinds[Op(tgt)]
    BY <2>1, CommandIsOf DEF Execute
  <2>3. CASE kind = "none" /\ Status("GOOD")
    BY <2>2, <2>3, ExecutedKeeps DEF Status, Execute
  <2>4. CASE kind = "in" /\ Enter("datain", [tgt EXCEPT !.blocks = BlockTotal])
    BY <2>2, <2>4, ExecutedKeeps DEF Execute
  <2>5. CASE kind = "out" /\ Enter("dataout", [tgt EXCEPT !.blocks = BlockTotal])
    BY <2>2, <2>5, ExecutedKeeps DEF Execute
  <2> QED
    BY <2>1, <2>3, <2>4, <2>5
<1> QED
  BY <1>1, <1>2

-----------------------------------------------------------------------------
(* The target receives                                                      *)

(* What the initiator may be doing while the target is not done with the    *)
(* data: it is no phase ahead, but for its waits.                           *)
LEMMA Behind ==
  ASSUME BusInv, tgt.ph \in {"command", "datain", "dataout"}, ~Doomed
  PROVE  /\ ini.at \in {"capture", "raise"} => tgt.at = "ack"
         /\ ini.at \in Transferring =>
              ini.stage = tgt.ph \/ (ini.stage = "command" /\ icdLate)
         /\ ini.at = "wait" => ini.stage # "msgin"
         /\ ~(ini.at = "result" /\ ini.ok)
<1>1. ini.stage \in Stages
  BY DEF BusInv, BusTypeOK, Initiators
<1> QED
  BY <1>1 DEF BusInv, Meeting, Stages

LEMMA ReceivingRead ==
  ASSUME BusInv, TargetStepOnly, tgt.ph \in {"command", "dataout"}, ~Doomed,
         tgt'.ph \in {"command", "execute", "dataout"}
  PROVE  ReadData' /\ StatusRead'
<1>1. ReadData'
  BY Behind DEF TargetStepOnly, ReadData
<1>2. StatusRead'
  <2>1. ini.stage = "status" /\ ini.at \in {"wait", "capture", "req"} => ini.data = <<>>
    BY DEF BusInv, StatusRead
  <2>2. ini.stage = "status" => ini.at \notin {"raise", "wane", "drop"}
    BY Behind DEF Transferring, Handshake
  <2>3. ini'.data = <<>> => \A o : ReadWhole(o)'
    BY DEF ReadWhole, InOrder
  <2> QED
    BY <2>1, <2>2, <2>3, Behind DEF TargetStepOnly, StatusRead, Served, Transferring, Handshake
<1> QED
  BY <1>1, <1>2

LEMMA StartReceiveKeeps ==
  ASSUME BusInv, StartReceive, UNCHANGED <<ini, icdLate>>
  PROVE  BusInv'
<1>1. CASE TargetReset
  BY <1>1, FreeKeeps DEF TargetReset
<1>2. CASE Request(tgt)
  <2>1. TargetStepOnly /\ SameBytes
    BY <1>2 DEF BusInv, BusTypeOK, Request, Lines, Targets, TargetStepOnly, SameBytes
  <2>2. /\ tgt.ph = "dataout" /\ tgt.at = "between" /\ tgt'.ph = "dataout" /\ tgt'.at = "ack"
        /\ tgt'.n = tgt.n /\ tgt'.blocks = tgt.blocks /\ tgt'.status = tgt.status
        /\ bus'.mci = bus.mci /\ bus'.req = TRUE /\ bus'.tdat = bus.tdat
    BY <1>2 DEF BusInv, BusTypeOK, StartReceive, Request, Lines, Targets
  <2>3. ~Doomed /\ ~Doomed'
    BY <2>2 DEF Doomed
  <2>4. icdLate \/ ~bus.ack
    BY <2>2, <2>3, Behind DEF BusInv, InitiatorLines, Writing, DataSent, Transferring, Handshake
  <2>5. TargetLines' /\ TargetCount'
    BY <2>1, <2>2, SameOp DEF BusInv, TargetLines, TargetCount, Position, SameBytes, Sending, Stages
  <2>6. Meeting'
    BY <2>1, <2>2, <2>3, <2>4, Behind DEF BusInv, TargetStepOnly, Meeting, Sending, Served
  <2>7. Writing'
    BY <2>1, <2>2, <2>3, Behind, SameOp
    DEF BusInv, TargetStepOnly, SameBytes, Writing, Taken, Ready, CommandSent, DataSent
  <2> QED
    BY <2>1, <2>2, <2>3, <2>5, <2>6, <2>7, ReceivingRead, TargetKeeps DEF BusInv
<1> QED
  BY <1>1, <1>2 DEF StartReceive

LEMMA AcceptedIs ==
  ASSUME BusInv
  PROVE  /\ Len(tgt.cdb) \in Nat /\ (Len(tgt.cdb) = 0 => tgt.cdb = <<>>)
         /\ tgt.icd => Accepted = Len(tgt.cdb) + 1
         /\ ~tgt.icd => Accepted = Len(tgt.cdb)
<1>1. tgt.cdb \in Seq(Bytes) /\ tgt.icd \in BOOLEAN
  BY DEF BusInv, BusTypeOK, Targets
<1>2. Len(tgt.cdb) \in Nat /\ (Len(tgt.cdb) = 0 => tgt.cdb = <<>>)
  BY <1>1, EmptySeq, LenProperties
<1>3. tgt.icd => Accepted = Len(tgt.cdb) + 1
  BY <1>1, <1>2 DEF Accepted
<1>4. ~tgt.icd => Accepted = Len(tgt.cdb)
  BY <1>1, <1>2 DEF Accepted
<1> QED
  BY <1>2, <1>3, <1>4

LEMMA ReceiveAckKeeps ==
  ASSUME BusInv, ReceiveAck, UNCHANGED <<ini, icdLate>>
  PROVE  BusInv'
<1>0. bus' \in Lines /\ ~bus'.req /\ bus'.mci = bus.mci /\ bus'.tdat = bus.tdat
      /\ bus'.sel = bus.sel /\ bus'.ack = bus.ack /\ bus'.idat = bus.idat /\ bus'.rst = bus.rst
  BY DEF BusInv, BusTypeOK, ReceiveAck, Lines
<1>1. CASE tgt' = [tgt EXCEPT !.at = "error"]
  <2>1. TargetStepOnly /\ SameBytes
    BY <1>0, <1>1 DEF BusInv, BusTypeOK, Targets, TargetStepOnly, SameBytes
  <2>2. /\ tgt.ph \in Stages /\ tgt'.ph = tgt.ph /\ tgt'.n = tgt.n /\ tgt'.blocks = tgt.blocks
        /\ tgt'.status = tgt.status /\ tgt'.at = "error"
    BY <1>1 DEF BusInv, BusTypeOK, Targets, ReceiveAck, Stages
  <2> QED
    BY <1>0, <2>1, <2>2, DoomKeeps
<1>2. CASE bus.ack /\ ~bus.rst /\ tgt' = [tgt EXCEPT !.at = "clear", !.byte = bus.idat]
  <2>1. TargetStepOnly /\ SameBytes
    BY <1>0, <1>2 DEF BusInv, BusTypeOK, Targets, Lines, TargetStepOnly, SameBytes
  <2>2. /\ tgt.ph \in {"command", "dataout"} /\ tgt.at = "ack" /\ tgt'.ph = tgt.ph
        /\ tgt'.at = "clear" /\ tgt'.byte = bus.idat
        /\ tgt'.n = tgt.n /\ tgt'.blocks = tgt.blocks /\ tgt'.status = tgt.status
    BY <1>2 DEF BusInv, BusTypeOK, ReceiveAck, Targets
  <2>3. ~Doomed /\ ~Doomed'
    BY <2>2 DEF Doomed
  <2>4. icdLate \/ (ini.at = "wane" /\ tgt.ph = ini.stage)
    BY <1>2, <2>2, <2>3 DEF BusInv, Meeting
  <2>5. ini.at \in {"wane", "drop"} /\ ~Opening
    BY <1>2 DEF BusInv, InitiatorLines, Opening
  <2>6. TargetLines' /\ TargetCount'
    BY <1>0, <2>1, <2>2, SameOp DEF BusInv, TargetLines, TargetCount, Position, SameBytes, Sending, Stages
  <2>7. Meeting'
    BY <2>1, <2>2, <2>3, <2>5, Behind DEF BusInv, TargetStepOnly, Meeting, Sending, Served
  <2>8. ~icdLate => CommandSent' /\ DataSent'
    BY <2>1, <2>2, <2>3, <2>4, <2>5, SameOp
    DEF BusInv, TargetStepOnly, SameBytes, Writing, CommandSent, DataSent, Opening
  <2>9. ~icdLate => Taken'
    BY <2>1, <2>2, SameOp DEF BusInv, TargetStepOnly, SameBytes, Writing, Taken
  <2>10. ~icdLate => Ready'
    <3> SUFFICES ASSUME ~icdLate PROVE Ready'
      OBVIOUS
    <3>1. bus.idat = <<ini.op, ini.stage, Index>>
      BY <2>2, <2>4 DEF BusInv, InitiatorLines, Handshake, Sends
    <3>2. ini.op >= 1 /\ ini.op \in Nat
      BY <2>4 DEF BusInv, BusTypeOK, Initiators, InitiatorLines, Served, Transferring, Handshake
    <3>3. tgt.ph = "command" =>
            /\ tgt'.byte[1] \in 1..ini.op /\ tgt'.byte[2] = "command"
            /\ Prefix(tgt.byte)' \/ (/\ tgt'.byte[3] = Len(tgt.cdb) + 1
                                     /\ tgt.cdb # <<>> => tgt'.byte[1] = Op(tgt))
      <4> SUFFICES ASSUME tgt.ph = "command"
                   PROVE  /\ tgt'.byte[1] \in 1..ini.op /\ tgt'.byte[2] = "command"
                          /\ Prefix(tgt.byte)' \/ (/\ tgt'.byte[3] = Len(tgt.cdb) + 1
                                                   /\ tgt.cdb # <<>> => tgt'.byte[1] = Op(tgt))
        OBVIOUS
      <4>1. /\ tgt.cdb # <<>> => Op(tgt) = ini.op
            /\ tgt.icd <=> ini.icd /\ Accepted > 0
            /\ ini.n = Accepted
        BY <2>2, <2>3, <2>4 DEF BusInv, Writing, CommandSent, Transferring, Handshake
      <4>2. tgt.icd \in BOOLEAN /\ ini.icd \in BOOLEAN /\ ini.n \in Nat
        BY DEF BusInv, BusTypeOK, Targets, Initiators
      <4>3. tgt'.byte = <<ini.op, "command", Index>>
        BY <2>2, <2>4, <3>1
      <4>4. (Index = 0 /\ tgt.cdb = <<>> /\ ~tgt.icd) \/ Index = Len(tgt.cdb) + 1
        <5>1. ini.icd => Index = ini.n
          BY <2>2, <2>4 DEF Index
        <5>2. ~ini.icd => Index = ini.n + 1
          BY <2>2, <2>4 DEF Index
        <5>3. CASE tgt.icd
          BY <4>1, <5>1, <5>3, AcceptedIs
        <5>4. CASE ~tgt.icd /\ ini.icd
          BY <4>1, <5>1, <5>4, AcceptedIs
        <5>5. CASE ~ini.icd
          BY <4>1, <5>2, <5>5, AcceptedIs
        <5> QED
          BY <4>2, <5>3, <5>4, <5>5
      <4> QED
        BY <2>1, <3>2, <4>1, <4>3, <4>4 DEF Prefix, SameBytes
    <3>4. tgt.ph = "dataout" => tgt'.byte = <<Op(tgt), "dataout", Len(tgt.data) + 1>>
      BY <2>2, <2>3, <2>4, <3>1 DEF BusInv, Writing, DataSent, Transferring, Handshake, Index
    <3> QED
      <4>1. /\ Op(tgt)' = Op(tgt) /\ ini' = ini /\ tgt'.cdb = tgt.cdb /\ tgt'.data = tgt.data
            /\ tgt'.ph = tgt.ph
        BY <2>1, <2>2, SameOp DEF TargetStepOnly, SameBytes
      <4>2. CASE tgt.ph = "command"
        BY <3>3, <4>1, <4>2 DEF Ready
      <4>3. CASE tgt.ph = "dataout"
        BY <3>4, <4>1, <4>3 DEF Ready
      <4> QED
        BY <2>2, <4>2, <4>3
  <2> QED
    BY <2>1, <2>2, <2>3, <2>6, <2>7, <2>8, <2>9, <2>10, ReceivingRead, TargetKeeps
    DEF BusInv, TargetStepOnly, Writing
<1> QED
  BY <1>1, <1>2 DEF ReceiveAck

(* A byte was received: the prefix, a byte of the command, or of the data.  *)
LEMMA AppendInOrder ==
  ASSUME NEW s \in Seq(Bytes), NEW o, NEW what, NEW byte \in Bytes, InOrder(s, o, what),
         byte = <<o, what, Len(s) + 1>>
  PROVE  InOrder(Append(s, byte), o, what)
<1>1. /\ DOMAIN s = 1..Len(s) /\ DOMAIN Append(s, byte) = 1..Len(s) + 1 /\ Len(s) \in Nat
      /\ Append(s, byte)[Len(s) + 1] = byte
      /\ \A k \in 1..Len(s) : Append(s, byte)[k] = s[k]
  BY AppendProperties, LenProperties
<1> QED
  BY <1>1 DEF InOrder

LEMMA PositionNat ==
  ASSUME NEW t, t.blocks \in 1..BlockTotal, t.n \in Nat
  PROVE  Position(t) \in Nat /\ (BlockTotal - t.blocks) * BlockLen \in Nat
<1>1. BlockTotal - t.blocks \in Nat
  BY BusAssumption
<1>2. (BlockTotal - t.blocks) * BlockLen \in Nat
  BY <1>1, Multiples
<1> QED
  BY <1>2 DEF Position

LEMMA PositionNext ==
  ASSUME NEW t, NEW u, t.blocks \in 1..BlockTotal, t.n \in Nat, u.blocks = t.blocks, u.n = t.n + 1
  PROVE  Position(u) = Position(t) + 1
<1>1. (BlockTotal - t.blocks) * BlockLen \in Nat
  BY PositionNat
<1>2. Position(t) = (BlockTotal - t.blocks) * BlockLen + t.n
  BY DEF Position
<1>3. Position(u) = (BlockTotal - t.blocks) * BlockLen + (t.n + 1)
  BY DEF Position
<1> QED
  BY <1>1, <1>2, <1>3

CountsPrefix ==
  /\ tgt.ph = "command" /\ tgt.cdb = <<>> /\ ~tgt.icd /\ IsIcd(tgt.byte)
  /\ tgt'.ph = "command" /\ tgt'.at = "ack" /\ tgt'.icd = TRUE
  /\ tgt'.cdb = tgt.cdb /\ tgt'.data = tgt.data /\ tgt'.n = tgt.n

CountsCommand ==
  /\ tgt.ph = "command" /\ ~(tgt.cdb = <<>> /\ ~tgt.icd /\ IsIcd(tgt.byte))
  /\ tgt'.icd = tgt.icd /\ tgt'.cdb = Append(tgt.cdb, tgt.byte) /\ tgt'.data = tgt.data /\ tgt'.n = tgt.n
  /\ IF Len(tgt.cdb) + 1 = CdbLen THEN tgt'.ph = "execute" /\ tgt'.at = "between"
     ELSE tgt'.ph = "command" /\ tgt'.at = "ack"

CountsData ==
  /\ tgt.ph = "dataout" /\ tgt'.ph = "dataout"
  /\ tgt'.icd = tgt.icd /\ tgt'.cdb = tgt.cdb /\ tgt'.data = Append(tgt.data, tgt.byte)
  /\ tgt'.n = tgt.n + 1
  /\ tgt'.at = IF tgt.n + 1 = BlockLen THEN "done" ELSE "ack"

CountedFrame ==
  /\ TargetStepOnly /\ tgt'.blocks = tgt.blocks /\ tgt'.status = tgt.status
  /\ bus'.mci = bus.mci /\ bus'.tdat = bus.tdat /\ (bus'.req <=> tgt'.at = "ack")

LEMMA RequestIs ==
  ASSUME BusInv, NEW t \in Targets, Request(t)
  PROVE  /\ tgt' \in Targets /\ tgt'.at = "ack"
         /\ tgt'.ph = t.ph /\ tgt'.n = t.n /\ tgt'.blocks = t.blocks /\ tgt'.icd = t.icd
         /\ tgt'.cdb = t.cdb /\ tgt'.data = t.data /\ tgt'.status = t.status
         /\ bus' \in Lines /\ bus'.req = TRUE /\ bus'.mci = bus.mci /\ bus'.tdat = bus.tdat
         /\ bus'.sel = bus.sel /\ bus'.ack = bus.ack /\ bus'.idat = bus.idat /\ bus'.rst = bus.rst
<1>1. bus \in Lines
  BY DEF BusInv, BusTypeOK
<1>2. /\ tgt' \in Targets /\ tgt'.at = "ack"
      /\ tgt'.ph = t.ph /\ tgt'.n = t.n /\ tgt'.blocks = t.blocks /\ tgt'.icd = t.icd
      /\ tgt'.cdb = t.cdb /\ tgt'.data = t.data /\ tgt'.status = t.status
  BY DEF Request, Targets
<1>3. /\ bus' \in Lines /\ bus'.req = TRUE /\ bus'.mci = bus.mci /\ bus'.tdat = bus.tdat
      /\ bus'.sel = bus.sel /\ bus'.ack = bus.ack /\ bus'.idat = bus.idat /\ bus'.rst = bus.rst
  BY <1>1 DEF Request, Lines
<1> QED
  BY <1>2, <1>3

LEMMA CountedIs ==
  ASSUME BusInv, ReceiveClear, Counted, UNCHANGED ini
  PROVE  CountedFrame /\ (CountsPrefix \/ CountsCommand \/ CountsData)
<1>1. /\ tgt \in Targets /\ bus \in Lines /\ tgt.byte \in Bytes /\ tgt.cdb \in Seq(Bytes)
      /\ tgt.data \in Seq(Bytes) /\ tgt.n \in Nat /\ icdLate' \in BOOLEAN /\ ~bus.req
      /\ tgt.ph \in {"command", "dataout"}
  BY DEF BusInv, BusTypeOK, TargetLines, Targets, ReceiveClear
<1>2. /\ Append(tgt.cdb, tgt.byte) \in Seq(Bytes) /\ Append(tgt.data, tgt.byte) \in Seq(Bytes)
      /\ Len(Append(tgt.cdb, tgt.byte)) = Len(tgt.cdb) + 1
  BY <1>1, AppendProperties
<1>3. CASE tgt.ph = "command" /\ tgt.cdb = <<>> /\ ~tgt.icd /\ IsIcd(tgt.byte)
  <2> DEFINE t == [tgt EXCEPT !.icd = TRUE]
  <2>1. /\ t \in Targets /\ t.ph = tgt.ph /\ t.n = tgt.n /\ t.blocks = tgt.blocks /\ t.icd = TRUE
        /\ t.cdb = tgt.cdb /\ t.data = tgt.data /\ t.status = tgt.status
    BY <1>1 DEF Targets
  <2>2. Request(t)
    BY <1>3 DEF Counted
  <2> HIDE DEF t
  <2> QED
    BY <1>1, <1>3, <2>1, <2>2, RequestIs DEF CountedFrame, CountsPrefix, TargetStepOnly
<1>4. CASE tgt.ph = "command" /\ ~(tgt.cdb = <<>> /\ ~tgt.icd /\ IsIcd(tgt.byte))
  <2> DEFINE t == [tgt EXCEPT !.cdb = Append(@, tgt.byte)]
  <2>1. /\ t \in Targets /\ t.ph = tgt.ph /\ t.n = tgt.n /\ t.blocks = tgt.blocks /\ t.icd = tgt.icd
        /\ t.cdb = Append(tgt.cdb, tgt.byte) /\ t.data = tgt.data /\ t.status = tgt.status
    BY <1>1, <1>2 DEF Targets
  <2>2. IF Len(t.cdb) = CdbLen
        THEN tgt' = [t EXCEPT !.ph = "execute", !.at = "between"] /\ UNCHANGED bus
        ELSE Request(t)
    BY <1>4 DEF Counted
  <2> HIDE DEF t
  <2>3. CASE Len(t.cdb) = CdbLen
    <3>1. /\ tgt' \in Targets /\ tgt'.ph = "execute" /\ tgt'.at = "between"
          /\ tgt'.n = t.n /\ tgt'.blocks = t.blocks /\ tgt'.icd = t.icd
          /\ tgt'.cdb = t.cdb /\ tgt'.data = t.data /\ tgt'.status = t.status
      BY <2>1, <2>2, <2>3 DEF Targets, Phases
    <3> QED
      BY <1>1, <1>2, <1>4, <2>1, <2>2, <2>3, <3>1 DEF CountedFrame, CountsCommand, TargetStepOnly
  <2>4. CASE Len(t.cdb) # CdbLen
    BY <1>1, <1>2, <1>4, <2>1, <2>2, <2>4, RequestIs DEF CountedFrame, CountsCommand, TargetStepOnly
  <2> QED
    BY <2>3, <2>4
<1>5. CASE tgt.ph = "dataout"
  <2> DEFINE t == [tgt EXCEPT !.data = Append(@, tgt.byte), !.n = @ + 1]
  <2>1. /\ t \in Targets /\ t.ph = tgt.ph /\ t.n = tgt.n + 1 /\ t.blocks = tgt.blocks
        /\ t.icd = tgt.icd /\ t.cdb = tgt.cdb /\ t.data = Append(tgt.data, tgt.byte)
        /\ t.status = tgt.status
    <3>1. tgt.n + 1 \in Nat
      BY <1>1
    <3>2. t = [[tgt EXCEPT !.data = Append(tgt.data, tgt.byte)] EXCEPT !.n = tgt.n + 1]
      BY <1>1 DEF Targets
    <3> QED
      BY <1>1, <1>2, <3>1, <3>2 DEF Targets
  <2>2. IF t.n = BlockLen THEN tgt' = [t EXCEPT !.at = "done"] /\ UNCHANGED bus ELSE Request(t)
    BY <1>5 DEF Counted
  <2> HIDE DEF t
  <2>3. CASE t.n = BlockLen
    <3>1. /\ tgt' \in Targets /\ tgt'.ph = t.ph /\ tgt'.at = "done"
          /\ tgt'.n = t.n /\ tgt'.blocks = t.blocks /\ tgt'.icd = t.icd
          /\ tgt'.cdb = t.cdb /\ tgt'.data = t.data /\ tgt'.status = t.status
      BY <2>1, <2>2, <2>3 DEF Targets
    <3> QED
      BY <1>1, <1>5, <2>1, <2>2, <2>3, <3>1 DEF CountedFrame, CountsData, TargetStepOnly
  <2>4. CASE t.n # BlockLen
    BY <1>1, <1>5, <2>1, <2>2, <2>4, RequestIs DEF CountedFrame, CountsData, TargetStepOnly
  <2> QED
    BY <2>3, <2>4
<1> QED
  BY <1>1, <1>3, <1>4, <1>5

(* What holds of all three: the initiator waits, or it is before REQ.       *)
LEMMA CountedFrom ==
  ASSUME BusInv, ReceiveClear, CountedFrame, CountsPrefix \/ CountsCommand \/ CountsData,
         UNCHANGED ini
  PROVE  /\ tgt.at = "clear" /\ tgt.ph \in {"command", "dataout"} /\ ~Doomed /\ ~Doomed'
         /\ ~Opening \/ tgt.ph # "command" \/ icdLate
         /\ ~icdLate' => /\ ~icdLate /\ ~bus.ack
                         /\ ini.at \in Transferring => ini.at = "req" /\ ini.stage = tgt.ph
<1>1. /\ tgt.at = "clear" /\ tgt.ph \in {"command", "dataout"}
      /\ tgt'.at \in {"ack", "between", "done"} /\ tgt'.ph \in {"command", "execute", "dataout"}
  BY DEF ReceiveClear, CountsPrefix, CountsCommand, CountsData
<1>2. ~Doomed /\ ~Doomed'
  BY <1>1 DEF Doomed
<1>3. ~icdLate' => ~icdLate /\ ~bus.ack
  BY <1>1 DEF ReceiveClear, BusInv, BusTypeOK, Targets
<1>4. ~icdLate' => ~icdLate /\ (ini.at \in Transferring => ini.at = "req" /\ ini.stage = tgt.ph)
  BY <1>1, <1>2, <1>3, Behind DEF BusInv, InitiatorLines, Transferring, Handshake
<1>5. ~Opening \/ tgt.ph # "command" \/ icdLate
  BY <1>1 DEF BusInv, Writing, CommandSent
<1> QED
  BY <1>1, <1>2, <1>3, <1>4, <1>5

LEMMA CountedKeeps ==
  ASSUME BusInv, ReceiveClear, CountedFrame, CountsPrefix \/ CountsCommand \/ CountsData,
         UNCHANGED ini,
         ini.stage = "command" /\ ini.at \in Transferring /\ ~icdLate' => tgt'.ph = "command"
  PROVE  /\ BusTypeOK' /\ TargetLines' /\ InitiatorLines' /\ ReadCount' /\ ReadData'
         /\ StatusRead' /\ Meeting' /\ Ready'
<1>1. /\ tgt'.at \in {"ack", "between", "done"} /\ tgt'.ph \in {"command", "execute", "dataout"}
      /\ tgt'.at = "between" <=> tgt'.ph = "execute"
      /\ tgt'.at = "done" => tgt'.ph = "dataout"
      /\ tgt'.ph = "dataout" <=> tgt.ph = "dataout"
  BY DEF CountsPrefix, CountsCommand, CountsData
<1>2. TargetLines'
  BY <1>1, CountedFrom DEF BusInv, TargetLines, CountedFrame, Sending, Stages
<1>3. Meeting'
  BY <1>1, CountedFrom, Behind DEF BusInv, CountedFrame, TargetStepOnly, Meeting, Served, Sending
<1>4. Ready'
  BY <1>1 DEF Ready
<1> QED
  BY <1>1, <1>2, <1>3, <1>4, TargetKeeps, CountedFrom, ReceivingRead DEF CountedFrame

LEMMA PrefixKeeps ==
  ASSUME BusInv, ReceiveClear, CountedFrame, CountsPrefix, UNCHANGED ini
  PROVE  BusInv'
<1>1. /\ tgt'.ph = "command" /\ tgt'.at = "ack" /\ tgt'.icd = TRUE /\ tgt'.cdb = <<>>
      /\ tgt.ph = "command" /\ tgt.cdb = <<>> /\ ~tgt.icd
      /\ tgt'.data = tgt.data /\ tgt'.n = tgt.n /\ ini' = ini
  BY DEF CountsPrefix
<1>2. TargetCount'
  BY <1>1 DEF BusInv, TargetCount
<1>3. Writing'
  <2> SUFFICES ASSUME ~icdLate' PROVE Taken' /\ CommandSent' /\ DataSent'
    BY <1>1, CountedKeeps DEF Writing
  <2>1. ~icdLate /\ (ini.at \in Transferring => ini.at = "req" /\ ini.stage = "command") /\ ~Doomed
        /\ ~Opening /\ tgt.at = "clear"
    BY <1>1, CountedFrom
  <2>2. Taken'
    BY <1>1, <2>1, BusAssumption DEF BusInv, TargetCount, Writing, Taken, InOrder
  <2>3. CommandSent'
    <3>1. Accepted = 0 /\ Accepted' = 1
      BY <1>1 DEF Accepted
    <3>2. SUFFICES ASSUME ini.stage = "command", ini.at = "req"
                   PROVE  ini.icd /\ ini.n = 1
      BY <1>1, <2>1, <3>1 DEF CommandSent, Opening
    <3>3. ini.n = 1 /\ tgt.byte = <<ini.op, "command", IF ini.icd THEN ini.n - 1 ELSE ini.n>>
      BY <2>1, <3>1, <3>2 DEF BusInv, Writing, CommandSent, Transferring, Handshake
    <3>4. tgt.byte[3] = 0
      BY DEF CountsPrefix, IsIcd
    <3>5. ini.icd
      BY <3>3, <3>4
    <3> QED
      BY <3>3, <3>5
  <2>4. DataSent'
    BY <1>1, <2>1 DEF BusInv, TargetCount, DataSent
  <2> QED
    BY <2>2, <2>3, <2>4
<1> QED
  BY <1>1, <1>2, <1>3, CountedKeeps DEF BusInv

LEMMA CommandCounted ==
  ASSUME BusInv, ReceiveClear, CountedFrame, CountsCommand, UNCHANGED ini
  PROVE  BusInv'
<1>0. /\ tgt.ph = "command" /\ ~(tgt.cdb = <<>> /\ ~tgt.icd /\ IsIcd(tgt.byte)) /\ tgt.at = "clear"
      /\ tgt'.icd = tgt.icd /\ tgt'.cdb = Append(tgt.cdb, tgt.byte) /\ tgt'.data = tgt.data
      /\ tgt'.n = tgt.n /\ ini' = ini /\ tgt.data = <<>> /\ ~Doomed
      /\ tgt.byte \in Bytes /\ tgt.cdb \in Seq(Bytes) /\ ini.op \in Nat /\ ini.n \in Nat
      /\ tgt.icd \in BOOLEAN /\ ini.icd \in BOOLEAN
  BY DEF CountsCommand, ReceiveClear, BusInv, BusTypeOK, Targets, Initiators, TargetCount, Doomed
<1>1. /\ Len(tgt.cdb) \in Nat /\ Len(tgt'.cdb) = Len(tgt.cdb) + 1 /\ tgt'.cdb # <<>>
      /\ tgt.cdb # <<>> => tgt'.cdb[1] = tgt.cdb[1]
      /\ tgt.cdb = <<>> => tgt'.cdb[1] = tgt.byte
  <2>1. /\ Len(tgt.cdb) \in Nat /\ Len(tgt'.cdb) = Len(tgt.cdb) + 1
        /\ \A k \in 1..Len(tgt.cdb) : tgt'.cdb[k] = tgt.cdb[k]
        /\ tgt'.cdb[Len(tgt.cdb) + 1] = tgt.byte
    BY <1>0, AppendProperties, LenProperties
  <2>2. Len(tgt.cdb) = 0 <=> tgt.cdb = <<>>
    BY <1>0, EmptySeq
  <2> QED
    BY <2>1, <2>2
<1>2. Op(tgt)' = IF tgt.cdb = <<>> THEN tgt.byte[1] ELSE Op(tgt)
  BY <1>1 DEF Op
<1>3. (tgt.icd => Accepted = Len(tgt.cdb) + 1) /\ (~tgt.icd => Accepted = Len(tgt.cdb))
      /\ (tgt.icd => Accepted' = Len(tgt.cdb) + 2) /\ (~tgt.icd => Accepted' = Len(tgt.cdb) + 1)
  <2>1. CASE tgt.icd
    BY <1>0, <1>1, <2>1 DEF Accepted
  <2>2. CASE ~tgt.icd
    BY <1>0, <1>1, <2>2 DEF Accepted
  <2> QED
    BY <1>0, <2>1, <2>2
(* What the initiator has sent.                                             *)
<1>4. ASSUME ~icdLate, ini.stage = "command", ini.at = "req"
      PROVE  /\ ini.n = Accepted + 1 /\ (tgt.icd <=> ini.icd)
             /\ tgt.cdb # <<>> => Op(tgt) = ini.op
             /\ tgt.byte[1] = ini.op
  <2>1. /\ ini.n = Accepted + 1 /\ (tgt.icd <=> ini.icd /\ Accepted > 0)
        /\ tgt.cdb # <<>> => Op(tgt) = ini.op
        /\ tgt.byte = <<ini.op, "command", IF ini.icd THEN ini.n - 1 ELSE ini.n>>
    BY <1>0, <1>4 DEF BusInv, Writing, CommandSent, Transferring, Handshake
  <2>2. ASSUME ini.icd, ~tgt.icd PROVE FALSE
    <3>1. Accepted = 0 /\ Len(tgt.cdb) = 0
      BY <1>1, <1>3, <2>1, <2>2
    <3>2. tgt.byte[3] = 0 /\ tgt.byte[2] = "command"
      BY <2>1, <2>2, <3>1
    <3> QED
      BY <1>0, <2>2, <3>1, <3>2, AcceptedIs DEF IsIcd
  <2> QED
    BY <1>0, <2>1, <2>2
<1>5. ini.stage = "command" /\ ini.at \in Transferring /\ ~icdLate' => tgt'.ph = "command"
  <2> SUFFICES ASSUME ini.stage = "command", ini.at \in Transferring, ~icdLate', tgt'.ph = "execute"
               PROVE  FALSE
    BY DEF CountsCommand
  <2>1. ~icdLate /\ ini.at = "req"
    BY CountedFrom
  <2>2. Len(tgt.cdb) + 1 = CdbLen
    BY DEF CountsCommand
  <2>3. ini.n < SentLen
    BY <2>1 DEF BusInv, InitiatorLines, Handshake
  <2>4. SentLen = IF ini.icd THEN CdbLen + 1 ELSE CdbLen
    BY DEF SentLen
  <2>5. CASE tgt.icd
    BY <1>1, <1>3, <1>4, <2>1, <2>2, <2>3, <2>4, <2>5
  <2>6. CASE ~tgt.icd
    BY <1>1, <1>3, <1>4, <2>1, <2>2, <2>3, <2>4, <2>6
  <2> QED
    BY <1>0, <2>5, <2>6
<1>6. TargetCount'
  BY <1>0 DEF CountsCommand, TargetCount
<1>7. ASSUME ~icdLate PROVE Taken'
  <2> DEFINE o == Op(tgt)'
  <2>1. /\ tgt.byte[1] \in 1..ini.op /\ tgt.byte[2] = "command"
        /\ Prefix(tgt.byte) \/ (tgt.byte[3] = Len(tgt.cdb) + 1 /\ (tgt.cdb # <<>> => tgt.byte[1] = Op(tgt)))
    BY <1>0, <1>7 DEF BusInv, Writing, Ready
  <2>2. ~Prefix(tgt.byte)
    BY <1>0, <2>1 DEF Prefix, IsIcd
  <2>3. tgt.byte = <<o, "command", Len(tgt.cdb) + 1>> /\ o \in 1..ini.op
    <3>1. tgt.byte = <<tgt.byte[1], tgt.byte[2], tgt.byte[3]>>
      BY <1>0, ByteParts
    <3> QED
      BY <1>2, <2>1, <2>2, <3>1
  <2>4. InOrder(tgt.cdb, o, "command")
    <3>1. CASE tgt.cdb = <<>>
      BY <3>1 DEF InOrder
    <3>2. CASE tgt.cdb # <<>>
      BY <1>2, <1>7, <3>2 DEF BusInv, Writing, Taken
    <3> QED
      BY <3>1, <3>2
  <2> HIDE DEF o
  <2>5. InOrder(Append(tgt.cdb, tgt.byte), o, "command")
    BY <1>0, <2>3, <2>4, AppendInOrder
  <2>6. InOrder(tgt.data, o, "dataout")
    BY <1>0 DEF InOrder
  <2>7. Len(tgt.cdb) < CdbLen
    BY <1>0, <1>7 DEF BusInv, Writing, Taken
  <2> QED
    BY <1>0, <1>1, <2>3, <2>5, <2>6, <2>7, BusAssumption DEF CountsCommand, Taken, o
<1>8. ASSUME ~icdLate' PROVE CommandSent' /\ DataSent'
  <2>1. ~icdLate /\ (ini.at \in Transferring => ini.at = "req" /\ ini.stage = "command") /\ ~Opening
    BY <1>0, <1>8, CountedFrom
  <2>2. CommandSent'
    <3>1. ~Opening' /\ tgt'.at \in {"ack", "between"}
      BY <1>0, <2>1 DEF Opening, CountsCommand
    <3>2. SUFFICES ASSUME ini.stage = "command", ini.at = "req"
                   PROVE  Op(tgt)' = ini.op /\ (tgt.icd <=> ini.icd) /\ Accepted' > 0 /\ ini.n = Accepted'
      BY <1>0, <2>1, <3>1 DEF CommandSent
    <3>3. ini.n = Accepted + 1 /\ (tgt.icd <=> ini.icd) /\ tgt.byte[1] = ini.op
          /\ (tgt.cdb # <<>> => Op(tgt) = ini.op)
      BY <1>4, <2>1, <3>2
    <3>4. Accepted' = Accepted + 1 /\ Accepted' > 0
      BY <1>0, <1>1, <1>3
    <3> QED
      BY <1>2, <3>3, <3>4
  <2>3. DataSent'
    <3>1. ini.stage = "dataout" /\ ini.at = "wait" =>
            (tgt.cdb # <<>> => Op(tgt) = ini.op) /\ tgt.byte[1] = ini.op
      BY <1>0, <2>1 DEF BusInv, Writing, DataSent
    <3>2. ini.stage = "dataout" /\ ini.at = "wait" => Op(tgt)' = ini.op
      BY <1>2, <3>1
    <3> QED
      BY <1>0, <2>1, <3>2 DEF CountsCommand, DataSent
  <2> QED
    BY <2>2, <2>3
<1>9. Writing'
  BY <1>5, <1>7, <1>8, CountedFrom, CountedKeeps DEF Writing
<1> QED
  BY <1>5, <1>6, <1>9, CountedKeeps DEF BusInv

LEMMA DataCounted ==
  ASSUME BusInv, ReceiveClear, CountedFrame, CountsData, UNCHANGED ini
  PROVE  BusInv'
<1>1. /\ tgt.ph = "dataout" /\ tgt'.ph = "dataout" /\ tgt.at = "clear" /\ ini' = ini /\ ~Doomed
      /\ tgt'.icd = tgt.icd /\ tgt'.cdb = tgt.cdb /\ tgt'.data = Append(tgt.data, tgt.byte)
      /\ tgt'.n = tgt.n + 1 /\ tgt'.blocks = tgt.blocks /\ tgt'.status = tgt.status
      /\ tgt'.at = IF tgt.n + 1 = BlockLen THEN "done" ELSE "ack"
  BY DEF CountsData, CountedFrame, ReceiveClear, Doomed
<1>2. /\ tgt.byte \in Bytes /\ tgt.data \in Seq(Bytes) /\ tgt.cdb \in Seq(Bytes) /\ tgt.n \in Nat
      /\ tgt.blocks \in 1..BlockTotal /\ tgt.n < BlockLen /\ Len(tgt.data) = Position(tgt)
  BY <1>1 DEF BusInv, BusTypeOK, Targets, TargetCount
<1>3. Len(tgt'.data) = Len(tgt.data) + 1 /\ Len(tgt.data) \in Nat /\ tgt'.data # <<>>
  BY <1>1, <1>2, AppendProperties, LenProperties
<1>4. TargetCount'
  <2>1. Position(tgt)' = Position(tgt) + 1
    BY <1>1, <1>2, PositionNext
  <2>2. tgt'.n <= BlockLen /\ (tgt'.at = "ack" => tgt'.n < BlockLen) /\ (tgt'.at = "done" => tgt'.n = BlockLen)
        /\ tgt'.at \in {"ack", "done"}
    BY <1>1, <1>2, BusAssumption
  <2> QED
    BY <1>1, <1>2, <1>3, <2>1, <2>2 DEF TargetCount
<1>5. Op(tgt)' = Op(tgt)
  BY <1>1 DEF Op
<1>6. ASSUME ~icdLate PROVE Taken'
  <2>1. tgt.byte = <<Op(tgt), "dataout", Len(tgt.data) + 1>> /\ InOrder(tgt.data, Op(tgt), "dataout")
    BY <1>1, <1>6 DEF BusInv, Writing, Taken, Ready
  <2>2. InOrder(tgt'.data, Op(tgt), "dataout")
    BY <1>1, <1>2, <2>1, AppendInOrder
  <2>3. Len(tgt.cdb) = CdbLen /\ tgt.cdb # <<>>
    BY <1>1, <1>2, <1>6, BusAssumption DEF BusInv, Writing, Taken
  <2> QED
    BY <1>1, <1>5, <1>6, <2>2, <2>3 DEF BusInv, Writing, Taken
<1>7. ASSUME ~icdLate' PROVE CommandSent' /\ DataSent'
  <2>1. ~icdLate /\ (ini.at \in Transferring => ini.at = "req" /\ ini.stage = "dataout")
    BY <1>1, <1>7, CountedFrom
  <2>2. ini.at \in Transferring => Op(tgt) = ini.op /\ ini.n = Len(tgt.data) + 1
    BY <1>1, <2>1 DEF BusInv, Writing, DataSent
  <2>3. ~(ini.stage = "dataout" /\ ini.at = "wait")
    BY <1>1, <2>1 DEF BusInv, Writing, DataSent
  <2>4. CommandSent'
    BY <1>1, <2>1 DEF CommandSent
  <2>5. DataSent'
    BY <1>1, <1>3, <1>5, <2>1, <2>2, <2>3 DEF DataSent
  <2> QED
    BY <2>4, <2>5
<1>8. ini.stage = "command" /\ ini.at \in Transferring /\ ~icdLate' => tgt'.ph = "command"
  BY <1>1, CountedFrom
<1>9. Writing'
  BY <1>6, <1>7, <1>8, CountedFrom, CountedKeeps DEF Writing
<1> QED
  BY <1>4, <1>8, <1>9, CountedKeeps DEF BusInv

LEMMA ReceiveClearKeeps ==
  ASSUME BusInv, ReceiveClear, UNCHANGED ini
  PROVE  BusInv'
<1>1. CASE Counted
  BY <1>1, CountedIs, PrefixKeeps, CommandCounted, DataCounted, CountedFrom DEF CountsPrefix
<1>2. CASE tgt' = [tgt EXCEPT !.at = "error"] /\ UNCHANGED bus /\ icdLate' = icdLate
  <2>1. TargetStepOnly /\ SameBytes
    BY <1>2 DEF BusInv, BusTypeOK, Targets, Lines, TargetStepOnly, SameBytes
  <2>2. /\ tgt.ph \in Stages /\ tgt'.ph = tgt.ph /\ tgt'.n = tgt.n /\ tgt'.blocks = tgt.blocks
        /\ tgt'.status = tgt.status /\ tgt'.at = "error" /\ ~bus'.req
    BY <1>2 DEF BusInv, BusTypeOK, TargetLines, Targets, ReceiveClear, Stages
  <2> QED
    BY <1>2, <2>1, <2>2, DoomKeeps
<1>3. Counted \/ (tgt' = [tgt EXCEPT !.at = "error"] /\ UNCHANGED bus /\ icdLate' = icdLate)
  BY DEF ReceiveClear, BusInv, BusTypeOK
<1> QED
  BY <1>1, <1>2, <1>3

-----------------------------------------------------------------------------
(* The target sends                                                         *)

LEMMA SentIs ==
  ASSUME NEW t
  PROVE  /\ t.ph = "datain" => SentByte(t) = <<Op(t), "datain", Position(t) + 1>>
         /\ t.ph = "status" => SentByte(t) = <<Op(t), t.status, 0>>
         /\ t.ph = "msgin" => SentByte(t) = <<Op(t), "message", 0>>
<1>1. t.ph = "datain" => SentByte(t) = <<Op(t), "datain", Position(t) + 1>>
  BY DEF SentByte, Op, Position
<1>2. t.ph = "status" => SentByte(t) = <<Op(t), t.status, 0>>
  BY DEF SentByte, Op
<1>3. t.ph = "msgin" => SentByte(t) = <<Op(t), "message", 0>>
  BY DEF SentByte, Op
<1> QED
  BY <1>1, <1>2, <1>3

LEMMA OpType ==
  ASSUME BusInv
  PROVE  Op(tgt) \in Nat
<1>1. tgt.cdb \in Seq(Bytes)
  BY DEF BusInv, BusTypeOK, Targets
<1>2. CASE tgt.cdb = <<>>
  BY <1>2 DEF Op
<1>3. CASE tgt.cdb # <<>>
  <2>1. tgt.cdb[1] \in Bytes
    BY <1>1, <1>3, EmptySeq, LenProperties
  <2> QED
    BY <1>3, <2>1 DEF Op, Bytes
<1> QED
  BY <1>2, <1>3

LEMMA PositionType ==
  ASSUME BusInv, tgt.ph \in {"datain", "dataout"}
  PROVE  Position(tgt) \in Nat
<1>1. tgt.blocks \in 1..BlockTotal /\ tgt.n \in Nat
  BY DEF BusInv, BusTypeOK, TargetCount, Targets
<1> QED
  BY <1>1, PositionNat

(* Steps within a phase, except for the lines and counters of the target.   *)
LEMMA SendingKeeps ==
  ASSUME BusInv, TargetStepOnly, SameBytes, icdLate' = icdLate, tgt.ph \in Sending,
         tgt'.ph = tgt.ph, tgt'.status = tgt.status, Doomed => Doomed', tgt'.at # "clear",
         ini.at \in {"capture", "raise"} => Doomed' \/ tgt'.at = "ack",
         tgt'.at = "ack" => ~bus.ack,
         bus'.tdat = bus.tdat \/ bus'.tdat[2] # "GOOD" \/ ini.at # "raise"
  PROVE  BusTypeOK' /\ InitiatorLines' /\ ReadCount' /\ Meeting' /\ StatusRead' /\ Writing'
<1>1. Meeting'
  BY DEF BusInv, TargetStepOnly, Meeting, Served, Transferring, Handshake
<1>2. StatusRead'
  BY SameOp DEF BusInv, TargetStepOnly, StatusRead, Served, Vouched
<1>3. ~icdLate => Taken' /\ Ready'
  BY SameOp DEF BusInv, TargetStepOnly, SameBytes, Writing, Taken, Ready, Sending
<1>4. ~icdLate => CommandSent' /\ DataSent'
  BY DEF BusInv, TargetStepOnly, Meeting, CommandSent, DataSent, Sending
<1> QED
  BY <1>1, <1>2, <1>3, <1>4, TargetKeeps DEF Writing

LEMMA StartSendKeeps ==
  ASSUME BusInv, StartSend, UNCHANGED <<ini, icdLate>>
  PROVE  BusInv'
<1>1. CASE TargetReset
  BY <1>1, FreeKeeps DEF TargetReset
<1>2. CASE Offer(tgt)
  <2>1. /\ tgt.ph \in Sending /\ tgt.at = "between" /\ tgt' = [tgt EXCEPT !.at = "offer"]
        /\ bus' = [bus EXCEPT !.req = FALSE, !.tdat = SentByte(tgt)]
        /\ tgt \in Targets /\ bus \in Lines
    BY <1>2 DEF BusInv, BusTypeOK, StartSend, Offer, Sending
  <2>2. SentByte(tgt) \in Bytes
    <3>1. Op(tgt) \in Nat /\ tgt.status \in Whats /\ "datain" \in Whats /\ "message" \in Whats
          /\ 0 \in Nat
      BY <2>1, OpType DEF Targets, Whats
    <3>2. tgt.ph = "datain" => Position(tgt) + 1 \in Nat
      BY PositionType
    <3> QED
      BY <2>1, <3>1, <3>2, SentIs, ByteType DEF Sending
  <2>3. /\ tgt' \in Targets /\ SameBytes /\ tgt'.at = "offer" /\ tgt'.ph = tgt.ph /\ tgt'.n = tgt.n
        /\ tgt'.blocks = tgt.blocks /\ tgt'.status = tgt.status
    BY <2>1 DEF Targets, SameBytes
  <2>4. /\ TargetStepOnly /\ bus'.req = FALSE /\ bus'.mci = bus.mci /\ bus'.tdat = SentByte(tgt)
    BY <2>1, <2>2, <2>3 DEF BusInv, BusTypeOK, Lines, TargetStepOnly
  <2>5. Doomed' <=> Doomed
    BY <2>1, <2>3 DEF Doomed
  <2>6. ini.at \in {"capture", "raise"} => Doomed /\ tgt.ph # "datain" /\ (tgt.ph = "status" => tgt.status # "GOOD")
    BY <2>1 DEF BusInv, Meeting, Doomed
  <2>7. bus'.tdat[2] = "GOOD" => tgt.ph = "status" /\ tgt.status = "GOOD"
    BY <2>1, <2>4, SentIs DEF Sending
  <2>8. SentByte(tgt)' = SentByte(tgt) /\ Position(tgt)' = Position(tgt) /\ Op(tgt)' = Op(tgt)
    BY <2>3, SameOp DEF SentByte, Position, SameBytes
  <2>9. TargetLines'
    BY <2>1, <2>3, <2>4, <2>7, <2>8, SentIs DEF BusInv, TargetLines, Sending, Stages
  <2>10. TargetCount'
    BY <2>1, <2>3, <2>8 DEF BusInv, TargetCount, SameBytes, Sending
  <2>11. ReadData'
    BY <2>1, <2>3, <2>4, <2>5, <2>8 DEF BusInv, TargetStepOnly, ReadData, Served
  <2> QED
    BY <2>1, <2>3, <2>4, <2>5, <2>6, <2>7, <2>9, <2>10, <2>11, SendingKeeps DEF BusInv
<1> QED
  BY <1>1, <1>2 DEF StartSend

LEMMA SendOfferKeeps ==
  ASSUME BusInv, SendOffer, UNCHANGED <<ini, icdLate>>
  PROVE  BusInv'
<1>1. /\ tgt.ph \in Sending /\ tgt.at = "offer" /\ tgt \in Targets /\ bus \in Lines /\ ~bus.req
      /\ tgt.ph \in Stages
  BY DEF BusInv, BusTypeOK, TargetLines, SendOffer, Targets, Phases, Stages, Sending
<1>2. CASE ~bus.ack /\ Request(tgt)
  <2>1. TargetStepOnly /\ SameBytes
    BY <1>1, <1>2, RequestIs DEF BusInv, BusTypeOK, TargetStepOnly, SameBytes
  <2>2. Doomed' <=> Doomed
    BY <1>1, <1>2, RequestIs DEF Doomed
  <2>3. SentByte(tgt)' = SentByte(tgt) /\ Position(tgt)' = Position(tgt) /\ Op(tgt)' = Op(tgt)
    BY <1>1, <1>2, <2>1, RequestIs, SameOp DEF SentByte, Position, SameBytes
  <2>4. TargetLines'
    BY <1>1, <1>2, <2>3, RequestIs DEF BusInv, TargetLines, Sending, Stages
  <2>5. TargetCount'
    BY <1>1, <1>2, <2>1, <2>3, RequestIs DEF BusInv, TargetCount, SameBytes, Sending
  <2>6. ReadData'
    BY <1>1, <1>2, <2>1, <2>2, <2>3, RequestIs DEF BusInv, TargetStepOnly, ReadData, Served
  <2> QED
    BY <1>1, <1>2, <2>1, <2>2, <2>4, <2>5, <2>6, RequestIs, SendingKeeps DEF BusInv
<1>3. CASE tgt' = [tgt EXCEPT !.at = "drain", !.failed = TRUE] /\ UNCHANGED bus
  <2>1. TargetStepOnly /\ SameBytes
    BY <1>1, <1>3 DEF BusInv, BusTypeOK, Targets, TargetStepOnly, SameBytes
  <2>2. /\ tgt'.ph = tgt.ph /\ tgt'.n = tgt.n /\ tgt'.blocks = tgt.blocks
        /\ tgt'.status = tgt.status /\ tgt'.at = "drain" /\ tgt'.failed
    BY <1>1, <1>3 DEF Targets
  <2> QED
    BY <1>1, <1>3, <2>1, <2>2, DoomKeeps
<1> QED
  BY <1>2, <1>3 DEF SendOffer

LEMMA SendAckKeeps ==
  ASSUME BusInv, SendAck, UNCHANGED <<ini, icdLate>>
  PROVE  BusInv'
<1> DEFINE t == [tgt EXCEPT !.n = @ + 1]
<1>1. /\ tgt.ph \in Sending /\ tgt.ph \in Stages /\ tgt.at = "ack" /\ tgt \in Targets /\ bus \in Lines
      /\ tgt.n \in Nat
  BY DEF BusInv, BusTypeOK, SendAck, Targets, Sending, Stages
<1>2. /\ t \in Targets /\ t.n = tgt.n + 1 /\ t.ph = tgt.ph /\ t.blocks = tgt.blocks
      /\ t.cdb = tgt.cdb /\ t.data = tgt.data /\ t.icd = tgt.icd /\ t.status = tgt.status
  <2>1. tgt.n + 1 \in Nat
    BY <1>1
  <2> QED
    BY <1>1, <2>1 DEF Targets
<1>3. \/ /\ bus.ack /\ Offer(t) /\ t.n # IF tgt.ph = "datain" THEN BlockLen ELSE 1
      \/ /\ bus.ack /\ t.n = IF tgt.ph = "datain" THEN BlockLen ELSE 1
         /\ tgt' = [t EXCEPT !.at = "drain", !.failed = FALSE]
         /\ bus' = [bus EXCEPT !.req = FALSE]
      \/ /\ tgt' = [tgt EXCEPT !.at = "drain", !.failed = TRUE]
         /\ bus' = [bus EXCEPT !.req = FALSE]
  BY DEF SendAck
<1> HIDE DEF t
<1>4. CASE /\ tgt' = [tgt EXCEPT !.at = "drain", !.failed = TRUE]
           /\ bus' = [bus EXCEPT !.req = FALSE]
  <2>1. /\ tgt' \in Targets /\ SameBytes /\ tgt'.ph = tgt.ph /\ tgt'.n = tgt.n
        /\ tgt'.blocks = tgt.blocks /\ tgt'.status = tgt.status /\ tgt'.at = "drain" /\ tgt'.failed
    BY <1>1, <1>4 DEF Targets, SameBytes
  <2>2. TargetStepOnly /\ ~bus'.req /\ bus'.mci = bus.mci /\ bus'.tdat = bus.tdat
    BY <1>1, <1>4, <2>1 DEF BusInv, BusTypeOK, Lines, TargetStepOnly
  <2> QED
    BY <1>1, <2>1, <2>2, DoomKeeps
<1>5. ASSUME bus.ack
      PROVE  ini.at = "wane" /\ (Doomed \/ ini.stage = tgt.ph)
  BY <1>1, <1>5 DEF BusInv, Meeting
<1>6. CASE bus.ack /\ Offer(t) /\ t.n # IF tgt.ph = "datain" THEN BlockLen ELSE 1
  <2>1. /\ tgt.ph = "datain" /\ tgt.n + 1 < BlockLen /\ tgt.blocks \in 1..BlockTotal /\ ~Doomed
    BY <1>1, <1>2, <1>6, BusAssumption DEF BusInv, TargetCount, Sending, Doomed
  <2>2. /\ tgt' \in Targets /\ tgt'.at = "offer" /\ tgt'.ph = "datain" /\ tgt'.n = tgt.n + 1
        /\ tgt'.blocks = tgt.blocks /\ tgt'.status = tgt.status /\ SameBytes
    BY <1>2, <1>6, <2>1 DEF Offer, Targets, SameBytes
  <2>3. Position(tgt)' = Position(tgt) + 1 /\ Position(tgt) \in Nat /\ Op(tgt)' = Op(tgt)
    BY <1>1, <2>1, <2>2, PositionNext, PositionType DEF SameBytes, Op
  <2>4. Position(t) = Position(tgt)' /\ Op(t) = Op(tgt)
    BY <1>2, <2>2 DEF Position, Op
  <2>5. SentByte(t) = <<Op(tgt), "datain", Position(tgt)' + 1>> /\ SentByte(tgt)' = SentByte(t)
    BY <1>2, <2>1, <2>2, <2>3, <2>4, SentIs
  <2>6. SentByte(t) \in Bytes
    <3>1. Op(tgt) \in Nat /\ "datain" \in Whats /\ Position(tgt)' + 1 \in Nat
      BY <2>3, OpType DEF Whats
    <3> QED
      BY <2>5, <3>1, ByteType
  <2>7. TargetStepOnly /\ bus'.req = FALSE /\ bus'.mci = bus.mci /\ bus'.tdat = SentByte(t)
    BY <1>1, <1>6, <2>2, <2>6 DEF BusInv, BusTypeOK, Offer, Lines, TargetStepOnly
  <2>8. TargetLines'
    BY <1>1, <2>1, <2>2, <2>5, <2>7 DEF BusInv, TargetLines, Sending, Stages
  <2>9. TargetCount'
    BY <1>1, <2>1, <2>2, BusAssumption DEF TargetCount
  <2>10. ReadData'
    <3>1. ini.at = "wane" /\ ini.stage = "datain" /\ bus.ack
      BY <1>5, <1>6, <2>1
    <3> QED
      BY <1>1, <2>1, <2>2, <2>3, <2>7, <3>1
      DEF BusInv, TargetStepOnly, ReadData, Transferring, Handshake
  <2> QED
    BY <1>1, <1>5, <1>6, <2>1, <2>2, <2>7, <2>8, <2>9, <2>10, SendingKeeps DEF BusInv
<1>7. CASE /\ bus.ack /\ t.n = IF tgt.ph = "datain" THEN BlockLen ELSE 1
           /\ tgt' = [t EXCEPT !.at = "drain", !.failed = FALSE]
           /\ bus' = [bus EXCEPT !.req = FALSE]
  <2>1. /\ tgt' \in Targets /\ tgt'.at = "drain" /\ tgt'.ph = tgt.ph /\ tgt'.n = tgt.n + 1
        /\ tgt'.blocks = tgt.blocks /\ tgt'.status = tgt.status /\ tgt'.failed = FALSE /\ SameBytes
    BY <1>2, <1>7 DEF Targets, SameBytes
  <2>2. TargetStepOnly /\ bus'.req = FALSE /\ bus'.mci = bus.mci /\ bus'.tdat = bus.tdat
    BY <1>1, <1>7, <2>1 DEF BusInv, BusTypeOK, Lines, TargetStepOnly
  <2>3. Doomed' <=> Doomed
    BY <1>1, <2>1 DEF Doomed
  <2>4. Op(tgt)' = Op(tgt)
    BY <2>1 DEF SameBytes, Op
  <2>5. TargetLines'
    BY <1>1, <2>1, <2>2, <2>4 DEF BusInv, TargetLines, Sending, Stages
  <2>6. TargetCount'
    BY <1>1, <1>2, <1>7, <2>1, BusAssumption DEF BusInv, TargetCount, Sending
  <2>7. ReadData'
    <3>1. ini.at = "wane" /\ (Doomed \/ ini.stage = tgt.ph) /\ bus.ack
      BY <1>5, <1>7
    <3>2. tgt.ph = "datain" => Position(tgt)' = Position(tgt) + 1 /\ Position(tgt) \in Nat
      BY <1>1, <2>1, PositionNext, PositionType DEF BusInv, TargetCount
    <3> QED
      BY <1>1, <2>1, <2>2, <2>3, <2>4, <3>1, <3>2
      DEF BusInv, TargetStepOnly, ReadData, Transferring, Handshake, Sending
  <2> QED
    BY <1>1, <1>5, <1>7, <2>1, <2>2, <2>3, <2>5, <2>6, <2>7, SendingKeeps DEF BusInv
<1> QED
  BY <1>3, <1>4, <1>6, <1>7

LEMMA SendDrainKeeps ==
  ASSUME BusInv, SendDrain, UNCHANGED <<ini, icdLate>>
  PROVE  BusInv'
<1>1. /\ tgt.ph \in Sending /\ tgt.ph \in Stages /\ tgt.at = "drain" /\ tgt \in Targets /\ bus \in Lines
      /\ ~bus.req /\ bus' = bus
  BY DEF BusInv, BusTypeOK, TargetLines, SendDrain, Targets, Phases, Sending, Stages
<1>2. /\ tgt' \in Targets /\ SameBytes /\ tgt'.ph = tgt.ph /\ tgt'.n = tgt.n /\ tgt'.failed = tgt.failed
      /\ tgt'.blocks = tgt.blocks /\ tgt'.status = tgt.status
      /\ tgt'.at = IF tgt.failed THEN "error" ELSE "done"
  BY <1>1 DEF SendDrain, Targets, SameBytes
<1>3. TargetStepOnly
  BY <1>1, <1>2 DEF BusInv, BusTypeOK, TargetStepOnly
<1>4. CASE tgt.failed
  BY <1>1, <1>2, <1>3, <1>4, DoomKeeps
<1>5. CASE ~tgt.failed
  <2>1. (Doomed' <=> Doomed) /\ Op(tgt)' = Op(tgt) /\ Position(tgt)' = Position(tgt)
    BY <1>1, <1>2, <1>5 DEF Doomed, SameBytes, Op, Position
  <2>2. TargetLines'
    BY <1>1, <1>2, <1>5, <2>1 DEF BusInv, TargetLines, Sending, Stages
  <2>3. TargetCount'
    BY <1>1, <1>2, <1>5 DEF BusInv, TargetCount, Sending
  <2>4. ReadData'
    BY <1>1, <1>2, <1>5, <2>1 DEF BusInv, ReadData, Served
  <2>5. ini.at \in {"capture", "raise"} => Doomed
    BY <1>1 DEF BusInv, Meeting
  <2> QED
    BY <1>1, <1>2, <1>3, <1>5, <2>1, <2>2, <2>3, <2>4, <2>5, SendingKeeps DEF BusInv
<1> QED
  BY <1>4, <1>5

-----------------------------------------------------------------------------
(* The target between two blocks and two phases                             *)

LEMMA BlockPosition ==
  ASSUME NEW t, NEW u, t.blocks \in 1..BlockTotal, t.n = BlockLen
  PROVE  /\ u.blocks = t.blocks - 1 /\ u.n = 0 => Position(u) = Position(t)
         /\ t.blocks = 1 => Position(t) = DataLen
<1>1. BlockTotal - (t.blocks - 1) = (BlockTotal - t.blocks) + 1 /\ BlockTotal - t.blocks \in Nat
  BY BusAssumption
<1>2. \A m \in Nat : (m + 1) * BlockLen = m * BlockLen + BlockLen
  BY BusAssumption
<1>3. (BlockTotal - (t.blocks - 1)) * BlockLen = (BlockTotal - t.blocks) * BlockLen + BlockLen
  BY <1>1, <1>2
<1>4. (BlockTotal - t.blocks) * BlockLen \in Nat
  BY <1>1, Multiples
<1>5. ASSUME u.blocks = t.blocks - 1, u.n = 0 PROVE Position(u) = Position(t)
  <2>1. Position(u) = (BlockTotal - (t.blocks - 1)) * BlockLen + 0
    BY <1>5 DEF Position
  <2>2. Position(t) = (BlockTotal - t.blocks) * BlockLen + BlockLen
    BY DEF Position
  <2> QED
    BY <1>3, <1>4, <2>1, <2>2, BusAssumption
<1>6. ASSUME t.blocks = 1 PROVE Position(t) = DataLen
  <2>1. Position(t) = (BlockTotal - 1) * BlockLen + BlockLen
    BY <1>6 DEF Position
  <2>2. BlockTotal - 1 \in Nat /\ (BlockTotal - 1) + 1 = BlockTotal
    BY BusAssumption
  <2>3. BlockTotal * BlockLen = (BlockTotal - 1) * BlockLen + BlockLen
    BY <1>2, <2>2
  <2> QED
    BY <2>1, <2>3 DEF DataLen
<1> QED
  BY <1>5, <1>6

(* Enter, from the end of a block or a phase.                               *)
LEMMA EnterIs ==
  ASSUME BusInv, NEW phase \in Stages, NEW t \in Targets, Enter(phase, t)
  PROVE  /\ tgt' \in Targets /\ tgt'.ph = phase /\ tgt'.at = "between" /\ tgt'.n = 0
         /\ tgt'.blocks = t.blocks /\ tgt'.status = t.status /\ tgt'.icd = t.icd
         /\ tgt'.cdb = t.cdb /\ tgt'.data = t.data
         /\ bus' \in Lines /\ bus'.mci = phase /\ bus'.req = bus.req /\ bus'.tdat = bus.tdat
         /\ bus'.sel = bus.sel /\ bus'.ack = bus.ack /\ bus'.idat = bus.idat /\ bus'.rst = bus.rst
<1>1. bus \in Lines
  BY DEF BusInv, BusTypeOK
<1>2. /\ tgt' \in Targets /\ tgt'.ph = phase /\ tgt'.at = "between" /\ tgt'.n = 0
      /\ tgt'.blocks = t.blocks /\ tgt'.status = t.status /\ tgt'.icd = t.icd
      /\ tgt'.cdb = t.cdb /\ tgt'.data = t.data
  BY DEF Enter, Targets, Phases
<1>3. /\ bus' \in Lines /\ bus'.mci = phase /\ bus'.req = bus.req /\ bus'.tdat = bus.tdat
      /\ bus'.sel = bus.sel /\ bus'.ack = bus.ack /\ bus'.idat = bus.idat /\ bus'.rst = bus.rst
  BY <1>1 DEF Enter, Lines
<1> QED
  BY <1>2, <1>3

LEMMA BlockIsDone ==
  ASSUME BusInv, BlockDone
  PROVE  /\ tgt.ph \in {"datain", "dataout"} /\ tgt.at = "done" /\ ~Doomed /\ ~bus.req
         /\ tgt.blocks \in 1..BlockTotal /\ tgt.n = BlockLen /\ tgt \in Targets
         /\ tgt.ph \in Stages /\ "status" \in Stages
         /\ ini.at \notin {"capture", "raise"}
  BY Behind DEF BusInv, BusTypeOK, TargetLines, TargetCount, BlockDone, Doomed, Stages

(* The next block.                                                          *)
LEMMA NextBlockKeeps ==
  ASSUME BusInv, BlockDone, UNCHANGED <<ini, icdLate>>, tgt.blocks > 1,
         Enter(tgt.ph, [tgt EXCEPT !.blocks = @ - 1])
  PROVE  BusInv'
<1> DEFINE t == [tgt EXCEPT !.blocks = @ - 1]
<1>1. /\ t \in Targets /\ t.blocks = tgt.blocks - 1 /\ t.status = tgt.status /\ t.icd = tgt.icd
      /\ t.cdb = tgt.cdb /\ t.data = tgt.data
  <2>1. tgt.blocks - 1 \in Nat
    BY BlockIsDone, BusAssumption
  <2> QED
    BY <2>1, BlockIsDone DEF Targets
<1>2. Enter(tgt.ph, t)
  OBVIOUS
<1> HIDE DEF t
<1>3. TargetStepOnly /\ SameBytes /\ tgt'.status = tgt.status
  BY <1>1, <1>2, BlockIsDone, EnterIs DEF BusInv, BusTypeOK, TargetStepOnly, SameBytes
<1>4. /\ tgt'.ph = tgt.ph /\ tgt'.at = "between" /\ tgt'.n = 0 /\ tgt'.blocks = tgt.blocks - 1
      /\ bus'.mci = tgt.ph /\ bus'.req = bus.req /\ bus'.tdat = bus.tdat
  BY <1>1, <1>2, BlockIsDone, EnterIs
<1>5. ~Doomed'
  BY <1>4, BlockIsDone DEF Doomed
<1>6. Position(tgt)' = Position(tgt) /\ Op(tgt)' = Op(tgt)
  BY <1>3, <1>4, BlockIsDone, BlockPosition, SameOp
<1>7. TargetLines'
  BY <1>3, <1>4, <1>6, BlockIsDone DEF BusInv, TargetLines, Sending, Stages
<1>8. TargetCount'
  BY <1>3, <1>4, <1>6, BlockIsDone, BusAssumption DEF BusInv, TargetCount, SameBytes
<1>9. Meeting'
  BY <1>3, <1>4, <1>5, BlockIsDone, Behind DEF BusInv, TargetStepOnly, Meeting, Served
<1>10. ReadData' /\ StatusRead'
  <2>1. ReadData'
    BY <1>3, <1>4, <1>5, <1>6, BlockIsDone DEF BusInv, TargetStepOnly, ReadData, Served
  <2>2. StatusRead'
    BY <1>3, <1>4, <1>5, BlockIsDone, SameOp DEF BusInv, TargetStepOnly, StatusRead, Served
  <2> QED
    BY <2>1, <2>2
<1>11. ASSUME ~icdLate PROVE Taken' /\ Ready' /\ CommandSent' /\ DataSent'
  <2>1. Taken' /\ Ready'
    BY <1>3, <1>4, <1>6, <1>11, BlockIsDone, SameOp
    DEF BusInv, TargetStepOnly, SameBytes, Writing, Taken, Ready
  <2>2. CommandSent'
    BY <1>3, <1>4, <1>11, BlockIsDone, Behind DEF TargetStepOnly, CommandSent
  <2>3. DataSent'
    BY <1>3, <1>4, <1>5, <1>6, <1>11, BlockIsDone
    DEF BusInv, TargetStepOnly, SameBytes, Writing, DataSent
  <2> QED
    BY <2>1, <2>2, <2>3
<1> QED
  BY <1>3, <1>7, <1>8, <1>9, <1>10, <1>11, TargetKeeps DEF BusInv, Writing

(* The last block.                                                          *)
LEMMA LastBlockKeeps ==
  ASSUME BusInv, BlockDone, UNCHANGED <<ini, icdLate>>, tgt.blocks = 1, Status("GOOD")
  PROVE  BusInv'
<1> DEFINE t == [tgt EXCEPT !.status = "GOOD"]
<1>1. /\ t \in Targets /\ t.blocks = tgt.blocks /\ t.status = "GOOD" /\ t.icd = tgt.icd
      /\ t.cdb = tgt.cdb /\ t.data = tgt.data
  BY BlockIsDone DEF Targets
<1>2. Enter("status", t)
  BY DEF Status
<1> HIDE DEF t
<1>3. TargetStepOnly /\ SameBytes /\ tgt'.status = "GOOD"
  BY <1>1, <1>2, BlockIsDone, EnterIs DEF BusInv, BusTypeOK, TargetStepOnly, SameBytes
<1>4. /\ tgt'.ph = "status" /\ tgt'.at = "between" /\ tgt'.n = 0
      /\ bus'.mci = "status" /\ bus'.req = bus.req /\ bus'.tdat = bus.tdat
  BY <1>1, <1>2, BlockIsDone, EnterIs
<1>5. ~Doomed' /\ Op(tgt)' = Op(tgt)
  BY <1>3, <1>4, BlockIsDone, SameOp DEF Doomed
<1>6. TargetLines' /\ TargetCount'
  BY <1>3, <1>4, <1>5, BlockIsDone DEF BusInv, TargetLines, TargetCount, Sending, Stages
<1>7. Meeting'
  BY <1>3, <1>4, <1>5, BlockIsDone, Behind DEF BusInv, TargetStepOnly, Meeting, Served
<1>8. ReadData' /\ StatusRead'
  <2>1. ReadData'
    BY <1>3, <1>4, <1>5, BlockIsDone DEF BusInv, TargetStepOnly, ReadData
  <2>2. StatusRead'
    BY <1>3, <1>4, <1>5, BlockIsDone, SameOp DEF BusInv, TargetStepOnly, StatusRead, Served
  <2> QED
    BY <2>1, <2>2
<1>9. ASSUME ~icdLate PROVE Taken' /\ Ready' /\ CommandSent' /\ DataSent'
  <2>1. tgt.cdb # <<>> /\ Op(tgt) \in 1..ini.op
    <3>1. Len(tgt.cdb) = CdbLen /\ tgt.cdb \in Seq(Bytes)
      BY <1>9, BlockIsDone DEF BusInv, Writing, Taken, Targets
    <3>2. tgt.cdb # <<>>
      BY <3>1, BusAssumption, EmptySeq
    <3> QED
      BY <1>9, <3>2 DEF BusInv, Writing, Taken
  <2>2. ini.kinds[Op(tgt)] = IF tgt.ph = "datain" THEN "in" ELSE "out"
    BY <1>9, BlockIsDone DEF BusInv, Writing, Taken
  <2>3. tgt.ph = "dataout" => Len(tgt.data) = DataLen
    BY BlockIsDone, BlockPosition DEF BusInv, TargetCount
  <2>4. WrittenWhole
    BY <2>1, <2>2, <2>3, BlockIsDone DEF WrittenWhole
  <2>5. Taken' /\ Ready'
    BY <1>3, <1>4, <1>5, <1>9, <2>1, <2>4, SameOp
    DEF BusInv, TargetStepOnly, SameBytes, Writing, Taken, Ready
  <2>6. CommandSent' /\ DataSent'
    BY <1>3, <1>4, <1>9, BlockIsDone, Behind DEF TargetStepOnly, CommandSent, DataSent
  <2> QED
    BY <2>5, <2>6
<1> QED
  BY <1>3, <1>6, <1>7, <1>8, <1>9, TargetKeeps DEF BusInv, Writing

LEMMA BlockDoneKeeps ==
  ASSUME BusInv, BlockDone, UNCHANGED <<ini, icdLate>>
  PROVE  BusInv'
<1>1. CASE TargetReset
  BY <1>1, FreeKeeps DEF TargetReset
<1>2. CASE tgt' = [tgt EXCEPT !.at = "error"] /\ UNCHANGED bus
  <2>1. /\ tgt' \in Targets /\ SameBytes /\ tgt'.ph = tgt.ph /\ tgt'.n = tgt.n
        /\ tgt'.blocks = tgt.blocks /\ tgt'.status = tgt.status /\ tgt'.at = "error"
    BY <1>2, BlockIsDone DEF Targets, SameBytes
  <2>2. TargetStepOnly
    BY <1>2, <2>1 DEF BusInv, BusTypeOK, TargetStepOnly
  <2> QED
    BY <1>2, <2>1, <2>2, BlockIsDone, DoomKeeps
<1>3. CASE BusFree
  BY <1>3, FreeKeeps
<1> QED
  BY <1>1, <1>2, <1>3, NextBlockKeeps, LastBlockKeeps DEF BlockDone

LEMMA StatusDoneKeeps ==
  ASSUME BusInv, StatusDone, UNCHANGED <<ini, icdLate>>
  PROVE  BusInv'
<1>1. CASE TargetReset
  BY <1>1, FreeKeeps DEF TargetReset
<1>2. CASE Enter("msgin", tgt)
  <2>1. /\ tgt \in Targets /\ "msgin" \in Stages /\ tgt.ph = "status" /\ tgt.at = "done" /\ ~bus.req
    BY DEF BusInv, BusTypeOK, StatusDone, TargetLines, Stages
  <2>2. TargetStepOnly /\ SameBytes /\ tgt'.status = tgt.status
    BY <1>2, <2>1, EnterIs DEF BusInv, BusTypeOK, TargetStepOnly, SameBytes
  <2>3. /\ tgt'.ph = "msgin" /\ tgt'.at = "between" /\ tgt'.n = 0
        /\ bus'.mci = "msgin" /\ bus'.req = bus.req /\ bus'.tdat = bus.tdat
    BY <1>2, <2>1, EnterIs
  <2>4. Doomed'
    BY <2>3 DEF Doomed
  <2>5. TargetLines' /\ TargetCount'
    BY <2>1, <2>2, <2>3, SameOp DEF BusInv, TargetLines, TargetCount, Sending, Stages
  <2>6. Meeting'
    BY <2>1, <2>2, <2>3, <2>4 DEF BusInv, TargetStepOnly, Meeting, Served
  <2>7. ReadData' /\ StatusRead'
    BY <2>2, <2>3, <2>4, SameOp DEF BusInv, TargetStepOnly, ReadData, StatusRead, Served
  <2>8. ~icdLate => Taken' /\ Ready'
    BY <2>1, <2>2, <2>3, SameOp DEF BusInv, TargetStepOnly, SameBytes, Writing, Taken, Ready
  <2>9. ~icdLate => CommandSent' /\ DataSent'
    BY <2>2, <2>3, <2>4 DEF TargetStepOnly, CommandSent, DataSent
  <2> QED
    BY <2>2, <2>5, <2>6, <2>7, <2>8, <2>9, TargetKeeps DEF BusInv, TargetStepOnly, Writing
<1> QED
  BY <1>1, <1>2 DEF StatusDone

LEMMA TargetStepKeeps ==
  ASSUME BusInv, TargetStep
  PROVE  BusInv'
BY SelectedKeeps, CommandKeeps, ExecuteKeeps, ErrorKeeps, StartReceiveKeeps, ReceiveAckKeeps,
   StartSendKeeps, SendOfferKeeps, SendAckKeeps, SendDrainKeeps, BlockDoneKeeps, StatusDoneKeeps,
   FreeKeeps, ReceiveClearKeeps
DEF TargetStep, MessageDone

-----------------------------------------------------------------------------
(* The initiator in a transfer                                              *)

LEMMA WaitPhaseKeeps ==
  ASSUME BusInv, WaitPhase
  PROVE  BusInv'
<1>1. CASE Finish(FALSE)
  BY <1>1, FinishKeeps DEF WaitPhase, IniStep, Finish, BusInv, BusTypeOK
<1>2. CASE /\ bus.req /\ bus.mci = ini.stage
           /\ ini' = [ini EXCEPT !.at = "capture"] /\ UNCHANGED bus
  <2>1. /\ ini.at = "wait" /\ UNCHANGED <<tgt, icdLate, bus>> /\ ini \in Initiators /\ ini.n = 0
    BY <1>2 DEF WaitPhase, IniStep, BusInv, BusTypeOK, InitiatorLines
  <2>2. /\ ini' \in Initiators /\ ini'.at = "capture" /\ ini'.op = ini.op /\ ini'.kinds = ini.kinds
        /\ ini'.icd = ini.icd /\ ini'.ask = ini.ask /\ ini'.stage = ini.stage /\ ini'.n = 0
        /\ ini'.count = ini.count /\ ini'.data = ini.data /\ ini'.status = ini.status
    BY <1>2, <2>1 DEF Initiators
  <2>3. OwnLines /\ SameCommands
    BY <2>1, <2>2, CommandsKept DEF BusInv, BusTypeOK, OwnLines
  <2>4. tgt.at = "ack" /\ tgt.ph = ini.stage /\ ini.stage \in Stages /\ tgt.ph # "selection"
    BY <1>2, <2>1 DEF BusInv, BusTypeOK, TargetLines, Targets, Phases, Initiators, Stages
  <2>5. ~bus.ack /\ ~bus.rst /\ ~bus.sel
    BY <2>1 DEF BusInv, InitiatorLines
  <2>6. ini.op >= 1 /\ ini.ask > 0 /\ (ini.stage = "command" => ini.data = <<>> /\ ini.count = 0)
    BY <2>1 DEF BusInv, InitiatorLines, ReadCount, Served, Opening
  <2>7. InitiatorLines'
    BY <2>1, <2>2, <2>5, <2>6 DEF BusInv, InitiatorLines, Handshake
  <2>8. Meeting'
    BY <2>1, <2>2, <2>4, <2>5 DEF Meeting, Served, Transferring, Handshake
  <2>9. ReadCount'
    BY <2>1, <2>2, <2>6 DEF BusInv, ReadCount, Served, Opening
  <2>10. ReadData'
    BY <2>1, <2>2, <2>3, <2>4, <2>5, OwnStep
    DEF BusInv, ReadCount, ReadData, Served, InOrder, BusTypeOK, Initiators
  <2>11. StatusRead'
    BY <2>1, <2>2, <2>3, <2>4, OwnStep DEF BusInv, StatusRead, ReadWhole, Vouched, Served, WrittenWhole
  <2>12. ASSUME ~icdLate PROVE CommandSent' /\ DataSent'
    <3>1. tgt.ph = "command" => tgt.cdb = <<>> /\ ~tgt.icd /\ Accepted = 0
      <4>1. tgt.ph = "command" => tgt.cdb = <<>> /\ ~tgt.icd
        BY <2>1, <2>4, <2>12 DEF BusInv, Writing, CommandSent, Opening
      <4> QED
        BY <4>1, AcceptedIs
    <3>2. CommandSent'
      <4>1. Accepted' = Accepted
        BY <2>1 DEF Accepted
      <4>2. ~Opening' /\ tgt' = tgt /\ Doomed' = Doomed
        BY <2>1, <2>2, <2>3, OwnStep DEF Opening, Doomed
      <4> QED
        BY <2>2, <2>4, <3>1, <4>1, <4>2 DEF CommandSent
    <3>3. tgt.ph = "dataout" => Op(tgt) = ini.op /\ tgt.data = <<>>
      <4> SUFFICES ASSUME tgt.ph = "dataout" PROVE Op(tgt) = ini.op /\ tgt.data = <<>>
        OBVIOUS
      <4>1. ~Doomed
        BY <2>4 DEF Doomed
      <4>2. Len(tgt.cdb) = CdbLen /\ tgt.cdb \in Seq(Bytes)
        BY <2>12 DEF BusInv, BusTypeOK, Targets, Writing, Taken
      <4>3. tgt.cdb # <<>>
        BY <4>2, BusAssumption, EmptySeq
      <4> QED
        BY <2>1, <2>4, <2>12, <4>1, <4>3 DEF BusInv, Writing, DataSent
    <3>4. DataSent'
      BY <2>1, <2>2, <2>4, <3>3 DEF DataSent
    <3> QED
      BY <3>2, <3>4
  <2> QED
    BY <2>1, <2>3, <2>7, <2>8, <2>9, <2>10, <2>11, <2>12, OwnStep DEF BusInv, Writing
<1> QED
  BY <1>1, <1>2 DEF WaitPhase

(* The steps of the handshake of a byte, up to the last.                    *)
SameTransfer ==
  /\ OwnLines /\ UNCHANGED <<tgt, icdLate>> /\ bus'.sel = bus.sel /\ bus'.rst = bus.rst
  /\ ini' \in Initiators /\ ini'.op = ini.op /\ ini'.kinds = ini.kinds /\ ini'.icd = ini.icd
  /\ ini'.ask = ini.ask /\ ini'.stage = ini.stage /\ ini'.n = ini.n /\ ini'.count = ini.count
  /\ ini'.data = ini.data /\ ini'.status = ini.status

LEMMA TransferKeeps ==
  ASSUME BusInv, SameTransfer, ini.at \in Transferring, ini'.at \in Handshake,
         bus'.ack <=> ini'.at \in {"wane", "drop"},
         ini.n < SentLen, Doomed \/ ini'.mci = ini.stage,
         Sends => bus'.idat = <<ini.op, ini.stage, Index>>,
         ini'.at = "raise" => Doomed \/ (tgt.at = "ack" /\ tgt.ph = ini.stage),
         ini'.at = "drop" => tgt.at # "ack",
         ini'.at = "wane" => Doomed \/ tgt.ph = ini.stage \/ tgt.at # "ack"
  PROVE  /\ BusTypeOK' /\ TargetLines' /\ TargetCount' /\ InitiatorLines' /\ Meeting' /\ ReadCount'
         /\ (Doomed' <=> Doomed) /\ Op(tgt)' = Op(tgt) /\ Position(tgt)' = Position(tgt)
         /\ Accepted' = Accepted /\ (\A byte : Vouched(byte) => Vouched(byte)')
         /\ ini'.stage = "msgin" => Vouched(ini.status)'
         /\ icdLate \/ (Taken /\ Ready) => icdLate' \/ (Taken' /\ Ready')
<1>1. SameCommands
  BY CommandsKept DEF SameTransfer
<1>2. tgt' = tgt /\ icdLate' = icdLate /\ OwnLines
  BY DEF SameTransfer
<1>3. /\ BusTypeOK' /\ TargetLines' /\ TargetCount' /\ (Doomed' <=> Doomed)
      /\ (WrittenWhole => WrittenWhole')
      /\ icdLate \/ (Taken /\ Ready) => icdLate' \/ (Taken' /\ Ready')
  BY <1>1, <1>2, OwnStep DEF SameTransfer
<1>4. Op(tgt)' = Op(tgt) /\ Position(tgt)' = Position(tgt) /\ Accepted' = Accepted
  BY <1>2 DEF Op, Position, Accepted
<1>5. ini'.at \in {"req", "raise", "wane", "drop"} /\ ini.at \in {"capture", "req", "raise", "wane", "drop"}
      /\ Served /\ Served' /\ ~Opening'
  BY DEF Served, Opening, Transferring, Handshake
<1>6. InitiatorLines'
  <2>1. (SentLen' = SentLen) /\ (Sends' <=> Sends) /\ Index' = Index
    BY DEF SameTransfer, SentLen, Sends, Index
  <2> QED
    BY <1>5, <2>1 DEF SameTransfer, BusInv, InitiatorLines
<1>7. Meeting'
  BY <1>2, <1>3, <1>5 DEF SameTransfer, BusInv, Meeting, Transferring, Handshake
<1>8. ReadCount'
  BY <1>5 DEF SameTransfer, BusInv, ReadCount
<1>9. \A byte : Vouched(byte) => Vouched(byte)'
  BY <1>3, <1>4 DEF SameTransfer, Vouched, ReadWhole
<1>10. ini'.stage = "msgin" => Vouched(ini.status)'
  <2>1. ini.stage = "msgin" => Vouched(ini.status)
    BY <1>5 DEF BusInv, StatusRead
  <2>2. ini'.status = ini.status /\ ini'.stage = ini.stage
    BY DEF SameTransfer
  <2>3. Vouched(ini.status) => Vouched(ini.status)'
    BY <1>3, <1>4, <2>2 DEF SameTransfer, Vouched, ReadWhole
  <2> QED
    BY <2>1, <2>2, <2>3
<1> QED
  BY <1>3, <1>4, <1>6, <1>7, <1>8, <1>9, <1>10

LEMMA NextByteIs ==
  ASSUME BusInv, NEW i \in Initiators, i.op = ini.op, i.stage = ini.stage, i.icd = ini.icd,
         NextByte(i)
  PROVE  /\ OwnLines /\ bus'.sel = bus.sel /\ bus'.rst = bus.rst /\ bus'.ack = FALSE
         /\ ini' \in Initiators /\ ini'.at = "req" /\ ini'.op = i.op /\ ini'.kinds = i.kinds
         /\ ini'.icd = i.icd /\ ini'.ask = i.ask /\ ini'.stage = i.stage /\ ini'.mci = i.mci
         /\ ini'.n = i.n /\ ini'.byte = i.byte /\ ini'.good = i.good /\ ini'.count = i.count
         /\ ini'.data = i.data /\ ini'.status = i.status /\ ini'.ok = i.ok
         /\ Sends => bus'.idat = <<ini.op, ini.stage, IF ini.stage = "command" /\ ini.icd THEN i.n ELSE i.n + 1>>
<1> DEFINE k == IF ini.stage = "command" /\ ini.icd THEN i.n ELSE i.n + 1
<1>1. /\ ini' \in Initiators /\ ini'.at = "req" /\ ini'.op = i.op /\ ini'.kinds = i.kinds
      /\ ini'.icd = i.icd /\ ini'.ask = i.ask /\ ini'.stage = i.stage /\ ini'.mci = i.mci
      /\ ini'.n = i.n /\ ini'.byte = i.byte /\ ini'.good = i.good /\ ini'.count = i.count
      /\ ini'.data = i.data /\ ini'.status = i.status /\ ini'.ok = i.ok
  BY DEF NextByte, Initiators
<1>2. Sends => <<ini.op, ini.stage, k>> \in Bytes
  <2>1. i.n \in Nat /\ k \in Nat /\ ini.op \in Nat
    BY DEF BusInv, BusTypeOK, Initiators
  <2>2. Sends => ini.stage \in Whats
    BY DEF Sends, Whats
  <2> QED
    BY <2>1, <2>2, ByteType
<1>3. bus' = IF Sends THEN [bus EXCEPT !.ack = FALSE, !.idat = <<ini.op, ini.stage, k>>]
             ELSE [bus EXCEPT !.ack = FALSE]
  BY DEF NextByte
<1> HIDE DEF k
<1>4. /\ OwnLines /\ bus'.sel = bus.sel /\ bus'.rst = bus.rst /\ bus'.ack = FALSE
      /\ Sends => bus'.idat = <<ini.op, ini.stage, k>>
  <2>1. bus \in Lines
    BY DEF BusInv, BusTypeOK
  <2>2. CASE Sends
    BY <1>2, <1>3, <2>1, <2>2 DEF Lines, OwnLines
  <2>3. CASE ~Sends
    BY <1>3, <2>1, <2>3 DEF Lines, OwnLines
  <2> QED
    BY <2>2, <2>3
<1> QED
  BY <1>1, <1>4 DEF k

LEMMA CaptureKeeps ==
  ASSUME BusInv, Capture
  PROVE  BusInv'
<1> DEFINE i == [ini EXCEPT !.mci = bus.mci]
<1>1. /\ i \in Initiators /\ i.op = ini.op /\ i.kinds = ini.kinds /\ i.icd = ini.icd
      /\ i.ask = ini.ask /\ i.stage = ini.stage /\ i.n = ini.n /\ i.count = ini.count
      /\ i.data = ini.data /\ i.status = ini.status /\ i.mci = bus.mci
  BY DEF BusInv, BusTypeOK, Lines, Initiators
<1>2. NextByte(i) /\ ini.at = "capture" /\ UNCHANGED <<tgt, icdLate>> /\ ini.n = 0 /\ ~bus.ack
  BY DEF Capture, IniStep, BusInv, InitiatorLines
<1> HIDE DEF i
<1>3. SameTransfer /\ ini'.at = "req" /\ ini'.mci = bus.mci /\ bus'.ack = FALSE
      /\ (Sends => bus'.idat = <<ini.op, ini.stage, Index>>)
  BY <1>1, <1>2, NextByteIs DEF SameTransfer, Index
<1>4. Doomed \/ (tgt.at = "ack" /\ tgt.ph = ini.stage /\ bus.mci = ini.stage)
  <2>1. ini.stage \in Stages
    BY DEF BusInv, BusTypeOK, Initiators
  <2> QED
    BY <1>2, <2>1 DEF BusInv, Meeting, TargetLines
<1>5. ini.n < SentLen
  <2>1. ini.ask \in Nat /\ ini.ask > 0
    BY <1>2 DEF BusInv, BusTypeOK, Initiators, InitiatorLines, Served, Transferring
  <2> QED
    BY <1>2, <2>1, BusAssumption DEF SentLen
<1>6. ini.at \in Transferring /\ ini'.at \in Handshake
  BY <1>2, <1>3 DEF Transferring, Handshake
<1>7. ReadData'
  BY <1>2, <1>3, <1>4, <1>5, <1>6, TransferKeeps DEF SameTransfer, BusInv, ReadData, Served
<1>8. StatusRead'
  <2>1. ini'.stage = "msgin" => Vouched(ini.status)'
    BY <1>2, <1>3, <1>4, <1>5, <1>6, TransferKeeps
  <2> QED
    BY <1>2, <1>3, <1>4, <1>5, <1>6, <2>1, TransferKeeps DEF SameTransfer, BusInv, StatusRead, ReadWhole
<1>9. ASSUME ~icdLate PROVE CommandSent' /\ DataSent'
  <2>1. CommandSent'
    BY <1>2, <1>3, <1>4, <1>5, <1>6, <1>9, TransferKeeps
    DEF SameTransfer, BusInv, Writing, CommandSent, Opening
  <2>2. DataSent'
    BY <1>2, <1>3, <1>4, <1>5, <1>6, <1>9, TransferKeeps DEF SameTransfer, BusInv, Writing, DataSent
  <2> QED
    BY <2>1, <2>2
<1> QED
  BY <1>2, <1>3, <1>4, <1>5, <1>6, <1>7, <1>8, <1>9, TransferKeeps DEF BusInv, Writing

LEMMA RequestSeen ==
  ASSUME BusInv, IniStep("req"), bus.req, bus.mci = ini.mci, ini' = [ini EXCEPT !.at = "raise"],
         UNCHANGED bus
  PROVE  BusInv'
<1>1. SameTransfer /\ ini'.at = "raise" /\ ini'.mci = ini.mci /\ bus' = bus /\ ini.at = "req"
  BY DEF IniStep, BusInv, BusTypeOK, Initiators, OwnLines, SameTransfer
<1>2. ~bus.ack /\ ini.n < SentLen /\ (Sends => bus.idat = <<ini.op, ini.stage, Index>>)
      /\ ini.at \in Transferring /\ ini'.at \in Handshake
  BY <1>1 DEF BusInv, InitiatorLines, Transferring, Handshake
<1>3. tgt.at = "ack" /\ (Doomed \/ (ini.mci = ini.stage /\ tgt.ph = ini.stage))
  <2>1. tgt.at = "ack" /\ (Doomed \/ ini.mci = ini.stage) /\ bus.mci \in Stages
    BY <1>1 DEF BusInv, BusTypeOK, Lines, TargetLines, Meeting, Handshake
  <2>2. tgt.ph \in Stages
    BY <2>1 DEF BusInv, BusTypeOK, TargetLines, Targets, Phases, Stages
  <2> QED
    BY <2>1, <2>2 DEF BusInv, TargetLines
<1>4. ReadData'
  BY <1>1, <1>2, <1>3, TransferKeeps DEF SameTransfer, BusInv, ReadData, Served
<1>5. ini.stage = "status" => Vouched(bus.tdat)
  <2>1. SUFFICES ASSUME ini.stage = "status", bus.tdat[2] = "GOOD"
                 PROVE  bus.tdat = <<Op(tgt), "GOOD", 0>> /\ ReadWhole(Op(tgt)) /\ WrittenWhole
    BY DEF Vouched
  <2>2. /\ tgt.ph \in {"status", "msgin"} /\ bus.tdat = <<Op(tgt), "GOOD", 0>> /\ tgt.status = "GOOD"
    BY <2>1 DEF BusInv, TargetLines
  <2>3. tgt.ph # "msgin"
    <3>1. tgt.ph = "msgin" => bus.tdat[2] = "message"
      BY <1>3, SentIs DEF BusInv, TargetLines, Sending
    <3> QED
      BY <2>1, <3>1
  <2>4. ~Doomed
    BY <1>3, <2>2, <2>3 DEF Doomed
  <2> QED
    BY <1>1, <2>1, <2>2, <2>4 DEF BusInv, StatusRead, Writing, Taken, WrittenWhole
<1>6. StatusRead'
  <2>1. Vouched(bus.tdat) => Vouched(bus.tdat)'
    BY <1>1, <1>2, <1>3, TransferKeeps DEF SameTransfer, Vouched, ReadWhole
  <2>2. ini'.stage = "msgin" => Vouched(ini.status)'
    BY <1>1, <1>2, <1>3, TransferKeeps
  <2> QED
    BY <1>1, <1>2, <1>3, <1>5, <2>1, <2>2 DEF SameTransfer, StatusRead
<1>7. ASSUME ~icdLate PROVE CommandSent' /\ DataSent'
  <2>1. CommandSent'
    BY <1>1, <1>2, <1>3, <1>7, TransferKeeps
    DEF SameTransfer, BusInv, Writing, CommandSent, Opening
  <2>2. DataSent'
    BY <1>1, <1>2, <1>3, <1>7, TransferKeeps DEF SameTransfer, BusInv, Writing, DataSent
  <2> QED
    BY <2>1, <2>2
<1> QED
  BY <1>1, <1>2, <1>3, <1>4, <1>6, <1>7, TransferKeeps DEF BusInv, Writing, SameTransfer

LEMMA RaiseAckKeeps ==
  ASSUME BusInv, RaiseAck
  PROVE  BusInv'
<1>1. /\ SameTransfer /\ ini'.at = "wane" /\ ini'.mci = ini.mci /\ ini.at = "raise"
      /\ bus'.ack = TRUE /\ bus'.idat = bus.idat /\ bus'.tdat = bus.tdat
      /\ ~Sends => ini'.byte = bus.tdat
  BY DEF RaiseAck, IniStep, BusInv, BusTypeOK, Lines, Initiators, OwnLines, SameTransfer
<1>2. ~bus.ack /\ ini.n < SentLen /\ (Sends => bus.idat = <<ini.op, ini.stage, Index>>)
      /\ ini.at \in Transferring /\ ini'.at \in Handshake
  BY <1>1 DEF BusInv, InitiatorLines, Transferring, Handshake
<1>3. (Doomed \/ (tgt.at = "ack" /\ tgt.ph = ini.stage)) /\ (Doomed \/ ini.mci = ini.stage)
  BY <1>1, <1>2 DEF BusInv, Meeting, Handshake
<1>4. ReadData'
  <2>1. ASSUME ini.stage = "datain", ~Doomed PROVE ini'.byte = <<Op(tgt), "datain", ini.n + 1>>
    <3>1. tgt.at = "ack" /\ tgt.ph = "datain" /\ ~Sends
      BY <1>3, <2>1 DEF Sends
    <3>2. bus.tdat = <<Op(tgt), "datain", Position(tgt) + 1>>
      BY <3>1, SentIs DEF BusInv, TargetLines, Sending
    <3>3. Position(tgt) = ini.n
      BY <1>2, <2>1, <3>1 DEF BusInv, ReadData
    <3> QED
      BY <1>1, <3>1, <3>2, <3>3
  <2> QED
    BY <1>1, <1>2, <1>3, <2>1, TransferKeeps DEF SameTransfer, BusInv, ReadData, Served
<1>5. StatusRead'
  <2>1. ini.stage = "status" => Vouched(bus.tdat) /\ ini'.byte = bus.tdat
    BY <1>1 DEF BusInv, StatusRead, Sends
  <2>2. Vouched(bus.tdat) => Vouched(bus.tdat)'
    BY <1>1, <1>2, <1>3, TransferKeeps DEF SameTransfer, Vouched, ReadWhole
  <2>3. ini.stage = "status" => Vouched(ini.byte)'
    BY <1>1, <2>1, <2>2 DEF Vouched
  <2>4. ini'.stage = "msgin" => Vouched(ini.status)'
    BY <1>1, <1>2, <1>3, TransferKeeps
  <2> QED
    BY <1>1, <1>2, <1>3, <2>3, <2>4 DEF SameTransfer, StatusRead
<1>6. ASSUME ~icdLate PROVE CommandSent' /\ DataSent'
  <2>1. CommandSent'
    BY <1>1, <1>2, <1>3, <1>6, TransferKeeps
    DEF SameTransfer, BusInv, Writing, CommandSent, Opening
  <2>2. DataSent'
    BY <1>1, <1>2, <1>3, <1>6, TransferKeeps DEF SameTransfer, BusInv, Writing, DataSent
  <2> QED
    BY <2>1, <2>2
<1> QED
  BY <1>1, <1>2, <1>3, <1>4, <1>5, <1>6, TransferKeeps DEF BusInv, Writing, SameTransfer

LEMMA RequestOffSeen ==
  ASSUME BusInv, SeeRequestOff
  PROVE  BusInv'
<1>1. /\ SameTransfer /\ ini'.at = "drop" /\ ini'.mci = ini.mci /\ ini.at = "wane" /\ ~bus.req
      /\ ini'.byte = ini.byte /\ bus' = bus
  BY DEF SeeRequestOff, IniStep, BusInv, BusTypeOK, Initiators, OwnLines, SameTransfer
<1>2. bus.ack /\ ini.n < SentLen /\ (Sends => bus.idat = <<ini.op, ini.stage, Index>>)
      /\ ini.at \in Transferring /\ ini'.at \in Handshake /\ tgt.at # "ack"
  BY <1>1 DEF BusInv, InitiatorLines, TargetLines, Transferring, Handshake
<1>3. Doomed \/ ini.mci = ini.stage
  BY <1>1, <1>2 DEF BusInv, Meeting, Handshake
<1>4. ReadData'
  BY <1>1, <1>2, <1>3, TransferKeeps DEF SameTransfer, BusInv, ReadData, Served
<1>5. StatusRead'
  <2>1. Vouched(ini.byte) => Vouched(ini.byte)'
    BY <1>1, <1>2, <1>3, TransferKeeps DEF SameTransfer, Vouched, ReadWhole
  <2>2. ini'.stage = "msgin" => Vouched(ini.status)'
    BY <1>1, <1>2, <1>3, TransferKeeps
  <2> QED
    BY <1>1, <1>2, <1>3, <2>1, <2>2 DEF SameTransfer, BusInv, StatusRead
<1>6. ASSUME ~icdLate PROVE CommandSent' /\ DataSent'
  <2>1. CommandSent'
    BY <1>1, <1>2, <1>3, <1>6, TransferKeeps
    DEF SameTransfer, BusInv, Writing, CommandSent, Opening
  <2>2. DataSent'
    BY <1>1, <1>2, <1>3, <1>6, TransferKeeps DEF SameTransfer, BusInv, Writing, DataSent
  <2> QED
    BY <2>1, <2>2
<1> QED
  BY <1>1, <1>2, <1>3, <1>4, <1>5, <1>6, TransferKeeps DEF BusInv, Writing, SameTransfer

-----------------------------------------------------------------------------
(* The ends of a transfer                                                   *)

(* Between bytes the initiator has what it had, and the byte it has counted. *)
Counting(i) ==
  /\ i \in Initiators /\ i.op = ini.op /\ i.kinds = ini.kinds /\ i.icd = ini.icd /\ i.ask = ini.ask
  /\ i.stage = ini.stage /\ i.mci = ini.mci /\ i.count = ini.count /\ i.status = ini.status
  /\ i.byte = ini.byte
  /\ i.stage \in {"command", "dataout"} => i.data = <<>>
  /\ i.stage = "datain" => Len(i.data) = i.n /\ (Doomed \/ InOrder(i.data, Op(tgt), "datain"))
  /\ i.stage = "msgin" => i.data = ini.data

(* What goes on to the wait for another phase.                              *)
Going(stage, r) == WaitFor(stage, r) /\ bus' = [bus EXCEPT !.ack = FALSE]

LEMMA GoingIs ==
  ASSUME BusInv, ini.at \in {"req", "drop"}, NEW r \in Initiators, NEW stage \in Stages,
         r.op = ini.op, r.kinds = ini.kinds, r.ask = ini.ask, stage # "command",
         UNCHANGED <<tgt, icdLate>>, Going(stage, r)
  PROVE  /\ BusTypeOK' /\ TargetLines' /\ TargetCount' /\ InitiatorLines'
         /\ (Doomed' <=> Doomed) /\ (WrittenWhole => WrittenWhole') /\ Op(tgt)' = Op(tgt)
         /\ icdLate \/ (Taken /\ Ready) => icdLate' \/ (Taken' /\ Ready')
         /\ ini'.at = "wait" /\ ini'.stage = stage /\ ini'.n = 0 /\ ini'.op = ini.op
         /\ ini'.kinds = ini.kinds /\ ini'.count = r.count /\ ini'.data = r.data
         /\ ini'.status = r.status /\ ini'.icd = r.icd
         /\ bus'.ack = FALSE /\ bus'.req = bus.req /\ tgt' = tgt /\ icdLate' = icdLate
         /\ Served /\ Served' /\ ~Opening'
<1>1. /\ ini' \in Initiators /\ ini'.at = "wait" /\ ini'.stage = stage /\ ini'.n = 0 /\ ini'.op = ini.op
      /\ ini'.kinds = ini.kinds /\ ini'.count = r.count /\ ini'.data = r.data /\ ini'.ask = ini.ask
      /\ ini'.status = r.status /\ ini'.icd = r.icd
  BY DEF Going, WaitFor, Initiators
<1>2. OwnLines /\ bus'.ack = FALSE /\ bus'.sel = bus.sel /\ bus'.rst = bus.rst
  BY DEF Going, BusInv, BusTypeOK, Lines, OwnLines
<1>3. SameCommands
  BY <1>1, CommandsKept
<1>4. Served /\ Served' /\ ~Opening' /\ ini'.at \notin Handshake
  BY <1>1 DEF Served, Opening, Transferring, Handshake
<1>5. InitiatorLines'
  BY <1>1, <1>2, <1>4 DEF BusInv, InitiatorLines
<1>6. tgt' = tgt /\ icdLate' = icdLate /\ Op(tgt)' = Op(tgt)
  OBVIOUS
<1> QED
  BY <1>1, <1>2, <1>3, <1>4, <1>5, <1>6, OwnStep DEF OwnLines

LEMMA DataEnds ==
  ASSUME BusInv, ini.at \in {"req", "drop"}, ini.stage \in {"datain", "dataout"}, NEW i, Counting(i),
         Going("status", [i EXCEPT !.count = i.n]), UNCHANGED <<tgt, icdLate>>
  PROVE  BusInv'
<1> DEFINE r == [i EXCEPT !.count = i.n]
<1>1. /\ r \in Initiators /\ r.op = ini.op /\ r.kinds = ini.kinds /\ r.ask = ini.ask
      /\ r.count = i.n /\ r.data = i.data /\ "status" \in Stages
  BY DEF Counting, Initiators, Stages
<1>2. Going("status", r)
  OBVIOUS
<1> HIDE DEF r
<1>3. /\ BusTypeOK' /\ TargetLines' /\ TargetCount' /\ InitiatorLines'
      /\ (Doomed' <=> Doomed) /\ (WrittenWhole => WrittenWhole') /\ Op(tgt)' = Op(tgt)
      /\ icdLate \/ (Taken /\ Ready) => icdLate' \/ (Taken' /\ Ready')
      /\ ini'.at = "wait" /\ ini'.stage = "status" /\ ini'.op = ini.op /\ ini'.kinds = ini.kinds
      /\ ini'.count = i.n /\ ini'.data = i.data /\ bus'.ack = FALSE /\ tgt' = tgt
      /\ Served /\ Served' /\ ~Opening'
  BY <1>1, <1>2, GoingIs
<1>4. ini.at \in Transferring
  BY DEF Transferring, Handshake
<1>5. Meeting'
  BY <1>3 DEF BusInv, Meeting, Transferring, Handshake
<1>6. ReadCount'
  BY <1>3 DEF BusInv, ReadCount, Counting
<1>7. ReadData'
  BY <1>3 DEF ReadData, Transferring, Handshake
<1>8. StatusRead'
  <2>1. Doomed \/ tgt.ph \in {ini.stage, "status"}
    BY <1>4 DEF BusInv, Meeting
  <2>2. ini.stage = "dataout" => i.data = <<>>
    BY DEF Counting
  <2>3. Doomed \/ InOrder(i.data, Op(tgt), "datain")
    BY <2>2 DEF Counting, InOrder
  <2>4. Doomed \/ ReadWhole(Op(tgt))'
    BY <1>3, <2>3 DEF ReadWhole
  <2> QED
    BY <1>3, <2>1, <2>2, <2>4 DEF StatusRead
<1>9. CommandSent' /\ DataSent'
  BY <1>3 DEF CommandSent, DataSent
<1> QED
  BY <1>3, <1>5, <1>6, <1>7, <1>8, <1>9 DEF BusInv, Writing

LEMMA CommandEnds ==
  ASSUME BusInv, ini.at = "drop", ini.stage = "command", NEW i, Counting(i), NEW stage,
         stage = CASE i.kinds[i.op] = "none" -> "status" [] i.kinds[i.op] = "in" -> "datain"
                   [] OTHER -> "dataout",
         Going(stage, i), UNCHANGED <<tgt, icdLate>>
  PROVE  BusInv'
<1>1. /\ i \in Initiators /\ i.op = ini.op /\ i.kinds = ini.kinds /\ i.ask = ini.ask
      /\ i.count = ini.count /\ i.data = <<>> /\ i.icd = ini.icd
      /\ stage \in Stages /\ stage \in {"status", "datain", "dataout"}
  BY DEF Counting, Stages
<1>2. /\ BusTypeOK' /\ TargetLines' /\ TargetCount' /\ InitiatorLines'
      /\ (Doomed' <=> Doomed) /\ (WrittenWhole => WrittenWhole') /\ Op(tgt)' = Op(tgt)
      /\ icdLate \/ (Taken /\ Ready) => icdLate' \/ (Taken' /\ Ready')
      /\ ini'.at = "wait" /\ ini'.stage = stage /\ ini'.n = 0 /\ ini'.op = ini.op /\ ini'.kinds = ini.kinds
      /\ ini'.count = ini.count /\ ini'.data = <<>> /\ bus'.ack = FALSE /\ tgt' = tgt /\ icdLate' = icdLate
      /\ Served /\ Served' /\ ~Opening'
  BY <1>1, GoingIs
<1>3. ini.at \in Transferring /\ ini.op >= 1 /\ ini.op \in Nat
  BY DEF BusInv, BusTypeOK, Initiators, InitiatorLines, Served, Transferring, Handshake
<1>4. Meeting'
  BY <1>1, <1>2, <1>3 DEF BusInv, Meeting, Transferring, Handshake
<1>5. ini.count = 0 /\ 0 # DataLen
  BY <1>2, DataLenType DEF BusInv, ReadCount
<1>6. ReadCount'
  <2>1. ini.kinds[ini.op] \in Kinds
    BY <1>3, LenProperties DEF BusInv, BusTypeOK, Initiators, InitiatorLines
  <2> QED
    BY <1>1, <1>2, <1>5, <2>1 DEF ReadCount, Kinds
<1>7. ReadData'
  <2>1. Position(tgt)' = Position(tgt)
    BY <1>2 DEF Position
  <2> QED
    BY <1>1, <1>2, <2>1 DEF BusInv, ReadData, Transferring, Handshake
<1>8. StatusRead'
  BY <1>1, <1>2, <1>5 DEF StatusRead, ReadWhole
<1>9. ASSUME ~icdLate PROVE CommandSent' /\ DataSent'
  <2>1. CommandSent'
    BY <1>1, <1>2 DEF CommandSent, Transferring, Handshake
  <2>2. ASSUME ~Doomed
        PROVE  /\ tgt.ph = "command" /\ (tgt.cdb # <<>> => Op(tgt) = ini.op) /\ tgt.data = <<>>
               /\ tgt.at = "clear" => tgt.byte[1] = ini.op
    <3>1. tgt.ph = "command" /\ tgt.data = <<>>
      BY <1>3, <1>9, <2>2 DEF BusInv, Meeting, TargetCount
    <3>2. (tgt.cdb # <<>> => Op(tgt) = ini.op) /\ (tgt.at = "clear" => tgt.byte = bus.idat)
      BY <1>3, <1>9, <2>2 DEF BusInv, Writing, CommandSent
    <3>3. bus.idat = <<ini.op, ini.stage, Index>>
      BY DEF BusInv, InitiatorLines, Handshake, Sends
    <3> QED
      BY <3>1, <3>2, <3>3
  <2>3. DataSent'
    BY <1>1, <1>2, <2>2 DEF DataSent, Transferring, Handshake
  <2> QED
    BY <2>1, <2>3
<1> QED
  BY <1>2, <1>4, <1>6, <1>7, <1>8, <1>9 DEF BusInv, Writing

LEMMA StatusEnds ==
  ASSUME BusInv, ini.at = "drop", ini.stage = "status", NEW i, Counting(i), i.data = ini.data,
         Going("msgin", [i EXCEPT !.status = i.byte]), UNCHANGED <<tgt, icdLate>>
  PROVE  BusInv'
<1> DEFINE r == [i EXCEPT !.status = i.byte]
<1>1. /\ r \in Initiators /\ r.op = ini.op /\ r.kinds = ini.kinds /\ r.ask = ini.ask
      /\ r.count = ini.count /\ r.data = ini.data /\ r.status = ini.byte /\ "msgin" \in Stages
  BY DEF Counting, Initiators, Stages
<1>2. Going("msgin", r)
  OBVIOUS
<1> HIDE DEF r
<1>3. /\ BusTypeOK' /\ TargetLines' /\ TargetCount' /\ InitiatorLines'
      /\ (Doomed' <=> Doomed) /\ (WrittenWhole => WrittenWhole') /\ Op(tgt)' = Op(tgt)
      /\ icdLate \/ (Taken /\ Ready) => icdLate' \/ (Taken' /\ Ready')
      /\ ini'.at = "wait" /\ ini'.stage = "msgin" /\ ini'.op = ini.op /\ ini'.kinds = ini.kinds
      /\ ini'.count = ini.count /\ ini'.data = ini.data /\ ini'.status = ini.byte
      /\ bus'.ack = FALSE /\ tgt' = tgt
      /\ Served /\ Served' /\ ~Opening'
  BY <1>1, <1>2, GoingIs
<1>4. ini.at \in Transferring
  BY DEF Transferring, Handshake
<1>5. Meeting'
  BY <1>3, <1>4 DEF BusInv, Meeting, Transferring, Handshake
<1>6. ReadCount'
  BY <1>3 DEF BusInv, ReadCount
<1>7. ReadData'
  BY <1>3 DEF ReadData, Transferring, Handshake
<1>8. StatusRead'
  <2>1. Vouched(ini.byte)
    BY DEF BusInv, StatusRead
  <2>2. Vouched(ini.status)'
    BY <1>3, <2>1 DEF Vouched, ReadWhole
  <2> QED
    BY <1>3, <2>2 DEF StatusRead
<1>9. CommandSent' /\ DataSent'
  BY <1>3 DEF CommandSent, DataSent
<1> QED
  BY <1>3, <1>5, <1>6, <1>7, <1>8, <1>9 DEF BusInv, Writing

LEMMA MessageEnds ==
  ASSUME BusInv, ini.at = "drop", ini.stage = "msgin", NEW i, Counting(i),
         ini' = [i EXCEPT !.at = "result", !.ok = TRUE], bus' = LetGo(bus), UNCHANGED <<tgt, icdLate>>
  PROVE  BusInv'
<1>1. /\ ini' \in Initiators /\ ini'.at = "result" /\ ini'.ok = TRUE /\ ini'.op = ini.op
      /\ ini'.kinds = ini.kinds /\ ini'.stage = "msgin" /\ ini'.count = ini.count
      /\ ini'.data = ini.data /\ ini'.status = ini.status /\ ini'.ask = ini.ask
  BY DEF Counting, Initiators
<1>2. SameCommands /\ OwnLines /\ ~bus'.sel /\ ~bus'.ack /\ ~bus'.rst
  BY <1>1, CommandsKept, LetGoIs DEF OwnLines, BusInv, InitiatorLines
<1>3. /\ BusTypeOK' /\ TargetLines' /\ TargetCount' /\ (Doomed' <=> Doomed)
      /\ (WrittenWhole => WrittenWhole') /\ tgt' = tgt /\ Op(tgt)' = Op(tgt)
      /\ icdLate \/ (Taken /\ Ready) => icdLate' \/ (Taken' /\ Ready')
  BY <1>2, OwnStep
<1>4. /\ ini.at \in Transferring /\ Served /\ Served' /\ ~Opening' /\ ini'.at \notin Transferring
      /\ ini'.at \notin Handshake
  BY <1>1 DEF Served, Opening, Transferring, Handshake
<1>5. InitiatorLines'
  BY <1>1, <1>2, <1>4 DEF BusInv, InitiatorLines
<1>6. Meeting'
  BY <1>1, <1>2, <1>3, <1>4 DEF BusInv, Meeting, Transferring
<1>7. ReadCount' /\ ReadData'
  BY <1>1, <1>3, <1>4 DEF BusInv, ReadCount, ReadData
<1>8. StatusRead'
  <2>1. Vouched(ini.status)
    BY <1>4 DEF BusInv, StatusRead
  <2>2. Vouched(ini.status)'
    BY <1>1, <1>3, <2>1 DEF Vouched, ReadWhole
  <2> QED
    BY <1>1, <2>2 DEF StatusRead
<1>9. CommandSent' /\ DataSent'
  BY <1>1, <1>4 DEF CommandSent, DataSent
<1> QED
  BY <1>3, <1>5, <1>6, <1>7, <1>8, <1>9 DEF BusInv, Writing

(* Transferred: before the last byte, and after it.                         *)
LEMMA CutShort ==
  ASSUME BusInv, ini.at \in {"req", "drop"}, Transferred(ini), UNCHANGED <<tgt, icdLate>>
  PROVE  BusInv'
<1>1. ini \in Initiators /\ ini.n \in Nat /\ ini.n < SentLen /\ ini.stage \in Stages
  BY DEF BusInv, BusTypeOK, InitiatorLines, Initiators, Handshake
<1>2. CASE ini' = [ini EXCEPT !.at = "result", !.ok = FALSE] /\ bus' = LetGo(bus)
  BY <1>1, <1>2, FinishKeeps
<1>3. CASE ini.stage \in {"datain", "dataout"} /\ Going("status", [ini EXCEPT !.count = ini.n])
  <2>1. Counting(ini)
    BY <1>1, <1>3 DEF Counting, BusInv, ReadCount, ReadData, Served, Transferring, Handshake
  <2> QED
    BY <1>3, <2>1, DataEnds
<1>4. \/ ini' = [ini EXCEPT !.at = "result", !.ok = FALSE] /\ bus' = LetGo(bus)
      \/ ini.stage \in {"datain", "dataout"} /\ Going("status", [ini EXCEPT !.count = ini.n])
  <2>1. CASE ini.stage = "command"
    BY <1>1, <2>1 DEF Transferred
  <2>2. CASE ini.stage \in {"datain", "dataout"}
    BY <2>2 DEF Transferred, Going
  <2>3. CASE ini.stage \in {"status", "msgin"}
    <3>1. ini.n # 1
      BY <1>1, <2>3 DEF SentLen
    <3> QED
      BY <2>3, <3>1 DEF Transferred
  <2> QED
    BY <1>1, <2>1, <2>2, <2>3 DEF Stages
<1> QED
  BY <1>2, <1>3, <1>4

LEMMA SeeRequestKeeps ==
  ASSUME BusInv, SeeRequest
  PROVE  BusInv'
BY RequestSeen, CutShort DEF SeeRequest, IniStep

-----------------------------------------------------------------------------
(* A byte is complete                                                       *)

WithByte ==
  [ini EXCEPT !.n = @ + 1, !.data = IF ini.stage = "datain" THEN Append(@, ini.byte) ELSE @]

LEMMA CountedByte ==
  ASSUME BusInv, ini.at = "drop"
  PROVE  /\ Counting(WithByte) /\ WithByte.n = ini.n + 1 /\ ini.n \in Nat /\ ini.n < SentLen
         /\ ini.stage # "datain" => WithByte.data = ini.data
         /\ ini.at \in Transferring /\ Served
<1>1. /\ ini \in Initiators /\ ini.n \in Nat /\ ini.n + 1 \in Nat /\ ini.data \in Seq(Bytes)
      /\ ini.byte \in Bytes
  BY DEF BusInv, BusTypeOK, Initiators
<1>2. /\ Append(ini.data, ini.byte) \in Seq(Bytes)
      /\ Len(Append(ini.data, ini.byte)) = Len(ini.data) + 1
  BY <1>1, AppendProperties
<1>3. ini.at \in Transferring /\ Served /\ ini.n < SentLen
  BY DEF BusInv, InitiatorLines, Served, Transferring, Handshake
<1> DEFINE d == IF ini.stage = "datain" THEN Append(ini.data, ini.byte) ELSE ini.data
<1>4. WithByte = [[ini EXCEPT !.n = ini.n + 1] EXCEPT !.data = d]
  BY <1>1 DEF WithByte, Initiators
<1>5. d \in Seq(Bytes)
  BY <1>1, <1>2
<1>6. ASSUME ini.stage = "datain"
      PROVE  /\ Len(d) = ini.n + 1
             /\ Doomed \/ InOrder(d, Op(tgt), "datain")
  <2>1. Len(ini.data) = ini.n
    BY <1>3, <1>6 DEF BusInv, ReadCount
  <2>2. ASSUME ~Doomed PROVE InOrder(d, Op(tgt), "datain")
    <3>1. InOrder(ini.data, Op(tgt), "datain") /\ ini.byte = <<Op(tgt), "datain", ini.n + 1>>
      BY <1>3, <1>6, <2>2 DEF BusInv, ReadData
    <3> QED
      BY <1>1, <1>6, <2>1, <3>1, AppendInOrder
  <2> QED
    BY <1>2, <1>6, <2>1, <2>2
<1>7. ini.stage # "datain" => d = ini.data
  OBVIOUS
<1> HIDE DEF d
<1>8. /\ WithByte \in Initiators /\ WithByte.n = ini.n + 1 /\ WithByte.data = d
      /\ WithByte.op = ini.op /\ WithByte.kinds = ini.kinds /\ WithByte.icd = ini.icd
      /\ WithByte.ask = ini.ask /\ WithByte.stage = ini.stage /\ WithByte.mci = ini.mci
      /\ WithByte.count = ini.count /\ WithByte.status = ini.status /\ WithByte.byte = ini.byte
  BY <1>1, <1>4, <1>5 DEF Initiators
<1>9. ini.stage \in {"command", "dataout"} => ini.data = <<>>
  BY <1>3 DEF BusInv, ReadCount
<1> QED
  BY <1>1, <1>3, <1>6, <1>7, <1>8, <1>9 DEF Counting

LEMMA NextByteKeeps ==
  ASSUME BusInv, ini.at = "drop", WithByte.n < SentLen, NextByte(WithByte), UNCHANGED <<tgt, icdLate>>
  PROVE  BusInv'
<1>1. /\ OwnLines /\ bus'.sel = bus.sel /\ bus'.rst = bus.rst /\ bus'.ack = FALSE
      /\ ini' \in Initiators /\ ini'.at = "req" /\ ini'.op = ini.op /\ ini'.kinds = ini.kinds
      /\ ini'.icd = ini.icd /\ ini'.ask = ini.ask /\ ini'.stage = ini.stage /\ ini'.mci = ini.mci
      /\ ini'.n = ini.n + 1 /\ ini'.count = ini.count /\ ini'.data = WithByte.data
      /\ Sends => bus'.idat = <<ini.op, ini.stage, IF ini.stage = "command" /\ ini.icd
                                                  THEN ini.n + 1 ELSE ini.n + 1 + 1>>
  BY CountedByte, NextByteIs DEF Counting
<1>2. SameCommands
  BY <1>1, CommandsKept
<1>3. /\ BusTypeOK' /\ TargetLines' /\ TargetCount' /\ (Doomed' <=> Doomed)
      /\ tgt' = tgt /\ icdLate' = icdLate /\ Op(tgt)' = Op(tgt) /\ Position(tgt)' = Position(tgt)
      /\ Accepted' = Accepted
      /\ icdLate \/ (Taken /\ Ready) => icdLate' \/ (Taken' /\ Ready')
  BY <1>1, <1>2, OwnStep DEF Op, Position, Accepted
<1>4. /\ ini.stage \in {"command", "datain", "dataout"} /\ ini.n \in Nat /\ ini.n + 1 < SentLen
      /\ ini.at \in Transferring /\ ini'.at \in Transferring /\ ini'.at \in Handshake /\ ini.at \in Handshake
      /\ Served /\ Served' /\ ~Opening' /\ bus.ack
  <2>1. ini.n \in Nat /\ ini.n + 1 < SentLen /\ ini.stage \in Stages
    BY CountedByte DEF BusInv, BusTypeOK, Initiators
  <2>2. ini.stage \in {"command", "datain", "dataout"}
    BY <2>1 DEF SentLen, Stages
  <2> QED
    BY <1>1, <2>1, <2>2 DEF BusInv, InitiatorLines, Served, Opening, Transferring, Handshake
<1>5. tgt.at = "ack" => icdLate /\ tgt.ph \notin Sending
  BY <1>4 DEF BusInv, Meeting
<1>6. InitiatorLines'
  <2>1. SentLen' = SentLen /\ (Sends' <=> Sends)
    BY <1>1 DEF SentLen, Sends
  <2>2. Index' = IF ini.stage = "command" /\ ini.icd THEN ini.n + 1 ELSE ini.n + 1 + 1
    BY <1>1 DEF Index
  <2> QED
    BY <1>1, <1>4, <2>1, <2>2 DEF BusInv, InitiatorLines
<1>7. Meeting'
  BY <1>1, <1>3, <1>4 DEF BusInv, Meeting
<1>8. ReadCount'
  BY <1>1, <1>4, CountedByte DEF BusInv, ReadCount, Counting
<1>9. ReadData'
  <2>1. ini.stage = "datain" => Doomed \/ InOrder(ini'.data, Op(tgt), "datain")
    BY <1>1, CountedByte DEF Counting
  <2>2. ini.stage = "datain" /\ ~Doomed /\ tgt.ph = "datain" => Position(tgt) = ini.n + 1
    BY <1>4, <1>5 DEF BusInv, ReadData, Sending
  <2> QED
    BY <1>1, <1>3, <1>4, <2>1, <2>2 DEF BusInv, ReadData
<1>10. StatusRead'
  BY <1>1, <1>4 DEF StatusRead
<1>11. ASSUME ~icdLate PROVE CommandSent' /\ DataSent'
  <2>1. ini.stage \in {"command", "dataout"} => bus.idat = <<ini.op, ini.stage, Index>>
    BY <1>4 DEF BusInv, InitiatorLines, Sends
  <2>2. CommandSent'
    <3>1. ASSUME ini.stage = "command", ~Doomed
          PROVE  /\ tgt.cdb # <<>> => Op(tgt) = ini.op
                 /\ tgt.icd <=> ini.icd /\ Accepted > 0
                 /\ tgt.at = "clear" => /\ ini.n = Accepted
                                       /\ tgt.byte = <<ini.op, "command", Index>>
      BY <1>4, <1>11, <2>1, <3>1 DEF BusInv, Writing, CommandSent
    <3>2. ini.stage = "command" => Index = IF ini.icd THEN (ini.n + 1) - 1 ELSE ini.n + 1
      BY <1>4 DEF Index
    <3> QED
      BY <1>1, <1>3, <1>4, <1>5, <1>11, <3>1, <3>2 DEF CommandSent
  <2>3. DataSent'
    BY <1>1, <1>3, <1>4, <1>5, <1>11 DEF BusInv, Writing, DataSent
  <2> QED
    BY <2>2, <2>3
<1> QED
  BY <1>3, <1>6, <1>7, <1>8, <1>9, <1>10, <1>11 DEF BusInv, Writing

LEMMA WholeEnds ==
  ASSUME BusInv, ini.at = "drop", WithByte.n = SentLen, Transferred(WithByte), UNCHANGED <<tgt, icdLate>>
  PROVE  BusInv'
<1> DEFINE i == WithByte
<1>1. Counting(i) /\ i.n = ini.n + 1 /\ ini.n \in Nat /\ i.stage = ini.stage /\ ini.stage \in Stages
      /\ (ini.stage # "datain" => i.data = ini.data)
  BY CountedByte DEF Counting, BusInv, BusTypeOK, Initiators
<1> HIDE DEF i
<1>2. CASE ini.stage = "command"
  <2> DEFINE stage == CASE i.kinds[i.op] = "none" -> "status" [] i.kinds[i.op] = "in" -> "datain"
                        [] OTHER -> "dataout"
  <2>1. Going(stage, i)
    BY <1>1, <1>2 DEF Transferred, Going, i
  <2> QED
    BY <1>1, <1>2, <2>1, CommandEnds
<1>3. CASE ini.stage \in {"datain", "dataout"}
  <2>1. i.n > 0
    BY <1>1
  <2>2. Going("status", [i EXCEPT !.count = i.n])
    BY <1>1, <1>3, <2>1 DEF Transferred, Going, i
  <2> QED
    BY <1>1, <1>3, <2>2, DataEnds
<1>4. CASE ini.stage = "status"
  <2>1. i.n = 1
    BY <1>4 DEF SentLen, i
  <2>2. Going("msgin", [i EXCEPT !.status = i.byte])
    BY <1>1, <1>4, <2>1 DEF Transferred, Going, i
  <2> QED
    BY <1>1, <1>4, <2>2, StatusEnds
<1>5. CASE ini.stage = "msgin"
  <2>1. i.n = 1
    BY <1>5 DEF SentLen, i
  <2>2. ini' = [i EXCEPT !.at = "result", !.ok = TRUE] /\ bus' = LetGo(bus)
    BY <1>1, <1>5, <2>1 DEF Transferred, i
  <2> QED
    BY <1>1, <1>5, <2>2, MessageEnds
<1> QED
  BY <1>1, <1>2, <1>3, <1>4, <1>5 DEF Stages

LEMMA DropAckKeeps ==
  ASSUME BusInv, DropAck
  PROVE  BusInv'
<1> DEFINE i == IF ~ini.good THEN ini ELSE WithByte
<1>1. /\ ini.at = "drop" /\ UNCHANGED <<tgt, icdLate>>
      /\ \/ ini.good /\ i.n < SentLen /\ NextByte(i)
         \/ (~ini.good \/ i.n = SentLen) /\ Transferred(i)
  BY DEF DropAck, IniStep, WithByte
<1>2. CASE ini.good
  <2>1. i = WithByte
    BY <1>2
  <2> HIDE DEF i
  <2> QED
    BY <1>1, <1>2, <2>1, NextByteKeeps, WholeEnds
<1>3. CASE ~ini.good
  <2>1. i = ini
    BY <1>3
  <2> HIDE DEF i
  <2> QED
    BY <1>1, <1>3, <2>1, CutShort
<1> QED
  BY <1>2, <1>3

-----------------------------------------------------------------------------
(* The theorem                                                              *)

LEMMA InvNext == BusInv /\ [BusNext]_busVars => BusInv'
<1> SUFFICES ASSUME BusInv, [BusNext]_busVars PROVE BusInv'
  OBVIOUS
<1>1. CASE TargetStep
  BY <1>1, TargetStepKeeps
<1>2. CASE IniNext
  BY <1>2, LeavingSteps, OpeningSteps, WaitPhaseKeeps, CaptureKeeps, SeeRequestKeeps, RaiseAckKeeps,
     RequestOffSeen, DropAckKeeps
  DEF IniNext
<1>3. CASE UNCHANGED busVars
  <2>1. tgt' = tgt /\ ini' = ini /\ bus' = bus /\ icdLate' = icdLate
    BY <1>3 DEF busVars
  <2>2. BusTypeOK' /\ TargetLines' /\ TargetCount' /\ InitiatorLines'
    BY <2>1 DEF BusInv, BusTypeOK, TargetLines, TargetCount, InitiatorLines, Served, Opening, Sends,
                SentLen, Index
  <2>3. Doomed' <=> Doomed
    BY <2>1 DEF Doomed
  <2>4. Meeting' /\ ReadCount' /\ ReadData' /\ StatusRead'
    BY <2>1, <2>3 DEF BusInv, Meeting, ReadCount, ReadData, StatusRead, Served, Opening, Vouched,
                      ReadWhole, WrittenWhole
  <2>5. Writing'
    BY <2>1, <2>3 DEF BusInv, Writing, Taken, Ready, Prefix, CommandSent, DataSent, Opening, Accepted,
                      WrittenWhole
  <2> QED
    BY <2>2, <2>4, <2>5 DEF BusInv
<1> QED
  BY <1>1, <1>2, <1>3 DEF BusNext

LEMMA AgreeHolds == BusInv => TransfersAgree
<1> SUFFICES ASSUME BusInv PROVE TransfersAgree
  OBVIOUS
<1>1. icdLate \/ \E op \in 0..OpMax : InOrder(tgt.cdb, op, "command") /\ InOrder(tgt.data, op, "dataout")
  <2> SUFFICES ASSUME ~icdLate
               PROVE  \E op \in 0..OpMax : InOrder(tgt.cdb, op, "command") /\ InOrder(tgt.data, op, "dataout")
    OBVIOUS
  <2>1. InOrder(tgt.cdb, Op(tgt), "command") /\ InOrder(tgt.data, Op(tgt), "dataout")
        /\ (tgt.cdb # <<>> => Op(tgt) \in 1..ini.op)
    BY DEF BusInv, Writing, Taken
  <2>2. ini.op \in Nat /\ ini.op <= OpMax
    BY DEF BusInv, BusTypeOK, Initiators, InitiatorLines
  <2>3. tgt.cdb = <<>> => Op(tgt) = 0
    BY DEF Op
  <2>4. Op(tgt) \in 0..OpMax
    BY <2>1, <2>2, <2>3, BusAssumption
  <2> QED
    BY <2>1, <2>4
<1>2. ASSUME ini.at = "result", ini.ok, ini.count \in {0, DataLen}, ini.status = <<ini.op, "GOOD", 0>>
      PROVE  CASE ini.kinds[ini.op] = "in" ->
                    Len(ini.data) = ini.count /\ InOrder(ini.data, ini.op, "datain")
               [] ini.kinds[ini.op] = "out" ->
                    icdLate \/ (Len(tgt.data) = DataLen /\ InOrder(tgt.data, ini.op, "dataout"))
               [] OTHER -> TRUE
  <2>1. ini.op = Op(tgt) /\ ReadWhole(Op(tgt)) /\ WrittenWhole
    BY <1>2 DEF BusInv, StatusRead, Served, Vouched
  <2>2. ini.kinds[ini.op] = "in" => Len(ini.data) = ini.count /\ InOrder(ini.data, ini.op, "datain")
    <3> SUFFICES ASSUME ini.kinds[ini.op] = "in"
                 PROVE  Len(ini.data) = ini.count /\ InOrder(ini.data, ini.op, "datain")
      OBVIOUS
    <3>1. Len(ini.data) = ini.count
      BY <1>2 DEF BusInv, ReadCount, Served
    <3>2. CASE ini.count = DataLen
      BY <2>1, <3>1, <3>2 DEF ReadWhole
    <3>3. CASE ini.count = 0
      <4>1. ini.data \in Seq(Bytes)
        BY DEF BusInv, BusTypeOK, Initiators
      <4>2. ini.data = <<>>
        BY <3>1, <3>3, <4>1, EmptySeq
      <4> QED
        BY <3>1, <4>2 DEF InOrder
    <3> QED
      BY <1>2, <3>2, <3>3
  <2>3. ini.kinds[ini.op] = "out" =>
          icdLate \/ (Len(tgt.data) = DataLen /\ InOrder(tgt.data, ini.op, "dataout"))
    BY <2>1 DEF WrittenWhole, BusInv, Writing, Taken
  <2> QED
    BY <2>2, <2>3
<1> QED
  BY <1>1, <1>2 DEF TransfersAgree

(* Target and initiator agree on what was transferred: the bytes the target *)
(* has accepted are those of one command, in their order, and a good status *)
(* at rasdump vouches for the data of its command (gpiobus.cpp:697, 919).   *)
THEOREM SidesAgree == BusSpec => []TransfersAgree
<1>1. BusInit => BusInv
  BY InvInit
<1>2. BusInv /\ [BusNext]_busVars => BusInv'
  BY InvNext
<1>3. BusInv => TransfersAgree
  BY AgreeHolds
<1> QED
  BY <1>1, <1>2, <1>3, PTL DEF BusSpec
=============================================================================

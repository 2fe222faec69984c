----------------------- MODULE ScsiController_proofs -----------------------
(***************************************************************************)
(* Proofs about ScsiController, for any LUNs, device types, block counts   *)
(* and buffer sizes.                                                       *)
(***************************************************************************)
EXTENDS ScsiController, TLAPS

(* What the arguments of the nested handlers are.                           *)
Args(c, k, s, b) ==
  /\ c \in Controller
  /\ k \in Connection
  /\ s \in [DOMAIN devices -> SenseCodes]
  /\ b \in Lines

(* TypeOK without ATN, which the handlers do not touch.                     *)
TargetTypeOK ==
  /\ ctrl \in Controller
  /\ devices \in DeviceMaps
  /\ sense \in [DOMAIN devices -> SenseCodes]
  /\ bus \in Lines
  /\ running \in BOOLEAN
  /\ conn \in Connection

LEMMA Numbers == 1 \in UInt32 /\ 0 \in UInt32 /\ MaxBlocks \in UInt32
  BY BoundsAssumption DEF UInt32

(* A handler that ends a call of Process with arguments of the right types  *)
(* leaves variables of the right types.                                     *)
LEMMA ContinueType ==
  ASSUME TargetTypeOK, NEW c, NEW k, NEW s, NEW b, Args(c, k, s, b),
         Continue(c, k, s, b)
  PROVE  TargetTypeOK'
  BY DEF TargetTypeOK, Args, Continue

LEMMA NoMessagesType == NoMessages \in MessageBuffer
  BY BoundsAssumption DEF NoMessages, MessageBuffer, None

LEMMA ResetControllerType ==
  ASSUME NEW c \in Controller
  PROVE  ResetController(c) \in Controller
  <1> DEFINE d == [c EXCEPT !.phase = "busfree", !.status = "GOOD",
                             !.blocks = 0, !.next = 0, !.length = 0]
             e == [d EXCEPT !.identified_lun = None, !.atnmsg = FALSE,
                            !.msb = NoMessages]
  <1>1. d \in Controller
    BY Numbers DEF Controller, Phases
  <1>2. ResetController(c) = [e EXCEPT !.is_byte_transfer = FALSE]
    BY DEF ResetController
  <1> HIDE DEF d
  <1>3. e \in Controller
    BY <1>1, NoMessagesType DEF Controller
  <1> HIDE DEF e
  <1>4. [e EXCEPT !.is_byte_transfer = FALSE] \in Controller
    BY <1>3 DEF Controller
  <1>5. QED
    BY <1>2, <1>4

LEMMA ToStatusType ==
  ASSUME NEW c \in Controller, NEW status \in {"GOOD", "CHECK CONDITION"}
  PROVE  ToStatus(c, status) \in Controller
  BY Numbers DEF Controller, ToStatus, Phases

LEMMA DriveType ==
  ASSUME NEW b \in Lines, NEW phase
  PROVE  Drive(b, phase) \in Lines
  BY DEF Lines, Drive

LEMMA IdleType == Idle \in Lines
  BY DEF Idle, Lines

LEMMA ResetSetType ==
  ASSUME NEW k \in Connection
  PROVE  [k EXCEPT !.reset = TRUE] \in Connection
  BY DEF Connection

LEMMA ResetType ==
  ASSUME TargetTypeOK, NEW c, NEW k, NEW s, NEW b, Args(c, k, s, b),
         Reset(c, k, s)
  PROVE  TargetTypeOK'
  <1>1. Args(ResetController(c), [k EXCEPT !.reset = TRUE], s, Idle)
    BY ResetControllerType, ResetSetType, IdleType DEF Args
  <1>2. QED
    BY <1>1, ContinueType DEF Reset

LEMMA BusFreeType ==
  ASSUME TargetTypeOK, NEW c, NEW k, NEW s, NEW b, Args(c, k, s, b),
         BusFree(c, k, s)
  PROVE  TargetTypeOK'
  <1>1. ctrl' \in Controller
    BY DEF Args, BusFree, Controller, Phases, None
  <1>2. QED
    BY <1>1, IdleType DEF Args, BusFree, TargetTypeOK

LEMMA EnterStatusType ==
  ASSUME TargetTypeOK, NEW c, NEW k, NEW s, NEW b, Args(c, k, s, b),
         EnterStatus(c, k, s, b)
  PROVE  TargetTypeOK'
  <1>1. c.status \in {"GOOD", "CHECK CONDITION"}
    BY DEF Args, Controller
  <1>2. Drive(b, "status") \in Lines
    BY DriveType DEF Args
  <1>3. Args(ToStatus(c, c.status), k, s, Drive(b, "status"))
    BY <1>1, <1>2, ToStatusType DEF Args
  <1>4. QED
    BY <1>3, ContinueType DEF EnterStatus

LEMMA EnterDataInType ==
  ASSUME TargetTypeOK, NEW c, NEW k, NEW s, NEW b, Args(c, k, s, b),
         EnterDataIn(c, k, s, b)
  PROVE  TargetTypeOK'
  <1>1. [c EXCEPT !.phase = "datain"] \in Controller
    BY DEF Args, Controller, Phases
  <1>2. Drive(b, "datain") \in Lines
    BY DriveType DEF Args
  <1>3. QED
    BY <1>1, <1>2, ContinueType DEF EnterDataIn, Args

LEMMA EnterDataOutType ==
  ASSUME TargetTypeOK, NEW c, NEW k, NEW s, NEW b, Args(c, k, s, b),
         EnterDataOut(c, k, s, b)
  PROVE  TargetTypeOK'
  <1>1. [c EXCEPT !.phase = "dataout"] \in Controller
    BY DEF Args, Controller, Phases
  <1>2. Drive(b, "dataout") \in Lines
    BY DriveType DEF Args
  <1>3. QED
    BY <1>1, <1>2, ContinueType DEF EnterDataOut, Args

LEMMA EnterMsgInType ==
  ASSUME TargetTypeOK, NEW c, NEW k, NEW s, NEW b, Args(c, k, s, b),
         EnterMsgIn(c, k, s, b)
  PROVE  TargetTypeOK'
  <1>1. [c EXCEPT !.phase = "msgin", !.length = 1, !.blocks = 1] \in Controller
    BY Numbers DEF Args, Controller, Phases
  <1>2. Drive(b, "msgin") \in Lines
    BY DriveType DEF Args
  <1>3. QED
    BY <1>1, <1>2, ContinueType DEF EnterMsgIn, Args

LEMMA SetSenseType ==
  ASSUME NEW c, NEW asc, NEW s \in [DOMAIN devices -> SenseCodes]
  PROVE  SetSense(c, s, asc) \in [DOMAIN devices -> SenseCodes]
  BY DEF SetSense, SenseCodes

LEMMA ErrorType ==
  ASSUME TargetTypeOK, NEW c, NEW k, NEW s, NEW b, Args(c, k, s, b),
         NEW asc, Error(c, k, s, b, asc)
  PROVE  TargetTypeOK'
  <1>1. CASE Reset(c, k, s)
    BY <1>1, ResetType
  <1>2. CASE BusFree(c, k, s)
    BY <1>2, BusFreeType
  <1>3. CASE Continue(ToStatus(c, "CHECK CONDITION"), k, SetSense(c, s, asc),
                      Drive(b, "status"))
    <2>1. Drive(b, "status") \in Lines
      BY DriveType DEF Args
    <2>2. Args(ToStatus(c, "CHECK CONDITION"), k, SetSense(c, s, asc),
               Drive(b, "status"))
      BY <2>1, ToStatusType, SetSenseType DEF Args
    <2>3. QED
      BY <1>3, <2>2, ContinueType
  <1>4. QED
    BY <1>1, <1>2, <1>3 DEF Error

LEMMA FailedType ==
  ASSUME NEW k \in Connection
  PROVE  [k EXCEPT !.failed = TRUE] \in Connection
  BY DEF Connection

LEMMA CutType ==
  ASSUME NEW k \in Connection, NEW phase \in Phases
  PROVE  [k EXCEPT !.cut = @ \cup {phase}] \in Connection
  BY DEF Connection

LEMMA ErrorTwiceType ==
  ASSUME TargetTypeOK, NEW c, NEW k, NEW s, NEW b, Args(c, k, s, b),
         ErrorTwice(c, k, s, b)
  PROVE  TargetTypeOK'
  <1>1. Args(ToStatus(c, "CHECK CONDITION"), k, SetSense(c, s, "OTHER"),
             Drive(b, "status"))
    <2>1. Drive(b, "status") \in Lines
      BY DriveType DEF Args
    <2>2. QED
      BY <2>1, ToStatusType, SetSenseType DEF Args
  <1>2. Args(ResetController(c), [k EXCEPT !.reset = TRUE], s, Idle)
    BY ResetControllerType, ResetSetType, IdleType DEF Args
  <1>3. QED
    BY <1>1, <1>2, ErrorType DEF ErrorTwice

LEMMA EffectiveLunType ==
  ASSUME NEW c \in Controller
  PROVE  GetEffectiveLun(c) \in Luns
  <1>1. c.cmd \in Cdb \cup {NoCdb(l) : l \in Luns}
    BY DEF Controller
  <1>2. c.cmd.lun \in Luns
    <2>1. CASE c.cmd \in Cdb
      BY <2>1 DEF Cdb
    <2>2. CASE \E l \in Luns : c.cmd = NoCdb(l)
      BY <2>2 DEF NoCdb
    <2>3. QED
      BY <1>1, <2>1, <2>2
  <1>3. c.identified_lun \in Luns \cup {None}
    BY DEF Controller
  <1>4. QED
    BY <1>2, <1>3 DEF GetEffectiveLun

LEMMA DispatchType ==
  ASSUME TargetTypeOK, NEW c, NEW k, NEW s, NEW b, Args(c, k, s, b),
         c.cmd \in Cdb, NEW kind, Dispatch(c, k, s, b, kind)
  PROVE  TargetTypeOK'
  <1> DEFINE transfer == [c EXCEPT !.length = 1, !.next = 1,
                                   !.blocks = c.cmd.count]
  <1>1. c \in Controller /\ k \in Connection
    BY DEF Args
  <1>2. transfer \in Controller
    <2>1. c.cmd.count \in UInt32
      BY BoundsAssumption DEF Cdb, UInt32
    <2>2. QED
      BY <1>1, <2>1 DEF Controller
  <1>3. Args(transfer, k, s, b)
    BY <1>2 DEF Args
  <1>4. [transfer EXCEPT !.is_byte_transfer = TRUE] \in Controller
    BY <1>2 DEF Controller
  <1>5. ASSUME NEW mode \in {"STOP_RASCSI", "STOP_PI"}
        PROVE  [c EXCEPT !.shutdown_mode = mode] \in Controller
    BY <1>1 DEF Controller
  <1>6. PICK response \in Responses(kind, c.cmd) :
          \/ Error(c, [k EXCEPT !.failed = TRUE], s, b, "OTHER")
          \/ EnterStatus(c, k, s, b)
          \/ EnterDataIn(transfer, k, s, b)
          \/ EnterDataOut(transfer, k, s, b)
          \/ EnterDataOut([transfer EXCEPT !.is_byte_transfer = TRUE], k, s, b)
          \/ /\ response \in {"STOP_RASCSI", "STOP_PI"}
             /\ EnterStatus([c EXCEPT !.shutdown_mode = response], k, s, b)
          \/ Continue(c, k, s, b)
    BY DEF Dispatch
  <1>7. CASE Error(c, [k EXCEPT !.failed = TRUE], s, b, "OTHER")
    BY <1>1, <1>7, FailedType, ErrorType DEF Args
  <1>8. CASE EnterStatus(c, k, s, b)
    BY <1>8, EnterStatusType
  <1>9. CASE EnterDataIn(transfer, k, s, b)
    BY <1>3, <1>9, EnterDataInType
  <1>10. CASE EnterDataOut(transfer, k, s, b)
    BY <1>3, <1>10, EnterDataOutType
  <1>11. CASE EnterDataOut([transfer EXCEPT !.is_byte_transfer = TRUE], k, s, b)
    BY <1>4, <1>11, EnterDataOutType DEF Args
  <1>12. CASE /\ response \in {"STOP_RASCSI", "STOP_PI"}
              /\ EnterStatus([c EXCEPT !.shutdown_mode = response], k, s, b)
    BY <1>5, <1>12, EnterStatusType DEF Args
  <1>13. CASE Continue(c, k, s, b)
    BY <1>13, ContinueType
  <1>14. QED
    BY <1>6, <1>7, <1>8, <1>9, <1>10, <1>11, <1>12, <1>13

LEMMA ReturnSenseType ==
  ASSUME TargetTypeOK, NEW c, NEW k, NEW s, NEW b, Args(c, k, s, b),
         NEW lun, ReturnSense(c, k, s, b, lun)
  PROVE  TargetTypeOK'
  <1>1. Args(c, [k EXCEPT !.failed = TRUE], s, b)
    BY FailedType DEF Args
  <1>2. Args([c EXCEPT !.length = 1], k, s, b)
    BY DEF Args, Controller
  <1>3. QED
    BY <1>1, <1>2, ErrorType, EnterMsgInType, EnterStatusType, EnterDataInType
    DEF ReturnSense

LEMMA RequestSenseType ==
  ASSUME TargetTypeOK, NEW c, NEW k, NEW s, NEW b, Args(c, k, s, b),
         NEW lun, RequestSense(c, k, s, b, lun)
  PROVE  TargetTypeOK'
  <1>1. Args([ToStatus(c, "GOOD") EXCEPT !.length = 0], k,
             SetSense(c, s, "INVALID LUN"), Drive(b, "status"))
    <2>1. Drive(b, "status") \in Lines
      BY DriveType DEF Args
    <2>2. ToStatus(c, "GOOD") \in Controller
      BY ToStatusType DEF Args
    <2>3. [ToStatus(c, "GOOD") EXCEPT !.length = 0] \in Controller
      BY <2>2 DEF Controller
    <2>4. QED
      BY <2>1, <2>3, SetSenseType DEF Args
  <1>2. Args(ResetController(c), [k EXCEPT !.reset = TRUE], s, Idle)
    BY ResetControllerType, ResetSetType, IdleType DEF Args
  <1>3. QED
    BY <1>1, <1>2, ReturnSenseType DEF RequestSense

LEMMA ExecuteType ==
  ASSUME TargetTypeOK, NEW c0, NEW k0, NEW s, NEW b, Args(c0, k0, s, b),
         NEW cdb \in Cdb, Execute(cdb, c0, k0, s, b)
  PROVE  TargetTypeOK'
  <1> DEFINE c == [c0 EXCEPT !.phase = "execute", !.cmd = cdb, !.blocks = 1,
                             !.length = 0,
                             !.status = IF cdb.op = "sense" THEN @ ELSE "GOOD"]
             k == [k0 EXCEPT !.lun = GetEffectiveLun(c)]
             lun == IF HasDeviceForLun(GetEffectiveLun(c))
                    THEN GetEffectiveLun(c) ELSE 0
             t == [s EXCEPT ![lun] = "NO SENSE"]
  <1>1. c \in Controller /\ c.cmd \in Cdb
    BY Numbers DEF Args, Controller, Phases
  <1>2. k \in Connection
    <2>1. GetEffectiveLun(c) \in Luns
      BY <1>1, EffectiveLunType
    <2> HIDE DEF c
    <2>2. QED
      BY <2>1 DEF Args, Connection
  <1>3. t \in [DOMAIN devices -> SenseCodes]
    <2> HIDE DEF lun
    <2> QED
      BY DEF Args, SenseCodes
  <1>4. Args(c, k, s, b) /\ Args(c, k, t, b)
    <2> HIDE DEF c, k, t
    <2> QED
      BY <1>1, <1>2, <1>3 DEF Args
  <1>5. Args(c, [k EXCEPT !.failed = TRUE], s, b)
    <2> HIDE DEF c, k, t
    <2> QED
      BY <1>1, <1>2, <1>4, FailedType DEF Args
  <1>6. \/ Error(c, [k EXCEPT !.failed = TRUE], s, b, "INVALID LUN")
        \/ RequestSense(c, k, s, b, lun)
        \/ Dispatch(c, k, t, b, devices[lun])
    BY DEF Execute
  <1> HIDE DEF c, k, t, lun
  <1>7. QED
    BY <1>1, <1>4, <1>5, <1>6, ErrorType, RequestSenseType, DispatchType

LEMMA CommandType ==
  ASSUME TargetTypeOK, NEW c0, NEW k, NEW s, NEW b, Args(c0, k, s, b),
         Command(c0, k, s, b)
  PROVE  TargetTypeOK'
  <1> DEFINE c == [c0 EXCEPT !.phase = "command", !.length = 1, !.blocks = 1]
             lines == Drive(b, "command")
  <1>1. Args(c, k, s, lines)
    <2>1. c \in Controller
      BY Numbers DEF Args, Controller, Phases
    <2>2. lines \in Lines
      BY DriveType DEF Args
    <2> HIDE DEF c, lines
    <2>3. QED
      BY <2>1, <2>2 DEF Args
  <1>2. PICK cdb \in Cdb :
          \/ Execute(cdb, c, k, s, lines)
          \/ Error(c, [k EXCEPT !.cut = @ \cup {"command"},
                                !.lun = IF c.identified_lun # None
                                        THEN c.identified_lun ELSE cdb.lun],
                   s, lines, "OTHER")
    BY DEF Command
  <1> HIDE DEF c, lines
  <1>3. CASE Execute(cdb, c, k, s, lines)
    BY <1>1, <1>3, ExecuteType
  <1>4. [k EXCEPT !.cut = @ \cup {"command"},
                  !.lun = IF c.identified_lun # None
                          THEN c.identified_lun ELSE cdb.lun] \in Connection
    <2>1. (IF c.identified_lun # None THEN c.identified_lun ELSE cdb.lun) \in Luns
      BY <1>1 DEF Args, Controller, Cdb
    <2>2. QED
      BY <1>1, <2>1 DEF Args, Connection, Phases
  <1>5. QED
    BY <1>1, <1>2, <1>3, <1>4, ErrorType DEF Args

(***************************************************************************)
(* Type correctness                                                        *)
(***************************************************************************)

LEMMA NewConnectionType ==
  ASSUME NEW moved \in Seq(Nat), NEW lun \in Luns, NEW complete \in BOOLEAN
  PROVE  [lun |-> lun, status |-> "NONE", complete |-> complete,
          moved |-> moved, failed |-> FALSE, lost |-> FALSE, cut |-> {},
          aborted |-> FALSE, reset |-> FALSE] \in Connection
  BY DEF Connection

LEMMA InitType == Init => TypeOK
  <1> SUFFICES ASSUME Init PROVE TypeOK
    OBVIOUS
  <1>1. devices \in DeviceMaps /\ 0 \in Luns
    BY DevicesAssumption DEF Init
  <1>2. ctrl \in Controller
    <2>1. NoCdb(0) \in Cdb \cup {NoCdb(l) : l \in Luns}
      BY <1>1
    <2>2. "busfree" \in Phases
      BY DEF Phases
    <2>3. QED
      BY <2>1, <2>2, Numbers, NoMessagesType DEF Init, Controller
  <1>3. conn \in Connection
    <2>1. << >> \in Seq(Nat)
      OBVIOUS
    <2>2. NoConnection \in Connection
      BY <1>1, <2>1, NewConnectionType DEF NoConnection
    <2>3. QED
      BY <2>2 DEF Init
  <1>4. QED
    BY <1>1, <1>2, <1>3, IdleType DEF Init, TypeOK, SenseCodes

LEMMA HandshakeType ==
  ASSUME TargetTypeOK, NEW k \in Connection, Handshake(k)
  PROVE  TargetTypeOK'
  <1>1. Args([ctrl EXCEPT !.length = 0], k, sense, bus)
    BY DEF TargetTypeOK, Args, Controller
  <1>2. Args(ctrl, [conn EXCEPT !.cut = @ \cup {ctrl.phase}], sense, bus)
    <2>1. ctrl.phase \in Phases
      BY DEF TargetTypeOK, Controller
    <2>2. QED
      BY <2>1, CutType DEF TargetTypeOK, Args
  <1>3. QED
    BY <1>1, <1>2, ContinueType, ErrorType DEF Handshake

LEMMA DecrementType ==
  ASSUME NEW n \in UInt32
  PROVE  Decrement(n) \in UInt32
  BY BoundsAssumption DEF UInt32, Decrement

LEMMA NextType ==
  ASSUME NEW c \in Controller, NEW next \in Nat
  PROVE  [c EXCEPT !.next = next] \in Controller
  BY DEF Controller

LEMMA NextBlockType ==
  ASSUME NEW c \in Controller
  PROVE  /\ c.next + 1 \in Nat
         /\ [c EXCEPT !.next = @ + 1] \in Controller
         /\ NextBlock(c) \in Controller
  <1>1. c.next \in Nat
    BY DEF Controller
  <1>2. c.next + 1 \in Nat
    BY <1>1
  <1>3. [c EXCEPT !.length = 1] \in Controller
    BY DEF Controller
  <1>4. NextBlock(c) = [[c EXCEPT !.length = 1] EXCEPT !.next = c.next + 1]
    BY DEF NextBlock
  <1>5. QED
    BY <1>2, <1>3, <1>4, NextType

LEMMA MovedType ==
  ASSUME NEW k \in Connection, NEW n \in Nat
  PROVE  [k EXCEPT !.moved = Append(@, n)] \in Connection
  <1>1. k.moved \in Seq(Nat)
    BY DEF Connection
  <1>2. Append(k.moved, n) \in Seq(Nat)
    BY <1>1
  <1>3. QED
    BY <1>2 DEF Connection

LEMMA SelectType ==
  ASSUME TypeOK, Select
  PROVE  TypeOK'
  <1>1. ctrl.cmd.lun \in Luns
    <2>1. [ctrl EXCEPT !.identified_lun = None] \in Controller
      BY DEF TypeOK, Controller
    <2>2. GetEffectiveLun([ctrl EXCEPT !.identified_lun = None]) \in Luns
      BY <2>1, EffectiveLunType
    <2>3. QED
      BY <2>2 DEF GetEffectiveLun, TypeOK, Controller
  <1>2. ctrl' \in Controller
    BY <1>1 DEF Select, TypeOK, Controller, Phases
  <1>3. conn' \in Connection
    <2>1. << >> \in Seq(Nat) /\ 0 \in Luns
      BY DevicesAssumption DEF TypeOK
    <2>2. QED
      BY <2>1, NewConnectionType DEF Select
  <1>4. bus' \in Lines
    BY DEF Select, TypeOK, Lines
  <1>5. QED
    BY <1>2, <1>3, <1>4 DEF Select, TypeOK

LEMMA SelectionType ==
  ASSUME TypeOK, Selection
  PROVE  TypeOK'
  <1> DEFINE c == [ctrl EXCEPT !.phase = "msgout", !.atnmsg = TRUE,
                               !.msb = NoMessages, !.length = 1, !.blocks = 1]
  <1>1. TargetTypeOK /\ Args(ctrl, conn, sense, bus)
    BY DEF TypeOK, TargetTypeOK, Args
  <1>2. Args(c, conn, sense, Drive(bus, "msgout"))
    <2>1. c \in Controller
      BY Numbers, NoMessagesType DEF TypeOK, Controller, Phases
    <2>2. Drive(bus, "msgout") \in Lines
      BY DriveType DEF TypeOK
    <2> HIDE DEF c
    <2>3. QED
      BY <1>1, <2>1, <2>2 DEF Args
  <1>3. \/ Continue(c, conn, sense, Drive(bus, "msgout"))
        \/ Command(ctrl, conn, sense, bus)
    BY DEF Selection
  <1> HIDE DEF c
  <1>4. TargetTypeOK'
    BY <1>1, <1>2, <1>3, ContinueType, CommandType
  <1>5. QED
    BY <1>4 DEF TargetTypeOK, TypeOK, Selection

LEMMA XferMsgType ==
  ASSUME TypeOK, NEW m \in Messages
  PROVE  XferMsg(m) \in MessageBuffer
  <1>1. ctrl.msb \in MessageBuffer
    BY DEF TypeOK, Controller
  <1>2. m >= IDENTIFY => m - IDENTIFY \in Luns
    BY DevicesAssumption DEF Messages, IDENTIFY, EXTENDED, ABORT, NOP, DEVICE_RESET
  <1>3. QED
    BY <1>1, <1>2, NoMessagesType, BoundsAssumption DEF XferMsg, MessageBuffer, Stops

LEMMA MsgOutType ==
  ASSUME TypeOK, MsgOut
  PROVE  TypeOK'
  <1>1. TargetTypeOK /\ Args(ctrl, conn, sense, bus)
    BY DEF TypeOK, TargetTypeOK, Args
  <1>2. ASSUME Continue([ctrl EXCEPT !.length = 0], conn, sense, bus)
        PROVE  TargetTypeOK'
    <2>1. Args([ctrl EXCEPT !.length = 0], conn, sense, bus)
      BY <1>1 DEF Args, Controller
    <2>2. QED
      BY <1>1, <1>2, <2>1, ContinueType
  <1>3. ASSUME Error(ctrl, [conn EXCEPT !.cut = @ \cup {"msgout"}], sense,
                     bus, "OTHER")
        PROVE  TargetTypeOK'
    <2>1. Args(ctrl, [conn EXCEPT !.cut = @ \cup {"msgout"}], sense, bus)
      BY <1>1, CutType DEF Args, Phases
    <2>2. QED
      BY <1>1, <1>3, <2>1, ErrorType
  <1>4. ASSUME NEW m \in Messages
        PROVE  XferMsg(m) \in MessageBuffer
    BY XferMsgType
  <1>5. ASSUME NEW m \in Messages, NEW atnmsg \in BOOLEAN
        PROVE  Args([ctrl EXCEPT !.msb = NoMessages,
                                 !.identified_lun = Identified(XferMsg(m)),
                                 !.atnmsg = atnmsg], conn, sense, bus)
    <2>1. Identified(XferMsg(m)) \in Luns \cup {None}
      <3>1. XferMsg(m).lun \in Luns \cup {None}
        BY <1>4 DEF MessageBuffer
      <3>2. QED
        BY <3>1 DEF Identified, TypeOK, Controller
    <2>2. QED
      BY <1>1, <2>1, NoMessagesType DEF Args, Controller
  <1>6. ASSUME NEW m \in Messages
        PROVE  Args([ctrl EXCEPT !.msb = XferMsg(m), !.length = 1,
                                 !.blocks = 1], conn, sense, bus)
    BY <1>1, <1>4, Numbers DEF Args, Controller
  <1>7. ASSUME NEW m \in Messages, MessageReceived(m)
        PROVE  TargetTypeOK'
    <2> DEFINE c == [ctrl EXCEPT !.msb = NoMessages,
                                 !.identified_lun = Identified(XferMsg(m))]
    <2>1. Args(c, conn, sense, bus)
      <3>1. ctrl.atnmsg \in BOOLEAN
        BY DEF TypeOK, Controller
      <3>2. c = [ctrl EXCEPT !.msb = NoMessages,
                             !.identified_lun = Identified(XferMsg(m)),
                             !.atnmsg = ctrl.atnmsg]
        BY DEF TypeOK, Controller
      <3>3. QED
        BY <1>5, <3>1, <3>2
    <2>2. Args([c EXCEPT !.atnmsg = FALSE], conn, sense, bus)
      BY <1>5
    <2>3. Args(c, [conn EXCEPT !.aborted = TRUE], sense, bus)
      BY <2>1 DEF Args, Connection
    <2> HIDE DEF c
    <2>4. \/ Continue([ctrl EXCEPT !.msb = XferMsg(m), !.length = 1,
                                   !.blocks = 1], conn, sense, bus)
          \/ Command([c EXCEPT !.atnmsg = FALSE], conn, sense, bus)
          \/ EnterMsgIn(c, conn, sense, bus)
          \/ BusFree(c, [conn EXCEPT !.aborted = TRUE], sense)
      BY <1>7 DEF c, MessageReceived
    <2>5. QED
      BY <1>1, <1>6, <2>1, <2>2, <2>3, <2>4,
         ContinueType, CommandType, EnterMsgInType, BusFreeType
  <1>8. TargetTypeOK'
    BY <1>2, <1>3, <1>7 DEF MsgOut
  <1>9. atn' \in BOOLEAN
    BY DEF MsgOut, TypeOK
  <1>10. QED
    BY <1>8, <1>9 DEF TargetTypeOK, TypeOK

LEMMA DecrementedType ==
  ASSUME TypeOK
  PROVE  [ctrl EXCEPT !.blocks = Decrement(@)] \in Controller
  <1>1. Decrement(ctrl.blocks) \in UInt32
    BY DecrementType DEF TypeOK, Controller
  <1>2. QED
    BY <1>1 DEF TypeOK, Controller

LEMMA DataInType ==
  ASSUME TypeOK, DataIn
  PROVE  TypeOK'
  <1> DEFINE c == [ctrl EXCEPT !.blocks = Decrement(@)]
             k == [conn EXCEPT
                     !.moved = IF ctrl.cmd.op = "read" /\ ctrl.next > 0
                               THEN Append(@, ctrl.next - 1) ELSE @]
  <1>1. TargetTypeOK /\ Args(c, conn, sense, bus)
    BY DecrementedType DEF TypeOK, TargetTypeOK, Args
  <1>2. k \in Connection
    <2>1. CASE ctrl.cmd.op = "read" /\ ctrl.next > 0
      <3>1. ctrl.next \in Nat
        BY DEF TypeOK, Controller
      <3>2. ctrl.next - 1 \in Nat
        BY <2>1, <3>1
      <3>3. k = [conn EXCEPT !.moved = Append(@, ctrl.next - 1)]
        BY <2>1
      <3>4. QED
        BY <3>2, <3>3, MovedType DEF TypeOK
    <2>2. CASE ~(ctrl.cmd.op = "read" /\ ctrl.next > 0)
      BY <2>2 DEF TypeOK, Connection
    <2>3. QED
      BY <2>1, <2>2
  <1>3. Args(c, [conn EXCEPT !.failed = TRUE], sense, bus)
    BY <1>1, FailedType DEF Args
  <1>4. Args(NextBlock(c), conn, sense, bus)
    BY <1>1, NextBlockType DEF Args
  <1>5. \/ Handshake(k)
        \/ EnterStatus(c, conn, sense, bus)
        \/ Continue(NextBlock(c), conn, sense, bus)
        \/ Error(c, [conn EXCEPT !.failed = TRUE], sense, bus, "OTHER")
    BY DEF DataIn
  <1> HIDE DEF c, k
  <1>6. TargetTypeOK'
    BY <1>1, <1>2, <1>3, <1>4, <1>5,
       HandshakeType, EnterStatusType, ContinueType, ErrorType
  <1>7. QED
    BY <1>6 DEF TargetTypeOK, TypeOK, DataIn

LEMMA XferOutType ==
  ASSUME TargetTypeOK, NEW c \in Controller, XferOut(c)
  PROVE  TargetTypeOK'
  <1> DEFINE written == [conn EXCEPT !.moved = Append(@, c.next - 1)]
             failed == [conn EXCEPT !.failed = TRUE, !.lost = TRUE]
             next == [c EXCEPT !.next = @ + 1]
             kind == devices[GetEffectiveLun(c)]
             writes == kind = "disk" /\ c.cmd.op = "write" /\ c.next > 0
             Proceed(d, k) == IF d.blocks = 0 THEN EnterStatus(d, k, sense, bus)
                                              ELSE Continue(d, k, sense, bus)
  <1>1. ASSUME NEW d \in Controller, NEW k \in Connection, Proceed(d, k)
        PROVE  TargetTypeOK'
    <2>1. Args(d, k, sense, bus)
      BY DEF Args, TargetTypeOK
    <2>2. QED
      BY <1>1, <2>1, EnterStatusType, ContinueType
  <1>2. Args(c, [conn EXCEPT !.failed = TRUE], sense, bus)
    BY FailedType DEF Args, TargetTypeOK
  <1>3. Args(c, failed, sense, bus)
    BY DEF Args, TargetTypeOK, Connection
  <1>4. next \in Controller /\ NextBlock(c) \in Controller
    BY NextBlockType
  <1>5. [c EXCEPT !.blocks = 0] \in Controller
    BY Numbers DEF Controller
  <1>6. CASE Error(c, [conn EXCEPT !.failed = TRUE], sense, bus, "OTHER")
    BY <1>2, <1>6, ErrorType
  <1>7. CASE ErrorTwice(c, failed, sense, bus)
    BY <1>3, <1>7, ErrorTwiceType
  <1>8. CASE writes /\ (\/ Proceed(next, written)
                        \/ Proceed(NextBlock(c), written)
                        \/ Error(next, [written EXCEPT !.failed = TRUE], sense,
                                 bus, "OTHER"))
    <2>1. written \in Connection
      <3>1. c.next \in Nat
        BY DEF Controller
      <3>2. c.next - 1 \in Nat
        BY <1>8, <3>1
      <3>3. QED
        BY <3>2, MovedType DEF TargetTypeOK
    <2> HIDE DEF written, next
    <2>2. Args(next, [written EXCEPT !.failed = TRUE], sense, bus)
      BY <1>4, <2>1, FailedType DEF Args, TargetTypeOK
    <2> HIDE DEF Proceed
    <2>3. QED
      BY <1>1, <1>4, <1>8, <2>1, <2>2, ErrorType
  <1>9. CASE Proceed([c EXCEPT !.blocks = 0], conn) \/ Proceed(c, conn)
    <2>1. conn \in Connection
      BY DEF TargetTypeOK
    <2> HIDE DEF Proceed
    <2>2. QED
      BY <1>1, <1>5, <1>9, <2>1
  <1>10. QED
    BY <1>6, <1>7, <1>8, <1>9 DEF XferOut

LEMMA DataOutType ==
  ASSUME TypeOK, DataOut
  PROVE  TypeOK'
  <1> DEFINE c == [ctrl EXCEPT !.blocks = Decrement(@)]
             d == [ctrl EXCEPT !.is_byte_transfer = FALSE]
  <1>1. TargetTypeOK /\ c \in Controller /\ conn \in Connection
    BY DecrementedType DEF TypeOK, TargetTypeOK
  <1>2. Args(d, conn, sense, bus)
    BY DEF TypeOK, Args, Controller
  <1>3. Args(d, [conn EXCEPT !.failed = TRUE], sense, bus)
    BY <1>2, FailedType DEF Args
  <1>4. \/ Handshake(conn)
        \/ XferOut(c)
        \/ XferBytes(d)
    BY DEF DataOut
  <1> HIDE DEF c, d
  <1>5. CASE XferBytes(d)
    <2>1. TargetTypeOK'
      BY <1>1, <1>2, <1>3, <1>5, EnterStatusType, ErrorType DEF XferBytes
    <2>2. QED
      BY <2>1 DEF TargetTypeOK, TypeOK, DataOut
  <1>6. CASE Handshake(conn) \/ XferOut(c)
    <2>1. TargetTypeOK'
      BY <1>1, <1>6, HandshakeType, XferOutType
    <2>2. QED
      BY <2>1 DEF TargetTypeOK, TypeOK, DataOut
  <1>7. QED
    BY <1>4, <1>5, <1>6

LEMMA StatusType ==
  ASSUME TypeOK, Status
  PROVE  TypeOK'
  <1>1. TargetTypeOK /\ Args(ctrl, conn, sense, bus)
    BY DEF TypeOK, TargetTypeOK, Args
  <1>2. [conn EXCEPT !.status = ctrl.status] \in Connection
    <2>1. ctrl.status \in {"NONE", "GOOD", "CHECK CONDITION"}
      BY DEF TypeOK, Controller
    <2>2. QED
      BY <2>1 DEF TypeOK, Connection
  <1>3. TargetTypeOK'
    BY <1>1, <1>2, HandshakeType, EnterMsgInType DEF Status
  <1>4. QED
    BY <1>3 DEF TargetTypeOK, TypeOK, Status

LEMMA MsgInType ==
  ASSUME TypeOK, MsgIn
  PROVE  TypeOK'
  <1>1. TargetTypeOK /\ Args(ctrl, conn, sense, bus)
    BY DEF TypeOK, TargetTypeOK, Args
  <1>2. [conn EXCEPT !.complete = ~ctrl.atnmsg] \in Connection
    BY DEF TypeOK, Connection
  <1>3. Args([ctrl EXCEPT !.atnmsg = FALSE], conn, sense, bus)
    BY <1>1 DEF Args, Controller
  <1>4. TargetTypeOK'
    BY <1>1, <1>2, <1>3, HandshakeType, CommandType, BusFreeType DEF MsgIn
  <1>5. QED
    BY <1>4 DEF TargetTypeOK, TypeOK, MsgIn

LEMMA ResetSeenType ==
  ASSUME TypeOK, ResetSeen
  PROVE  TypeOK'
  <1>1. TargetTypeOK /\ Args(ctrl, conn, sense, bus)
    BY DEF TypeOK, TargetTypeOK, Args
  <1>2. TargetTypeOK'
    BY <1>1, ResetType DEF ResetSeen
  <1>3. QED
    BY <1>2 DEF TargetTypeOK, TypeOK, ResetSeen

(* Every variable keeps its type: in particular the block count stays a     *)
(* 32 bit number, and the LUN identified is one of the bus's LUNs.          *)
THEOREM TypeCorrect == Spec => []TypeOK
  <1>1. Init => TypeOK
    BY InitType
  <1>2. TypeOK /\ [Next]_vars => TypeOK'
    <2> SUFFICES ASSUME TypeOK, [Next]_vars
                 PROVE  TypeOK'
      OBVIOUS
    <2>1. CASE Select
      BY <2>1, SelectType
    <2>2. CASE Process
      BY <2>2, SelectionType, MsgOutType, DataInType, DataOutType, StatusType,
         MsgInType DEF Process
    <2>3. CASE ResetSeen
      BY <2>3, ResetSeenType
    <2>4. CASE DropAtn
      BY <2>4 DEF DropAtn, TypeOK
    <2>5. CASE UNCHANGED vars
      BY <2>5 DEF vars, TypeOK
    <2>6. QED
      BY <2>1, <2>2, <2>3, <2>4, <2>5 DEF Next
  <1>3. QED
    BY <1>1, <1>2, PTL DEF Spec

(***************************************************************************)
(* The bus lines and the block count                                       *)
(*                                                                         *)
(* The invariant is inductive together with TypeOK. The handlers nest, so  *)
(* the argument goes over their arguments: as long as whoever calls a      *)
(* handler either holds BSY or has noted a reset (Held), every handler     *)
(* leaves the lines of the phase it enters; and only the handlers that     *)
(* enter a data phase need a block count.                                  *)
(***************************************************************************)

BusInv == LinesMatchPhase /\ NoBlockUnderflow

Held(k, b) == b \in Lines /\ (~b.bsy => k.reset)

HasBlocks(c, b) == b.bsy => c.blocks \in 1..MaxBlocks

LEMMA HeldInv ==
  ASSUME TypeOK, BusInv, ctrl.phase # "busfree"
  PROVE  Held(conn, bus)
  BY DEF TypeOK, BusInv, LinesMatchPhase, Held

LEMMA OneBlock == 1 \in 1..MaxBlocks
  BY BoundsAssumption

LEMMA EnterBus ==
  ASSUME NEW c, NEW k, NEW s, NEW b, NEW phase \in InformationPhases,
         Held(k, b), Continue(c, k, s, Drive(b, phase)), c.phase = phase,
         phase # "command" => HasBlocks(c, b)
  PROVE  BusInv'
  <1>1. ctrl' = c /\ conn' = k /\ bus' = Drive(b, phase)
    BY DEF Continue
  <1>2. LinesMatchPhase'
    <2>1. CASE ~b.bsy
      BY <1>1, <2>1 DEF Held, Drive, LinesMatchPhase
    <2>2. CASE b.bsy
      <3>1. /\ bus'.msg <=> phase \in {"msgout", "msgin"}
            /\ bus'.cd <=> phase \in {"command", "status", "msgout", "msgin"}
            /\ bus'.io <=> phase \in {"datain", "status", "msgin"}
            /\ bus'.bsy
        BY <1>1, <2>2 DEF Drive
      <3>2. QED
        BY <1>1, <3>1 DEF LinesMatchPhase, InformationPhases, PhaseTable
    <2>3. QED
      BY <2>1, <2>2
  <1>3. NoBlockUnderflow'
    BY <1>1 DEF Drive, HasBlocks, NoBlockUnderflow, InformationPhases, PhaseTable
  <1>4. QED
    BY <1>2, <1>3 DEF BusInv

LEMMA ResetBus ==
  ASSUME NEW c \in Controller, NEW k, NEW s, Reset(c, k, s)
  PROVE  BusInv'
  <1>1. ctrl'.phase = "busfree" /\ bus' = Idle
    BY DEF Reset, Continue, ResetController, Controller
  <1>2. QED
    BY <1>1 DEF Idle, BusInv, LinesMatchPhase, NoBlockUnderflow

LEMMA BusFreeBus ==
  ASSUME NEW c \in Controller, NEW k, NEW s, BusFree(c, k, s)
  PROVE  BusInv'
  <1>1. ctrl'.phase = "busfree" /\ bus' = Idle
    BY DEF BusFree, Controller
  <1>2. QED
    BY <1>1 DEF Idle, BusInv, LinesMatchPhase, NoBlockUnderflow

LEMMA ToStatusBlocks ==
  ASSUME NEW c \in Controller, NEW status
  PROVE  /\ ToStatus(c, status).phase = "status"
         /\ ToStatus(c, status).blocks = 1
  BY DEF ToStatus, Controller

LEMMA EnterStatusBus ==
  ASSUME NEW c \in Controller, NEW k, NEW s, NEW b, NEW status, Held(k, b),
         Continue(ToStatus(c, status), k, s, Drive(b, "status"))
  PROVE  BusInv'
  <1>1. HasBlocks(ToStatus(c, status), b)
    BY ToStatusBlocks, OneBlock DEF HasBlocks
  <1>2. "status" \in InformationPhases
    BY DEF InformationPhases, PhaseTable
  <1>3. QED
    BY <1>1, <1>2, ToStatusBlocks, EnterBus

LEMMA EnterMsgInBus ==
  ASSUME NEW c \in Controller, NEW k, NEW s, NEW b, Held(k, b),
         EnterMsgIn(c, k, s, b)
  PROVE  BusInv'
  <1> DEFINE d == [c EXCEPT !.phase = "msgin", !.length = 1, !.blocks = 1]
  <1>1. d.phase = "msgin" /\ d.blocks = 1
    BY DEF Controller
  <1>2. Continue(d, k, s, Drive(b, "msgin"))
    BY DEF EnterMsgIn
  <1>3. "msgin" \in InformationPhases
    BY DEF InformationPhases, PhaseTable
  <1> HIDE DEF d
  <1>4. HasBlocks(d, b)
    BY <1>1, OneBlock DEF HasBlocks
  <1>5. QED
    BY <1>1, <1>2, <1>3, <1>4, EnterBus

LEMMA EnterDataBus ==
  ASSUME NEW c \in Controller, NEW k, NEW s, NEW b, Held(k, b), HasBlocks(c, b),
         EnterDataIn(c, k, s, b) \/ EnterDataOut(c, k, s, b)
  PROVE  BusInv'
  <1>1. ASSUME NEW phase \in {"datain", "dataout"},
               Continue([c EXCEPT !.phase = phase], k, s, Drive(b, phase))
        PROVE  BusInv'
    <2> DEFINE d == [c EXCEPT !.phase = phase]
    <2>1. d.phase = phase /\ d.blocks = c.blocks
      BY DEF Controller
    <2>2. phase \in InformationPhases
      BY DEF InformationPhases, PhaseTable
    <2>3. Continue(d, k, s, Drive(b, phase))
      BY <1>1
    <2> HIDE DEF d
    <2>4. HasBlocks(d, b)
      BY <2>1 DEF HasBlocks
    <2>5. QED
      BY <2>1, <2>2, <2>3, <2>4, EnterBus
  <1>2. QED
    BY <1>1 DEF EnterDataIn, EnterDataOut

LEMMA ErrorBus ==
  ASSUME NEW c \in Controller, NEW k, NEW s, NEW b, NEW asc, Held(k, b),
         Error(c, k, s, b, asc)
  PROVE  BusInv'
  BY ResetBus, BusFreeBus, EnterStatusBus DEF Error

LEMMA HeldAfter ==
  ASSUME NEW k \in Connection, NEW b, Held(k, b), NEW phase
  PROVE  /\ Held(k, Drive(b, phase))
         /\ Held([k EXCEPT !.reset = TRUE], Idle)
         /\ Held([k EXCEPT !.failed = TRUE], b)
         /\ Held([k EXCEPT !.cut = @ \cup {phase}], b)
         /\ Held([k EXCEPT !.failed = TRUE, !.lost = TRUE], b)
         /\ Drive(b, phase).bsy = b.bsy
  <1>1. Held(k, Drive(b, phase)) /\ Drive(b, phase).bsy = b.bsy
    BY DriveType DEF Held, Drive, Lines
  <1>2. QED
    BY <1>1, IdleType DEF Held, Connection

LEMMA ErrorTwiceBus ==
  ASSUME NEW c \in Controller, NEW k \in Connection, NEW s, NEW b, Held(k, b),
         ErrorTwice(c, k, s, b)
  PROVE  BusInv'
  <1>1. ToStatus(c, "CHECK CONDITION") \in Controller
    BY ToStatusType
  <1>2. ResetController(c) \in Controller
    BY ResetControllerType
  <1>3. QED
    BY ZenonT(60), <1>1, <1>2, HeldAfter, ErrorBus DEF ErrorTwice

(* A response that enters a data phase has blocks to transfer.              *)
LEMMA ResponseCount ==
  ASSUME NEW kind, NEW cdb \in Cdb, NEW response \in Responses(kind, cdb),
         response \in {"datain", "dataout", "byteout"}
  PROVE  cdb.count \in 1..MaxBlocks
  <1>1. cdb.count \in 0..MaxBlocks
    BY DEF Cdb
  <1>2. cdb.count # 0
    BY DEF Responses
  <1>3. QED
    BY <1>1, <1>2, BoundsAssumption

LEMMA DispatchBus ==
  ASSUME NEW c \in Controller, NEW k \in Connection, NEW s, NEW b, Held(k, b),
         c.phase = "execute", c.cmd \in Cdb,
         NEW kind, Dispatch(c, k, s, b, kind)
  PROVE  BusInv'
  <1> DEFINE t == [c EXCEPT !.length = 1, !.next = 1, !.blocks = c.cmd.count]
             byte == [t EXCEPT !.is_byte_transfer = TRUE]
  <1>1. /\ t \in Controller /\ byte \in Controller
        /\ t.blocks = c.cmd.count /\ byte.blocks = c.cmd.count
    <2>1. c.cmd.count \in UInt32
      BY BoundsAssumption DEF Cdb, UInt32
    <2>2. t \in Controller /\ t.blocks = c.cmd.count
      BY <2>1 DEF Controller
    <2> HIDE DEF t
    <2>3. byte \in Controller /\ byte.blocks = t.blocks
      BY <2>2 DEF Controller
    <2>4. QED
      BY <2>2, <2>3
  <1>2. PICK response \in Responses(kind, c.cmd) :
          \/ Error(c, [k EXCEPT !.failed = TRUE], s, b, "OTHER")
          \/ EnterStatus(c, k, s, b)
          \/ response = "datain" /\ EnterDataIn(t, k, s, b)
          \/ response = "dataout" /\ EnterDataOut(t, k, s, b)
          \/ response = "byteout" /\ EnterDataOut(byte, k, s, b)
          \/ /\ response \in {"STOP_RASCSI", "STOP_PI"}
             /\ EnterStatus([c EXCEPT !.shutdown_mode = response], k, s, b)
          \/ Continue(c, k, s, b)
    BY DEF Dispatch
  <1>3. CASE Error(c, [k EXCEPT !.failed = TRUE], s, b, "OTHER")
    BY <1>3, HeldAfter, ErrorBus
  <1>4. CASE EnterStatus(c, k, s, b)
    BY <1>4, EnterStatusBus DEF EnterStatus
  <1>5. CASE response \in {"STOP_RASCSI", "STOP_PI"}
              /\ EnterStatus([c EXCEPT !.shutdown_mode = response], k, s, b)
    <2>1. [c EXCEPT !.shutdown_mode = response] \in Controller
      BY <1>5 DEF Controller
    <2>2. QED
      BY <1>5, <2>1, EnterStatusBus DEF EnterStatus
  <1>6. CASE response \in {"datain", "dataout", "byteout"}
              /\ (\/ EnterDataIn(t, k, s, b) \/ EnterDataOut(t, k, s, b)
                  \/ EnterDataOut(byte, k, s, b))
    <2>1. HasBlocks(t, b) /\ HasBlocks(byte, b)
      BY <1>1, <1>6, ResponseCount DEF HasBlocks
    <2> HIDE DEF t, byte
    <2>2. QED
      BY <1>1, <1>6, <2>1, EnterDataBus
  <1>7. CASE Continue(c, k, s, b)
    <2>1. ctrl'.phase = "execute" /\ bus' = b /\ conn' = k
      BY <1>7 DEF Continue
    <2>2. QED
      BY <2>1 DEF BusInv, LinesMatchPhase, NoBlockUnderflow, Held,
                  InformationPhases, PhaseTable
  <1> HIDE DEF t, byte
  <1>8. QED
    BY <1>2, <1>3, <1>4, <1>5, <1>6, <1>7

LEMMA ReturnSenseBus ==
  ASSUME NEW c \in Controller, NEW k \in Connection, NEW s, NEW b, Held(k, b),
         HasBlocks(c, b), NEW lun, ReturnSense(c, k, s, b, lun)
  PROVE  BusInv'
  <1>1. [c EXCEPT !.length = 1] \in Controller
    BY DEF Controller
  <1>2. HasBlocks([c EXCEPT !.length = 1], b)
    BY DEF HasBlocks, Controller
  <1>3. CASE Error(c, [k EXCEPT !.failed = TRUE], s, b, "OTHER")
    BY <1>3, HeldAfter, ErrorBus
  <1>4. CASE EnterMsgIn(c, k, s, b)
    BY <1>4, EnterMsgInBus
  <1>5. CASE EnterStatus(c, k, s, b)
    BY <1>5, EnterStatusBus DEF EnterStatus
  <1>6. CASE EnterDataIn([c EXCEPT !.length = 1], k, s, b)
    BY <1>1, <1>2, <1>6, EnterDataBus
  <1>7. QED
    BY <1>3, <1>4, <1>5, <1>6 DEF ReturnSense

LEMMA RequestSenseBus ==
  ASSUME NEW c \in Controller, NEW k \in Connection, NEW s, NEW b, Held(k, b),
         HasBlocks(c, b), NEW lun, RequestSense(c, k, s, b, lun)
  PROVE  BusInv'
  <1> DEFINE d == [ToStatus(c, "GOOD") EXCEPT !.length = 0]
  <1>1. d \in Controller /\ d.blocks = 1
    <2>1. ToStatus(c, "GOOD") \in Controller
      BY ToStatusType
    <2>2. ToStatus(c, "GOOD").blocks = 1
      BY ToStatusBlocks
    <2>3. QED
      BY <2>1, <2>2 DEF Controller
  <1>2. Held(k, Drive(b, "status")) /\ HasBlocks(d, Drive(b, "status"))
    BY <1>1, HeldAfter, OneBlock DEF HasBlocks
  <1>3. ResetController(c) \in Controller /\ [k EXCEPT !.reset = TRUE] \in Connection
    BY ResetControllerType, ResetSetType
  <1>4. Held([k EXCEPT !.reset = TRUE], Idle) /\ HasBlocks(ResetController(c), Idle)
    BY HeldAfter DEF HasBlocks, Idle
  <1>5. \/ ReturnSense(c, k, s, b, lun)
        \/ ReturnSense(d, k, SetSense(c, s, "INVALID LUN"), Drive(b, "status"), 0)
        \/ ReturnSense(ResetController(c), [k EXCEPT !.reset = TRUE], s, Idle, 0)
    BY DEF RequestSense
  <1> HIDE DEF d
  <1>6. QED
    BY <1>1, <1>2, <1>3, <1>4, <1>5, ReturnSenseBus

LEMMA ExecuteBus ==
  ASSUME NEW c0 \in Controller, NEW k0 \in Connection, NEW s, NEW b, Held(k0, b),
         NEW cdb \in Cdb, Execute(cdb, c0, k0, s, b)
  PROVE  BusInv'
  <1> DEFINE c == [c0 EXCEPT !.phase = "execute", !.cmd = cdb, !.blocks = 1,
                             !.length = 0,
                             !.status = IF cdb.op = "sense" THEN @ ELSE "GOOD"]
             k == [k0 EXCEPT !.lun = GetEffectiveLun(c)]
             lun == IF HasDeviceForLun(GetEffectiveLun(c))
                    THEN GetEffectiveLun(c) ELSE 0
             t == [s EXCEPT ![lun] = "NO SENSE"]
  <1>1. c \in Controller /\ c.phase = "execute" /\ c.cmd \in Cdb /\ c.blocks = 1
    BY Numbers DEF Controller, Phases
  <1>2. k \in Connection /\ Held(k, b)
    <2>1. GetEffectiveLun(c) \in Luns
      BY <1>1, EffectiveLunType
    <2> HIDE DEF c
    <2>2. k \in Connection /\ k.reset = k0.reset
      BY <2>1 DEF Connection
    <2>3. QED
      BY <2>2 DEF Held
  <1>3. HasBlocks(c, b)
    BY <1>1, OneBlock DEF HasBlocks
  <1>4. \/ Error(c, [k EXCEPT !.failed = TRUE], s, b, "INVALID LUN")
        \/ RequestSense(c, k, s, b, lun)
        \/ Dispatch(c, k, t, b, devices[lun])
    BY DEF Execute
  <1> HIDE DEF c, k, t, lun
  <1>5. Held([k EXCEPT !.failed = TRUE], b)
    BY <1>2, HeldAfter
  <1>6. QED
    BY <1>1, <1>2, <1>3, <1>4, <1>5, ErrorBus, RequestSenseBus, DispatchBus

LEMMA CommandBus ==
  ASSUME NEW c0 \in Controller, NEW k \in Connection, NEW s, NEW b, Held(k, b),
         Command(c0, k, s, b)
  PROVE  BusInv'
  <1> DEFINE c == [c0 EXCEPT !.phase = "command", !.length = 1, !.blocks = 1]
             lines == Drive(b, "command")
  <1>1. c \in Controller
    BY Numbers DEF Controller, Phases
  <1>2. Held(k, lines)
    BY HeldAfter
  <1>3. PICK cdb \in Cdb :
          \/ Execute(cdb, c, k, s, lines)
          \/ Error(c, [k EXCEPT !.cut = @ \cup {"command"},
                                !.lun = IF c.identified_lun # None
                                        THEN c.identified_lun ELSE cdb.lun],
                   s, lines, "OTHER")
    BY DEF Command
  <1> HIDE DEF c, lines
  <1>4. Held([k EXCEPT !.cut = @ \cup {"command"},
                       !.lun = IF c.identified_lun # None
                               THEN c.identified_lun ELSE cdb.lun], lines)
    BY <1>2 DEF Held, Connection
  <1>5. QED
    BY <1>1, <1>2, <1>3, <1>4, ExecuteBus, ErrorBus

(* A call of Process that stays in its phase leaves the lines alone.        *)
LEMMA StayBus ==
  ASSUME BusInv, NEW c, NEW k, NEW s, Continue(c, k, s, bus),
         c.phase = ctrl.phase, k.reset = conn.reset,
         c.blocks \in 1..MaxBlocks \/ c.blocks = ctrl.blocks
  PROVE  BusInv'
  <1>1. ctrl' = c /\ conn' = k /\ bus' = bus
    BY DEF Continue
  <1>2. QED
    BY <1>1 DEF BusInv, LinesMatchPhase, NoBlockUnderflow

LEMMA HandshakeBus ==
  ASSUME TypeOK, BusInv, ctrl.phase # "busfree",
         NEW k, k.reset = conn.reset, Handshake(k)
  PROVE  BusInv'
  <1>1. CASE Continue([ctrl EXCEPT !.length = 0], k, sense, bus)
    <2>1. /\ [ctrl EXCEPT !.length = 0].phase = ctrl.phase
          /\ [ctrl EXCEPT !.length = 0].blocks = ctrl.blocks
      BY DEF TypeOK, Controller
    <2>2. QED
      BY <1>1, <2>1, StayBus
  <1>2. CASE Error(ctrl, [conn EXCEPT !.cut = @ \cup {ctrl.phase}], sense, bus,
                   "OTHER")
    <2>1. Held([conn EXCEPT !.cut = @ \cup {ctrl.phase}], bus)
      BY HeldInv, HeldAfter DEF TypeOK
    <2>2. QED
      BY <1>2, <2>1, ErrorBus DEF TypeOK
  <1>3. QED
    BY <1>1, <1>2 DEF Handshake

LEMMA SelectionBus ==
  ASSUME TypeOK, BusInv, Selection
  PROVE  BusInv'
  <1> DEFINE c == [ctrl EXCEPT !.phase = "msgout", !.atnmsg = TRUE,
                               !.msb = NoMessages, !.length = 1, !.blocks = 1]
  <1>1. c.phase = "msgout" /\ c.blocks = 1
    BY DEF TypeOK, Controller
  <1>2. Held(conn, bus)
    BY HeldInv DEF Selection
  <1>3. \/ Continue(c, conn, sense, Drive(bus, "msgout"))
        \/ Command(ctrl, conn, sense, bus)
    BY DEF Selection
  <1> HIDE DEF c
  <1>4. HasBlocks(c, bus) /\ "msgout" \in InformationPhases
    BY <1>1, OneBlock DEF HasBlocks, InformationPhases, PhaseTable
  <1>5. QED
    BY <1>1, <1>2, <1>3, <1>4, EnterBus, CommandBus DEF TypeOK

(* The LUN that the messages identify is one that there is.                 *)
LEMMA MessageLun ==
  ASSUME TypeOK, NEW m \in Messages
  PROVE  [ctrl EXCEPT !.msb = NoMessages, !.identified_lun = Identified(XferMsg(m))] \in Controller
  <1>1. ctrl \in Controller /\ ctrl.msb.lun \in Luns \cup {None}
    BY DEF TypeOK, Controller, MessageBuffer
  <1>2. m >= IDENTIFY => m - IDENTIFY \in Luns
    BY DevicesAssumption DEF Messages, IDENTIFY, EXTENDED, ABORT, NOP, DEVICE_RESET
  <1>3. XferMsg(m).lun \in Luns \cup {None}
    BY <1>1, <1>2 DEF XferMsg, NoMessages
  <1>4. Identified(XferMsg(m)) \in Luns \cup {None}
    BY <1>1, <1>3 DEF Identified, Controller
  <1>5. QED
    BY <1>1, <1>4, NoMessagesType DEF Controller

LEMMA MsgOutBus ==
  ASSUME TypeOK, BusInv, MsgOut
  PROVE  BusInv'
  <1>1. Held(conn, bus) /\ ctrl \in Controller /\ conn \in Connection
    BY HeldInv DEF MsgOut, TypeOK
  <1>2. ASSUME Continue([ctrl EXCEPT !.length = 0], conn, sense, bus)
        PROVE  BusInv'
    <2>1. /\ [ctrl EXCEPT !.length = 0].phase = ctrl.phase
          /\ [ctrl EXCEPT !.length = 0].blocks = ctrl.blocks
      BY <1>1 DEF Controller
    <2>2. QED
      BY <1>2, <2>1, StayBus
  <1>3. ASSUME Error(ctrl, [conn EXCEPT !.cut = @ \cup {"msgout"}], sense,
                     bus, "OTHER")
        PROVE  BusInv'
    <2>1. Held([conn EXCEPT !.cut = @ \cup {"msgout"}], bus)
      BY <1>1, HeldAfter
    <2>2. QED
      BY <1>1, <1>3, <2>1, ErrorBus
  <1>4. ASSUME NEW m \in Messages, MessageReceived(m)
        PROVE  BusInv'
    <2> DEFINE stay == [ctrl EXCEPT !.msb = XferMsg(m), !.length = 1, !.blocks = 1]
               c == [ctrl EXCEPT !.msb = NoMessages,
                                 !.identified_lun = Identified(XferMsg(m))]
               d == [c EXCEPT !.atnmsg = FALSE]
    <2>1. stay.phase = ctrl.phase /\ stay.blocks \in 1..MaxBlocks
      BY <1>1, OneBlock DEF Controller
    <2>2. c \in Controller
      BY <1>4, MessageLun
    <2>3. \/ Continue(stay, conn, sense, bus)
          \/ Command(d, conn, sense, bus)
          \/ EnterMsgIn(c, conn, sense, bus)
          \/ BusFree(c, [conn EXCEPT !.aborted = TRUE], sense)
      BY <1>4 DEF MessageReceived
    <2> HIDE DEF c, stay
    <2>4. d \in Controller
      BY <2>2 DEF Controller
    <2> HIDE DEF d
    <2>5. QED
      BY <1>1, <2>1, <2>2, <2>3, <2>4, StayBus, CommandBus, EnterMsgInBus,
         BusFreeBus
  <1>5. QED
    BY <1>2, <1>3, <1>4 DEF MsgOut

(* Decrementing the block count of a transfer on a live bus is subtraction. *)
LEMMA DecrementedBlocks ==
  ASSUME TypeOK, BusInv, ctrl.phase \in {"datain", "dataout"}, bus.bsy,
         Decrement(ctrl.blocks) # 0
  PROVE  Decrement(ctrl.blocks) \in 1..MaxBlocks
  <1>1. ctrl.blocks \in 1..MaxBlocks
    BY DEF BusInv, NoBlockUnderflow, InformationPhases, PhaseTable
  <1>2. QED
    BY <1>1, BoundsAssumption DEF Decrement

(* A step that stays in its phase after a block.                            *)
LEMMA NextBlockBus ==
  ASSUME TypeOK, BusInv, ctrl.phase \in {"datain", "dataout"},
         NEW c, NEW k, NEW s, Continue(c, k, s, bus),
         c.phase = ctrl.phase, k.reset = conn.reset,
         c.blocks = Decrement(ctrl.blocks), c.blocks # 0
  PROVE  BusInv'
  <1>1. ctrl' = c /\ conn' = k /\ bus' = bus
    BY DEF Continue
  <1>2. LinesMatchPhase'
    BY <1>1 DEF BusInv, LinesMatchPhase
  <1>3. NoBlockUnderflow'
    BY <1>1, DecrementedBlocks DEF NoBlockUnderflow
  <1>4. QED
    BY <1>2, <1>3 DEF BusInv

LEMMA DataInBus ==
  ASSUME TypeOK, BusInv, DataIn
  PROVE  BusInv'
  <1> DEFINE c == [ctrl EXCEPT !.blocks = Decrement(@)]
             k == [conn EXCEPT
                     !.moved = IF ctrl.cmd.op = "read" /\ ctrl.next > 0
                               THEN Append(@, ctrl.next - 1) ELSE @]
  <1>1. ctrl.phase = "datain" /\ Held(conn, bus)
    BY HeldInv DEF DataIn
  <1>2. k.reset = conn.reset
    BY DEF TypeOK, Connection
  <1>3. /\ c \in Controller /\ c.phase = ctrl.phase
        /\ c.blocks = Decrement(ctrl.blocks)
    BY DecrementedType DEF TypeOK, Controller
  <1>4. NextBlock(c).phase = c.phase /\ NextBlock(c).blocks = c.blocks
    BY <1>3 DEF NextBlock, Controller
  <1>5. \/ Handshake(k)
        \/ EnterStatus(c, conn, sense, bus)
        \/ c.blocks # 0 /\ Continue(NextBlock(c), conn, sense, bus)
        \/ Error(c, [conn EXCEPT !.failed = TRUE], sense, bus, "OTHER")
    BY DEF DataIn
  <1>6. Held([conn EXCEPT !.failed = TRUE], bus)
    BY <1>1, HeldAfter DEF TypeOK
  <1> HIDE DEF c, k
  <1>7. CASE Handshake(k)
    BY <1>1, <1>2, <1>7, HandshakeBus
  <1>8. CASE EnterStatus(c, conn, sense, bus)
    BY <1>1, <1>3, <1>8, EnterStatusBus DEF EnterStatus
  <1>9. CASE c.blocks # 0 /\ Continue(NextBlock(c), conn, sense, bus)
    BY <1>1, <1>3, <1>4, <1>9, NextBlockBus
  <1>10. CASE Error(c, [conn EXCEPT !.failed = TRUE], sense, bus, "OTHER")
    BY <1>3, <1>6, <1>10, ErrorBus
  <1>11. QED
    BY <1>5, <1>7, <1>8, <1>9, <1>10

LEMMA XferOutBus ==
  ASSUME TypeOK, BusInv, ctrl.phase = "dataout",
         NEW c \in Controller, c.phase = "dataout",
         c.blocks = Decrement(ctrl.blocks), XferOut(c)
  PROVE  BusInv'
  <1> DEFINE written == [conn EXCEPT !.moved = Append(@, c.next - 1)]
             failed == [conn EXCEPT !.failed = TRUE, !.lost = TRUE]
             next == [c EXCEPT !.next = @ + 1]
             done == [c EXCEPT !.blocks = 0]
             Proceed(d, k) == IF d.blocks = 0 THEN EnterStatus(d, k, sense, bus)
                                              ELSE Continue(d, k, sense, bus)
  <1>1. Held(conn, bus) /\ conn \in Connection
    BY HeldInv DEF TypeOK
  <1>2. ASSUME NEW d \in Controller, NEW k, Held(k, bus), k.reset = conn.reset,
               d.phase = "dataout", d.blocks \in {0, c.blocks}, Proceed(d, k)
        PROVE  BusInv'
    <2>1. CASE d.blocks = 0
      BY <1>2, <2>1, EnterStatusBus DEF EnterStatus
    <2>2. CASE d.blocks # 0
      BY <1>2, <2>2, NextBlockBus
    <2>3. QED
      BY <2>1, <2>2
  <1>3. /\ next \in Controller /\ NextBlock(c) \in Controller
        /\ done \in Controller
    BY NextBlockType, Numbers DEF Controller
  <1>4. /\ next.phase = c.phase /\ next.blocks = c.blocks
        /\ NextBlock(c).phase = c.phase /\ NextBlock(c).blocks = c.blocks
        /\ done.phase = c.phase /\ done.blocks = 0
    BY DEF NextBlock, Controller
  <1>5. written.reset = conn.reset /\ [written EXCEPT !.failed = TRUE].reset = conn.reset
    BY <1>1 DEF Connection
  <1>6. Held(written, bus) /\ Held([written EXCEPT !.failed = TRUE], bus)
    BY <1>1, <1>5 DEF Held
  <1>7. Held([conn EXCEPT !.failed = TRUE], bus)
    BY <1>1, HeldAfter
  <1>8. failed \in Connection /\ Held(failed, bus)
    BY <1>1, HeldAfter DEF Connection
  <1>9. \/ Error(c, [conn EXCEPT !.failed = TRUE], sense, bus, "OTHER")
        \/ ErrorTwice(c, failed, sense, bus)
        \/ Proceed(next, written)
        \/ Proceed(NextBlock(c), written)
        \/ Error(next, [written EXCEPT !.failed = TRUE], sense, bus, "OTHER")
        \/ Proceed(done, conn)
        \/ Proceed(c, conn)
    BY DEF XferOut
  <1> HIDE DEF written, failed, next, done, Proceed
  <1>10. CASE \/ Error(c, [conn EXCEPT !.failed = TRUE], sense, bus, "OTHER")
              \/ Error(next, [written EXCEPT !.failed = TRUE], sense, bus, "OTHER")
    BY <1>3, <1>6, <1>7, <1>10, ErrorBus
  <1>11. CASE ErrorTwice(c, failed, sense, bus)
    BY <1>8, <1>11, ErrorTwiceBus
  <1>12. CASE Proceed(next, written) \/ Proceed(NextBlock(c), written)
    BY <1>2, <1>3, <1>4, <1>5, <1>6, <1>12
  <1>13. CASE Proceed(done, conn) \/ Proceed(c, conn)
    BY <1>1, <1>2, <1>3, <1>4, <1>13
  <1>14. QED
    BY <1>9, <1>10, <1>11, <1>12, <1>13

LEMMA DataOutBus ==
  ASSUME TypeOK, BusInv, DataOut
  PROVE  BusInv'
  <1> DEFINE c == [ctrl EXCEPT !.blocks = Decrement(@)]
             d == [ctrl EXCEPT !.is_byte_transfer = FALSE]
  <1>1. ctrl.phase = "dataout" /\ Held(conn, bus)
    BY HeldInv DEF DataOut
  <1>2. /\ c \in Controller /\ c.phase = "dataout"
        /\ c.blocks = Decrement(ctrl.blocks)
    BY <1>1, DecrementedType DEF TypeOK, Controller
  <1>3. d \in Controller
    BY DEF TypeOK, Controller
  <1>4. Held([conn EXCEPT !.failed = TRUE], bus)
    BY <1>1, HeldAfter DEF TypeOK
  <1>5. Handshake(conn) \/ XferOut(c) \/ XferBytes(d)
    BY DEF DataOut
  <1> HIDE DEF c, d
  <1>6. CASE Handshake(conn)
    BY <1>1, <1>6, HandshakeBus
  <1>7. CASE XferOut(c)
    BY <1>1, <1>2, <1>7, XferOutBus
  <1>8. CASE XferBytes(d)
    BY <1>1, <1>3, <1>4, <1>8, EnterStatusBus, ErrorBus DEF XferBytes, EnterStatus
  <1>9. QED
    BY <1>5, <1>6, <1>7, <1>8

LEMMA StatusBus ==
  ASSUME TypeOK, BusInv, Status
  PROVE  BusInv'
  <1>1. ctrl.phase = "status" /\ Held(conn, bus) /\ ctrl \in Controller
    BY HeldInv DEF Status, TypeOK
  <1>2. [conn EXCEPT !.status = ctrl.status].reset = conn.reset
    BY DEF TypeOK, Connection
  <1>3. QED
    BY <1>1, <1>2, HandshakeBus, EnterMsgInBus DEF Status

LEMMA MsgInBus ==
  ASSUME TypeOK, BusInv, MsgIn
  PROVE  BusInv'
  <1>1. ctrl.phase = "msgin" /\ Held(conn, bus) /\ ctrl \in Controller
        /\ conn \in Connection
    BY HeldInv DEF MsgIn, TypeOK
  <1>2. [conn EXCEPT !.complete = ~ctrl.atnmsg].reset = conn.reset
    BY DEF TypeOK, Connection
  <1>3. [ctrl EXCEPT !.atnmsg = FALSE] \in Controller
    BY <1>1 DEF Controller
  <1>4. QED
    BY <1>1, <1>2, <1>3, HandshakeBus, CommandBus, BusFreeBus DEF MsgIn

LEMMA SelectBus ==
  ASSUME TypeOK, BusInv, Select
  PROVE  BusInv'
  <1>1. ctrl'.phase = "selection" /\ bus'.bsy
    BY DEF Select, TypeOK, Controller, Lines
  <1>2. QED
    BY <1>1 DEF BusInv, LinesMatchPhase, NoBlockUnderflow, InformationPhases,
                PhaseTable

LEMMA InitBus == Init => BusInv
  <1> SUFFICES ASSUME Init PROVE BusInv
    OBVIOUS
  <1>1. ctrl.phase = "busfree"
    BY DEF Init
  <1>2. bus = Idle
    BY DEF Init
  <1>3. QED
    BY <1>1, <1>2 DEF Idle, BusInv, LinesMatchPhase, NoBlockUnderflow

(* No path through the nested handlers leaves the lines of another phase on *)
(* the bus or holds BSY in the bus free phase, and while the target holds   *)
(* BSY the block count of a transfer is at least 1 and cannot wrap around.  *)
THEOREM BusCorrect == Spec => [](LinesMatchPhase /\ NoBlockUnderflow)
  <1>1. Init => BusInv
    BY InitBus
  <1>2. TypeOK /\ BusInv /\ [Next]_vars => BusInv'
    <2> SUFFICES ASSUME TypeOK, BusInv, [Next]_vars
                 PROVE  BusInv'
      OBVIOUS
    <2>1. CASE Select
      BY <2>1, SelectBus
    <2>2. CASE Process
      BY <2>2, SelectionBus, MsgOutBus, DataInBus, DataOutBus, StatusBus,
         MsgInBus DEF Process
    <2>3. CASE ResetSeen
      BY <2>3, ResetBus DEF ResetSeen, TypeOK
    <2>4. CASE DropAtn \/ UNCHANGED vars
      BY <2>4 DEF DropAtn, vars, BusInv, LinesMatchPhase, NoBlockUnderflow
    <2>5. QED
      BY <2>1, <2>2, <2>3, <2>4 DEF Next
  <1>3. BusInv => LinesMatchPhase /\ NoBlockUnderflow
    BY DEF BusInv
  <1>4. QED
    BY <1>1, <1>2, <1>3, TypeCorrect, PTL DEF Spec

-----------------------------------------------------------------------------
(* What the initiator is told.                                              *)

(* No device has reported an error and no handshake was cut short, but for  *)
(* those of the messages.                                                   *)
Clean(k) == ~k.failed /\ k.cut \subseteq {"msgout"}

Stale(k) == k.cut \cap {"command", "msgout"} # {}

(* The device that REQUEST SENSE will ask.                                  *)
Asked(k) == IF HasDeviceForLun(k.lun) THEN k.lun ELSE 0

HasSense(k, s) == Stale(k) \/ k.reset \/ s[Asked(k)] # "NO SENSE"

Numbered(n) == [i \in 1..n |-> i - 1]

AllMoved(c, k) == c.cmd.op \in {"read", "write"} => k.moved = Numbered(c.cmd.count)

(* A status that has been sent is the truth.                                *)
Reported(c, k, s) ==
  /\ k.status = "GOOD" => Clean(k) /\ AllMoved(c, k) /\ ~c.atnmsg
  /\ k.status = "CHECK CONDITION" => HasSense(k, s)

(* No command has been received. The only status that the initiator may     *)
(* have been sent then is that for a message out phase that was cut short.  *)
NotBegun(c, k) ==
  /\ Clean(k) /\ ~k.complete /\ k.moved = <<>> /\ ~c.is_byte_transfer
  /\ k.status # "GOOD"
  /\ "CHECK CONDITION" \in {c.status, k.status} => Stale(k)

(* A command is carried out.                                                *)
Working(c, k) ==
  /\ Clean(k) /\ ~k.complete /\ ~c.atnmsg
  /\ k.status # "GOOD"
  /\ "CHECK CONDITION" \in {c.status, k.status} => Stale(k)
  /\ k.reset \/ k.lun = GetEffectiveLun(c)

Reading(c, k) ==
  c.cmd.op = "read" =>
    /\ c.next \in 1..c.cmd.count /\ c.blocks = c.cmd.count - c.next + 1
    /\ k.moved = Numbered(IF c.length = 1 THEN c.next - 1 ELSE c.next)

Writing(c, k) ==
  c.cmd.op = "write" =>
    /\ c.next \in 1..c.cmd.count /\ c.blocks = c.cmd.count - c.next + 1
    /\ k.moved = Numbered(c.next - 1) /\ ~c.is_byte_transfer
    /\ HasDeviceForLun(GetEffectiveLun(c)) /\ devices[GetEffectiveLun(c)] = "disk"

NoStatus(c, k) ==
  c.cmd.op = "sense" /\ c.cmd.count = 0 /\ ~HasDeviceForLun(k.lun)

Excused(k) ==
  k.reset \/ k.aborted \/ k.lost \/ k.cut \cap {"status", "msgin"} # {}

(* The parts of the invariant, by phase.                                    *)
Free(c, k, s) ==
  c.phase = "busfree" =>
    /\ c.status = "GOOD" /\ ~c.atnmsg /\ ~c.is_byte_transfer
    /\ k.complete => Reported(c, k, s)
    /\ Excused(k) \/ (k.complete /\ (k.status # "NONE" \/ NoStatus(c, k) \/ k = NoConnection))

Beginning(c, k) ==
  /\ c.phase = "selection" => c.status = "GOOD" /\ ~c.atnmsg
  /\ c.phase = "msgout" => c.atnmsg
  /\ c.phase = "selection" \/ c.atnmsg => NotBegun(c, k)

Transferring(c, k) ==
  /\ c.phase # "command"
  /\ c.phase \in {"execute", "datain", "dataout"} => Working(c, k)
  /\ c.phase = "datain" => c.cmd.op # "write" /\ Reading(c, k)
  /\ c.phase = "dataout" => c.cmd.op # "read" /\ Writing(c, k)

Ending(c, k, s) ==
  /\ c.phase = "status" =>
       /\ ~k.complete
       /\ c.status = "GOOD" => Clean(k) /\ AllMoved(c, k) /\ ~c.atnmsg
       /\ c.status = "CHECK CONDITION" => HasSense(k, s)
       /\ c.length = 0 => k.status = c.status
  /\ c.phase \in {"status", "msgin"} => Reported(c, k, s)
  /\ c.phase = "msgin" =>
       /\ c.length = 0 => (k.complete <=> ~c.atnmsg)
       /\ c.length = 1 => ~k.complete
       /\ c.atnmsg \/ k.status # "NONE" \/ NoStatus(c, k)

Report(c, k, s) ==
  Free(c, k, s) /\ Beginning(c, k) /\ Transferring(c, k) /\ Ending(c, k, s)

ReportInv == Report(ctrl, conn, sense)

LEMMA StepReport ==
  ASSUME NEW c, NEW k, NEW s, Report(c, k, s),
         ctrl' = c, conn' = k, sense' = s, devices' = devices
  PROVE  ReportInv'
<1>1. /\ Clean(conn)' <=> Clean(k)
      /\ Excused(conn)' <=> Excused(k)
      /\ Stale(conn)' <=> Stale(k)
      /\ NotBegun(ctrl, conn)' <=> NotBegun(c, k)
  BY DEF Clean, Excused, Stale, NotBegun
<1>2. /\ \A l : HasDeviceForLun(l)' <=> HasDeviceForLun(l)
      /\ AllMoved(ctrl, conn)' <=> AllMoved(c, k)
      /\ GetEffectiveLun(ctrl)' = GetEffectiveLun(c)
  BY DEF HasDeviceForLun, AllMoved, GetEffectiveLun
<1>3. /\ HasSense(conn, sense)' <=> HasSense(k, s)
      /\ NoStatus(ctrl, conn)' <=> NoStatus(c, k)
  BY <1>1, <1>2 DEF HasSense, Asked, NoStatus
<1>4. /\ Reported(ctrl, conn, sense)' <=> Reported(c, k, s)
      /\ Working(ctrl, conn)' <=> Working(c, k)
      /\ Reading(ctrl, conn)' <=> Reading(c, k)
      /\ Writing(ctrl, conn)' <=> Writing(c, k)
  BY <1>1, <1>2, <1>3 DEF Reported, Working, Reading, Writing
<1>5. Free(ctrl, conn, sense)'
  BY <1>1, <1>3, <1>4 DEF Report, Free
<1>6. Beginning(ctrl, conn)'
  BY <1>1 DEF Report, Beginning
<1>7. Transferring(ctrl, conn)'
  BY <1>4 DEF Report, Transferring
<1>8. Ending(ctrl, conn, sense)'
  BY <1>1, <1>2, <1>3, <1>4 DEF Report, Ending
<1> QED
  BY <1>5, <1>6, <1>7, <1>8 DEF ReportInv, Report

LEMMA ResetReport ==
  ASSUME NEW c \in Controller, NEW k \in Connection, NEW s, Reset(c, k, s),
         k.complete /\ k.status = "GOOD" => Clean(k) /\ AllMoved(c, k)
  PROVE  ReportInv'
<1> DEFINE d == ResetController(c)
           j == [k EXCEPT !.reset = TRUE]
<1>1. /\ d.phase = "busfree" /\ d.status = "GOOD" /\ ~d.atnmsg /\ ~d.is_byte_transfer
      /\ d.cmd = c.cmd
  BY DEF ResetController, Controller
<1>2. /\ j.reset /\ j.complete = k.complete /\ j.status = k.status /\ j.cut = k.cut
      /\ j.failed = k.failed /\ j.moved = k.moved
  BY DEF Connection
<1>3. ctrl' = d /\ conn' = j /\ sense' = s /\ devices' = devices
  BY DEF Reset, Continue
<1> HIDE DEF d, j
<1>4. j.complete => Reported(d, j, s)
  BY <1>1, <1>2 DEF Reported, HasSense, Clean, AllMoved
<1>5. Report(d, j, s)
  BY <1>1, <1>2, <1>4 DEF Report, Free, Beginning, Transferring, Ending, Excused
<1> QED
  BY <1>3, <1>5, StepReport

LEMMA BusFreeReport ==
  ASSUME NEW c \in Controller, NEW k \in Connection, NEW s, BusFree(c, k, s),
         k.complete => Reported(c, k, s),
         Excused(k) \/ (k.complete /\ (k.status # "NONE" \/ NoStatus(c, k)))
  PROVE  ReportInv'
<1> DEFINE d == [c EXCEPT !.phase = "busfree", !.status = "GOOD", !.atnmsg = FALSE,
                          !.identified_lun = None, !.is_byte_transfer = FALSE]
<1>1. /\ d.phase = "busfree" /\ d.status = "GOOD" /\ ~d.atnmsg /\ ~d.is_byte_transfer
      /\ d.cmd = c.cmd
  BY DEF Controller
<1>2. ctrl' = d /\ conn' = k /\ sense' = s /\ devices' = devices
  BY DEF BusFree
<1> HIDE DEF d
<1>3. k.complete => Reported(d, k, s)
  BY <1>1 DEF Reported, AllMoved
<1>4. Report(d, k, s)
  BY <1>1, <1>3 DEF Report, Free, Beginning, Transferring, Ending, NoStatus
<1> QED
  BY <1>2, <1>4, StepReport

LEMMA StatusLength ==
  ASSUME NEW c \in Controller, NEW status
  PROVE  ToStatus(c, status).length # 0
<1>1. ToStatus(c, status).length = 1
  BY DEF ToStatus, Controller
<1> QED
  BY <1>1

(* CHECK CONDITION is going to be sent.                                     *)
LEMMA CheckReport ==
  ASSUME NEW c \in Controller, NEW k \in Connection, NEW s, NEW b,
         Continue(ToStatus(c, "CHECK CONDITION"), k, s, b),
         HasSense(k, s), ~k.complete, k.status # "GOOD",
         c.atnmsg => NotBegun(c, k) /\ Stale(k)
  PROVE  ReportInv'
<1> DEFINE d == ToStatus(c, "CHECK CONDITION")
<1>1. /\ d.phase = "status" /\ d.status = "CHECK CONDITION" /\ d.atnmsg = c.atnmsg
      /\ d.is_byte_transfer = c.is_byte_transfer
  BY DEF ToStatus, Controller
<1>2. d.length = 1
  BY DEF ToStatus, Controller
<1>3. d.length # 0 /\ d.status # "GOOD"
  BY StatusLength, <1>1
<1>4. ctrl' = d /\ conn' = k /\ sense' = s /\ devices' = devices
  BY DEF Continue
<1> HIDE DEF d
<1>5. d.atnmsg => NotBegun(d, k)
  BY <1>1 DEF NotBegun
<1>6. Reported(d, k, s)
  BY DEF Reported
<1>7. Ending(d, k, s)
  BY <1>1, <1>3, <1>6 DEF Ending
<1>8. Free(d, k, s) /\ Beginning(d, k) /\ Transferring(d, k)
  BY <1>1, <1>5 DEF Free, Beginning, Transferring
<1> QED
  BY <1>4, <1>7, <1>8, StepReport DEF Report

(* An error before the status is sent, of the device that is addressed.     *)
LEMMA ErrorReport ==
  ASSUME devices \in DeviceMaps, NEW c \in Controller, NEW k \in Connection,
         NEW s \in [DOMAIN devices -> SenseCodes], NEW b, NEW asc, Error(c, k, s, b, asc),
         c.phase \notin {"status", "msgin"},
         ~k.complete, k.status # "GOOD", c.atnmsg => NotBegun(c, k) /\ Stale(k),
         \/ k.reset \/ Stale(k)
         \/ k.lun = GetEffectiveLun(c) /\ (asc = "INVALID LUN" => ~HasDeviceForLun(k.lun))
  PROVE  ReportInv'
<1>1. CASE Reset(c, k, s)
  BY <1>1, ResetReport
<1>2. CASE Continue(ToStatus(c, "CHECK CONDITION"), k, SetSense(c, s, asc), Drive(b, "status"))
  <2>1. 0 \in DOMAIN devices
    BY DevicesAssumption
  <2>2. k.reset \/ Stale(k) \/ Asked(k) = ErrorLun(c, asc)
    BY DEF Asked, ErrorLun
  <2>3. ErrorLun(c, asc) \in DOMAIN devices
    BY <2>1 DEF ErrorLun, HasDeviceForLun
  <2>4. SetSense(c, s, asc)[ErrorLun(c, asc)] = "SENSE DATA"
    BY <2>3 DEF SetSense
  <2>5. HasSense(k, SetSense(c, s, asc))
    BY <2>2, <2>4 DEF HasSense
  <2> QED
    BY <1>2, <2>5, CheckReport
<1> QED
  BY <1>1, <1>2 DEF Error

(* An error while the status or the message is sent.                        *)
LEMMA ErrorEndingReport ==
  ASSUME NEW c \in Controller, NEW k \in Connection, NEW s, NEW b, NEW asc,
         Error(c, k, s, b, asc), c.phase \in {"status", "msgin"}, ~k.complete, Excused(k)
  PROVE  ReportInv'
  BY ResetReport, BusFreeReport DEF Error

LEMMA ErrorTwiceReport ==
  ASSUME devices \in DeviceMaps, NEW c \in Controller, NEW k \in Connection,
         NEW s \in [DOMAIN devices -> SenseCodes], NEW b, ErrorTwice(c, k, s, b),
         k.lost, ~k.complete, k.status # "GOOD"
  PROVE  ReportInv'
<1>1. CASE Error(ToStatus(c, "CHECK CONDITION"), k, SetSense(c, s, "OTHER"), Drive(b, "status"),
                 "OTHER")
  <2>1. ToStatus(c, "CHECK CONDITION") \in Controller
    BY ToStatusType
  <2>2. ToStatus(c, "CHECK CONDITION").phase = "status"
    BY ToStatusBlocks
  <2> QED
    BY <1>1, <2>1, <2>2, ErrorEndingReport DEF Excused
<1>2. CASE Error(ResetController(c), [k EXCEPT !.reset = TRUE], s, Idle, "OTHER")
  <2> DEFINE d == ResetController(c)
             j == [k EXCEPT !.reset = TRUE]
  <2>1. d \in Controller /\ j \in Connection
    BY ResetControllerType, ResetSetType
  <2>2. d.phase = "busfree" /\ ~d.atnmsg
    BY DEF ResetController, Controller
  <2>3. j.reset /\ j.complete = k.complete /\ j.status = k.status
    BY DEF Connection
  <2> HIDE DEF d, j
  <2> QED
    BY <1>2, <2>1, <2>2, <2>3, ErrorReport DEF d, j
<1> QED
  BY <1>1, <1>2 DEF ErrorTwice

(* The status of a command is going to be sent.                             *)
LEMMA EnterStatusReport ==
  ASSUME NEW c \in Controller, NEW k \in Connection, NEW s, NEW b, EnterStatus(c, k, s, b),
         Working(c, k), AllMoved(c, k)
  PROVE  ReportInv'
<1> DEFINE d == ToStatus(c, c.status)
<1>1. /\ d.phase = "status" /\ d.status = c.status /\ d.atnmsg = c.atnmsg /\ d.cmd = c.cmd
  BY DEF ToStatus, Controller
<1>2. d.length = 1
  BY DEF ToStatus, Controller
<1>3. d.length # 0
  BY <1>2
<1>4. ctrl' = d /\ conn' = k /\ sense' = s /\ devices' = devices
  BY DEF EnterStatus, Continue
<1> HIDE DEF d
<1>5. Clean(k) /\ AllMoved(d, k) /\ ~d.atnmsg /\ ~k.complete
  BY <1>1 DEF Working, AllMoved
<1>6. "CHECK CONDITION" \in {d.status, k.status} => HasSense(k, s)
  BY <1>1 DEF Working, HasSense
<1>7. Reported(d, k, s)
  BY <1>6 DEF Reported, Working
<1>8. Ending(d, k, s)
  BY <1>1, <1>3, <1>5, <1>6, <1>7 DEF Ending
<1>9. Free(d, k, s) /\ Beginning(d, k) /\ Transferring(d, k)
  BY <1>1, <1>5 DEF Free, Beginning, Transferring
<1> QED
  BY <1>4, <1>8, <1>9, StepReport DEF Report

(* A message is going to be sent.                                           *)
LEMMA EnterMsgInReport ==
  ASSUME NEW c \in Controller, NEW k \in Connection, NEW s, NEW b, EnterMsgIn(c, k, s, b),
         ~k.complete, Reported(c, k, s), c.atnmsg => NotBegun(c, k),
         c.atnmsg \/ k.status # "NONE" \/ NoStatus(c, k)
  PROVE  ReportInv'
<1> DEFINE d == [c EXCEPT !.phase = "msgin", !.length = 1, !.blocks = 1]
<1>1. /\ d.phase = "msgin" /\ d.status = c.status /\ d.atnmsg = c.atnmsg /\ d.cmd = c.cmd
      /\ d.is_byte_transfer = c.is_byte_transfer
  BY DEF Controller
<1>2. d.length = 1
  BY DEF Controller
<1>3. d.length # 0
  BY <1>2
<1>4. ctrl' = d /\ conn' = k /\ sense' = s /\ devices' = devices
  BY DEF EnterMsgIn, Continue
<1> HIDE DEF d
<1>5. Reported(d, k, s)
  BY <1>1 DEF Reported, AllMoved
<1>6. d.atnmsg => NotBegun(d, k)
  BY <1>1 DEF NotBegun
<1>7. d.atnmsg \/ k.status # "NONE" \/ NoStatus(d, k)
  BY <1>1 DEF NoStatus
<1>8. Ending(d, k, s)
  BY <1>1, <1>3, <1>5, <1>7 DEF Ending
<1>9. Free(d, k, s) /\ Beginning(d, k) /\ Transferring(d, k)
  BY <1>1, <1>6 DEF Free, Beginning, Transferring
<1> QED
  BY <1>4, <1>8, <1>9, StepReport DEF Report

(* Data are going to be sent or received.                                   *)
LEMMA WorkingReport ==
  ASSUME NEW c, NEW k, NEW s, NEW b, Continue(c, k, s, b), Working(c, k),
         \/ c.phase = "execute"
         \/ c.phase = "datain" /\ c.cmd.op # "write" /\ Reading(c, k)
         \/ c.phase = "dataout" /\ c.cmd.op # "read" /\ Writing(c, k)
  PROVE  ReportInv'
<1>1. ctrl' = c /\ conn' = k /\ sense' = s /\ devices' = devices
  BY DEF Continue
<1>2. ~c.atnmsg
  BY DEF Working
<1>3. Free(c, k, s) /\ Beginning(c, k) /\ Transferring(c, k) /\ Ending(c, k, s)
  BY <1>2 DEF Free, Beginning, Transferring, Ending
<1> QED
  BY <1>1, <1>3, StepReport DEF Report

LEMMA EnterPhaseReport ==
  ASSUME NEW c \in Controller, NEW k \in Connection, NEW s, NEW b,
         NEW phase \in {"datain", "dataout"}, Continue([c EXCEPT !.phase = phase], k, s, b),
         Working(c, k),
         phase = "datain" => c.cmd.op # "write" /\ Reading(c, k),
         phase = "dataout" => c.cmd.op # "read" /\ Writing(c, k)
  PROVE  ReportInv'
<1> DEFINE d == [c EXCEPT !.phase = phase]
<1>1. /\ d.phase = phase /\ d.status = c.status /\ d.cmd = c.cmd /\ d.atnmsg = c.atnmsg
      /\ d.next = c.next /\ d.blocks = c.blocks /\ d.length = c.length
      /\ d.is_byte_transfer = c.is_byte_transfer /\ d.identified_lun = c.identified_lun
  BY DEF Controller
<1>2. Continue(d, k, s, b)
  OBVIOUS
<1> HIDE DEF d
<1>3. GetEffectiveLun(d) = GetEffectiveLun(c)
  BY <1>1 DEF GetEffectiveLun
<1>4. Working(d, k)
  BY <1>1, <1>3 DEF Working
<1>5. phase = "datain" => Reading(d, k)
  BY <1>1 DEF Reading
<1>6. phase = "dataout" => Writing(d, k)
  BY <1>1, <1>3 DEF Writing
<1> QED
  BY <1>1, <1>2, <1>4, <1>5, <1>6, WorkingReport

LEMMA EnterDataReport ==
  ASSUME NEW c \in Controller, NEW k \in Connection, NEW s, NEW b, Working(c, k),
         \/ EnterDataIn(c, k, s, b) /\ c.cmd.op # "write" /\ Reading(c, k)
         \/ EnterDataOut(c, k, s, b) /\ c.cmd.op # "read" /\ Writing(c, k)
  PROVE  ReportInv'
  BY EnterPhaseReport DEF EnterDataIn, EnterDataOut

(* A device reports an error.                                               *)
LEMMA FailureReport ==
  ASSUME devices \in DeviceMaps, NEW c \in Controller, NEW k \in Connection,
         NEW s \in [DOMAIN devices -> SenseCodes], NEW b, NEW asc \in {"OTHER", "INVALID LUN"},
         Error(c, [k EXCEPT !.failed = TRUE], s, b, asc),
         c.phase \notin {"status", "msgin"}, Working(c, k),
         asc = "INVALID LUN" => ~HasDeviceForLun(GetEffectiveLun(c))
  PROVE  ReportInv'
<1> DEFINE j == [k EXCEPT !.failed = TRUE]
<1>1. /\ j \in Connection /\ j.complete = k.complete /\ j.status = k.status
      /\ j.reset = k.reset /\ j.lun = k.lun
  BY DEF Connection
<1>2. Error(c, j, s, b, asc)
  OBVIOUS
<1> HIDE DEF j
<1>3. ~j.complete /\ j.status # "GOOD" /\ ~c.atnmsg /\ (j.reset \/ j.lun = GetEffectiveLun(c))
  BY <1>1 DEF Working
<1> QED
  BY <1>1, <1>2, <1>3, ErrorReport

LEMMA NoneMoved == <<>> = Numbered(0)
  BY DEF Numbered

(* What devices respond to READ, WRITE and VERIFY(16).                      *)
LEMMA ResponseKinds ==
  ASSUME NEW kind, NEW cdb \in Cdb, NEW response \in Responses(kind, cdb)
  PROVE  /\ response = "datain" => cdb.op # "write"
         /\ response = "dataout" => cdb.op # "read" /\ (cdb.op = "write" => kind = "disk")
         /\ response = "byteout" => cdb.op \notin {"read", "write"}
         /\ response = "status" /\ cdb.op \in {"read", "write"} => cdb.count = 0
         /\ response \in {"STOP_RASCSI", "STOP_PI"} => cdb.op \notin {"read", "write"}
  BY DEF Responses

LEMMA DispatchReport ==
  ASSUME devices \in DeviceMaps, NEW c \in Controller, NEW k \in Connection,
         NEW s \in [DOMAIN devices -> SenseCodes], NEW b, NEW kind, Dispatch(c, k, s, b, kind),
         c.phase = "execute", c.cmd \in Cdb, Working(c, k), k.moved = <<>>,
         ~c.is_byte_transfer,
         c.cmd.op # "inquiry" =>
           HasDeviceForLun(GetEffectiveLun(c)) /\ kind = devices[GetEffectiveLun(c)]
  PROVE  ReportInv'
<1> DEFINE t == [c EXCEPT !.length = 1, !.next = 1, !.blocks = c.cmd.count]
           byte == [t EXCEPT !.is_byte_transfer = TRUE]
<1>1. /\ t \in Controller /\ t.phase = c.phase /\ t.status = c.status /\ t.cmd = c.cmd
      /\ t.atnmsg = c.atnmsg /\ t.identified_lun = c.identified_lun
      /\ t.is_byte_transfer = c.is_byte_transfer
  <2>1. c.cmd.count \in UInt32
    BY BoundsAssumption DEF Cdb, UInt32
  <2> QED
    BY <2>1 DEF Controller
<1>2. t.length = 1 /\ t.next = 1 /\ t.blocks = c.cmd.count
  BY DEF Controller
<1>3. PICK response \in Responses(kind, c.cmd) :
        \/ Error(c, [k EXCEPT !.failed = TRUE], s, b, "OTHER")
        \/ response = "status" /\ EnterStatus(c, k, s, b)
        \/ response = "datain" /\ EnterDataIn(t, k, s, b)
        \/ response = "dataout" /\ EnterDataOut(t, k, s, b)
        \/ response = "byteout" /\ EnterDataOut(byte, k, s, b)
        \/ /\ response \in {"STOP_RASCSI", "STOP_PI"}
           /\ EnterStatus([c EXCEPT !.shutdown_mode = response], k, s, b)
        \/ Continue(c, k, s, b)
  BY DEF Dispatch
<1> HIDE DEF t
<1>4. /\ byte \in Controller /\ byte.phase = t.phase /\ byte.status = t.status
      /\ byte.cmd = t.cmd /\ byte.atnmsg = t.atnmsg /\ byte.identified_lun = t.identified_lun
  BY <1>1 DEF Controller
<1> HIDE DEF byte
<1>5. Working(t, k) /\ Working(byte, k)
  BY <1>1, <1>4 DEF Working, GetEffectiveLun
<1>6. CASE Error(c, [k EXCEPT !.failed = TRUE], s, b, "OTHER")
  <2>1. c.phase \notin {"status", "msgin"}
    OBVIOUS
  <2> QED
    BY <1>6, <2>1, FailureReport, Zenon
<1>7. CASE response = "status" /\ EnterStatus(c, k, s, b)
  <2>1. AllMoved(c, k)
    BY <1>7, ResponseKinds, NoneMoved DEF AllMoved
  <2> QED
    BY <1>7, <2>1, EnterStatusReport
<1>8. CASE response = "datain" /\ EnterDataIn(t, k, s, b)
  <2>1. c.cmd.count \in 1..MaxBlocks /\ c.cmd.op # "write"
    BY <1>8, ResponseCount, ResponseKinds
  <2>2. Reading(t, k)
    BY <1>1, <1>2, <2>1, NoneMoved, BoundsAssumption DEF Reading
  <2> QED
    BY <1>1, <1>5, <1>8, <2>1, <2>2, EnterDataReport
<1>9. CASE response = "dataout" /\ EnterDataOut(t, k, s, b)
  <2>1. /\ c.cmd.count \in 1..MaxBlocks /\ c.cmd.op # "read"
        /\ c.cmd.op = "write" => kind = "disk"
    BY <1>9, ResponseCount, ResponseKinds
  <2>2. GetEffectiveLun(t) = GetEffectiveLun(c)
    BY <1>1 DEF GetEffectiveLun
  <2>3. c.cmd.op = "write" =>
          HasDeviceForLun(GetEffectiveLun(t)) /\ devices[GetEffectiveLun(t)] = "disk"
    BY <2>1, <2>2
  <2>4. c.cmd.op = "write" =>
          /\ t.next \in 1..c.cmd.count /\ t.blocks = c.cmd.count - t.next + 1
          /\ k.moved = Numbered(t.next - 1)
    BY <1>2, <2>1, NoneMoved, BoundsAssumption
  <2>5. Writing(t, k)
    BY <1>1, <2>3, <2>4 DEF Writing
  <2> QED
    BY <1>1, <1>5, <1>9, <2>1, <2>5, EnterDataReport
<1>10. CASE response = "byteout" /\ EnterDataOut(byte, k, s, b)
  <2>1. byte.cmd.op \notin {"read", "write"}
    BY <1>1, <1>4, <1>10, ResponseKinds
  <2> QED
    BY <1>4, <1>5, <1>10, <2>1, EnterDataReport DEF Writing
<1>11. CASE /\ response \in {"STOP_RASCSI", "STOP_PI"}
            /\ EnterStatus([c EXCEPT !.shutdown_mode = response], k, s, b)
  <2> DEFINE d == [c EXCEPT !.shutdown_mode = response]
  <2>1. /\ d \in Controller /\ d.cmd = c.cmd /\ d.status = c.status /\ d.atnmsg = c.atnmsg
        /\ d.identified_lun = c.identified_lun
    BY <1>11 DEF Controller
  <2>2. EnterStatus(d, k, s, b) /\ c.cmd.op \notin {"read", "write"}
    BY <1>11, ResponseKinds
  <2> HIDE DEF d
  <2>3. Working(d, k) /\ AllMoved(d, k)
    BY <2>1, <2>2 DEF Working, AllMoved, GetEffectiveLun
  <2> QED
    BY <2>1, <2>2, <2>3, EnterStatusReport
<1>12. CASE Continue(c, k, s, b)
  BY <1>12, WorkingReport
<1> QED
  BY <1>3, <1>6, <1>7, <1>8, <1>9, <1>10, <1>11, <1>12

LEMMA ReturnSenseReport ==
  ASSUME devices \in DeviceMaps, NEW c \in Controller, NEW k \in Connection,
         NEW s \in [DOMAIN devices -> SenseCodes], NEW b, NEW lun, ReturnSense(c, k, s, b, lun),
         Working(c, k), c.cmd.op = "sense", c.phase # "msgin",
         c.phase = "status" => s[lun] # "NO SENSE" /\ ~HasDeviceForLun(k.lun)
  PROVE  ReportInv'
<1>1. CASE s[lun] = "NO SENSE" /\ Error(c, [k EXCEPT !.failed = TRUE], s, b, "OTHER")
  <2>1. c.phase \notin {"status", "msgin"}
    BY <1>1
  <2> QED
    BY <1>1, <2>1, FailureReport, Zenon
<1>2. CASE c.cmd.count = 0 /\ c.phase = "status" /\ EnterMsgIn(c, k, s, b)
  <2>1. NoStatus(c, k)
    BY <1>2 DEF NoStatus
  <2>2. ~k.complete /\ ~c.atnmsg /\ k.status # "GOOD"
    BY DEF Working
  <2>3. k.status = "CHECK CONDITION" => HasSense(k, s)
    BY DEF HasSense, Working
  <2>4. Reported(c, k, s)
    BY <2>2, <2>3 DEF Reported
  <2> QED
    BY <1>2, <2>1, <2>2, <2>4, EnterMsgInReport
<1>3. CASE EnterStatus(c, k, s, b)
  BY <1>3, EnterStatusReport DEF AllMoved
<1>4. CASE EnterDataIn([c EXCEPT !.length = 1], k, s, b)
  <2> DEFINE d == [c EXCEPT !.length = 1]
  <2>1. /\ d \in Controller /\ d.cmd = c.cmd /\ d.status = c.status /\ d.atnmsg = c.atnmsg
        /\ d.identified_lun = c.identified_lun
    BY DEF Controller
  <2> HIDE DEF d
  <2>2. Working(d, k) /\ Reading(d, k)
    BY <2>1 DEF Working, Reading, GetEffectiveLun
  <2> QED
    BY <1>4, <2>1, <2>2, EnterDataReport DEF d
<1> QED
  BY <1>1, <1>2, <1>3, <1>4 DEF ReturnSense

LEMMA RequestSenseReport ==
  ASSUME devices \in DeviceMaps, NEW c \in Controller, NEW k \in Connection,
         NEW s \in [DOMAIN devices -> SenseCodes], NEW b, NEW lun, RequestSense(c, k, s, b, lun),
         Working(c, k), k.lun = GetEffectiveLun(c), c.cmd.op = "sense", c.phase = "execute"
  PROVE  ReportInv'
<1>1. CASE HasDeviceForLun(GetEffectiveLun(c)) /\ ReturnSense(c, k, s, b, lun)
  BY <1>1, ReturnSenseReport
<1>2. CASE /\ ~HasDeviceForLun(GetEffectiveLun(c))
           /\ ReturnSense([ToStatus(c, "GOOD") EXCEPT !.length = 0], k,
                          SetSense(c, s, "INVALID LUN"), Drive(b, "status"), 0)
  <2> DEFINE d == [ToStatus(c, "GOOD") EXCEPT !.length = 0]
             t == SetSense(c, s, "INVALID LUN")
  <2>1. /\ d \in Controller /\ d.cmd = c.cmd /\ d.phase = "status" /\ d.status = "GOOD"
        /\ d.atnmsg = c.atnmsg /\ d.identified_lun = c.identified_lun
    BY Numbers DEF Controller, ToStatus, Phases
  <2>2. 0 \in DOMAIN devices
    BY DevicesAssumption
  <2>3. t \in [DOMAIN devices -> SenseCodes] /\ t[0] = "SENSE DATA"
    BY <2>2, SetSenseType DEF SetSense, ErrorLun
  <2>4. ReturnSense(d, k, t, Drive(b, "status"), 0)
    BY <1>2
  <2> HIDE DEF d, t
  <2>5. Working(d, k)
    BY <2>1 DEF Working, GetEffectiveLun
  <2> QED
    BY <1>2, <2>1, <2>3, <2>4, <2>5, ReturnSenseReport
<1>3. CASE ReturnSense(ResetController(c), [k EXCEPT !.reset = TRUE], s, Idle, 0)
  <2> DEFINE d == ResetController(c)
             j == [k EXCEPT !.reset = TRUE]
  <2>1. d \in Controller /\ d.cmd = c.cmd /\ d.phase = "busfree" /\ d.status = "GOOD" /\ ~d.atnmsg
    BY ResetControllerType DEF Controller, ResetController
  <2>2. /\ j \in Connection /\ j.reset /\ j.complete = k.complete /\ j.status = k.status
        /\ j.cut = k.cut /\ j.failed = k.failed
    BY DEF Connection
  <2> HIDE DEF d, j
  <2>3. Working(d, j)
    BY <2>1, <2>2 DEF Working, Clean, Stale
  <2> QED
    BY <1>3, <2>1, <2>2, <2>3, ReturnSenseReport DEF d, j
<1> QED
  BY <1>1, <1>2, <1>3 DEF RequestSense

LEMMA ExecuteReport ==
  ASSUME devices \in DeviceMaps, NEW c0 \in Controller, NEW k0 \in Connection,
         NEW s \in [DOMAIN devices -> SenseCodes], NEW b, NEW cdb \in Cdb,
         Execute(cdb, c0, k0, s, b), NotBegun(c0, k0), ~c0.atnmsg
  PROVE  ReportInv'
<1> DEFINE c == [c0 EXCEPT !.phase = "execute", !.cmd = cdb, !.blocks = 1, !.length = 0,
                           !.status = IF cdb.op = "sense" THEN @ ELSE "GOOD"]
           k == [k0 EXCEPT !.lun = GetEffectiveLun(c)]
           lun == IF HasDeviceForLun(GetEffectiveLun(c)) THEN GetEffectiveLun(c) ELSE 0
           t == [s EXCEPT ![lun] = "NO SENSE"]
<1>1. /\ c \in Controller /\ c.phase = "execute" /\ c.cmd = cdb /\ c.atnmsg = c0.atnmsg
      /\ c.is_byte_transfer = c0.is_byte_transfer
      /\ c.status \in {c0.status, "GOOD"}
  BY Numbers DEF Controller, Phases
<1>2. \/ /\ ~HasDeviceForLun(GetEffectiveLun(c))
         /\ Error(c, [k EXCEPT !.failed = TRUE], s, b, "INVALID LUN")
      \/ cdb.op = "sense" /\ RequestSense(c, k, s, b, lun)
      \/ /\ HasDeviceForLun(GetEffectiveLun(c)) \/ cdb.op = "inquiry"
         /\ Dispatch(c, k, t, b, devices[lun])
  BY DEF Execute
<1>3. GetEffectiveLun(c) \in Luns
  BY <1>1, EffectiveLunType
<1> HIDE DEF c
<1>4. /\ k \in Connection /\ k.lun = GetEffectiveLun(c) /\ k.complete = k0.complete
      /\ k.status = k0.status /\ k.cut = k0.cut /\ k.failed = k0.failed /\ k.moved = k0.moved
  BY <1>3 DEF Connection
<1>5. t \in [DOMAIN devices -> SenseCodes]
  <2> HIDE DEF lun
  <2> QED
    BY DEF SenseCodes
<1> HIDE DEF k, t
<1>6. Working(c, k)
  BY <1>1, <1>4 DEF Working, NotBegun, Clean, Stale
<1>7. k.moved = <<>> /\ ~c.is_byte_transfer
  BY <1>1, <1>4 DEF NotBegun
<1>8. CASE ~HasDeviceForLun(GetEffectiveLun(c))
             /\ Error(c, [k EXCEPT !.failed = TRUE], s, b, "INVALID LUN")
  BY <1>1, <1>4, <1>6, <1>8, FailureReport
<1>9. CASE cdb.op = "sense" /\ RequestSense(c, k, s, b, lun)
  BY <1>1, <1>4, <1>6, <1>9, RequestSenseReport
<1>10. CASE /\ HasDeviceForLun(GetEffectiveLun(c)) \/ cdb.op = "inquiry"
            /\ Dispatch(c, k, t, b, devices[lun])
  BY <1>1, <1>4, <1>5, <1>6, <1>7, <1>10, DispatchReport
<1> QED
  BY <1>2, <1>8, <1>9, <1>10

LEMMA CommandReport ==
  ASSUME devices \in DeviceMaps, NEW c0 \in Controller, NEW k \in Connection,
         NEW s \in [DOMAIN devices -> SenseCodes], NEW b, Command(c0, k, s, b),
         NotBegun(c0, k), ~c0.atnmsg
  PROVE  ReportInv'
<1> DEFINE c == [c0 EXCEPT !.phase = "command", !.length = 1, !.blocks = 1]
           lines == Drive(b, "command")
<1>1. /\ c \in Controller /\ c.phase = "command" /\ c.atnmsg = c0.atnmsg
      /\ c.is_byte_transfer = c0.is_byte_transfer /\ c.status = c0.status
  BY Numbers DEF Controller, Phases
<1>2. PICK cdb \in Cdb :
        \/ Execute(cdb, c, k, s, lines)
        \/ Error(c, [k EXCEPT !.cut = @ \cup {"command"},
                              !.lun = IF c.identified_lun # None
                                      THEN c.identified_lun ELSE cdb.lun],
                 s, lines, "OTHER")
  BY DEF Command
<1> HIDE DEF c, lines
<1>3. NotBegun(c, k) /\ ~c.atnmsg
  BY <1>1 DEF NotBegun
<1>4. CASE Execute(cdb, c, k, s, lines)
  BY <1>1, <1>3, <1>4, ExecuteReport
<1>5. CASE Error(c, [k EXCEPT !.cut = @ \cup {"command"},
                              !.lun = IF c.identified_lun # None
                                      THEN c.identified_lun ELSE cdb.lun],
                 s, lines, "OTHER")
  <2> DEFINE j == [k EXCEPT !.cut = @ \cup {"command"},
                            !.lun = IF c.identified_lun # None
                                    THEN c.identified_lun ELSE cdb.lun]
  <2>1. (IF c.identified_lun # None THEN c.identified_lun ELSE cdb.lun) \in Luns
    BY <1>1 DEF Controller, Cdb
  <2>2. /\ j \in Connection /\ j.complete = k.complete /\ j.status = k.status
        /\ "command" \in j.cut
    BY <2>1 DEF Connection, Phases
  <2> HIDE DEF j
  <2>3. Stale(j) /\ ~j.complete /\ j.status # "GOOD"
    BY <1>3, <2>2 DEF Stale, NotBegun
  <2> QED
    BY <1>1, <1>3, <1>5, <2>2, <2>3, ErrorReport DEF j
<1> QED
  BY <1>2, <1>4, <1>5

(* All bytes of the block have been moved.                                  *)
LEMMA MovedLength ==
  ASSUME NEW c \in Controller
  PROVE  [c EXCEPT !.length = 0].length # 1
<1>1. [c EXCEPT !.length = 0].length = 0
  BY DEF Controller
<1> QED
  BY <1>1

LEMMA CountType ==
  ASSUME NEW c \in Controller
  PROVE  c.cmd.count \in 0..MaxBlocks
<1>1. c.cmd \in Cdb \cup {NoCdb(l) : l \in Luns}
  BY DEF Controller
<1>2. CASE c.cmd \in Cdb
  BY <1>2 DEF Cdb
<1>3. CASE c.cmd \in {NoCdb(l) : l \in Luns}
  BY <1>3, BoundsAssumption DEF NoCdb
<1> QED
  BY <1>1, <1>2, <1>3

LEMMA NextMoved ==
  ASSUME NEW n \in Nat \ {0}
  PROVE  Append(Numbered(n - 1), n - 1) = Numbered(n)
<1>1. Numbered(n - 1) \in Seq(Nat) /\ Len(Numbered(n - 1)) = n - 1
  BY DEF Numbered
<1> QED
  BY <1>1 DEF Numbered

(* A connection that has completed was told the truth.                      *)
LEMMA CompleteIsReported ==
  ASSUME TypeOK, ReportInv, conn.complete
  PROVE  Reported(ctrl, conn, sense) /\ ctrl.phase \in {"busfree", "msgin"}
<1>1. ctrl.phase \in Phases
  BY DEF TypeOK, Controller
<1>2. ctrl.phase # "selection" /\ ~ctrl.atnmsg
  BY DEF ReportInv, Report, Beginning, NotBegun
<1>3. ctrl.phase \in {"busfree", "msgin"}
  BY <1>1, <1>2 DEF Phases, ReportInv, Report, Beginning, Transferring, Ending, Working
<1> QED
  BY <1>3 DEF ReportInv, Report, Free, Ending

LEMMA StutterReport ==
  ASSUME ReportInv, UNCHANGED <<ctrl, conn, sense, devices>>
  PROVE  ReportInv'
  BY StepReport DEF ReportInv

LEMMA InitReport == Init => ReportInv
<1> SUFFICES ASSUME Init PROVE ReportInv
  OBVIOUS
<1>1. /\ ctrl.phase = "busfree" /\ ctrl.status = "GOOD" /\ ~ctrl.atnmsg /\ ~ctrl.is_byte_transfer
      /\ conn = NoConnection /\ conn.complete /\ conn.status = "NONE"
  BY DEF Init, NoConnection
<1>2. Reported(ctrl, conn, sense)
  BY <1>1 DEF Reported
<1> QED
  BY <1>1, <1>2 DEF ReportInv, Report, Free, Beginning, Transferring, Ending

LEMMA SelectReport == ASSUME TypeOK, ReportInv, Select PROVE ReportInv'
<1>1. /\ ctrl.status = "GOOD" /\ ~ctrl.atnmsg /\ ~ctrl.is_byte_transfer /\ ctrl \in Controller
  BY DEF Select, ReportInv, Report, Free, TypeOK
<1>2. /\ ctrl'.phase = "selection" /\ ctrl'.status = "GOOD" /\ ~ctrl'.atnmsg
      /\ ~ctrl'.is_byte_transfer
  BY <1>1 DEF Select, Controller
<1>3. /\ ~conn'.complete /\ ~conn'.failed /\ conn'.cut = {} /\ conn'.moved = <<>>
      /\ conn'.status = "NONE" /\ sense' = sense /\ devices' = devices
  BY DEF Select
<1>4. NotBegun(ctrl', conn')
  BY <1>2, <1>3 DEF NotBegun, Clean
<1>5. Report(ctrl', conn', sense)
  BY <1>2, <1>4 DEF Report, Free, Beginning, Transferring, Ending
<1> QED
  BY <1>3, <1>5, StepReport

LEMMA ResetSeenReport == ASSUME TypeOK, ReportInv, ResetSeen PROVE ReportInv'
  BY CompleteIsReported, ResetReport DEF ResetSeen, TypeOK, Reported

LEMMA SelectionReport == ASSUME TypeOK, ReportInv, Selection PROVE ReportInv'
<1> DEFINE c == [ctrl EXCEPT !.phase = "msgout", !.atnmsg = TRUE,
                             !.msb = NoMessages, !.length = 1, !.blocks = 1]
<1>1. /\ NotBegun(ctrl, conn) /\ ~ctrl.atnmsg
  BY DEF Selection, ReportInv, Report, Beginning
<1>2. /\ c.phase = "msgout" /\ c.atnmsg /\ c.status = ctrl.status
      /\ c.is_byte_transfer = ctrl.is_byte_transfer
  BY DEF TypeOK, Controller
<1>3. \/ Continue(c, conn, sense, Drive(bus, "msgout"))
      \/ Command(ctrl, conn, sense, bus)
  BY DEF Selection
<1> HIDE DEF c
<1>4. CASE Continue(c, conn, sense, Drive(bus, "msgout"))
  <2>1. NotBegun(c, conn)
    BY <1>1, <1>2 DEF NotBegun
  <2>2. Report(c, conn, sense)
    BY <1>2, <2>1 DEF Report, Free, Beginning, Transferring, Ending
  <2> QED
    BY <1>4, <2>2, StepReport DEF Continue
<1>5. CASE Command(ctrl, conn, sense, bus)
  BY <1>1, <1>5, CommandReport DEF TypeOK
<1> QED
  BY <1>3, <1>4, <1>5

(* A handshake is cut short while a command is carried out.                 *)
LEMMA CutReport ==
  ASSUME TypeOK, ctrl.phase \in {"datain", "dataout"}, Working(ctrl, conn),
         Error(ctrl, [conn EXCEPT !.cut = @ \cup {ctrl.phase}], sense, bus, "OTHER")
  PROVE  ReportInv'
<1> DEFINE j == [conn EXCEPT !.cut = @ \cup {ctrl.phase}]
<1>1. /\ j \in Connection /\ j.complete = conn.complete /\ j.status = conn.status
      /\ j.reset = conn.reset /\ j.lun = conn.lun
  BY CutType DEF TypeOK, Connection, Controller
<1> HIDE DEF j
<1>2. ~j.complete /\ j.status # "GOOD" /\ ~ctrl.atnmsg
      /\ (j.reset \/ j.lun = GetEffectiveLun(ctrl))
  BY <1>1 DEF Working
<1> QED
  BY <1>1, <1>2, ErrorReport DEF j, TypeOK

(* A handshake is cut short while the status or the message is sent.        *)
LEMMA CutEndingReport ==
  ASSUME TypeOK, ctrl.phase \in {"status", "msgin"}, ~conn.complete,
         Error(ctrl, [conn EXCEPT !.cut = @ \cup {ctrl.phase}], sense, bus, "OTHER")
  PROVE  ReportInv'
<1> DEFINE j == [conn EXCEPT !.cut = @ \cup {ctrl.phase}]
<1>1. /\ j \in Connection /\ j.complete = conn.complete /\ ctrl.phase \in j.cut
  BY CutType DEF TypeOK, Connection, Controller
<1> HIDE DEF j
<1>2. Excused(j)
  BY <1>1 DEF Excused
<1> QED
  BY <1>1, <1>2, ErrorEndingReport DEF j, TypeOK

LEMMA StatusReport == ASSUME TypeOK, ReportInv, Status PROVE ReportInv'
<1>1. /\ ctrl.phase = "status" /\ ctrl \in Controller /\ conn \in Connection
      /\ ctrl.status \in {"GOOD", "CHECK CONDITION"}
  BY DEF Status, TypeOK, Controller
<1>2. /\ Ending(ctrl, conn, sense) /\ Reported(ctrl, conn, sense) /\ ~conn.complete
      /\ ctrl.atnmsg => NotBegun(ctrl, conn)
  BY <1>1 DEF ReportInv, Report, Ending, Beginning
<1> DEFINE c == [ctrl EXCEPT !.length = 0]
           k == [conn EXCEPT !.status = ctrl.status]
<1>3. CASE Continue(c, k, sense, bus)
  <2>1. /\ c.phase = "status" /\ c.status = ctrl.status /\ c.cmd = ctrl.cmd
        /\ c.atnmsg = ctrl.atnmsg /\ c.is_byte_transfer = ctrl.is_byte_transfer
    BY <1>1 DEF Controller
  <2>2. /\ k.status = ctrl.status /\ k.complete = conn.complete /\ k.failed = conn.failed
        /\ k.cut = conn.cut /\ k.moved = conn.moved /\ k.reset = conn.reset /\ k.lun = conn.lun
    BY <1>1 DEF Connection
  <2>3. ctrl' = c /\ conn' = k /\ sense' = sense /\ devices' = devices
    BY <1>3 DEF Continue
  <2> HIDE DEF c, k
  <2>4. ctrl.status = "GOOD" => Clean(k) /\ AllMoved(c, k) /\ ~c.atnmsg
    BY <1>1, <1>2, <2>1, <2>2 DEF Ending, Clean, AllMoved
  <2>5. ctrl.status = "CHECK CONDITION" => HasSense(k, sense)
    BY <1>1, <1>2, <2>2 DEF Ending, HasSense, Stale, Asked
  <2>6. Reported(c, k, sense)
    BY <2>2, <2>4, <2>5 DEF Reported
  <2>7. c.atnmsg => NotBegun(c, k)
    <3> SUFFICES ASSUME ctrl.atnmsg PROVE NotBegun(c, k)
      BY <2>1
    <3>1. NotBegun(ctrl, conn) /\ ctrl.status = "CHECK CONDITION"
      BY <1>1, <1>2, <2>1, <2>4
    <3> QED
      BY <2>1, <2>2, <3>1 DEF NotBegun, Clean, Stale
  <2>8. Ending(c, k, sense)
    BY <1>2, <2>1, <2>2, <2>4, <2>5, <2>6 DEF Ending
  <2>9. Free(c, k, sense) /\ Beginning(c, k) /\ Transferring(c, k)
    BY <2>1, <2>7 DEF Free, Beginning, Transferring
  <2> QED
    BY <2>3, <2>8, <2>9, StepReport DEF Report
<1>4. CASE Error(ctrl, [conn EXCEPT !.cut = @ \cup {ctrl.phase}], sense, bus, "OTHER")
  BY <1>1, <1>2, <1>4, CutEndingReport
<1>5. CASE ctrl.length = 0 /\ EnterMsgIn(ctrl, conn, sense, bus)
  <2>1. conn.status # "NONE"
    BY <1>1, <1>2, <1>5 DEF Ending
  <2> QED
    BY <1>1, <1>2, <1>5, <2>1, EnterMsgInReport
<1> QED
  BY <1>3, <1>4, <1>5 DEF Status, Handshake

LEMMA MsgInReport == ASSUME TypeOK, ReportInv, MsgIn PROVE ReportInv'
<1>1. ctrl.phase = "msgin" /\ ctrl \in Controller /\ conn \in Connection
  BY DEF MsgIn, TypeOK
<1>2. /\ Reported(ctrl, conn, sense) /\ (ctrl.atnmsg => NotBegun(ctrl, conn))
      /\ ctrl.atnmsg \/ conn.status # "NONE" \/ NoStatus(ctrl, conn)
      /\ ctrl.length = 0 => (conn.complete <=> ~ctrl.atnmsg)
      /\ ctrl.length = 1 => ~conn.complete
  BY <1>1 DEF ReportInv, Report, Ending, Beginning
<1> DEFINE c == [ctrl EXCEPT !.length = 0]
           k == [conn EXCEPT !.complete = ~ctrl.atnmsg]
<1>3. CASE Continue(c, k, sense, bus)
  <2>1. /\ c.phase = "msgin" /\ c.status = ctrl.status /\ c.cmd = ctrl.cmd
        /\ c.atnmsg = ctrl.atnmsg /\ c.is_byte_transfer = ctrl.is_byte_transfer
    BY <1>1 DEF Controller
  <2>2. c.length # 1
    BY <1>1, MovedLength
  <2>3. /\ k.status = conn.status /\ k.complete = ~ctrl.atnmsg /\ k.failed = conn.failed
        /\ k.cut = conn.cut /\ k.moved = conn.moved /\ k.reset = conn.reset /\ k.lun = conn.lun
    BY <1>1 DEF Connection
  <2>4. ctrl' = c /\ conn' = k /\ sense' = sense /\ devices' = devices
    BY <1>3 DEF Continue
  <2> HIDE DEF c, k
  <2>5. Reported(c, k, sense)
    BY <1>2, <2>1, <2>3 DEF Reported, Clean, AllMoved, HasSense, Stale, Asked
  <2>6. c.atnmsg => NotBegun(c, k)
    BY <1>2, <2>1, <2>3 DEF NotBegun, Clean, Stale
  <2>7. c.atnmsg \/ k.status # "NONE" \/ NoStatus(c, k)
    BY <1>2, <2>1, <2>3 DEF NoStatus
  <2>8. k.complete <=> ~c.atnmsg
    BY <2>1, <2>3
  <2>9. Ending(c, k, sense)
    BY <2>1, <2>2, <2>5, <2>7, <2>8 DEF Ending
  <2>10. Free(c, k, sense) /\ Beginning(c, k) /\ Transferring(c, k)
    BY <2>1, <2>6 DEF Free, Beginning, Transferring
  <2> QED
    BY <2>4, <2>9, <2>10, StepReport DEF Report
<1>4. CASE ctrl.length = 1 /\ Error(ctrl, [conn EXCEPT !.cut = @ \cup {ctrl.phase}], sense, bus,
                                    "OTHER")
  BY <1>1, <1>2, <1>4, CutEndingReport
<1>5. CASE ctrl.atnmsg /\ Command([ctrl EXCEPT !.atnmsg = FALSE], conn, sense, bus)
  <2> DEFINE d == [ctrl EXCEPT !.atnmsg = FALSE]
  <2>1. /\ d \in Controller /\ ~d.atnmsg /\ d.status = ctrl.status
        /\ d.is_byte_transfer = ctrl.is_byte_transfer
    BY <1>1 DEF Controller
  <2>2. Command(d, conn, sense, bus)
    BY <1>5
  <2> HIDE DEF d
  <2>3. NotBegun(d, conn)
    BY <1>2, <1>5, <2>1 DEF NotBegun
  <2> QED
    BY <2>1, <2>2, <2>3, CommandReport DEF TypeOK
<1>6. CASE ctrl.length = 0 /\ ~ctrl.atnmsg /\ BusFree(ctrl, conn, sense)
  <2>1. conn.complete /\ (conn.status # "NONE" \/ NoStatus(ctrl, conn))
    BY <1>2, <1>6
  <2> QED
    BY <1>1, <1>2, <1>6, <2>1, BusFreeReport
<1> QED
  BY <1>3, <1>4, <1>5, <1>6 DEF MsgIn, Handshake

LEMMA MsgOutReport == ASSUME TypeOK, ReportInv, MsgOut PROVE ReportInv'
<1>1. /\ ctrl.phase = "msgout" /\ ctrl \in Controller /\ conn \in Connection
      /\ devices \in DeviceMaps /\ sense \in [DOMAIN devices -> SenseCodes]
  BY DEF MsgOut, TypeOK
<1>2. ctrl.atnmsg /\ NotBegun(ctrl, conn)
  BY <1>1 DEF ReportInv, Report, Beginning
<1>3. ASSUME NEW c, NEW b, c.phase = "msgout", c.atnmsg, c.status = ctrl.status,
             c.is_byte_transfer = ctrl.is_byte_transfer, Continue(c, conn, sense, b)
      PROVE  ReportInv'
  <2>1. NotBegun(c, conn)
    BY <1>2, <1>3 DEF NotBegun
  <2>2. Report(c, conn, sense)
    BY <1>3, <2>1 DEF Report, Free, Beginning, Transferring, Ending
  <2> QED
    BY <1>3, <2>2, StepReport DEF Continue
<1>4. CASE Continue([ctrl EXCEPT !.length = 0], conn, sense, bus)
  <2> DEFINE c == [ctrl EXCEPT !.length = 0]
  <2>1. /\ c.phase = "msgout" /\ c.atnmsg /\ c.status = ctrl.status
        /\ c.is_byte_transfer = ctrl.is_byte_transfer
    BY <1>1, <1>2 DEF Controller
  <2> HIDE DEF c
  <2> QED
    BY <1>3, <1>4, <2>1 DEF c
<1>5. CASE Error(ctrl, [conn EXCEPT !.cut = @ \cup {"msgout"}], sense, bus, "OTHER")
  <2> DEFINE j == [conn EXCEPT !.cut = @ \cup {"msgout"}]
  <2>1. /\ j \in Connection /\ j.complete = conn.complete /\ j.status = conn.status
        /\ j.failed = conn.failed /\ j.moved = conn.moved /\ j.cut = conn.cut \cup {"msgout"}
    BY <1>1 DEF Connection, Phases
  <2> HIDE DEF j
  <2>2. Stale(j) /\ NotBegun(ctrl, j) /\ ~j.complete /\ j.status # "GOOD"
    BY <1>2, <2>1 DEF Stale, NotBegun, Clean
  <2> QED
    BY <1>1, <1>5, <2>1, <2>2, ErrorReport DEF j
<1>6. ASSUME NEW m \in Messages, MessageReceived(m) PROVE ReportInv'
  <2> DEFINE stay == [ctrl EXCEPT !.msb = XferMsg(m), !.length = 1, !.blocks = 1]
             c == [ctrl EXCEPT !.msb = NoMessages, !.identified_lun = Identified(XferMsg(m))]
             d == [c EXCEPT !.atnmsg = FALSE]
             j == [conn EXCEPT !.aborted = TRUE]
  <2>1. /\ stay.phase = "msgout" /\ stay.atnmsg /\ stay.status = ctrl.status
        /\ stay.is_byte_transfer = ctrl.is_byte_transfer
    BY <1>1, <1>2 DEF Controller
  <2>2. c \in Controller
    BY <1>6, MessageLun DEF TypeOK
  <2>3. /\ c.atnmsg /\ c.status = ctrl.status /\ c.is_byte_transfer = ctrl.is_byte_transfer
    BY <1>1, <1>2 DEF Controller
  <2>4. \/ Continue(stay, conn, sense, bus)
        \/ Command(d, conn, sense, bus)
        \/ EnterMsgIn(c, conn, sense, bus)
        \/ BusFree(c, j, sense)
    BY <1>6 DEF MessageReceived
  <2> HIDE DEF c, stay
  <2>5. /\ d \in Controller /\ ~d.atnmsg /\ d.status = c.status
        /\ d.is_byte_transfer = c.is_byte_transfer
    BY <2>2 DEF Controller
  <2>6. j \in Connection /\ j.aborted /\ j.complete = conn.complete
    BY <1>1 DEF Connection
  <2> HIDE DEF d, j
  <2>7. NotBegun(c, conn) /\ NotBegun(d, conn)
    BY <1>2, <2>3, <2>5 DEF NotBegun
  <2>8. CASE Continue(stay, conn, sense, bus)
    BY <1>3, <2>1, <2>8
  <2>9. CASE Command(d, conn, sense, bus)
    BY <1>1, <2>5, <2>7, <2>9, CommandReport
  <2>10. CASE EnterMsgIn(c, conn, sense, bus)
    <3>1. conn.status # "GOOD" /\ (conn.status = "CHECK CONDITION" => HasSense(conn, sense))
          /\ ~conn.complete
      BY <1>2 DEF NotBegun, HasSense
    <3>2. Reported(c, conn, sense)
      BY <3>1 DEF Reported
    <3> QED
      BY <1>1, <2>2, <2>3, <2>7, <2>10, <3>1, <3>2, EnterMsgInReport
  <2>11. CASE BusFree(c, j, sense)
    <3>1. Excused(j) /\ ~j.complete
      BY <1>2, <2>6 DEF Excused, NotBegun
    <3> QED
      BY <2>2, <2>6, <2>11, <3>1, BusFreeReport
  <2> QED
    BY <2>4, <2>8, <2>9, <2>10, <2>11
<1> QED
  BY <1>4, <1>5, <1>6 DEF MsgOut

LEMMA DataInReport == ASSUME TypeOK, ReportInv, DataIn PROVE ReportInv'
<1> DEFINE c == [ctrl EXCEPT !.blocks = Decrement(@)]
           d == [ctrl EXCEPT !.length = 0]
           n == NextBlock(c)
           k == [conn EXCEPT !.moved = IF ctrl.cmd.op = "read" /\ ctrl.next > 0
                                       THEN Append(@, ctrl.next - 1) ELSE @]
<1>1. /\ ctrl.phase = "datain" /\ ctrl \in Controller /\ conn \in Connection
      /\ devices \in DeviceMaps /\ sense \in [DOMAIN devices -> SenseCodes]
  BY DEF DataIn, TypeOK
<1>2. Working(ctrl, conn) /\ Reading(ctrl, conn) /\ ctrl.cmd.op # "write"
  BY <1>1 DEF ReportInv, Report, Transferring
<1>3. \/ ctrl.length = 1 /\ Continue(d, k, sense, bus)
      \/ Error(ctrl, [conn EXCEPT !.cut = @ \cup {ctrl.phase}], sense, bus, "OTHER")
      \/ ctrl.length = 0 /\ c.blocks = 0 /\ EnterStatus(c, conn, sense, bus)
      \/ ctrl.length = 0 /\ c.blocks # 0 /\ Continue(n, conn, sense, bus)
      \/ Error(c, [conn EXCEPT !.failed = TRUE], sense, bus, "OTHER")
  BY DEF DataIn, Handshake
<1>4. c \in Controller
  BY DecrementedType
<1>5. /\ c.phase = ctrl.phase /\ c.status = ctrl.status /\ c.cmd = ctrl.cmd
      /\ c.atnmsg = ctrl.atnmsg /\ c.identified_lun = ctrl.identified_lun
      /\ c.next = ctrl.next /\ c.length = ctrl.length /\ c.blocks = Decrement(ctrl.blocks)
  BY <1>1 DEF Controller
<1> HIDE DEF c
<1>6. Working(c, conn)
  BY <1>2, <1>5 DEF Working, GetEffectiveLun
<1>7. ctrl.cmd.op = "read" =>
        /\ ctrl.next \in 1..ctrl.cmd.count /\ ctrl.cmd.count \in Nat
        /\ c.blocks = ctrl.cmd.count - ctrl.next
  <2>1. ctrl.cmd.count \in 0..MaxBlocks
    BY <1>1, CountType
  <2> QED
    BY <1>2, <1>5, <2>1, BoundsAssumption DEF Reading, Decrement
<1>8. CASE ctrl.length = 1 /\ Continue(d, k, sense, bus)
  <2>1. /\ d.phase = ctrl.phase /\ d.status = ctrl.status /\ d.cmd = ctrl.cmd
        /\ d.atnmsg = ctrl.atnmsg /\ d.identified_lun = ctrl.identified_lun
        /\ d.next = ctrl.next /\ d.blocks = ctrl.blocks
    BY <1>1 DEF Controller
  <2>2. d.length # 1
    BY <1>1, MovedLength
  <2>3. /\ k.complete = conn.complete /\ k.status = conn.status /\ k.cut = conn.cut
        /\ k.failed = conn.failed /\ k.reset = conn.reset /\ k.lun = conn.lun
    BY <1>1 DEF Connection
  <2>4. k.moved = IF ctrl.cmd.op = "read" /\ ctrl.next > 0
                  THEN Append(conn.moved, ctrl.next - 1) ELSE conn.moved
    BY <1>1 DEF Connection
  <2> HIDE DEF d, k
  <2>5. Working(d, k)
    BY <1>2, <2>1, <2>3 DEF Working, Clean, Stale, GetEffectiveLun
  <2>6. ctrl.cmd.op = "read" => k.moved = Numbered(ctrl.next)
    <3> SUFFICES ASSUME ctrl.cmd.op = "read" PROVE k.moved = Numbered(ctrl.next)
      OBVIOUS
    <3>1. ctrl.next \in Nat \ {0} /\ ctrl.next > 0
      BY <1>7
    <3>2. conn.moved = Numbered(ctrl.next - 1)
      BY <1>2, <1>8 DEF Reading
    <3>3. k.moved = Append(Numbered(ctrl.next - 1), ctrl.next - 1)
      BY <2>4, <3>1, <3>2
    <3> QED
      BY <3>1, <3>3, NextMoved
  <2>7. Reading(d, k)
    BY <1>2, <2>1, <2>2, <2>6 DEF Reading
  <2> QED
    BY <1>1, <1>2, <1>8, <2>1, <2>5, <2>7, WorkingReport
<1>9. CASE Error(ctrl, [conn EXCEPT !.cut = @ \cup {ctrl.phase}], sense, bus, "OTHER")
  BY <1>1, <1>2, <1>9, CutReport
<1>10. CASE ctrl.length = 0 /\ c.blocks = 0 /\ EnterStatus(c, conn, sense, bus)
  <2>1. ctrl.cmd.op = "read" => ctrl.next = ctrl.cmd.count /\ conn.moved = Numbered(ctrl.next)
    BY <1>2, <1>7, <1>10 DEF Reading
  <2>2. AllMoved(c, conn)
    BY <1>2, <1>5, <2>1 DEF AllMoved
  <2> QED
    BY <1>1, <1>4, <1>6, <1>10, <2>2, EnterStatusReport
<1>11. CASE ctrl.length = 0 /\ c.blocks # 0 /\ Continue(n, conn, sense, bus)
  <2>1. /\ n.phase = ctrl.phase /\ n.status = ctrl.status /\ n.cmd = ctrl.cmd
        /\ n.atnmsg = ctrl.atnmsg /\ n.identified_lun = ctrl.identified_lun
        /\ n.next = ctrl.next + 1 /\ n.blocks = c.blocks /\ n.length = 1
    BY <1>4, <1>5 DEF NextBlock, Controller
  <2> HIDE DEF n
  <2>2. Working(n, conn)
    BY <1>2, <2>1 DEF Working, GetEffectiveLun
  <2>3. ctrl.cmd.op = "read" => conn.moved = Numbered(ctrl.next)
    BY <1>2, <1>11 DEF Reading
  <2>4. ctrl.cmd.op = "read" =>
          /\ n.next \in 1..ctrl.cmd.count /\ n.blocks = ctrl.cmd.count - n.next + 1
          /\ n.next - 1 = ctrl.next
    BY <1>7, <1>11, <2>1
  <2>5. Reading(n, conn)
    BY <2>1, <2>3, <2>4 DEF Reading
  <2> QED
    BY <1>1, <1>2, <1>11, <2>1, <2>2, <2>5, WorkingReport
<1>12. CASE Error(c, [conn EXCEPT !.failed = TRUE], sense, bus, "OTHER")
  <2>1. c.phase \notin {"status", "msgin"}
    BY <1>1, <1>5
  <2> QED
    BY <1>1, <1>4, <1>6, <1>12, <2>1, FailureReport, Zenon
<1> QED
  BY <1>3, <1>8, <1>9, <1>10, <1>11, <1>12

(* What a transfer to the device goes on with after a block.                *)
LEMMA ProceedReport ==
  ASSUME NEW d \in Controller, NEW k \in Connection, NEW s, NEW b,
         IF d.blocks = 0 THEN EnterStatus(d, k, s, b) ELSE Continue(d, k, s, b),
         d.phase = "dataout", d.cmd.op # "read", Working(d, k),
         d.blocks = 0 => AllMoved(d, k),
         d.blocks # 0 => Writing(d, k)
  PROVE  ReportInv'
<1>1. CASE d.blocks = 0
  BY <1>1, EnterStatusReport
<1>2. CASE d.blocks # 0
  BY <1>2, WorkingReport
<1> QED
  BY <1>1, <1>2

(* The state of a WRITE or VERIFY(16) whose block count has been            *)
(* decremented for the block at hand.                                       *)
Received(c, k) ==
  c.cmd.op = "write" =>
    /\ c.next \in 1..c.cmd.count /\ c.blocks = c.cmd.count - c.next
    /\ k.moved = Numbered(c.next - 1)
    /\ HasDeviceForLun(GetEffectiveLun(c)) /\ devices[GetEffectiveLun(c)] = "disk"
    /\ ~c.is_byte_transfer

(* The block is written.                                                    *)
LEMMA WrittenReport ==
  ASSUME TypeOK, NEW c \in Controller, c.phase = "dataout", Working(c, conn),
         Received(c, conn), c.cmd.op = "write",
         NEW k, k = [conn EXCEPT !.moved = Append(@, c.next - 1)],
         NEW d \in {[c EXCEPT !.next = @ + 1], NextBlock(c)}
  PROVE  /\ k \in Connection /\ d \in Controller
         /\ d.phase = "dataout" /\ d.cmd.op = "write" /\ d.blocks = c.blocks
         /\ Working(d, k)
         /\ d.blocks = 0 => AllMoved(d, k)
         /\ d.blocks # 0 => Writing(d, k)
<1>1. conn \in Connection /\ c.next \in Nat \ {0} /\ c.cmd.count \in Nat /\ c.blocks \in Nat
  <2>1. c.cmd.count \in 0..MaxBlocks
    BY CountType
  <2> QED
    BY <2>1, BoundsAssumption DEF TypeOK, Received
<1>2. k \in Connection
  <2>1. c.next - 1 \in Nat
    BY <1>1
  <2> QED
    BY <1>1, <2>1, MovedType
<1>3. d \in Controller
  BY NextBlockType
<1>4. /\ d.phase = c.phase /\ d.status = c.status /\ d.cmd = c.cmd
      /\ d.atnmsg = c.atnmsg /\ d.identified_lun = c.identified_lun
      /\ d.is_byte_transfer = c.is_byte_transfer
  BY DEF NextBlock, Controller
<1>5. d.next = c.next + 1 /\ d.blocks = c.blocks
  BY DEF NextBlock, Controller
<1>6. /\ k.complete = conn.complete /\ k.status = conn.status /\ k.cut = conn.cut
      /\ k.failed = conn.failed /\ k.reset = conn.reset /\ k.lun = conn.lun
  BY <1>1 DEF Connection
<1>7. k.moved = Append(conn.moved, c.next - 1)
  BY <1>1 DEF Connection
<1>8. k.moved = Numbered(c.next)
  BY <1>1, <1>7, NextMoved DEF Received
<1>9. Working(d, k)
  BY <1>4, <1>6 DEF Working, Clean, Stale, GetEffectiveLun
<1>10. ASSUME d.blocks = 0
       PROVE  AllMoved(d, k)
  <2>1. c.next = c.cmd.count
    BY <1>1, <1>5, <1>10 DEF Received
  <2> QED
    BY <1>4, <1>8, <2>1 DEF AllMoved
<1>11. ASSUME d.blocks # 0
       PROVE  Writing(d, k)
  <2>1. /\ d.next \in 1..d.cmd.count /\ d.blocks = d.cmd.count - d.next + 1
        /\ d.next - 1 = c.next
    <3>1. c.next \in 1..c.cmd.count /\ c.blocks = c.cmd.count - c.next
      BY DEF Received
    <3>2. d.next = c.next + 1 /\ d.blocks = c.blocks /\ d.blocks # 0 /\ d.cmd = c.cmd
      BY <1>4, <1>5, <1>11
    <3> QED
      BY <1>1, <3>1, <3>2
  <2>2. HasDeviceForLun(GetEffectiveLun(d)) /\ devices[GetEffectiveLun(d)] = "disk"
    BY <1>4 DEF Received, GetEffectiveLun
  <2>3. ~d.is_byte_transfer
    BY <1>4 DEF Received
  <2> QED
    BY <1>8, <2>1, <2>2, <2>3 DEF Writing
<1> QED
  BY <1>2, <1>3, <1>4, <1>5, <1>9, <1>10, <1>11

LEMMA XferOutReport ==
  ASSUME TypeOK, NEW c \in Controller, c.phase = "dataout", c.cmd.op # "read",
         Working(c, conn), Received(c, conn), XferOut(c)
  PROVE  ReportInv'
<1> DEFINE kind == devices[GetEffectiveLun(c)]
           writes == kind = "disk" /\ c.cmd.op = "write" /\ c.next > 0
           written == [conn EXCEPT !.moved = Append(@, c.next - 1)]
           failed == [conn EXCEPT !.failed = TRUE, !.lost = TRUE]
           next == [c EXCEPT !.next = @ + 1]
           Proceed(d, k) == IF d.blocks = 0 THEN EnterStatus(d, k, sense, bus)
                                            ELSE Continue(d, k, sense, bus)
<1>1. /\ conn \in Connection /\ devices \in DeviceMaps
      /\ sense \in [DOMAIN devices -> SenseCodes]
  BY DEF TypeOK
<1>2. \/ Error(c, [conn EXCEPT !.failed = TRUE], sense, bus, "OTHER")
      \/ ErrorTwice(c, failed, sense, bus)
      \/ writes /\ Proceed(next, written)
      \/ writes /\ Proceed(NextBlock(c), written)
      \/ writes /\ Error(next, [written EXCEPT !.failed = TRUE], sense, bus, "OTHER")
      \/ c.cmd.op = "packet" /\ Proceed([c EXCEPT !.blocks = 0], conn)
      \/ ~writes /\ Proceed(c, conn)
  BY DEF XferOut
<1>3. CASE Error(c, [conn EXCEPT !.failed = TRUE], sense, bus, "OTHER")
  BY <1>1, <1>3, FailureReport, Zenon
<1>4. CASE ErrorTwice(c, failed, sense, bus)
  <2>1. failed \in Connection /\ failed.lost
    BY <1>1 DEF Connection
  <2>2. ~failed.complete /\ failed.status # "GOOD"
    BY <1>1 DEF Working, Connection
  <2> HIDE DEF failed
  <2> QED
    BY <1>1, <1>4, <2>1, <2>2, ErrorTwiceReport
<1>5. CASE writes /\ Proceed(next, written)
  <2>1. c.cmd.op = "write"
    BY <1>5
  <2>2. /\ written \in Connection /\ next \in Controller /\ next.phase = "dataout"
        /\ next.cmd.op = "write" /\ Working(next, written)
        /\ next.blocks = 0 => AllMoved(next, written)
        /\ next.blocks # 0 => Writing(next, written)
    BY <2>1, WrittenReport
  <2> HIDE DEF next, written
  <2> QED
    BY <1>5, <2>2, ProceedReport
<1>6. CASE writes /\ Proceed(NextBlock(c), written)
  <2>1. c.cmd.op = "write"
    BY <1>6
  <2> DEFINE n == NextBlock(c)
  <2>2. /\ written \in Connection /\ n \in Controller /\ n.phase = "dataout"
        /\ n.cmd.op = "write" /\ Working(n, written)
        /\ n.blocks = 0 => AllMoved(n, written)
        /\ n.blocks # 0 => Writing(n, written)
    BY <2>1, WrittenReport
  <2>3. Proceed(n, written)
    BY <1>6
  <2> HIDE DEF n, written
  <2> QED
    BY <2>2, <2>3, ProceedReport
<1>7. CASE writes /\ Error(next, [written EXCEPT !.failed = TRUE], sense, bus, "OTHER")
  <2>1. c.cmd.op = "write"
    BY <1>7
  <2>2. /\ written \in Connection /\ next \in Controller /\ next.phase = "dataout"
        /\ Working(next, written)
    BY <2>1, WrittenReport
  <2> HIDE DEF next, written
  <2>3. next.phase \notin {"status", "msgin"}
    BY <2>2
  <2> QED
    BY <1>1, <1>7, <2>2, <2>3, FailureReport, Zenon
<1>8. CASE c.cmd.op = "packet" /\ Proceed([c EXCEPT !.blocks = 0], conn)
  <2> DEFINE d == [c EXCEPT !.blocks = 0]
  <2>1. d \in Controller
    BY Numbers DEF Controller
  <2>2. /\ d.phase = c.phase /\ d.cmd = c.cmd /\ d.status = c.status
        /\ d.atnmsg = c.atnmsg /\ d.identified_lun = c.identified_lun
    BY DEF Controller
  <2>3. Proceed(d, conn)
    BY <1>8
  <2> HIDE DEF d
  <2>4. Working(d, conn) /\ AllMoved(d, conn) /\ Writing(d, conn)
    BY <1>8, <2>2 DEF Working, AllMoved, Writing, GetEffectiveLun
  <2>5. d.phase = "dataout" /\ d.cmd.op # "read"
    BY <2>2
  <2> QED
    BY <1>1, <2>1, <2>3, <2>4, <2>5, ProceedReport
<1>9. CASE ~writes /\ Proceed(c, conn)
  <2>1. c.cmd.op # "write"
    <3> SUFFICES ASSUME c.cmd.op = "write" PROVE FALSE
      OBVIOUS
    <3>1. c.cmd.count \in Nat
      BY CountType
    <3> QED
      BY <1>9, <3>1 DEF Received
  <2>2. AllMoved(c, conn) /\ Writing(c, conn)
    BY <2>1 DEF AllMoved, Writing
  <2> QED
    BY <1>1, <1>9, <2>2, ProceedReport
<1> QED
  BY <1>2, <1>3, <1>4, <1>5, <1>6, <1>7, <1>8, <1>9

LEMMA DataOutReport == ASSUME TypeOK, ReportInv, DataOut PROVE ReportInv'
<1> DEFINE c == [ctrl EXCEPT !.blocks = Decrement(@)]
           d == [ctrl EXCEPT !.is_byte_transfer = FALSE]
           m == [ctrl EXCEPT !.length = 0]
<1>1. /\ ctrl.phase = "dataout" /\ ctrl \in Controller /\ conn \in Connection
      /\ devices \in DeviceMaps /\ sense \in [DOMAIN devices -> SenseCodes]
  BY DEF DataOut, TypeOK
<1>2. Working(ctrl, conn) /\ Writing(ctrl, conn) /\ ctrl.cmd.op # "read"
  BY <1>1 DEF ReportInv, Report, Transferring
<1>3. \/ Continue(m, conn, sense, bus)
      \/ Error(ctrl, [conn EXCEPT !.cut = @ \cup {ctrl.phase}], sense, bus, "OTHER")
      \/ XferOut(c)
      \/ ctrl.is_byte_transfer /\ EnterStatus(d, conn, sense, bus)
      \/ ctrl.is_byte_transfer /\ Error(d, [conn EXCEPT !.failed = TRUE], sense, bus, "OTHER")
  BY DEF DataOut, Handshake, XferBytes
<1>4. CASE Continue(m, conn, sense, bus)
  <2>1. /\ m.phase = ctrl.phase /\ m.status = ctrl.status /\ m.cmd = ctrl.cmd
        /\ m.atnmsg = ctrl.atnmsg /\ m.identified_lun = ctrl.identified_lun
        /\ m.is_byte_transfer = ctrl.is_byte_transfer
    BY <1>1 DEF Controller
  <2>2. m.next = ctrl.next /\ m.blocks = ctrl.blocks
    BY <1>1 DEF Controller
  <2> HIDE DEF m
  <2>3. Working(m, conn)
    BY <1>2, <2>1 DEF Working, GetEffectiveLun
  <2>4. Writing(m, conn)
    BY <1>2, <2>1, <2>2 DEF Writing, GetEffectiveLun
  <2>5. m.phase = "dataout" /\ m.cmd.op # "read"
    BY <1>1, <1>2, <2>1
  <2> QED
    BY <1>4, <2>3, <2>4, <2>5, WorkingReport
<1>5. CASE Error(ctrl, [conn EXCEPT !.cut = @ \cup {ctrl.phase}], sense, bus, "OTHER")
  BY <1>1, <1>2, <1>5, CutReport
<1>6. CASE XferOut(c)
  <2>1. c \in Controller
    BY DecrementedType
  <2>2. /\ c.phase = ctrl.phase /\ c.status = ctrl.status /\ c.cmd = ctrl.cmd
        /\ c.atnmsg = ctrl.atnmsg /\ c.identified_lun = ctrl.identified_lun
        /\ c.is_byte_transfer = ctrl.is_byte_transfer
    BY <1>1 DEF Controller
  <2>3. c.next = ctrl.next /\ c.blocks = Decrement(ctrl.blocks)
    BY <1>1 DEF Controller
  <2> HIDE DEF c
  <2>4. Working(c, conn)
    BY <1>2, <2>2 DEF Working, GetEffectiveLun
  <2>5. ctrl.cmd.op = "write" =>
          c.next \in 1..c.cmd.count /\ c.blocks = c.cmd.count - c.next
    <3>1. ctrl.cmd.count \in 0..MaxBlocks
      BY <1>1, CountType
    <3> QED
      BY <1>2, <2>2, <2>3, <3>1, BoundsAssumption DEF Writing, Decrement
  <2>6. Received(c, conn)
    BY <1>2, <2>2, <2>3, <2>5 DEF Writing, Received, GetEffectiveLun
  <2>7. c.phase = "dataout" /\ c.cmd.op # "read"
    BY <1>1, <1>2, <2>2
  <2> QED
    BY <1>6, <2>1, <2>4, <2>6, <2>7, XferOutReport
<1>7. CASE \/ ctrl.is_byte_transfer /\ EnterStatus(d, conn, sense, bus)
           \/ /\ ctrl.is_byte_transfer
              /\ Error(d, [conn EXCEPT !.failed = TRUE], sense, bus, "OTHER")
  <2>1. d \in Controller
    BY <1>1 DEF Controller
  <2>2. /\ d.phase = ctrl.phase /\ d.status = ctrl.status /\ d.cmd = ctrl.cmd
        /\ d.atnmsg = ctrl.atnmsg /\ d.identified_lun = ctrl.identified_lun
    BY <1>1 DEF Controller
  <2> HIDE DEF d
  <2>3. Working(d, conn)
    BY <1>2, <2>2 DEF Working, GetEffectiveLun
  <2>4. AllMoved(d, conn)
    BY <1>2, <1>7, <2>2 DEF AllMoved, Writing
  <2>5. d.phase \notin {"status", "msgin"}
    BY <1>1, <2>2
  <2>6. CASE EnterStatus(d, conn, sense, bus)
    BY <1>1, <2>1, <2>3, <2>4, <2>6, EnterStatusReport
  <2>7. CASE Error(d, [conn EXCEPT !.failed = TRUE], sense, bus, "OTHER")
    BY <1>1, <2>1, <2>3, <2>5, <2>7, FailureReport, Zenon
  <2> QED
    BY <1>7, <2>6, <2>7
<1> QED
  BY <1>3, <1>4, <1>5, <1>6, <1>7

LEMMA ReportNext ==
  ASSUME TypeOK, ReportInv, [Next]_vars
  PROVE  ReportInv'
<1>1. CASE Select
  BY <1>1, SelectReport
<1>2. CASE Process
  BY <1>2, SelectionReport, MsgOutReport, DataInReport, DataOutReport, StatusReport,
     MsgInReport DEF Process
<1>3. CASE ResetSeen
  BY <1>3, ResetSeenReport
<1>4. CASE DropAtn \/ UNCHANGED vars
  BY <1>4, StutterReport DEF DropAtn, vars
<1> QED
  BY <1>1, <1>2, <1>3, <1>4 DEF Next

(* The invariant that the four theorems below share: it says of every phase *)
(* what the controller and the history of the connection have in common.    *)
THEOREM ReportCorrect == Spec => []ReportInv
<1>1. Init => ReportInv
  BY InitReport
<1>2. TypeOK /\ ReportInv /\ [Next]_vars => ReportInv'
  BY ReportNext
<1> QED
  BY <1>1, <1>2, TypeCorrect, PTL DEF Spec

(* A command that completes with GOOD met no error of a device and no       *)
(* handshake that was cut short (ScsiController::Error and what its callers *)
(* go on with).                                                             *)
THEOREM StatusIsTrue == Spec => []StatusTruthful
<1>1. TypeOK /\ ReportInv => StatusTruthful
  BY CompleteIsReported DEF StatusTruthful, Reported, Clean
<1> QED
  BY <1>1, TypeCorrect, ReportCorrect, PTL

(* READ, WRITE and VERIFY(16) that complete with GOOD have moved the blocks *)
(* of the CDB, all of them, once and in order, whatever their number        *)
(* (ScsiController::Send, Receive, XferIn and XferOutBlockOriented).        *)
THEOREM BlocksMovedInOrder == Spec => []BlocksInOrder
<1>1. TypeOK /\ ReportInv => BlocksInOrder
  BY CompleteIsReported DEF BlocksInOrder, Reported, AllMoved, Numbered
<1> QED
  BY <1>1, TypeCorrect, ReportCorrect, PTL

(* After CHECK CONDITION the device that REQUEST SENSE asks has sense data  *)
(* (ScsiController::Error and PrimaryDevice::RequestSense choose one LUN).  *)
THEOREM SenseIsThere == Spec => []CheckHasSense
<1>1. TypeOK /\ ReportInv => CheckHasSense
  BY CompleteIsReported
  DEF CheckHasSense, Reported, HasSense, Asked, Stale, StaleLun
<1> QED
  BY <1>1, TypeCorrect, ReportCorrect, PTL

(* A connection ends with a status and COMMAND COMPLETE, but for the cases  *)
(* that the property lists (ScsiController::BusFree and its callers).       *)
THEOREM ConnectionCompletes == Spec => []CompletesOrExcused
<1>1. TypeOK /\ ReportInv => CompletesOrExcused
  BY DEF CompletesOrExcused, ReportInv, Report, Free, Excused, NoStatus, HasDeviceForLun
<1> QED
  BY <1>1, TypeCorrect, ReportCorrect, PTL

(* The block count of a transfer on a live bus is in range whenever it is   *)
(* about to be decremented (ctrl.blocks, a uint32_t).                       *)
THEOREM NoUnderflow == Spec => []NoBlockUnderflow
  BY BusCorrect, PTL

-----------------------------------------------------------------------------
(* Whose sense data a step changes. s is what the nested handlers have made *)
(* of the sense data so far.                                                *)
AskedOnly(k, s) ==
  \A l \in DOMAIN devices : s[l] # sense[l] => l = Asked(k) \/ Stale(k) \/ k.reset

Carried(k, s) == k \in Connection /\ s \in [DOMAIN devices -> SenseCodes] /\ AskedOnly(k, s)

SenseKept ==
  \A l \in DOMAIN devices :
    sense'[l] # sense[l] =>
      \/ l = conn'.lun
      \/ l = 0 /\ ~HasDeviceForLun(conn'.lun)
      \/ StaleLun' \/ conn'.reset

(* An error goes to the device that REQUEST SENSE will ask.                 *)
Aimed(c, k, asc) ==
  \/ c.phase \in {"status", "msgin"}
  \/ Stale(k) \/ k.reset
  \/ k.lun = GetEffectiveLun(c) /\ (asc = "OTHER" \/ ~HasDeviceForLun(k.lun))

LEMMA AskedKept ==
  ASSUME NEW k, NEW s, AskedOnly(k, s), conn' = k, sense' = s
  PROVE  SenseKept
  BY DEF AskedOnly, SenseKept, Asked, Stale, StaleLun

LEMMA ContinueKept ==
  ASSUME NEW c, NEW k, NEW s, NEW b, Carried(k, s), Continue(c, k, s, b)
  PROVE  SenseKept
  BY AskedKept DEF Carried, Continue

LEMMA ResetKept ==
  ASSUME NEW c, NEW k, NEW s, Carried(k, s), Reset(c, k, s)
  PROVE  SenseKept
<1>1. conn' = [k EXCEPT !.reset = TRUE] /\ k \in Connection
  BY DEF Reset, Continue, Carried
<1>2. conn'.reset
  BY <1>1 DEF Connection
<1> QED
  BY <1>2 DEF SenseKept

LEMMA BusFreeKept ==
  ASSUME NEW c, NEW k, NEW s, Carried(k, s), BusFree(c, k, s)
  PROVE  SenseKept
  BY AskedKept DEF Carried, BusFree

LEMMA EnterKept ==
  ASSUME NEW c, NEW k, NEW s, NEW b, Carried(k, s),
         EnterStatus(c, k, s, b) \/ EnterDataIn(c, k, s, b) \/ EnterDataOut(c, k, s, b)
           \/ EnterMsgIn(c, k, s, b)
  PROVE  SenseKept
  BY ContinueKept DEF EnterStatus, EnterDataIn, EnterDataOut, EnterMsgIn

LEMMA SetSenseCarried ==
  ASSUME NEW c, NEW k, NEW s, NEW asc, Carried(k, s), Aimed(c, k, asc),
         c.phase \notin {"status", "msgin"}
  PROVE  Carried(k, SetSense(c, s, asc))
<1> DEFINE x == ErrorLun(c, asc)
<1>1. s \in [DOMAIN devices -> SenseCodes] /\ "SENSE DATA" \in SenseCodes
  BY DEF Carried, SenseCodes
<1>2. x = Asked(k) \/ Stale(k) \/ k.reset
  BY DEF Aimed, ErrorLun, Asked
<1>3. SetSense(c, s, asc) = [s EXCEPT ![x] = "SENSE DATA"]
  BY DEF SetSense
<1> HIDE DEF x
<1> QED
  BY <1>1, <1>2, <1>3 DEF Carried, AskedOnly

LEMMA ErrorKept ==
  ASSUME NEW c, NEW k, NEW s, NEW b, NEW asc, Carried(k, s), Aimed(c, k, asc),
         Error(c, k, s, b, asc)
  PROVE  SenseKept
<1>1. CASE Reset(c, k, s)
  BY <1>1, ResetKept
<1>2. CASE BusFree(c, k, s)
  BY <1>2, BusFreeKept
<1>3. CASE /\ c.phase \notin {"status", "msgin"}
           /\ Continue(ToStatus(c, "CHECK CONDITION"), k, SetSense(c, s, asc), Drive(b, "status"))
  BY <1>3, SetSenseCarried, ContinueKept
<1> QED
  BY <1>1, <1>2, <1>3 DEF Error

(* The history changes, but neither the LUN nor what was cut or reset.      *)
LEMMA SameCarried ==
  ASSUME NEW k, NEW s, NEW j \in Connection, Carried(k, s),
         j.lun = k.lun, k.cut \subseteq j.cut, k.reset => j.reset
  PROVE  Carried(j, s)
  BY DEF Carried, AskedOnly, Asked, Stale

LEMMA FailureKept ==
  ASSUME NEW c, NEW k, NEW s, NEW b, NEW asc, Carried(k, s), Aimed(c, k, asc),
         Error(c, [k EXCEPT !.failed = TRUE], s, b, asc)
  PROVE  SenseKept
<1> DEFINE j == [k EXCEPT !.failed = TRUE]
<1>1. j \in Connection /\ j.lun = k.lun /\ j.cut = k.cut /\ j.reset = k.reset
  BY DEF Carried, Connection
<1>2. Carried(j, s) /\ Aimed(c, j, asc)
  BY <1>1, SameCarried DEF Aimed, Stale
<1> HIDE DEF j
<1> QED
  BY <1>2, ErrorKept DEF j

LEMMA DispatchKept ==
  ASSUME NEW c, NEW k, NEW s, NEW b, NEW kind, Carried(k, s), Aimed(c, k, "OTHER"),
         Dispatch(c, k, s, b, kind)
  PROVE  SenseKept
<1> DEFINE t == [c EXCEPT !.length = 1, !.next = 1, !.blocks = c.cmd.count]
<1>1. \/ Error(c, [k EXCEPT !.failed = TRUE], s, b, "OTHER")
      \/ \E d : EnterStatus(d, k, s, b) \/ EnterDataIn(d, k, s, b) \/ EnterDataOut(d, k, s, b)
      \/ Continue(c, k, s, b)
  BY DEF Dispatch
<1> QED
  BY <1>1, FailureKept, EnterKept, ContinueKept

LEMMA ReturnSenseKept ==
  ASSUME NEW c, NEW k, NEW s, NEW b, NEW lun, Carried(k, s), Aimed(c, k, "OTHER"),
         ReturnSense(c, k, s, b, lun)
  PROVE  SenseKept
<1>1. \/ Error(c, [k EXCEPT !.failed = TRUE], s, b, "OTHER")
      \/ \E d : EnterStatus(d, k, s, b) \/ EnterDataIn(d, k, s, b) \/ EnterMsgIn(d, k, s, b)
  BY DEF ReturnSense
<1> QED
  BY <1>1, FailureKept, EnterKept

LEMMA RequestSenseKept ==
  ASSUME NEW c, NEW k, NEW s, NEW b, NEW lun, Carried(k, s),
         c \in Controller, c.phase \notin {"status", "msgin"}, k.lun = GetEffectiveLun(c),
         RequestSense(c, k, s, b, lun)
  PROVE  SenseKept
<1>1. CASE HasDeviceForLun(GetEffectiveLun(c))
  <2>1. ReturnSense(c, k, s, b, lun) /\ Aimed(c, k, "OTHER")
    BY <1>1 DEF RequestSense, Aimed
  <2> QED
    BY <2>1, ReturnSenseKept
<1>2. CASE ~HasDeviceForLun(GetEffectiveLun(c))
  <2> DEFINE d == [ToStatus(c, "GOOD") EXCEPT !.length = 0]
             j == [k EXCEPT !.reset = TRUE]
             e == ResetController(c)
             u == SetSense(c, s, "INVALID LUN")
             x == Drive(b, "status")
  <2>1. Carried(k, u)
    BY <1>2, SetSenseCarried DEF Aimed
  <2>2. j \in Connection /\ j.lun = k.lun /\ j.cut = k.cut /\ j.reset
    BY DEF Carried, Connection
  <2>3. Carried(j, s)
    BY <2>2, SameCarried
  <2>4. d.phase = "status"
    BY DEF ToStatus, Controller
  <2>5. Aimed(d, k, "OTHER") /\ Aimed(e, j, "OTHER")
    BY <2>2, <2>4 DEF Aimed
  <2>6. ReturnSense(d, k, u, x, 0) \/ ReturnSense(e, j, s, Idle, 0)
    BY <1>2 DEF RequestSense
  <2> HIDE DEF d, j, e, u, x
  <2>7. CASE ReturnSense(d, k, u, x, 0)
    BY <2>1, <2>5, <2>7, ReturnSenseKept
  <2>8. CASE ReturnSense(e, j, s, Idle, 0)
    BY <2>3, <2>5, <2>8, ReturnSenseKept
  <2> QED
    BY <2>6, <2>7, <2>8
<1> QED
  BY <1>1, <1>2

LEMMA ExecuteKept ==
  ASSUME TypeOK, NEW cdb \in Cdb, NEW c0 \in Controller, NEW b,
         Execute(cdb, c0, conn, sense, b)
  PROVE  SenseKept
<1> DEFINE c == [c0 EXCEPT !.phase = "execute", !.cmd = cdb, !.blocks = 1,
                           !.length = 0,
                           !.status = IF cdb.op = "sense" THEN @ ELSE "GOOD"]
           k == [conn EXCEPT !.lun = GetEffectiveLun(c)]
           lun == IF HasDeviceForLun(GetEffectiveLun(c)) THEN GetEffectiveLun(c) ELSE 0
           s == [sense EXCEPT ![lun] = "NO SENSE"]
<1>0. c \in Controller /\ c.phase = "execute"
  BY Numbers DEF Controller, Phases
<1>1. /\ c \in Controller /\ c.phase = "execute" /\ GetEffectiveLun(c) \in Luns
  BY <1>0, EffectiveLunType
<1>2. k \in Connection /\ k.lun = GetEffectiveLun(c) /\ k.reset = conn.reset /\ k.cut = conn.cut
  BY <1>1 DEF TypeOK, Connection
<1>3. sense \in [DOMAIN devices -> SenseCodes]
  BY DEF TypeOK
<1>4. Carried(k, sense)
  BY <1>2, <1>3 DEF Carried, AskedOnly
<1>5. lun = Asked(k)
  BY <1>2 DEF Asked
<1>6. \/ ~HasDeviceForLun(GetEffectiveLun(c)) /\ Error(c, [k EXCEPT !.failed = TRUE], sense, b, "INVALID LUN")
      \/ RequestSense(c, k, sense, b, lun)
      \/ Dispatch(c, k, s, b, devices[lun])
  BY DEF Execute
<1> HIDE DEF c, k, lun
<1>7. Carried(k, s)
  BY <1>2, <1>3, <1>5 DEF Carried, AskedOnly, SenseCodes
<1>8. Aimed(c, k, "OTHER") /\ (~HasDeviceForLun(GetEffectiveLun(c)) => Aimed(c, k, "INVALID LUN"))
  BY <1>2 DEF Aimed
<1>9. c.phase \notin {"status", "msgin"}
  BY <1>1
<1> HIDE DEF s
<1>10. CASE ~HasDeviceForLun(GetEffectiveLun(c)) /\ Error(c, [k EXCEPT !.failed = TRUE], sense, b, "INVALID LUN")
  BY <1>4, <1>8, <1>10, FailureKept
<1>11. CASE RequestSense(c, k, sense, b, lun)
  BY <1>1, <1>2, <1>4, <1>9, <1>11, RequestSenseKept
<1>12. CASE Dispatch(c, k, s, b, devices[lun])
  BY <1>7, <1>8, <1>12, DispatchKept
<1> QED
  BY <1>6, <1>10, <1>11, <1>12

LEMMA StartCarried ==
  ASSUME TypeOK, NEW k \in Connection
  PROVE  Carried(k, sense)
  BY DEF Carried, AskedOnly, TypeOK

LEMMA CommandKept ==
  ASSUME TypeOK, NEW c0 \in Controller, NEW b, Command(c0, conn, sense, b)
  PROVE  SenseKept
<1> DEFINE c == [c0 EXCEPT !.phase = "command", !.length = 1, !.blocks = 1]
           lines == Drive(b, "command")
<1>1. c \in Controller
  BY Numbers DEF Controller, Phases
<1>2. PICK cdb \in Cdb :
        \/ Execute(cdb, c, conn, sense, lines)
        \/ Error(c, [conn EXCEPT !.cut = @ \cup {"command"},
                                 !.lun = IF c.identified_lun # None
                                         THEN c.identified_lun ELSE cdb.lun],
                 sense, lines, "OTHER")
  BY DEF Command
<1> HIDE DEF c, lines
<1>3. CASE Execute(cdb, c, conn, sense, lines)
  BY <1>1, <1>3, ExecuteKept
<1>4. CASE Error(c, [conn EXCEPT !.cut = @ \cup {"command"},
                                !.lun = IF c.identified_lun # None
                                        THEN c.identified_lun ELSE cdb.lun],
                 sense, lines, "OTHER")
  <2> DEFINE j == [conn EXCEPT !.cut = @ \cup {"command"},
                               !.lun = IF c.identified_lun # None
                                       THEN c.identified_lun ELSE cdb.lun]
  <2>1. (IF c.identified_lun # None THEN c.identified_lun ELSE cdb.lun) \in Luns
    BY <1>1 DEF Controller, Cdb
  <2>2. j \in Connection /\ "command" \in j.cut
    BY <2>1 DEF TypeOK, Connection, Phases
  <2> HIDE DEF j
  <2>3. Carried(j, sense) /\ Aimed(c, j, "OTHER")
    BY <2>2, StartCarried DEF Aimed, Stale
  <2> QED
    BY <1>4, <2>3, ErrorKept DEF j
<1> QED
  BY <1>2, <1>3, <1>4

(* The steps of Process.                                                    *)
LEMMA SelectionKept == ASSUME TypeOK, Selection PROVE SenseKept
<1>1. Carried(conn, sense) /\ ctrl \in Controller
  BY StartCarried DEF TypeOK
<1>2. (\E c, b : Continue(c, conn, sense, b)) \/ Command(ctrl, conn, sense, bus)
  BY DEF Selection
<1> QED
  BY <1>1, <1>2, ContinueKept, CommandKept

LEMMA MsgOutKept == ASSUME TypeOK, MsgOut PROVE SenseKept
<1>1. Carried(conn, sense) /\ ctrl \in Controller /\ conn \in Connection
  BY StartCarried DEF TypeOK
<1>2. CASE Error(ctrl, [conn EXCEPT !.cut = @ \cup {"msgout"}], sense, bus, "OTHER")
  <2> DEFINE j == [conn EXCEPT !.cut = @ \cup {"msgout"}]
  <2>1. j \in Connection /\ "msgout" \in j.cut
    BY <1>1 DEF Connection, Phases
  <2> HIDE DEF j
  <2>2. Carried(j, sense) /\ Aimed(ctrl, j, "OTHER")
    BY <2>1, StartCarried DEF Aimed, Stale
  <2> QED
    BY <1>2, <2>2, ErrorKept DEF j
<1>3. ASSUME NEW m \in Messages, MessageReceived(m)
      PROVE  SenseKept
  <2> DEFINE c == [ctrl EXCEPT !.msb = NoMessages, !.identified_lun = Identified(XferMsg(m))]
             d == [c EXCEPT !.atnmsg = FALSE]
             j == [conn EXCEPT !.aborted = TRUE]
  <2>1. d \in Controller
    <3>1. XferMsg(m) \in MessageBuffer
      BY <1>1, XferMsgType
    <3>2. Identified(XferMsg(m)) \in Luns \cup {None} /\ NoMessages \in MessageBuffer
      BY <1>1, <3>1, NoMessagesType DEF Identified, MessageBuffer, Controller
    <3> QED
      BY <1>1, <3>2 DEF Controller
  <2>2. j \in Connection
    BY <1>1 DEF Connection
  <2>3. \/ \E x : Continue(x, conn, sense, bus)
        \/ Command(d, conn, sense, bus)
        \/ EnterMsgIn(c, conn, sense, bus)
        \/ BusFree(c, j, sense)
    BY <1>3 DEF MessageReceived
  <2> HIDE DEF c, d, j
  <2> QED
    BY <1>1, <2>1, <2>2, <2>3, StartCarried, ContinueKept, CommandKept, EnterKept, BusFreeKept
<1> QED
  BY <1>1, <1>2, <1>3, ContinueKept DEF MsgOut

LEMMA StatusKept == ASSUME TypeOK, Status PROVE SenseKept
<1> DEFINE j == [conn EXCEPT !.cut = @ \cup {ctrl.phase}]
           k == [conn EXCEPT !.status = ctrl.status]
<1>1. conn \in Connection /\ ctrl \in Controller /\ ctrl.phase = "status"
  BY DEF TypeOK, Status
<1>2. j \in Connection /\ k \in Connection
  BY <1>1 DEF Connection, Controller
<1>3. (\E c : Continue(c, k, sense, bus)) \/ Error(ctrl, j, sense, bus, "OTHER")
      \/ EnterMsgIn(ctrl, conn, sense, bus)
  BY DEF Status, Handshake
<1> HIDE DEF j, k
<1>4. Aimed(ctrl, j, "OTHER")
  BY <1>1 DEF Aimed
<1> QED
  BY <1>1, <1>2, <1>3, <1>4, StartCarried, ContinueKept, ErrorKept, EnterKept

LEMMA MsgInKept == ASSUME TypeOK, MsgIn PROVE SenseKept
<1> DEFINE j == [conn EXCEPT !.cut = @ \cup {ctrl.phase}]
           k == [conn EXCEPT !.complete = ~ctrl.atnmsg]
           c == [ctrl EXCEPT !.atnmsg = FALSE]
<1>1. conn \in Connection /\ ctrl \in Controller /\ ctrl.phase = "msgin"
  BY DEF TypeOK, MsgIn
<1>2. j \in Connection /\ k \in Connection /\ c \in Controller
  BY <1>1 DEF Connection, Controller
<1>3. \/ \E x : Continue(x, k, sense, bus)
      \/ Error(ctrl, j, sense, bus, "OTHER")
      \/ Command(c, conn, sense, bus)
      \/ BusFree(ctrl, conn, sense)
  BY DEF MsgIn, Handshake
<1> HIDE DEF j, k, c
<1>4. Aimed(ctrl, j, "OTHER")
  BY <1>1 DEF Aimed
<1> QED
  BY <1>1, <1>2, <1>3, <1>4, StartCarried, ContinueKept, ErrorKept, CommandKept, BusFreeKept

(* In the transfer phases the connection is that of the command (Working).  *)
LEMMA TransferAimed ==
  ASSUME TypeOK, ReportInv, ctrl.phase \in {"datain", "dataout"}, NEW c,
         c.cmd = ctrl.cmd, c.identified_lun = ctrl.identified_lun,
         NEW k \in Connection, k.lun = conn.lun, k.reset = conn.reset
  PROVE  Carried(k, sense) /\ Aimed(c, k, "OTHER")
<1>1. conn.reset \/ conn.lun = GetEffectiveLun(ctrl)
  BY DEF ReportInv, Report, Transferring, Working
<1>2. GetEffectiveLun(c) = GetEffectiveLun(ctrl)
  BY DEF GetEffectiveLun
<1> QED
  BY <1>1, <1>2, StartCarried DEF Aimed

LEMMA DataInKept == ASSUME TypeOK, ReportInv, DataIn PROVE SenseKept
<1> DEFINE c == [ctrl EXCEPT !.blocks = Decrement(@)]
           j == [conn EXCEPT !.cut = @ \cup {ctrl.phase}]
           k == [conn EXCEPT !.failed = TRUE]
           m == [conn EXCEPT !.moved = IF ctrl.cmd.op = "read" /\ ctrl.next > 0
                                       THEN Append(@, ctrl.next - 1) ELSE @]
<1>1. conn \in Connection /\ ctrl \in Controller /\ ctrl.phase = "datain"
  BY DEF TypeOK, DataIn
<1>2. m \in Connection
  <2>1. CASE ctrl.next > 0
    <3>1. ctrl.next \in Nat
      BY <1>1 DEF Controller
    <3>2. ctrl.next - 1 \in Nat
      BY <2>1, <3>1
    <3>3. [conn EXCEPT !.moved = Append(@, ctrl.next - 1)] \in Connection
      BY <1>1, <3>2, MovedType
    <3> QED
      BY <1>1, <2>1, <3>3 DEF Connection
  <2>2. CASE ~(ctrl.next > 0)
    BY <1>1, <2>2 DEF Connection
  <2> QED
    BY <2>1, <2>2
<1>3. /\ j \in Connection /\ j.lun = conn.lun /\ j.reset = conn.reset
      /\ k \in Connection /\ k.lun = conn.lun /\ k.reset = conn.reset
      /\ c.cmd = ctrl.cmd /\ c.identified_lun = ctrl.identified_lun
  BY <1>1 DEF Connection, Controller
<1>4. \/ \E x : Continue(x, m, sense, bus)
      \/ Error(ctrl, j, sense, bus, "OTHER")
      \/ EnterStatus(c, conn, sense, bus)
      \/ Continue(NextBlock(c), conn, sense, bus)
      \/ Error(c, k, sense, bus, "OTHER")
  BY DEF DataIn, Handshake
<1> HIDE DEF c, j, k, m
<1>5. Carried(j, sense) /\ Aimed(ctrl, j, "OTHER") /\ Carried(k, sense) /\ Aimed(c, k, "OTHER")
  BY <1>1, <1>3, TransferAimed
<1> QED
  BY <1>1, <1>2, <1>4, <1>5, StartCarried, ContinueKept, ErrorKept, EnterKept

LEMMA ErrorTwiceKept ==
  ASSUME NEW c \in Controller, NEW k, NEW s, NEW b, Carried(k, s), Aimed(c, k, "OTHER"),
         c.phase = "dataout", ErrorTwice(c, k, s, b)
  PROVE  SenseKept
<1> DEFINE d == ToStatus(c, "CHECK CONDITION")
           j == [k EXCEPT !.reset = TRUE]
           e == ResetController(c)
           u == SetSense(c, s, "OTHER")
<1>1. Carried(k, u)
  BY SetSenseCarried
<1>2. j \in Connection /\ j.lun = k.lun /\ j.cut = k.cut /\ j.reset
  BY DEF Carried, Connection
<1>3. Carried(j, s)
  BY <1>2, SameCarried
<1>4. d.phase = "status"
  BY DEF ToStatus, Controller
<1>5. Aimed(d, k, "OTHER") /\ Aimed(e, j, "OTHER")
  BY <1>2, <1>4 DEF Aimed
<1>6. Error(d, k, u, Drive(b, "status"), "OTHER") \/ Error(e, j, s, Idle, "OTHER")
  BY DEF ErrorTwice
<1> HIDE DEF d, j, e, u
<1> QED
  BY <1>1, <1>3, <1>5, <1>6, ErrorKept

LEMMA DataOutKept == ASSUME TypeOK, ReportInv, DataOut PROVE SenseKept
<1> DEFINE c == [ctrl EXCEPT !.blocks = Decrement(@)]
           d == [ctrl EXCEPT !.is_byte_transfer = FALSE]
           n == [c EXCEPT !.next = @ + 1]
           j == [conn EXCEPT !.cut = @ \cup {ctrl.phase}]
           k == [conn EXCEPT !.failed = TRUE]
           w == [conn EXCEPT !.moved = Append(@, c.next - 1)]
           v == [w EXCEPT !.failed = TRUE]
           l == [conn EXCEPT !.failed = TRUE, !.lost = TRUE]
<1>1. conn \in Connection /\ ctrl \in Controller /\ ctrl.phase = "dataout"
  BY DEF TypeOK, DataOut
<1>2. /\ c \in Controller /\ c.phase = "dataout" /\ c.next = ctrl.next
      /\ c.cmd = ctrl.cmd /\ c.identified_lun = ctrl.identified_lun
      /\ n.cmd = ctrl.cmd /\ n.identified_lun = ctrl.identified_lun
      /\ d.cmd = ctrl.cmd /\ d.identified_lun = ctrl.identified_lun
  BY <1>1, DecrementedType DEF Controller
<1>3. /\ j \in Connection /\ j.lun = conn.lun /\ j.reset = conn.reset
      /\ k \in Connection /\ k.lun = conn.lun /\ k.reset = conn.reset
      /\ l \in Connection /\ l.lun = conn.lun /\ l.reset = conn.reset
  BY <1>1 DEF Connection, Controller
<1>4. c.next > 0 =>
        /\ w \in Connection /\ v \in Connection
        /\ v.lun = conn.lun /\ v.reset = conn.reset
  <2> SUFFICES ASSUME c.next > 0
               PROVE  /\ w \in Connection /\ v \in Connection
                      /\ v.lun = conn.lun /\ v.reset = conn.reset
    OBVIOUS
  <2>1. ctrl.next \in Nat
    BY <1>1 DEF Controller
  <2>2. c.next - 1 \in Nat
    <3> HIDE DEF c
    <3> QED
      BY <1>2, <2>1
  <2> HIDE DEF c
  <2>3. w \in Connection /\ w.lun = conn.lun /\ w.reset = conn.reset
    <3>1. w \in Connection
      BY <1>1, <2>2, MovedType
    <3> QED
      BY <1>1, <3>1 DEF Connection
  <2> HIDE DEF w
  <2> QED
    BY <2>3 DEF Connection
<1>5. \/ \E x : Continue(x, conn, sense, bus) \/ EnterStatus(x, conn, sense, bus)
      \/ Error(ctrl, j, sense, bus, "OTHER")
      \/ Error(d, k, sense, bus, "OTHER")
      \/ Error(c, k, sense, bus, "OTHER")
      \/ ErrorTwice(c, l, sense, bus)
      \/ c.next > 0 /\ \E x : Continue(x, w, sense, bus) \/ EnterStatus(x, w, sense, bus)
      \/ c.next > 0 /\ Error(n, v, sense, bus, "OTHER")
  <2>1. CASE Handshake(conn)
    BY <2>1 DEF Handshake
  <2>2. CASE XferOut(c)
    BY <2>2 DEF XferOut
  <2>3. CASE XferBytes(d)
    BY <2>3 DEF XferBytes
  <2> QED
    BY <2>1, <2>2, <2>3 DEF DataOut
<1> HIDE DEF c, d, n, j, k, w, v, l
<1>6. /\ Carried(j, sense) /\ Aimed(ctrl, j, "OTHER")
      /\ Carried(k, sense) /\ Aimed(c, k, "OTHER") /\ Aimed(d, k, "OTHER")
      /\ Carried(l, sense) /\ Aimed(c, l, "OTHER")
      /\ c.next > 0 => Carried(w, sense) /\ Carried(v, sense) /\ Aimed(n, v, "OTHER")
  BY <1>1, <1>2, <1>3, <1>4, TransferAimed, StartCarried
<1>7. Carried(conn, sense)
  BY <1>1, StartCarried
<1> QED
  BY <1>2, <1>5, <1>6, <1>7, ContinueKept, EnterKept, ErrorKept, ErrorTwiceKept

(* A command changes the sense data of no device but the one it is for, or  *)
(* LUN 0 for a missing LUN: the LUN of the connection is the one that       *)
(* Error chooses (ScsiController::Error and Execute).                       *)
THEOREM SenseStaysLocal == Spec => SenseIsLocal
<1>1. TypeOK /\ ReportInv /\ [Next]_vars => [SenseKept]_vars
  <2> SUFFICES ASSUME TypeOK, ReportInv, Next PROVE SenseKept
    OBVIOUS
  <2>1. CASE Process
    BY <2>1, SelectionKept, MsgOutKept, DataInKept, DataOutKept, StatusKept, MsgInKept DEF Process
  <2>2. CASE ResetSeen
    BY <2>2, ResetKept, StartCarried DEF ResetSeen, TypeOK
  <2>3. CASE Select \/ DropAtn
    BY <2>3 DEF Select, DropAtn, SenseKept
  <2> QED
    BY <2>1, <2>2, <2>3 DEF Next
<1>2. SenseIsLocal <=> [][SenseKept]_vars
  BY DEF SenseIsLocal, SenseKept
<1> QED
  BY <1>1, <1>2, TypeCorrect, ReportCorrect, PTL DEF Spec

=============================================================================

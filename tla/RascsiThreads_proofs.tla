------------------------ MODULE RascsiThreads_proofs ------------------------
(***************************************************************************)
(* Proofs about RascsiThreads, for any IDs, LUNs, commands and signals.    *)
(***************************************************************************)
EXTENDS RascsiThreads, TLAPS

(* The mutex is held exactly in the critical sections.                      *)
LockInv ==
  /\ mutex = "main" <=> main \in {"identify", "select", "activate", "process", "leave"}
  /\ mutex = "monitor" <=> monitor = "change"

(* The main loop knows the ID it was selected with, and a controller that   *)
(* was not deleted is in the map, with a LUN once it was selected.          *)
TargetInv ==
  /\ main \in {"lock", "identify", "select", "activate", "process"} => target \in Ids
  /\ HasController /\ ~dangling => target \in controllers \ deleted
  /\ main \in {"activate", "process"} /\ ~dangling => luns[target] # {}

(* Up to its execution a command is at its first definition. What Attach    *)
(* and Detach have checked still holds when they have got the lock.         *)
CommandInv ==
  /\ monitor \in {"accept", "wait", "check"} => next = 1
  /\ monitor \in {"wait", "check", "execute", "lock", "change"} => command \in Commands
  /\ alive /\ monitor \in {"lock", "change"} =>
       next <= Len(command.places) /\ Accepted(Place)

LunZeroInv ==
  \A i \in Ids : luns[i] # {} => 0 \in luns[i] \/ i \in unfinished

ThreadsInv == TypeOK /\ LockInv /\ TargetInv /\ CommandInv /\ LunZeroInv

LEMMA CommandFields ==
  ASSUME NEW c \in Commands \cup {NoCommand}
  PROVE  /\ c.places \in Seq(Places) /\ Len(c.places) \in Nat
         /\ c.op \in {"ATTACH", "DETACH", "DETACH_ALL", "none"}
<1>1. CASE c \in Commands
  <2>1. c.places \in Seq(Places) /\ c.op \in {"ATTACH", "DETACH", "DETACH_ALL"}
    BY <1>1, ThreadsAssumption
  <2> HIDE DEF Places
  <2> QED
    BY <2>1
<1>2. CASE c = NoCommand
  BY <1>2 DEF NoCommand
<1> QED
  BY <1>1, <1>2

LEMMA InvInit == Init => ThreadsInv
<1> SUFFICES ASSUME Init PROVE ThreadsInv
  OBVIOUS
<1>1. TypeOK
  <2>1. Len(NoCommand.places) = 0
    BY DEF NoCommand
  <2>2. next \in 1..(Len(command.places) + 1)
    BY <2>1 DEF Init
  <2>3. luns \in [Ids -> SUBSET Luns]
    BY DEF Init
  <2> QED
    BY <2>2, <2>3 DEF Init, TypeOK, Threads
<1>2. LockInv /\ TargetInv
  BY DEF Init, LockInv, TargetInv, HasController
<1>3. CommandInv
  BY DEF Init, CommandInv
<1>4. LunZeroInv
  BY DEF Init, LunZeroInv
<1> QED
  BY <1>1, <1>2, <1>3, <1>4 DEF ThreadsInv

-----------------------------------------------------------------------------
(* The main loop. Its steps leave the devices and the command alone.        *)

LEMMA MainLoopInv ==
  ASSUME ThreadsInv, MainLoop
  PROVE  ThreadsInv'
<1> DEFINE Rest == <<monitor, command, next, running, handler, alive,
                     controllers, luns, deleted, unfinished>>
<1>1. UNCHANGED Rest
  BY DEF MainLoop, monitorVars, processVars, deviceVars, Loop, PollSelectEvent, Lock,
         IdentifyController, Select, Activate, Process, Leave, Deactivate
<1>2. CommandInv' /\ LunZeroInv'
  BY <1>1 DEF ThreadsInv, CommandInv, LunZeroInv, Accepted, Place, Attached,
              LunZeroDetachable
<1>3. TypeOK'
  <2> USE DEF MainLoop, Loop, PollSelectEvent, Lock, IdentifyController, Select,
              Activate, Process, Leave, Deactivate
  <2>1. dangling' \in BOOLEAN
    <3>1. CASE IdentifyController
      <4>1. dangling' = (target \in deleted)
        BY <3>1
      <4> HIDE DEF IdentifyController
      <4> QED
        BY <4>1
    <3>2. CASE ~IdentifyController
      BY <3>2 DEF ThreadsInv, TypeOK
    <3> QED
      BY <3>1, <3>2
  <2>2. target' \in Ids \cup {NoId}
    BY DEF ThreadsInv, TypeOK
  <2>5. main' \in {"loop", "poll", "lock", "identify", "select", "activate",
                   "process", "leave", "deactivate", "end"}
    OBVIOUS
  <2>3. mutex' \in Threads \cup {"nobody"} /\ active' \in BOOLEAN
    BY DEF ThreadsInv, TypeOK, Threads
  <2>4. TypeOK => TypeOK'
    <3> HIDE DEF MainLoop
    <3> QED
      BY <1>1, <2>1, <2>2, <2>3, <2>5 DEF TypeOK
  <2> QED
    BY <2>4 DEF ThreadsInv
<1>4. LockInv' /\ TargetInv'
  <2> USE <1>1 DEF ThreadsInv, TypeOK, LockInv, TargetInv, HasController
  <2>1. CASE Loop
    BY <2>1 DEF Loop
  <2>2. CASE PollSelectEvent
    BY <2>2 DEF PollSelectEvent
  <2>3. CASE Lock
    BY <2>3 DEF Lock
  <2>4. CASE IdentifyController
    BY <2>4 DEF IdentifyController
  <2>5. CASE Select
    BY <2>5 DEF Select
  <2>6. CASE Activate
    BY <2>6 DEF Activate
  <2>7. CASE Process
    BY <2>7 DEF Process
  <2>8. CASE Leave
    BY <2>8 DEF Leave
  <2>9. CASE Deactivate
    BY <2>9 DEF Deactivate
  <2> QED
    BY <2>1, <2>2, <2>3, <2>4, <2>5, <2>6, <2>7, <2>8, <2>9 DEF MainLoop
<1> QED
  BY <1>2, <1>3, <1>4 DEF ThreadsInv

-----------------------------------------------------------------------------
(* The monitor thread                                                       *)

(* The steps before the lock change neither devices nor the main loop.      *)
LEMMA PreparingInv ==
  ASSUME ThreadsInv, MonThread,
         Receive \/ WaitUntilIdle \/ Check \/ Execute
  PROVE  ThreadsInv'
<1>1. UNCHANGED <<main, target, dangling, active, running, handler, alive,
                  controllers, luns, deleted, unfinished, mutex>>
  BY DEF MonThread, processVars, deviceVars, Receive, WaitUntilIdle, Check, Execute
<1>2. /\ monitor \in {"accept", "wait", "check", "execute"}
      /\ monitor' \in {"accept", "wait", "delete", "check", "execute", "lock"}
  BY DEF Receive, WaitUntilIdle, Check, Execute, Reply
<1>3. LockInv' /\ TargetInv' /\ LunZeroInv'
  BY <1>1, <1>2 DEF ThreadsInv, LockInv, TargetInv, HasController, LunZeroInv
<1>4. /\ command' \in Commands \cup {NoCommand}
      /\ next' \in 1..(Len(command'.places) + 1)
  <2>1. CASE Receive
    BY <2>1, CommandFields DEF Receive, ThreadsInv, CommandInv
  <2>2. CASE UNCHANGED <<command, next>>
    BY <2>2 DEF ThreadsInv, TypeOK
  <2>3. CASE Reply
    BY <2>3 DEF Reply, NoCommand
  <2> QED
    BY <2>1, <2>2, <2>3 DEF WaitUntilIdle, Check, Execute
<1>5. TypeOK'
  BY <1>1, <1>2, <1>4 DEF ThreadsInv, TypeOK
<1>6. CommandInv'
  <2> USE <1>1 DEF ThreadsInv, CommandInv
  <2>1. CASE Receive
    BY <2>1 DEF Receive
  <2>2. CASE WaitUntilIdle
    BY <2>2 DEF WaitUntilIdle
  <2>3. CASE Check
    BY <2>3 DEF Check, Reply
  <2>4. CASE Execute
    <3>1. CASE Reply
      BY <3>1 DEF Reply
    <3>2. CASE ~Reply
      <4>1. /\ next <= Len(command.places) /\ Accepted(Place)
            /\ monitor' = "lock"
            /\ UNCHANGED <<command, next, luns>>
        BY <1>1, <2>4, <3>2 DEF Execute
      <4>2. Accepted(Place)'
        BY <4>1 DEF Accepted, Place, Attached, LunZeroDetachable
      <4> QED
        BY <2>4, <4>1, <4>2 DEF Execute
    <3> QED
      BY <3>1, <3>2
  <2> QED
    BY <2>1, <2>2, <2>3, <2>4
<1> QED
  BY <1>3, <1>5, <1>6 DEF ThreadsInv

LEMMA MonitorLockInv ==
  ASSUME ThreadsInv, MonThread, MonitorLock
  PROVE  ThreadsInv'
<1>1. UNCHANGED <<main, target, dangling, active, running, handler, alive, command,
                  next, controllers, luns, deleted, unfinished>>
  BY DEF MonThread, processVars, deviceVars, MonitorLock
<1>2. /\ monitor = "lock" /\ monitor' = "change"
      /\ mutex = "nobody" /\ mutex' = "monitor"
  BY DEF MonitorLock
<1>3. LockInv' /\ TargetInv' /\ LunZeroInv'
  BY <1>1, <1>2 DEF ThreadsInv, LockInv, TargetInv, HasController, LunZeroInv
<1>4. TypeOK'
  BY <1>1, <1>2 DEF ThreadsInv, TypeOK, Threads
<1>5. CommandInv'
  BY <1>1, <1>2 DEF ThreadsInv, CommandInv, Accepted, Place, Attached, LunZeroDetachable
<1> QED
  BY <1>3, <1>4, <1>5 DEF ThreadsInv

(* The main loop has no controller here: the monitor thread holds the       *)
(* mutex.                                                                   *)
LEMMA ChangeInv ==
  ASSUME ThreadsInv, MonThread, Change
  PROVE  ThreadsInv'
<1> DEFINE attach == command.op = "ATTACH"
           left == IF attach THEN luns[Id] \cup {Lun} ELSE luns[Id] \ {Lun}
<1>1. UNCHANGED <<main, target, dangling, active, running, handler, alive, command,
                  deleted>>
  BY DEF MonThread, processVars, Change
<1>2. /\ monitor = "change" /\ monitor' = "execute"
      /\ mutex = "monitor" /\ mutex' = "nobody" /\ next' = next + 1
      /\ alive
  BY DEF Change, ThreadsInv, LockInv, MonThread, Runs
<1>3. /\ controllers' = IF attach THEN controllers \cup {Id} ELSE controllers
      /\ luns' = [luns EXCEPT ![Id] = left]
      /\ unfinished' = IF attach /\ 0 \notin left THEN unfinished \cup {Id}
                       ELSE IF 0 \in left \/ left = {} THEN unfinished \ {Id}
                       ELSE unfinished
  BY DEF Change
<1>4. ~HasController /\ main \notin {"identify", "select", "activate", "process", "leave"}
  BY <1>2 DEF ThreadsInv, LockInv, HasController
<1>5. /\ command \in Commands /\ next <= Len(command.places) /\ Accepted(Place)
      /\ Id \in Ids /\ Lun \in Luns /\ Place = <<Id, Lun>>
  <2>1. command \in Commands /\ next <= Len(command.places) /\ Accepted(Place)
    BY <1>2 DEF ThreadsInv, CommandInv
  <2>2. Place \in Places
    <3>1. command.places \in Seq(Places) /\ next \in 1..Len(command.places)
      <4> HIDE DEF Places
      <4> QED
        BY <2>1, CommandFields DEF ThreadsInv, TypeOK
    <3> HIDE DEF Places
    <3> QED
      BY <3>1 DEF Place
  <2> QED
    BY <2>1, <2>2 DEF Places, Id, Lun
<1>6. LockInv' /\ TargetInv'
  BY <1>1, <1>2, <1>4 DEF ThreadsInv, LockInv, TargetInv, HasController
<1>7. CommandInv'
  BY <1>1, <1>2, <1>5 DEF CommandInv
<1>8. luns \in [Ids -> SUBSET Luns] /\ left \subseteq Luns
  BY <1>5 DEF ThreadsInv, TypeOK
<1>9. TypeOK'
  <2>1. controllers' \subseteq Ids /\ deleted' \subseteq controllers'
    BY <1>1, <1>3, <1>5 DEF ThreadsInv, TypeOK
  <2>2. luns' \in [Ids -> SUBSET Luns]
    <3> HIDE DEF left
    <3> QED
      BY <1>3, <1>5, <1>8
  <2>3. unfinished' \subseteq Ids
    <3> HIDE DEF left, attach
    <3> QED
      BY <1>3, <1>5 DEF ThreadsInv, TypeOK
  <2>4. next' \in 1..(Len(command'.places) + 1)
    <3>1. Len(command.places) \in Nat
      BY <1>5, CommandFields
    <3> QED
      BY <1>1, <1>2, <1>5, <3>1 DEF ThreadsInv, TypeOK
  <2> QED
    BY <1>1, <1>2, <2>1, <2>2, <2>3, <2>4 DEF ThreadsInv, TypeOK
(* A LUN 0 that goes is the last; one that comes ends the unfinished state. *)
<1>10. LunZeroInv'
  <2> SUFFICES ASSUME NEW i \in Ids, luns'[i] # {}, 0 \notin luns'[i]
               PROVE  i \in unfinished'
    BY DEF LunZeroInv
  <2>1. CASE i # Id
    <3>1. luns'[i] = luns[i]
      BY <1>3, <1>5, <1>8, <2>1
    <3>2. i \in unfinished
      BY <3>1 DEF ThreadsInv, LunZeroInv
    <3> HIDE DEF left, attach
    <3> QED
      BY <1>3, <2>1, <3>2
  <2>2. CASE i = Id
    <3>1. luns'[i] = left
      <4> HIDE DEF left
      <4> QED
        BY <1>3, <1>5, <1>8, <2>2
    <3>2. CASE attach
      <4> HIDE DEF left, attach
      <4> QED
        BY <1>3, <2>2, <3>1, <3>2
    <3>3. CASE ~attach
      <4>1. Lun = 0 => luns[Id] = {0}
        BY <1>5, <3>3 DEF Accepted, LunZeroDetachable
      <4>2. 0 \notin luns[Id] /\ luns[Id] # {}
        BY <3>1, <3>3, <4>1
      <4>3. Id \in unfinished
        BY <1>5, <4>2 DEF ThreadsInv, LunZeroInv
      <4> HIDE DEF left, attach
      <4> QED
        BY <1>3, <2>2, <3>1, <3>3, <4>3
    <3> QED
      BY <3>2, <3>3
  <2> QED
    BY <2>1, <2>2
<1> QED
  BY <1>6, <1>7, <1>9, <1>10 DEF ThreadsInv

-----------------------------------------------------------------------------
(* DeleteAllControllersAndDevices, by whichever thread, and the signals     *)

(* Whoever has its controller deleted knows it as dangling.                 *)
LEMMA DeleteControllerInv ==
  ASSUME ThreadsInv, DeleteController,
         UNCHANGED <<main, target, active, running, handler, alive>>
  PROVE  ThreadsInv'
<1>1. UNCHANGED <<monitor, command, next, controllers, luns, unfinished, mutex>>
  BY DEF DeleteController, monitorVars
<1>2. PICK i \in controllers \ deleted :
        /\ deleted' = deleted \cup {i}
        /\ dangling' = (dangling \/ (HasController /\ target = i))
  BY DEF DeleteController
<1>3. dangling' \in BOOLEAN
  BY <1>2
<1>4. TypeOK'
  BY <1>1, <1>2, <1>3 DEF ThreadsInv, TypeOK
<1>5. TargetInv'
  BY <1>1, <1>2 DEF ThreadsInv, TargetInv, HasController
<1>6. LockInv' /\ CommandInv' /\ LunZeroInv'
  BY <1>1 DEF ThreadsInv, LockInv, CommandInv, LunZeroInv, Accepted, Place, Attached,
              LunZeroDetachable
<1> QED
  BY <1>4, <1>5, <1>6 DEF ThreadsInv

(* No controller is left that could be served and is not dangling.          *)
LEMMA ClearInv ==
  ASSUME ThreadsInv, Clear,
         UNCHANGED <<main, target, active, running, handler>>,
         \/ monitor = "delete" /\ Reply /\ UNCHANGED alive
         \/ alive' = FALSE /\ UNCHANGED <<monitor, command, next>>
  PROVE  ThreadsInv'
<1>1. /\ controllers = deleted
      /\ controllers' = {} /\ deleted' = {} /\ unfinished' = {}
      /\ luns' = [i \in Ids |-> {}]
      /\ UNCHANGED <<dangling, mutex>>
  BY DEF Clear
<1>2. HasController => dangling
  BY <1>1 DEF ThreadsInv, TargetInv
<1>3. TargetInv'
  BY <1>1, <1>2 DEF ThreadsInv, TargetInv, HasController
<1>4. LunZeroInv'
  BY <1>1 DEF LunZeroInv
<1>5. CASE monitor = "delete" /\ Reply /\ UNCHANGED alive
  <2>1. TypeOK'
    BY <1>1, <1>5 DEF ThreadsInv, TypeOK, Reply, NoCommand
  <2>2. LockInv' /\ CommandInv'
    BY <1>1, <1>5 DEF ThreadsInv, LockInv, CommandInv, Reply
  <2> QED
    BY <1>3, <1>4, <2>1, <2>2 DEF ThreadsInv
<1>6. CASE alive' = FALSE /\ UNCHANGED <<monitor, command, next>>
  <2>1. TypeOK'
    <3>1. luns' \in [Ids -> SUBSET Luns]
      BY <1>1
    <3>2. alive' \in BOOLEAN
      BY <1>6
    <3> QED
      BY <1>1, <1>6, <3>1, <3>2 DEF ThreadsInv, TypeOK
  <2>2. LockInv' /\ CommandInv'
    BY <1>1, <1>6 DEF ThreadsInv, LockInv, CommandInv
  <2> QED
    BY <1>3, <1>4, <2>1, <2>2 DEF ThreadsInv
<1> QED
  BY <1>5, <1>6

(* Signals, and the end of the process, leave the devices alone.            *)
LEMMA SignalInv ==
  ASSUME ThreadsInv,
         \/ \E t \in Threads : KillHandler(t) \/ Terminate(t)
         \/ End \/ Crash
  PROVE  ThreadsInv'
<1>1. UNCHANGED <<target, dangling, active, monitor, command, next, controllers, luns,
                  deleted, unfinished, mutex>>
  BY DEF KillHandler, Terminate, End, Crash, mainVars, monitorVars, deviceVars
<1>2. /\ main' = main \/ (main = "poll" /\ main' = "end")
      /\ running' \in BOOLEAN /\ handler' \in Threads \cup {"nobody"}
      /\ alive' \in BOOLEAN /\ (alive' => alive)
  <2> USE DEF mainVars, ThreadsInv, TypeOK
  <2>1. CASE \E t \in Threads : KillHandler(t) \/ Terminate(t)
    <3>1. PICK t \in Threads : KillHandler(t) \/ Terminate(t)
      BY <2>1
    <3>2. CASE KillHandler(t)
      BY <3>2 DEF KillHandler
    <3>3. CASE Terminate(t)
      BY <3>3 DEF Terminate
    <3> QED
      BY <3>1, <3>2, <3>3
  <2>2. CASE End \/ Crash
    BY <2>2 DEF End, Crash
  <2> QED
    BY <2>1, <2>2
<1>3. TypeOK'
  <2>1. main' \in {"loop", "poll", "lock", "identify", "select", "activate",
                   "process", "leave", "deactivate", "end"}
    BY <1>2 DEF ThreadsInv, TypeOK
  <2>2. running' \in BOOLEAN /\ alive' \in BOOLEAN /\ handler' \in Threads \cup {"nobody"}
    BY <1>2
  <2>3. TypeOK
    BY DEF ThreadsInv
  <2> QED
    BY <1>1, <2>1, <2>2, <2>3 DEF TypeOK
<1>4. LockInv' /\ TargetInv'
  BY <1>1, <1>2 DEF ThreadsInv, LockInv, TargetInv, HasController
<1>5. CommandInv' /\ LunZeroInv'
  BY <1>1, <1>2 DEF ThreadsInv, CommandInv, LunZeroInv, Accepted, Place, Attached,
                    LunZeroDetachable, TypeOK
<1> QED
  BY <1>3, <1>4, <1>5 DEF ThreadsInv

-----------------------------------------------------------------------------

LEMMA InvNext == ThreadsInv /\ [Next]_vars => ThreadsInv'
<1> SUFFICES ASSUME ThreadsInv, [Next]_vars PROVE ThreadsInv'
  OBVIOUS
<1>1. CASE MainLoop
  BY <1>1, MainLoopInv
<1>2. CASE MonThread
  <2>1. CASE Receive \/ WaitUntilIdle \/ Check \/ Execute
    BY <1>2, <2>1, PreparingInv
  <2>2. CASE MonitorLock
    BY <1>2, <2>2, MonitorLockInv
  <2>3. CASE Change
    BY <1>2, <2>3, ChangeInv
  <2>4. CASE DetachAll
    <3>1. UNCHANGED <<main, target, active, running, handler, alive>>
      BY <1>2 DEF MonThread, processVars
    <3> QED
      BY <2>4, <3>1, DeleteControllerInv, ClearInv DEF DetachAll
  <2> QED
    BY <1>2, <2>1, <2>2, <2>3, <2>4 DEF MonThread
<1>3. CASE TerminationHandler
  <2>1. UNCHANGED <<main, target, active, running, handler>>
    BY <1>3 DEF TerminationHandler
  <2> QED
    BY <1>3, <2>1, DeleteControllerInv, ClearInv DEF TerminationHandler, monitorVars
<1>4. CASE (\E t \in Threads : KillHandler(t) \/ Terminate(t)) \/ End \/ Crash
  BY <1>4, SignalInv
<1>5. CASE UNCHANGED vars
  BY <1>5 DEF vars, mainVars, monitorVars, deviceVars, processVars, ThreadsInv, TypeOK,
              LockInv, TargetInv, HasController, CommandInv, LunZeroInv, Accepted, Place,
              Attached, LunZeroDetachable
<1> QED
  BY <1>1, <1>2, <1>3, <1>4, <1>5 DEF Next, Ended

LEMMA Invariance == Spec => []ThreadsInv
  BY InvInit, InvNext, PTL DEF Spec

LEMMA InvServes == ThreadsInv => TypeOK /\ ServedLunZero
  BY DEF ThreadsInv, TypeOK, TargetInv, LunZeroInv, ServedLunZero

(* The types, and: a connection is served without a LUN 0 only while an     *)
(* ATTACH of several LUNs is under way or has failed half way. The mutex    *)
(* does not protect the check of Detach, which is made before it is taken;  *)
(* the check still holds under the mutex because only the monitor thread    *)
(* changes the LUNs (CommandInv).                                           *)
THEOREM ThreadsCorrect == Spec => [](TypeOK /\ ServedLunZero)
  BY Invariance, InvServes, PTL

(* While a connection is served, its controller stays in the map and keeps  *)
(* its LUNs, unless the controller is deleted (DETACH_ALL, SIGTERM): a      *)
(* served connection holds the mutex, and attaching and detaching need it.  *)
LEMMA ServedStep ==
  ThreadsInv /\ [Next]_vars =>
    [HasController /\ HasController' =>
       \/ dangling'
       \/ target \in controllers' /\ luns'[target] = luns[target]]_vars
<1> SUFFICES ASSUME ThreadsInv, Next, HasController, HasController', ~dangling'
             PROVE  target \in controllers' /\ luns'[target] = luns[target]
  BY DEF vars, mainVars, monitorVars, deviceVars, processVars, HasController
<1>1. mutex = "main" /\ monitor # "change"
  BY DEF ThreadsInv, LockInv, HasController
<1>2. dangling => dangling'
  BY DEF Next, MainLoop, Loop, PollSelectEvent, Lock, IdentifyController, Select,
         Activate, Process, Leave, Deactivate, HasController, MonThread, Receive,
         WaitUntilIdle, Check, Execute, MonitorLock, Change, DetachAll, DeleteController,
         Clear, KillHandler, Terminate, mainVars, TerminationHandler, End, Crash, Ended,
         vars
<1>3. target \in controllers \ deleted
  BY <1>2 DEF ThreadsInv, TargetInv
<1>4. ~Clear
  BY <1>3 DEF Clear
<1>5. UNCHANGED <<controllers, luns>>
  BY <1>1, <1>4 DEF Next, MainLoop, Loop, PollSelectEvent, Lock, IdentifyController,
         Select, Activate, Process, Leave, Deactivate, MonThread, Receive,
         WaitUntilIdle, Check, Execute, MonitorLock, Change, DetachAll, DeleteController,
         KillHandler, Terminate, deviceVars, TerminationHandler, End, Crash, Ended, vars
<1> QED
  BY <1>3, <1>5

(* While a connection is served, its controller stays in the map and keeps  *)
(* its LUNs, unless the controller is deleted (DETACH_ALL, SIGTERM): a      *)
(* served connection holds the mutex, and attaching and detaching need it.  *)
THEOREM ServedDevicesKept == Spec => ServedDevicesStay
  BY Invariance, ServedStep, PTL DEF Spec, ServedDevicesStay
=============================================================================

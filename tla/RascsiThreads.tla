---------------------------- MODULE RascsiThreads ----------------------------
(***************************************************************************)
(* The threads of the rascsi process (rascsi.cpp): the main loop, which    *)
(* serves the connections of the initiators, the monitor thread, which     *)
(* executes remote commands, and the signal handlers, which run on the     *)
(* thread they interrupt. They share the map of the controllers,           *)
(* ctrl_mutex, and the flags active and running.                           *)
(*                                                                         *)
(* A connection (ScsiController) is one stay in the state "process", a     *)
(* remote command (DeviceAdmin) a few steps of the monitor thread; here    *)
(* only their effect on the controllers counts.                            *)
(***************************************************************************)
EXTENDS Integers, Sequences

CONSTANTS
  Ids,       (* device IDs                                                  *)
  Luns,      (* LUNs, with 0                                                *)
  NoId,      (* the main loop has no controller                             *)
  Commands,  (* the remote commands that clients send                       *)
  Signals    (* the signals the process receives                            *)

Places == Ids \X Luns

Threads == {"main", "monitor"}

ASSUME ThreadsAssumption ==
  /\ 0 \in Luns
  /\ NoId \notin Ids
  /\ \A c \in Commands : c.op \in {"ATTACH", "DETACH", "DETACH_ALL"} /\ c.places \in Seq(Places)
  /\ Signals \subseteq {"SIGHUP", "SIGTERM"}

VARIABLES
  main,         (* what the main loop does                                  *)
  target,       (* the ID it was selected with                              *)
  dangling,     (* its controller has been deleted                          *)
  monitor,      (* what the monitor thread does                             *)
  command,      (* the remote command it executes                           *)
  next,         (* the device definition of the command it is at            *)
  mutex,        (* the thread that holds ctrl_mutex, or "nobody"            *)
  active,
  running,
  controllers,  (* the IDs in the map of the controllers                    *)
  luns,         (* the LUNs of every controller                             *)
  deleted,      (* controllers in the map that have been deleted            *)
  handler,      (* the thread that executes TerminationHandler, or "nobody" *)
  alive,        (* the process exists                                       *)
  unfinished    (* history: IDs that an ATTACH, still executed or failed    *)
                (* half way, has left without LUN 0                         *)

mainVars == <<main, target, dangling, active>>
monitorVars == <<monitor, command, next>>
deviceVars == <<controllers, luns, deleted, unfinished>>
processVars == <<running, handler, alive>>

vars == <<mainVars, monitorVars, deviceVars, processVars, mutex>>

NoCommand == [op |-> "none", places |-> <<>>]

TypeOK ==
  /\ main \in {"loop", "poll", "lock", "identify", "select", "activate",
               "process", "leave", "deactivate", "end"}
  /\ target \in Ids \cup {NoId}
  /\ dangling \in BOOLEAN
  /\ monitor \in {"accept", "wait", "check", "execute", "lock", "change", "delete"}
  /\ command \in Commands \cup {NoCommand}
  /\ next \in 1..(Len(command.places) + 1)
  /\ mutex \in Threads \cup {"nobody"}
  /\ active \in BOOLEAN
  /\ running \in BOOLEAN
  /\ controllers \subseteq Ids
  /\ luns \in [Ids -> SUBSET Luns]
  /\ deleted \subseteq controllers
  /\ handler \in Threads \cup {"nobody"}
  /\ alive \in BOOLEAN
  /\ unfinished \subseteq Ids

Runs(t) == alive /\ handler # t

-----------------------------------------------------------------------------
(* The main loop                                                           *)

Loop ==
  /\ main = "loop"
  /\ main' = IF running THEN "poll" ELSE "end"
  /\ UNCHANGED <<target, dangling, active, deviceVars, mutex>>

(* PollSelectEvent returns: an initiator selects some ID, or the bus is     *)
(* busy or was taken by another target.                                     *)
PollSelectEvent ==
  /\ main = "poll"
  /\ \/ target' \in Ids /\ main' = "lock"
     \/ target' = target /\ main' = "loop"
  /\ UNCHANGED <<dangling, active, deviceVars, mutex>>

Lock ==
  /\ main = "lock"
  /\ mutex = "nobody"
  /\ mutex' = "main"
  /\ main' = "identify"
  /\ UNCHANGED <<target, dangling, active, deviceVars>>

(* IdentifyController: a deleted controller is still in the map.            *)
IdentifyController ==
  /\ main = "identify"
  /\ main' = IF target \in controllers THEN "select" ELSE "leave"
  /\ dangling' = (target \in deleted)
  /\ UNCHANGED <<target, active, deviceVars, mutex>>

(* The first call of Process: the selection, unless there is no LUN (which  *)
(* a deleted controller does not know), the initiator has given up or RST   *)
(* is seen.                                                                 *)
Select ==
  /\ main = "select"
  /\ \/ main' = "leave"
     \/ (luns[target] # {} \/ dangling) /\ main' = "activate"
  /\ UNCHANGED <<target, dangling, active, deviceVars, mutex>>

Activate ==
  /\ main = "activate"
  /\ active' = TRUE
  /\ main' = "process"
  /\ UNCHANGED <<target, dangling, deviceVars, mutex>>

(* The calls of Process end when the bus is free or running is false.       *)
Process ==
  /\ main = "process"
  /\ main' = "leave"
  /\ UNCHANGED <<target, dangling, active, deviceVars, mutex>>

(* Mutant of Leave: the mutex stays locked when nothing was selected.       *)
LeaveLocked ==
  /\ main = "leave"
  /\ mutex' = IF active THEN "nobody" ELSE mutex
  /\ target' = NoId
  /\ dangling' = FALSE
  /\ main' = IF active THEN "deactivate" ELSE "loop"
  /\ UNCHANGED <<active, deviceVars>>

Leave ==
  /\ main = "leave"
  /\ mutex' = "nobody"
  /\ target' = NoId
  /\ dangling' = FALSE
  /\ main' = IF active THEN "deactivate" ELSE "loop"
  /\ UNCHANGED <<active, deviceVars>>

Deactivate ==
  /\ main = "deactivate"
  /\ active' = FALSE
  /\ main' = "loop"
  /\ UNCHANGED <<target, dangling, deviceVars, mutex>>

MainLoop ==
  /\ Runs("main")
  /\ \/ Loop \/ PollSelectEvent \/ Lock \/ IdentifyController \/ Select
     \/ Activate \/ Process \/ Leave \/ Deactivate
  /\ UNCHANGED <<monitorVars, processVars>>

-----------------------------------------------------------------------------
(* The monitor thread                                                      *)

Place == command.places[next]
Id == Place[1]
Lun == Place[2]

Named == {command.places[i] : i \in DOMAIN command.places}
Attached == {p \in Places : p[2] \in luns[p[1]]}

LunZeroDetachable(p) == p[2] = 0 => luns[p[1]] = {0}

(* Mutant of Accepted: LUN 0 may go while there are other LUNs.             *)
AcceptedAny(p) ==
  \/ command.op = "ATTACH" /\ p \notin Attached
  \/ command.op = "DETACH" /\ p \in Attached

(* What Attach and Detach check of a definition, dry or not.                *)
Accepted(p) ==
  \/ command.op = "ATTACH" /\ p \notin Attached
  \/ command.op = "DETACH" /\ p \in Attached /\ LunZeroDetachable(p)

ValidLunSetup == \A p \in Named \cup Attached : <<p[1], 0>> \in Named \cup Attached

(* Mutant of Reply: the position in the last command stays.                 *)
ReplyKeepsNext == monitor' = "accept" /\ command' = NoCommand /\ next' = next

Reply == monitor' = "accept" /\ command' = NoCommand /\ next' = 1

Receive ==
  /\ monitor = "accept"
  /\ command' \in Commands
  /\ monitor' = "wait"
  /\ UNCHANGED <<next, deviceVars, dangling, mutex>>

(* MonThread: "Wait until we become idle". *)
WaitUntilIdle ==
  /\ monitor = "wait"
  /\ ~active
  /\ monitor' = IF command.op = "DETACH_ALL" THEN "delete" ELSE "check"
  /\ UNCHANGED <<command, next, deviceVars, dangling, mutex>>

(* The dry run and ValidateLunSetup.                                        *)
Check ==
  /\ monitor = "check"
  /\ \/ /\ (\A p \in Named : Accepted(p)) /\ ValidLunSetup
        /\ monitor' = "execute"
        /\ UNCHANGED <<command, next>>
     \/ Reply
  /\ UNCHANGED <<deviceVars, dangling, mutex>>

(* Attach and Detach up to the lock; both may fail.                         *)
Execute ==
  /\ monitor = "execute"
  /\ \/ /\ next <= Len(command.places) /\ Accepted(Place)
        /\ monitor' = "lock"
        /\ UNCHANGED <<command, next>>
     \/ Reply
  /\ UNCHANGED <<deviceVars, dangling, mutex>>

(* Mutant of MonitorLock: the mutex is not waited for.                      *)
MonitorLockNot ==
  /\ monitor = "lock"
  /\ monitor' = "change"
  /\ UNCHANGED <<command, next, deviceVars, dangling, mutex>>

MonitorLock ==
  /\ monitor = "lock"
  /\ mutex = "nobody"
  /\ mutex' = "monitor"
  /\ monitor' = "change"
  /\ UNCHANGED <<command, next, deviceVars, dangling>>

(* CreateScsiController, or the DeleteDevice of the controller, and the     *)
(* unlocking of the mutex.                                                  *)
Change ==
  LET attach == command.op = "ATTACH"
      left == IF attach THEN luns[Id] \cup {Lun} ELSE luns[Id] \ {Lun}
  IN /\ monitor = "change"
     /\ controllers' = IF attach THEN controllers \cup {Id} ELSE controllers
     /\ luns' = [luns EXCEPT ![Id] = left]
     /\ unfinished' = IF attach /\ 0 \notin left THEN unfinished \cup {Id}
                      ELSE IF 0 \in left \/ left = {} THEN unfinished \ {Id}
                      ELSE unfinished
     /\ mutex' = "nobody"
     /\ monitor' = "execute"
     /\ next' = next + 1
     /\ UNCHANGED <<command, deleted, dangling>>

(* DeleteAllControllersAndDevices of DETACH_ALL and TerminationHandler:     *)
(* each controller is deleted, then the map is cleared.                     *)
HasController == main \in {"select", "activate", "process"}

DeleteController ==
  /\ \E i \in controllers \ deleted :
       /\ deleted' = deleted \cup {i}
       /\ dangling' = (dangling \/ (HasController /\ target = i))
  /\ UNCHANGED <<monitorVars, controllers, luns, unfinished, mutex>>

Clear ==
  /\ controllers = deleted
  /\ controllers' = {} /\ deleted' = {} /\ unfinished' = {}
  /\ luns' = [i \in Ids |-> {}]
  /\ UNCHANGED <<dangling, mutex>>

DetachAll ==
  /\ monitor = "delete"
  /\ DeleteController \/ (Clear /\ Reply)

MonThread ==
  /\ Runs("monitor")
  /\ Receive \/ WaitUntilIdle \/ Check \/ Execute \/ MonitorLock \/ Change \/ DetachAll
  /\ UNCHANGED <<main, target, active, processVars>>

-----------------------------------------------------------------------------
(* Signals and the end of the process                                      *)

(* SIGHUP is handled by either thread. It interrupts PollSelectEvent.       *)
KillHandler(t) ==
  /\ "SIGHUP" \in Signals
  /\ Runs(t)
  /\ running' = FALSE
  /\ main' = IF t = "main" /\ main = "poll" THEN "end" ELSE main
  /\ UNCHANGED <<target, dangling, active, monitorVars, deviceVars, handler, alive, mutex>>

(* SIGINT and SIGTERM; also SHUT_DOWN, which calls the handler.             *)
Terminate(t) ==
  /\ "SIGTERM" \in Signals
  /\ alive /\ handler = "nobody"
  /\ handler' = t
  /\ UNCHANGED <<mainVars, monitorVars, deviceVars, running, alive, mutex>>

(* TerminationHandler: DetachAll, Cleanup, exit.                            *)
TerminationHandler ==
  /\ alive /\ handler # "nobody"
  /\ \/ DeleteController /\ alive' = alive
     \/ Clear /\ alive' = FALSE /\ UNCHANGED monitorVars
  /\ UNCHANGED <<main, target, active, running, handler>>

(* Return from main.                                                        *)
End ==
  /\ Runs("main") /\ main = "end"
  /\ alive' = FALSE
  /\ UNCHANGED <<mainVars, monitorVars, deviceVars, running, handler, mutex>>

(* A deleted controller is used, or the map while it is cleared. Either     *)
(* what is left in its memory is used (as the other actions do), or the     *)
(* process dies.                                                            *)
Crash ==
  /\ alive
  /\ \/ dangling /\ HasController
     \/ main = "identify" /\ deleted # {}
     \/ handler # "nobody" /\ monitor = "delete"
  /\ alive' = FALSE
  /\ UNCHANGED <<mainVars, monitorVars, deviceVars, running, handler, mutex>>

Ended == ~alive /\ UNCHANGED vars

-----------------------------------------------------------------------------

(* Any devices may have been attached by the command line.                  *)
Init ==
  /\ main = "loop" /\ target = NoId /\ dangling = FALSE /\ active = FALSE
  /\ monitor = "accept" /\ command = NoCommand /\ next = 1
  /\ luns \in [Ids -> {L \in SUBSET Luns : L = {} \/ 0 \in L}]
  /\ controllers = {i \in Ids : luns[i] # {}}
  /\ deleted = {} /\ unfinished = {}
  /\ mutex = "nobody"
  /\ running = TRUE /\ handler = "nobody" /\ alive = TRUE

Next ==
  \/ MainLoop
  \/ MonThread
  \/ \E t \in Threads : KillHandler(t) \/ Terminate(t)
  \/ TerminationHandler
  \/ End
  \/ Crash
  \/ Ended

Spec == Init /\ [][Next]_vars

(* The scheduler runs every thread that can run; clients need not send      *)
(* commands. The main loop needs no fairness: see CommandAnswered.          *)
FairSpec ==
  /\ Spec
  /\ WF_vars(monitor # "accept" /\ MonThread)
  /\ WF_vars(TerminationHandler)

-----------------------------------------------------------------------------
(* Properties                                                              *)

(* While a connection is served, its controller stays in the map and keeps  *)
(* its devices, whatever is attached and detached at the same time: the     *)
(* check of active alone would not ensure it. DETACH_ALL and the signal     *)
(* handler are the exceptions (ServedControllerIsLive).                     *)
ServedDevicesStay ==
  [][HasController /\ HasController' =>
       \/ dangling'
       \/ target \in controllers' /\ luns'[target] = luns[target]]_vars

(* The controller relies on a LUN 0 (Error, REQUEST SENSE). A connection is *)
(* served without one only when an ATTACH of several LUNs is under way or   *)
(* has failed after the first of them.                                      *)
ServedLunZero ==
  main = "process" /\ ~dangling => 0 \in luns[target] \/ target \in unfinished

(* A remote command is answered, unless the process ends, if the            *)
(* initiators leave the bus alone from some time on. (With a bus that is    *)
(* busy whenever the monitor thread looks it waits for ever; and the mutex  *)
(* is handed to either thread, in no fair order.)                           *)
CommandAnswered ==
  <>[](main = "poll") => (monitor # "accept" ~> monitor = "accept" \/ ~alive)

(* rascsi.cpp, line 62: ctrl_mutex is the "Semaphore for the ctrl array".   *)
(* The main loop holds it while it serves a connection: its controller is   *)
(* not deleted.                                                             *)
ServedControllerIsLive == main = "process" => ~dangling
=============================================================================

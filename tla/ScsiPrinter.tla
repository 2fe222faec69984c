----------------------------- MODULE ScsiPrinter -----------------------------
(***************************************************************************)
(* The printer (scsi_printer.cpp): its reservation, which an initiator may *)
(* take, lose by a timeout or give back, and the file the data to be       *)
(* printed are spooled to until SYNCHRONIZE BUFFER has them printed.       *)
(*                                                                         *)
(* An action is a command with everything the controller does for it, the  *)
(* data of PRINT included: the bus serves one initiator at a time. The     *)
(* commands that PrimaryDevice handles (INQUIRY, REQUEST SENSE, ...) look  *)
(* at no reservation and change nothing here.                              *)
(***************************************************************************)
EXTENDS Naturals, SequencesExt

CONSTANTS
  Initiators,   (* the computers on the bus                                 *)
  Anonymous,    (* those that do not put their own ID on the bus            *)
  UnknownId,    (* the ID of these: -1                                      *)
  NOT_RESERVED, (* no initiator: -2                                         *)
  Timeout,      (* the reservation timeout, in ticks                        *)
  SpoolMax      (* bound: chunks in the spool file                          *)

ASSUME InitiatorsAssumption ==
  /\ Anonymous \subseteq Initiators
  /\ UnknownId \notin Initiators /\ NOT_RESERVED \notin Initiators
  /\ UnknownId # NOT_RESERVED

ASSUME TimeoutAssumption == Timeout \in Nat \ {0}

VARIABLES
  reserving,  (* reserving_initiator *)
  age,        (* the time since reservation_time, up to Timeout + 1 *)
  fd,         (* is the spool file open *)
  spool,      (* what it holds: of the data of each PRINT, who sent them *)
              (* and whether under an own reservation *)
  job,        (* what the last step has had printed *)
  status,     (* the status of the last command *)
  up,         (* the initiators that run *)
  silent      (* history: the time since the last command of the initiator *)
              (* that has reserved the printer *)

printerVars == <<reserving, age, fd, spool, job, status, up, silent>>

GetInitiatorId(i) == IF i \in Anonymous THEN UnknownId ELSE i

Later(t) == IF t > Timeout THEN t ELSE t + 1
Expired == age > Timeout

Chunk == [by : Initiators, reserved : BOOLEAN]

-----------------------------------------------------------------------------
(* What a command of initiator i is answered, and what it has had printed.  *)
Answered(i, code, printed) ==
  /\ i \in up /\ UNCHANGED up
  /\ status' = code /\ job' = printed
  /\ silent' = IF reserving' = GetInitiatorId(i) THEN 0 ELSE silent

Passes(i) == reserving \in {NOT_RESERVED, GetInitiatorId(i)}

(* CheckReservation, when it lets the command pass: the time is noted for   *)
(* an unreserved printer as well.                                           *)
CheckReservation(i) == Passes(i) /\ age' = 0

(* Mutant of Refused: a refused command extends the reservation.            *)
RefusedExtending(i) ==
  /\ ~Passes(i)
  /\ age' = 0 /\ UNCHANGED <<reserving, fd, spool>>
  /\ Answered(i, "RESERVATION CONFLICT", <<>>)

(* When it throws, the command has no effect.                               *)
Refused(i) ==
  /\ ~Passes(i)
  /\ UNCHANGED <<reserving, age, fd, spool>>
  /\ Answered(i, "RESERVATION CONFLICT", <<>>)

(* Mutant of Cleanup: a file that is open stays.                            *)
CleanupNothing == UNCHANGED <<fd, spool>>

(* The file and what it holds are gone. *)
Cleanup == fd' = FALSE /\ spool' = <<>>

DiscardReservation == reserving' = NOT_RESERVED /\ Cleanup

-----------------------------------------------------------------------------
(* The commands.                                                           *)

(* TEST UNIT READY, SEND DIAGNOSTIC and STOP PRINT do nothing else.         *)
OnlyChecked(i) ==
  \/ Refused(i)
  \/ /\ CheckReservation(i)
     /\ UNCHANGED <<reserving, fd, spool>>
     /\ Answered(i, "GOOD", <<>>)

TestUnitReady(i) == OnlyChecked(i)
SendDiagnostic(i) == OnlyChecked(i)
StopPrint(i) == OnlyChecked(i)

(* Mutant of ReserveUnit: the timeout is not looked at.                     *)
ReserveUnitAlways(i) ==
  /\ age' = 0 /\ reserving' = GetInitiatorId(i)
  /\ Cleanup
  /\ Answered(i, "GOOD", <<>>)

(* An expired reservation is discarded first, and refuses nobody. A new or  *)
(* a repeated one starts with no file.                                      *)
ReserveUnit(i) ==
  \/ ~Expired /\ Refused(i)
  \/ /\ \/ Expired /\ age' = 0
        \/ ~Expired /\ CheckReservation(i)
     /\ reserving' = GetInitiatorId(i)
     /\ Cleanup
     /\ Answered(i, "GOOD", <<>>)

ReleaseUnit(i) ==
  \/ Refused(i)
  \/ /\ CheckReservation(i)
     /\ DiscardReservation
     /\ Answered(i, "GOOD", <<>>)

(* The data are appended to the file, which is created when there is none.  *)
WriteByteSequence(i) ==
  /\ Len(spool) < SpoolMax
  /\ fd' = TRUE
  /\ spool' = Append(spool, [by |-> i, reserved |-> reserving = GetInitiatorId(i)])

(* The data, or (the write was short) a part of them, are in the file; or   *)
(* nothing is written: the length is 0 (GOOD) or too large, the transfer is *)
(* cut short, the file cannot be created, or the write to it fails.         *)
PrintData(i) ==
  \/ Refused(i)
  \/ /\ CheckReservation(i)
     /\ UNCHANGED reserving
     /\ \E code \in {"GOOD", "CHECK CONDITION"} :
          /\ Answered(i, code, <<>>)
          /\ \/ WriteByteSequence(i)
             \/ UNCHANGED <<fd, spool>>
             \/ code # "GOOD" /\ fd' = TRUE /\ UNCHANGED spool

(* The print command gets the file, which is deleted whether that succeeds  *)
(* or not.                                                                  *)
SynchronizeBuffer(i) ==
  \/ Refused(i)
  \/ /\ CheckReservation(i)
     /\ UNCHANGED reserving
     /\ Cleanup
     /\ \/ fd /\ Answered(i, "GOOD", spool)
        \/ Answered(i, "CHECK CONDITION", <<>>)

-----------------------------------------------------------------------------
Tick ==
  /\ age' = Later(age) /\ silent' = Later(silent)
  /\ UNCHANGED <<reserving, fd, spool, job, status, up>>

(* The printer is detached, and attached again.                             *)
Detach ==
  /\ DiscardReservation
  /\ age' = Timeout + 1 /\ job' = <<>>
  /\ UNCHANGED <<status, up, silent>>

(* Bound: at most one computer is down.                                     *)
Crash(i) ==
  /\ up = Initiators /\ up' = up \ {i}
  /\ UNCHANGED <<reserving, age, fd, spool, job, status, silent>>

Restart(i) ==
  /\ i \notin up /\ up' = up \cup {i}
  /\ UNCHANGED <<reserving, age, fd, spool, job, status, silent>>

PrinterInit ==
  /\ reserving = NOT_RESERVED /\ age = Timeout + 1
  /\ fd = FALSE /\ spool = <<>> /\ job = <<>>
  /\ status = "GOOD" /\ up = Initiators /\ silent = 0

PrinterNext ==
  \/ Tick \/ Detach
  \/ \E i \in Initiators :
       \/ TestUnitReady(i) \/ SendDiagnostic(i) \/ StopPrint(i)
       \/ ReserveUnit(i) \/ ReleaseUnit(i) \/ PrintData(i) \/ SynchronizeBuffer(i)
       \/ Crash(i) \/ Restart(i)

(* Time does not stop, and who runs keeps trying to reserve the printer.    *)
PrinterFairness == WF_printerVars(Tick) /\ \A i \in Initiators : WF_printerVars(ReserveUnit(i))

PrinterSpec == PrinterInit /\ [][PrinterNext]_printerVars /\ PrinterFairness

-----------------------------------------------------------------------------
(* Properties                                                              *)

PrinterTypeOK ==
  /\ reserving \in (Initiators \ Anonymous) \cup {UnknownId, NOT_RESERVED}
  /\ age \in 0..(Timeout + 1)
  /\ fd \in BOOLEAN /\ spool \in Seq(Chunk) /\ job \in Seq(Chunk)
  /\ silent \in 0..(Timeout + 1)

(* Data that an initiator with an ID sent under its own reservation.        *)
Protected(chunk) == chunk.reserved /\ chunk.by \notin Anonymous

(* What is printed for an initiator that reserved the printer holds no data *)
(* of another one: neither data that were spooled before it reserved it nor *)
(* data of one that took the printer over when the reservation had expired, *)
(* although no command looks at who sent what is in the file.               *)
JobsNotMixed ==
  \A m, n \in DOMAIN job : Protected(job[m]) => job[n].by = job[m].by

(* Data that were spooled under a reservation are only lost by a command of *)
(* the one who sent them (RESERVE again, RELEASE, SYNCHRONIZE BUFFER), when *)
(* it was silent for longer than the timeout, or with the device.           *)
ReservedDataKept ==
  [][\A i \in Initiators \ Anonymous :
       reserving = i /\ spool # <<>> /\ ~IsPrefix(spool, spool')
         => \/ ReserveUnit(i) \/ ReleaseUnit(i) \/ SynchronizeBuffer(i) \/ Detach
            \/ silent > Timeout]_printerVars

(* The reservation of a computer that is down does not last, as long as     *)
(* another one wants to reserve the printer ("to prevent deadlocks caused   *)
(* by broken clients", scsi_printer.cpp:104), however often that one is     *)
(* refused before.                                                          *)
ReservationEnds ==
  \A i \in Initiators \ Anonymous :
    reserving = i /\ i \notin up ~> reserving # i \/ i \in up

=============================================================================

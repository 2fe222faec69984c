----------------------------- MODULE BlockStore -----------------------------
(***************************************************************************)
(* What the track cache of a disk promises to the commands that use it:    *)
(* a store of blocks with deferred writes. A read returns what was last    *)
(* written. A write reaches the image file at some later time, at the      *)
(* latest with the next Save that succeeds. Only closing the store drops   *)
(* writes, and only those that are still pending.                          *)
(***************************************************************************)
CONSTANTS
  Blocks,  (* block numbers of the medium                                   *)
  Values,  (* contents the initiator writes                                 *)
  Torn,    (* contents of a block of the file that was written in part      *)
  Done,    (* result of a call that succeeded and returns no data           *)
  Failed   (* result of a call that returned false                          *)

Contents == Values \cup {Torn}

VARIABLES
  open,     (* the store exists                                             *)
  latest,   (* the contents of every block as a read must return them       *)
  pending,  (* blocks written since they were last brought to the file      *)
  disk,     (* the contents of the image file                               *)
  result    (* the answer to the last call                                  *)

vars == <<open, latest, pending, disk, result>>

Init ==
  /\ open = TRUE
  /\ latest \in [Blocks -> Values]
  /\ disk = latest
  /\ pending = {}
  /\ result = Done

(* Any call may bring pending blocks to the file. One that fails may leave  *)
(* a pending block torn, but then the block is still pending.               *)
WriteBack(left, fails) ==
  /\ left \subseteq pending
  /\ \A b \in Blocks :
       IF b \in left
       THEN disk'[b] \in {disk[b], latest[b]} \cup (IF fails THEN {Torn} ELSE {})
       ELSE disk'[b] = IF b \in pending THEN latest[b] ELSE disk[b]

Read(b) ==
  /\ open
  /\ result' \in {latest[b], Failed}
  /\ pending' \subseteq pending
  /\ WriteBack(pending', result' = Failed)
  /\ UNCHANGED <<open, latest>>

Write(b, v) ==
  /\ open
  /\ result' = Done
  /\ latest' = [latest EXCEPT ![b] = v]
  /\ \E left \in SUBSET pending :
       /\ WriteBack(left, FALSE)
       /\ pending' = IF latest[b] = v THEN left ELSE left \cup {b}
  /\ UNCHANGED open

WriteFails ==
  /\ open
  /\ result' = Failed
  /\ pending' \subseteq pending
  /\ WriteBack(pending', TRUE)
  /\ UNCHANGED <<open, latest>>

Save ==
  /\ open
  /\ result' \in {Done, Failed}
  /\ result' = Done => pending' = {}
  /\ pending' \subseteq pending
  /\ WriteBack(pending', result' = Failed)
  /\ UNCHANGED <<open, latest>>

Close ==
  /\ open
  /\ open' = FALSE
  /\ latest' = disk
  /\ pending' = {}
  /\ result' = Done
  /\ UNCHANGED disk

Open ==
  /\ ~open
  /\ open' = TRUE
  /\ UNCHANGED <<latest, pending, disk, result>>

Next ==
  \/ \E b \in Blocks : Read(b)
  \/ \E b \in Blocks, v \in Values : Write(b, v)
  \/ WriteFails
  \/ Save
  \/ Close
  \/ Open

Spec == Init /\ [][Next]_vars
=============================================================================

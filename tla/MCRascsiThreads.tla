--------------------------- MODULE MCRascsiThreads ---------------------------
(* Two IDs, one of them with two LUNs that are attached together or one by  *)
(* one.                                                                     *)
EXTENDS RascsiThreads

AllCommands ==
  {[op |-> op, places |-> s] :
     op \in {"ATTACH", "DETACH"},
     s \in {<< <<1, 0>> >>, << <<1, 1>> >>, << <<1, 1>>, <<1, 0>> >>, << <<2, 0>> >>}}
  \cup {[op |-> "DETACH_ALL", places |-> <<>>]}
=============================================================================

---------------------------- MODULE MCDeviceAdmin ----------------------------
(* Three places (two LUNs of one ID and another ID) and the commands that   *)
(* compete for them and for the image files.                                *)
EXTENDS DeviceAdmin

CONSTANTS a, b

MCFiles == {a, b}

D(id, lun, type, file, fault) ==
  [id |-> id, lun |-> lun, type |-> type, file |-> file, fault |-> fault]

At(id, lun) == D(id, lun, "cd", NoFile, "none")

Singles ==
  {[op |-> "ATTACH", defs |-> <<d>>] : d \in
     {D(1, 0, "cd", f, "none") : f \in {a, NoFile}} \cup
     {D(2, 0, "disk", a, "none")} \cup
     {D(1, 1, "net", NoFile, f) : f \in {"none", "init"}} \cup
     {D(1, 0, "net", NoFile, "name")}} \cup
  {[op |-> "DETACH", defs |-> <<At(p[1], p[2])>>] : p \in {<<1, 0>>, <<1, 1>>, <<2, 0>>}} \cup
  {[op |-> "EJECT", defs |-> <<At(1, l)>>] : l \in Luns} \cup
  {[op |-> "STOP", defs |-> <<At(i, 0)>>] : i \in Ids} \cup
  {[op |-> "INSERT", defs |-> <<D(1, 0, "cd", f[1], f[2])>>] :
     f \in {<<a, "none">>, <<b, "none">>, <<a, "block">>}}

Pairs ==
  {[op |-> "ATTACH", defs |-> <<D(1, 1, "cd", a, "none"), d>>] : d \in
     {D(1, 0, "cd", f, "none") : f \in {a, b}} \cup {D(1, 0, "net", NoFile, "init")}} \cup
  {[op |-> "DETACH", defs |-> <<At(1, 1), At(1, 0)>>]}

AllCommands == Singles \cup Pairs

(* For the two faults.                                                      *)
BadNames ==
  {[op |-> "ATTACH", defs |-> <<D(1, 0, "net", NoFile, f)>>] : f \in {"none", "name"}}
=============================================================================

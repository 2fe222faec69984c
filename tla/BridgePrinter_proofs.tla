----------------------- MODULE BridgePrinter_proofs -----------------------
(***************************************************************************)
(* Proofs about the two devices that are no disks, which share no state:   *)
(* HostBridge, for any number of frames, requests and connections that     *)
(* break off, and ScsiPrinter, for any initiators, timeout and spool size. *)
(*                                                                         *)
(* The bridge gives packets to the handlers in order and once: the frame   *)
(* in its buffer, while it is marked, is the last one that was read, and   *)
(* the handlers have had earlier ones only; IntProcess fetches the buffer  *)
(* only when it is marked.                                                 *)
(***************************************************************************)
EXTENDS HostBridge, ScsiPrinter, TLAPS

(* What is known of the variables that packets pass through.                *)
PacketTypes ==
  /\ nic \in [packet : Nat, enable : BOOLEAN]
  /\ tap \in [arrived : Nat, read : Nat, mine : SUBSET Nat]
  /\ got \in Seq(Nat) /\ lost \subseteq Nat

Increasing == \A i, j \in 1..Len(got) : i < j => got[i] < got[j]

Given == {got[i] : i \in 1..Len(got)}

(* The buffer holds the last frame read; none that was given comes later.   *)
Buffered ==
  /\ nic.enable => nic.packet = tap.read /\ \A i \in 1..Len(got) : got[i] < tap.read
  /\ \A i \in 1..Len(got) : got[i] <= tap.read
  /\ poller = "buffer" => nic.enable

Accounted ==
  \A p \in tap.mine : p \in Given \/ p \in lost \/ (nic.enable /\ nic.packet = p)

PacketInv == PacketTypes /\ Increasing /\ Buffered /\ Accounted

LEMMA PacketInit == BridgeInit => PacketInv
  BY DEF BridgeInit, PacketInv, PacketTypes, Increasing, Given, Buffered, Accounted

(* The steps that leave the packets alone.                                  *)
LEMMA PacketsUntouched ==
  ASSUME PacketInv, UNCHANGED <<nic, got, lost>>,
         tap' \in [arrived : Nat, read : Nat, mine : SUBSET Nat],
         tap'.read = tap.read, tap'.mine = tap.mine,
         poller' = "buffer" => poller = "buffer"
  PROVE  PacketInv'
  BY DEF PacketInv, PacketTypes, Increasing, Given, Buffered, Accounted

(* A frame is put into the buffer only when the buffer is not marked.       *)
LEMMA PacketRead ==
  ASSUME PacketInv, ReceivePacket, UNCHANGED <<got, lost>>,
         poller' = "buffer" => nic'.packet # 0
  PROVE  PacketInv'
<1>1. CASE nic.enable
  <2>1. UNCHANGED <<nic, tap>>
    BY <1>1 DEF ReceivePacket
  <2> QED
    BY <1>1, <2>1 DEF PacketInv, PacketTypes, Increasing, Given, Buffered, Accounted
<1>2. CASE ~nic.enable /\ ~FramePending
  <2>1. nic' = [nic EXCEPT !.packet = 0] /\ tap' = tap
    BY <1>2 DEF ReceivePacket
  <2>2. nic' \in [packet : Nat, enable : BOOLEAN] /\ ~nic'.enable /\ nic'.packet = 0
    BY <1>2, <2>1 DEF PacketInv, PacketTypes
  <2> QED
    BY <1>2, <2>1, <2>2 DEF PacketInv, PacketTypes, Increasing, Given, Buffered, Accounted
<1>3. CASE ~nic.enable /\ FramePending
  <2>1. PICK mine \in BOOLEAN :
          /\ nic' = [packet |-> IF mine THEN tap.read + 1 ELSE 0, enable |-> mine]
          /\ tap' = [tap EXCEPT !.read = @ + 1, !.mine = IF mine THEN @ \cup {tap.read + 1} ELSE @]
    BY <1>3 DEF ReceivePacket
  <2>2. /\ tap' \in [arrived : Nat, read : Nat, mine : SUBSET Nat]
        /\ tap'.read = tap.read + 1
        /\ tap'.mine = IF mine THEN tap.mine \cup {tap.read + 1} ELSE tap.mine
    <3>1. /\ tap \in [arrived : Nat, read : Nat, mine : SUBSET Nat]
          /\ tap.read + 1 \in Nat
          /\ (IF mine THEN tap.mine \cup {tap.read + 1} ELSE tap.mine) \in SUBSET Nat
      BY DEF PacketInv, PacketTypes
    <3>2. tap' = [tap EXCEPT !.read = tap.read + 1,
                             !.mine = IF mine THEN tap.mine \cup {tap.read + 1} ELSE tap.mine]
      BY <2>1
    <3> QED
      BY <3>1, <3>2
  <2>3. /\ nic' \in [packet : Nat, enable : BOOLEAN]
        /\ nic'.enable = mine
        /\ nic'.packet = IF mine THEN tap.read + 1 ELSE 0
    BY <2>1 DEF PacketInv, PacketTypes
  <2>4. PacketTypes'
    BY <2>2, <2>3 DEF PacketInv, PacketTypes
  <2>5. Increasing'
    BY DEF PacketInv, Increasing
  <2>6. Buffered'
    BY <2>2, <2>3 DEF PacketInv, PacketTypes, Buffered
  <2>7. Accounted'
    BY <1>3, <2>2, <2>3 DEF PacketInv, PacketTypes, Accounted, Given
  <2> QED
    BY <2>4, <2>5, <2>6, <2>7 DEF PacketInv
<1> QED
  BY <1>1, <1>2, <1>3

(* The packet in the buffer leaves it, to the handlers or for good.         *)
LEMMA PacketFetched ==
  ASSUME PacketInv, poller = "buffer", GetPacketBuf, UNCHANGED tap, poller' # "buffer",
         \/ got' = Append(got, nic.packet) /\ UNCHANGED lost
         \/ lost' = lost \cup {nic.packet} /\ UNCHANGED got
  PROVE  PacketInv'
<1>1. nic.enable /\ nic.packet = tap.read /\ \A i \in 1..Len(got) : got[i] < tap.read
  BY DEF PacketInv, Buffered
<1>2. nic' \in [packet : Nat, enable : BOOLEAN] /\ ~nic'.enable
  BY DEF PacketInv, PacketTypes, GetPacketBuf
<1>3. CASE got' = Append(got, nic.packet) /\ UNCHANGED lost
  <2>1. /\ got' \in Seq(Nat) /\ Len(got') = Len(got) + 1 /\ got'[Len(got) + 1] = tap.read
        /\ \A i \in 1..Len(got) : got'[i] = got[i]
    BY <1>1, <1>3 DEF PacketInv, PacketTypes
  <2>a. tap.read \in Nat /\ Len(got) \in Nat
    BY DEF PacketInv, PacketTypes
  <2>b. \A i \in 1..Len(got') : (i \in 1..Len(got) /\ got'[i] = got[i]) \/ (i = Len(got) + 1 /\ got'[i] = tap.read)
    BY <2>1, <2>a
  <2>2. Increasing'
    <3> SUFFICES ASSUME NEW i \in 1..Len(got'), NEW j \in 1..Len(got'), i < j
                 PROVE  got'[i] < got'[j]
      BY DEF Increasing
    <3>1. i \in 1..Len(got) /\ got'[i] = got[i]
      BY <2>1, <2>a, <2>b
    <3>2. CASE j \in 1..Len(got) /\ got'[j] = got[j]
      BY <3>1, <3>2 DEF PacketInv, Increasing
    <3>3. CASE got'[j] = tap.read
      BY <1>1, <3>1, <3>3
    <3> QED
      BY <2>b, <3>2, <3>3
  <2>3. Buffered'
    <3>1. \A i \in 1..Len(got') : got'[i] <= tap.read
      <4> SUFFICES ASSUME NEW i \in 1..Len(got') PROVE got'[i] <= tap.read
        OBVIOUS
      <4>1. CASE i \in 1..Len(got) /\ got'[i] = got[i]
        BY <4>1 DEF PacketInv, Buffered
      <4>2. CASE got'[i] = tap.read
        BY <2>a, <4>2
      <4> QED
        BY <2>b, <4>1, <4>2
    <3> QED
      BY <1>2, <3>1 DEF Buffered
  <2>4. Given' = Given \cup {tap.read}
    <3>1. Given' \subseteq Given \cup {tap.read}
      BY <2>b DEF Given
    <3>2. Given \subseteq Given'
      <4>1. 1..Len(got) \subseteq 1..Len(got')
        BY <2>1, <2>a
      <4> QED
        BY <2>1, <4>1 DEF Given
    <3>3. tap.read \in Given'
      <4>1. Len(got) + 1 \in 1..Len(got')
        BY <2>1, <2>a
      <4> QED
        BY <2>1, <4>1 DEF Given
    <3> QED
      BY <3>1, <3>2, <3>3
  <2>5. Accounted'
    BY <1>1, <1>3, <2>4 DEF PacketInv, Accounted
  <2> QED
    BY <1>2, <1>3, <2>1, <2>2, <2>3, <2>5 DEF PacketInv, PacketTypes
<1>4. CASE lost' = lost \cup {nic.packet} /\ UNCHANGED got
  BY <1>1, <1>2, <1>4 DEF PacketInv, PacketTypes, Increasing, Given, Buffered, Accounted
<1> QED
  BY <1>3, <1>4

LEMMA PacketNext == PacketInv /\ [BridgeNext]_bridgeVars => PacketInv'
<1> SUFFICES ASSUME PacketInv, [BridgeNext]_bridgeVars PROVE PacketInv'
  OBVIOUS
<1>t. tap \in [arrived : Nat, read : Nat, mine : SUBSET Nat]
  BY DEF PacketInv, PacketTypes
<1>1. CASE UNCHANGED <<nic, tap, got, lost, poller>>
  BY <1>1, <1>t, PacketsUntouched
<1>2. CASE IntProcess
  <2>1. UNCHANGED <<nic, tap, got, lost>> /\ poller' # "buffer"
    BY <1>2 DEF IntProcess
  <2> QED
    BY <1>t, <2>1, PacketsUntouched
<1>3. CASE GetPacketLen
  <2>1. UNCHANGED <<got, lost>>
    BY <1>3 DEF GetPacketLen
  <2>2. CASE ReceivePacket
    <3>1. poller' = "buffer" => nic'.packet # 0
      BY <1>3 DEF GetPacketLen
    <3> QED
      BY <2>1, <2>2, <3>1, PacketRead
  <2>3. CASE UNCHANGED <<nic, tap>> /\ poller' = "none"
    BY <1>t, <2>1, <2>3, PacketsUntouched
  <2> QED
    BY <1>3, <2>2, <2>3 DEF GetPacketLen
<1>4. CASE FetchPacket
  <2>1. poller = "buffer" /\ UNCHANGED tap
    BY <1>4 DEF FetchPacket
  <2>2. \/ /\ GetPacketBuf /\ poller' # "buffer"
           /\ \/ got' = Append(got, nic.packet) /\ UNCHANGED lost
              \/ lost' = lost \cup {nic.packet} /\ UNCHANGED got
        \/ poller' = "none" /\ UNCHANGED <<nic, got, lost>>
    BY <1>4 DEF FetchPacket
  <2> QED
    BY <1>t, <2>1, <2>2, PacketFetched, PacketsUntouched
<1>5. CASE Handlers
  <2>1. UNCHANGED <<nic, tap, got, lost>> /\ poller' = "none"
    BY <1>5 DEF Handlers
  <2> QED
    BY <1>t, <2>1, PacketsUntouched
<1>6. CASE Arrive
  <2>1. UNCHANGED <<nic, got, lost, poller>> /\ tap' = [tap EXCEPT !.arrived = @ + 1]
    BY <1>6 DEF Arrive, driverState
  <2>2. /\ tap' \in [arrived : Nat, read : Nat, mine : SUBSET Nat]
        /\ tap'.read = tap.read /\ tap'.mine = tap.mine
    BY <1>t, <2>1
  <2> QED
    BY <2>1, <2>2, PacketsUntouched
<1>7. CASE \/ \E kind \in DOMAIN ConnectionsOf : ExecuteCommand(kind)
           \/ DriveStep
           \/ \E how \in {"trap", "call"} : SendPacket(how)
           \/ SendStep \/ AddList \/ BridgeFrees
  <2>1. UNCHANGED <<nic, tap, got, lost, poller>>
    BY <1>7 DEF ExecuteCommand, DriveStep, SelectBridge, WriteConnection, ReadConnection, SetResult,
                Transferring, Ready, SendPacket, SendStep, SaveMask, Mask, Send, Unmask, Sending,
                AddList, BridgeFrees, driverState
  <2> QED
    BY <1>1, <2>1
<1>8. CASE UNCHANGED bridgeVars
  BY <1>1, <1>8 DEF bridgeVars
<1> QED
  BY <1>2, <1>3, <1>4, <1>5, <1>6, <1>7, <1>8 DEF BridgeNext, BridgeActs, PollStep

(* Packets reach the handlers in order and once, and none is missing that   *)
(* was not broken off (RASETHER/scsictl.c, IntProcess).                     *)
THEOREM PacketsDelivered == BridgeSpec => []PacketsInOrder
<1>1. ASSUME PacketInv PROVE PacketsInOrder
  <2>1. DOMAIN got = 1..Len(got)
    BY <1>1 DEF PacketInv, PacketTypes
  <2>2. Range(got) = Given
    BY <2>1 DEF Range, Given
  <2> QED
    BY <1>1, <2>1, <2>2 DEF PacketInv, Increasing, Accounted, PacketsInOrder
<1> QED
  BY <1>1, PacketInit, PacketNext, PTL DEF BridgeSpec


-----------------------------------------------------------------------------
(* Results.                                                                 *)

(* What may be left of a request.                                           *)
Todos ==
  {<<"data", "command", "result">>, <<"command", "result">>, <<"command", "result", "out">>,
   <<"command", "result", "out", "opt">>, <<"result">>, <<"result", "out">>,
   <<"result", "out", "opt">>, <<"out", "opt">>, <<"out">>, <<"opt">>, <<>>}

(* The types of the variables that requests pass through.                   *)
Result == [of : Nat, value : {-1, 0, 1}, used : Nat]

Kind == {"name", "key", "read", "write", "local", "trap", "call", "none"}

Call ==
  [at : {"idle", "select", "transfer", "save", "mask", "send", "unmask"}, of : Nat,
   kind : Kind, todo : Todos, ret : Result, out : Nat, opt : Nat,
   refused : BOOLEAN, broken : BOOLEAN, masked : BOOLEAN]

RequestTypes ==
  /\ drive \in [result : Result, out : Nat, opt : Nat]
  /\ call \in Call
  /\ cpu \in [masked : BOOLEAN, saved : BOOLEAN, torn : BOOLEAN]

(* The connections that may be left of a request, by what the next one is   *)
(* for: to hand it over, to fetch its result, to fetch its data.            *)
HandsOver ==
  [name |-> {<<"command", "result">>}, key |-> {<<"command", "result", "out">>},
   read |-> {<<"command", "result", "out", "opt">>},
   write |-> {<<"data", "command", "result">>, <<"command", "result">>}, local |-> {}]

FetchesResult ==
  [name |-> {<<"result">>}, key |-> {<<"result", "out">>}, read |-> {<<"result", "out", "opt">>},
   write |-> {<<"result">>}, local |-> {}]

FetchesData ==
  [name |-> {<<>>}, key |-> {<<"out">>, <<>>},
   read |-> {<<"out", "opt">>, <<"out">>, <<"opt">>, <<>>}, write |-> {<<>>}, local |-> {<<>>}]

(* Nothing has been received yet.                                           *)
NothingReceived == call.ret = NoRequest /\ call.out = 0 /\ call.opt = 0 /\ ~call.broken

HandingOver ==
  call.todo \in HandsOver[call.kind] =>
    /\ NothingReceived
    /\ call.kind = "write" /\ call.todo = <<"command", "result">> /\ ~call.refused
         => drive.opt = call.of

(* The bridge holds the result of this request and its data.                *)
Executed ==
  /\ drive.result.of = call.of
  /\ call.kind = "write" => drive.result.used = call.of
  /\ call.kind \in {"key", "read"} => drive.out = call.of
  /\ call.kind = "read" /\ drive.result.value = 1 => drive.opt = call.of

FetchingResult ==
  call.todo \in FetchesResult[call.kind] => NothingReceived /\ (~call.refused => Executed)

FetchingData ==
  call.todo \in FetchesData[call.kind] /\ call.kind # "local" /\ ~call.refused
      /\ call.ret # MEDIAOFFLINE =>
    /\ call.ret.of = call.of
    /\ call.kind = "write" => call.ret.used = call.of
    /\ call.todo # <<>> => drive.out = call.of
    /\ call.todo \in {<<"out", "opt">>, <<"opt">>} => drive.opt = call.of
    /\ call.out \in {0, call.of} /\ call.opt \in {0, call.of}
    /\ call.kind \in {"key", "read"} /\ call.ret.value >= 0 /\ ~call.broken
         /\ call.todo \in {<<"opt">>, <<>>} => call.out = call.of
    /\ call.kind = "read" /\ call.ret.value > 0 /\ ~call.broken
         /\ call.todo \notin {<<"out", "opt">>, <<"opt">>} => call.opt = call.of

RequestStages ==
  call.at \in {"select", "transfer"} =>
    /\ call.kind \in DOMAIN ConnectionsOf
    /\ call.at = "transfer" => call.todo # <<>>
    /\ \/ call.todo \in HandsOver[call.kind]
       \/ call.todo \in FetchesResult[call.kind]
       \/ call.todo \in FetchesData[call.kind]
    /\ HandingOver /\ FetchingResult /\ FetchingData

ResultInv == RequestTypes /\ RequestStages /\ ResultsAreOwn

LEMMA Kinds == DOMAIN ConnectionsOf = {"name", "key", "read", "write", "local"}
  BY DEF ConnectionsOf

(* What is done first of what is left of a request, and what is left then.  *)
LEMMA HandingOverGoesOn ==
  ASSUME NEW kind \in DOMAIN ConnectionsOf, NEW todo \in HandsOver[kind]
  PROVE  /\ todo # <<>> /\ Head(todo) \in {"data", "command"}
         /\ Head(todo) = "data" => kind = "write" /\ Tail(todo) = <<"command", "result">>
         /\ Head(todo) = "command" => Tail(todo) \in FetchesResult[kind]
         /\ kind = "write" /\ Head(todo) = "command" => todo = <<"command", "result">>
<1>1. /\ <<"result">> \in FetchesResult["name"] /\ <<"result">> \in FetchesResult["write"]
      /\ <<"result", "out">> \in FetchesResult["key"]
      /\ <<"result", "out", "opt">> \in FetchesResult["read"]
  BY DEF FetchesResult
<1>2. CASE kind = "name"
  <2>1. todo = <<"command", "result">>
    BY <1>2 DEF HandsOver
  <2> QED
    BY <1>1, <1>2, <2>1
<1>3. CASE kind = "key"
  <2>1. todo = <<"command", "result", "out">>
    BY <1>3 DEF HandsOver
  <2> QED
    BY <1>1, <1>3, <2>1
<1>4. CASE kind = "read"
  <2>1. todo = <<"command", "result", "out", "opt">>
    BY <1>4 DEF HandsOver
  <2> QED
    BY <1>1, <1>4, <2>1
<1>5. CASE kind = "write"
  <2>1. todo \in {<<"command", "result">>, <<"data", "command", "result">>}
    BY <1>5 DEF HandsOver
  <2>2. CASE todo = <<"command", "result">>
    BY <1>1, <1>5, <2>2
  <2>3. CASE todo = <<"data", "command", "result">>
    BY <1>1, <1>5, <2>3
  <2> QED
    BY <2>1, <2>2, <2>3
<1>6. CASE kind = "local"
  BY <1>6 DEF HandsOver
<1> QED
  BY Kinds, <1>2, <1>3, <1>4, <1>5, <1>6

LEMMA FetchingResultGoesOn ==
  ASSUME NEW kind \in DOMAIN ConnectionsOf, NEW todo \in FetchesResult[kind]
  PROVE  /\ todo # <<>> /\ Head(todo) = "result"
         /\ Tail(todo) \in FetchesData[kind] /\ Tail(todo) # <<"opt">>
         /\ Tail(todo) # <<>> => kind \in {"key", "read"}
         /\ kind = "read" => Tail(todo) = <<"out", "opt">>
         /\ kind = "key" => Tail(todo) = <<"out">>
<1>1. \/ kind \in {"name", "write"} /\ todo = <<"result">>
      \/ kind = "key" /\ todo = <<"result", "out">>
      \/ kind = "read" /\ todo = <<"result", "out", "opt">>
  <2>1. kind = "local" => FetchesResult[kind] = {}
    BY DEF FetchesResult
  <2>2. kind \in {"name", "write"} => FetchesResult[kind] = {<<"result">>}
    BY DEF FetchesResult
  <2>3. kind = "key" => FetchesResult[kind] = {<<"result", "out">>}
    BY DEF FetchesResult
  <2>4. kind = "read" => FetchesResult[kind] = {<<"result", "out", "opt">>}
    BY DEF FetchesResult
  <2> QED
    BY <2>1, <2>2, <2>3, <2>4, Kinds
<1>2. /\ <<>> \in FetchesData["name"] /\ <<>> \in FetchesData["write"]
      /\ <<"out">> \in FetchesData["key"] /\ <<"out", "opt">> \in FetchesData["read"]
  BY DEF FetchesData
<1>3. CASE kind \in {"name", "write"} /\ todo = <<"result">>
  BY <1>2, <1>3
<1>4. CASE kind = "key" /\ todo = <<"result", "out">>
  BY <1>2, <1>4
<1>5. CASE kind = "read" /\ todo = <<"result", "out", "opt">>
  BY <1>2, <1>5
<1> QED
  BY <1>1, <1>3, <1>4, <1>5

LEMMA FetchingDataGoesOn ==
  ASSUME NEW kind \in DOMAIN ConnectionsOf, NEW todo \in FetchesData[kind], todo # <<>>
  PROVE  /\ Head(todo) \in {"out", "opt"}
         /\ Head(todo) = "out" => todo \in {<<"out">>, <<"out", "opt">>}
         /\ Head(todo) = "opt" => todo = <<"opt">>
         /\ kind \in {"key", "read"} /\ (todo # <<"out">> => kind = "read")
         /\ Tail(todo) \in FetchesData[kind]
         /\ todo \in {<<"out">>, <<"opt">>} => Tail(todo) = <<>>
         /\ todo = <<"out", "opt">> => Tail(todo) = <<"opt">>
         /\ <<>> \in FetchesData[kind]
<1>1. \/ kind \in {"key", "read"} /\ todo = <<"out">>
      \/ kind = "read" /\ todo \in {<<"out", "opt">>, <<"opt">>}
  BY Kinds DEF FetchesData
<1>2. /\ <<>> \in FetchesData["key"] /\ <<>> \in FetchesData["read"]
      /\ <<"opt">> \in FetchesData["read"]
  BY DEF FetchesData
<1>3. CASE kind \in {"key", "read"} /\ todo = <<"out">>
  BY <1>2, <1>3
<1>4. CASE kind = "read" /\ todo = <<"out", "opt">>
  BY <1>2, <1>4
<1>5. CASE kind = "read" /\ todo = <<"opt">>
  BY <1>2, <1>5
<1> QED
  BY <1>1, <1>3, <1>4, <1>5

LEMMA StagesAreTodos ==
  ASSUME NEW kind \in DOMAIN ConnectionsOf
  PROVE  /\ HandsOver[kind] \subseteq Todos /\ FetchesResult[kind] \subseteq Todos
         /\ FetchesData[kind] \subseteq Todos /\ <<>> \in FetchesData[kind]
<1>1. CASE kind = "name"
  BY <1>1 DEF HandsOver, FetchesResult, FetchesData, Todos
<1>2. CASE kind = "key"
  BY <1>2 DEF HandsOver, FetchesResult, FetchesData, Todos
<1>3. CASE kind = "read"
  BY <1>3 DEF HandsOver, FetchesResult, FetchesData, Todos
<1>4. CASE kind = "write"
  BY <1>4 DEF HandsOver, FetchesResult, FetchesData, Todos
<1>5. CASE kind = "local"
  BY <1>5 DEF HandsOver, FetchesResult, FetchesData, Todos
<1> QED
  BY Kinds, <1>1, <1>2, <1>3, <1>4, <1>5

(* The stages exclude each other.                                           *)
LEMMA StagesDiffer ==
  ASSUME NEW kind \in DOMAIN ConnectionsOf, NEW todo
  PROVE  /\ todo \in HandsOver[kind] => todo \notin FetchesResult[kind] \cup FetchesData[kind]
         /\ todo \in FetchesResult[kind] => todo \notin HandsOver[kind] \cup FetchesData[kind]
         /\ todo \in FetchesData[kind] => todo \notin HandsOver[kind] \cup FetchesResult[kind]
<1>1. todo \in FetchesData[kind] => todo = <<>> \/ Head(todo) \in {"out", "opt"}
  BY FetchingDataGoesOn
<1>2. todo \in FetchesResult[kind] => todo # <<>> /\ Head(todo) = "result"
  BY FetchingResultGoesOn
<1>3. todo \in HandsOver[kind] => todo # <<>> /\ Head(todo) \in {"data", "command"}
  BY HandingOverGoesOn
<1> QED
  BY <1>1, <1>2, <1>3

LEMMA IdleIsCall ==
  ASSUME NEW n \in Nat
  PROVE  /\ Idle(n) \in Call /\ Idle(n).at = "idle" /\ Idle(n).kind = "none" /\ Idle(n).of = n
         /\ Idle(n).ret = NoRequest /\ Idle(n).out = 0 /\ Idle(n).opt = 0
         /\ ~Idle(n).refused /\ ~Idle(n).broken
<1>1. NoRequest \in Result /\ <<>> \in Todos
  BY DEF Result, Todos, NoRequest
<1> QED
  BY <1>1 DEF Idle, Call, Kind

LEMMA ResultInit == BridgeInit => ResultInv
<1> SUFFICES ASSUME BridgeInit PROVE ResultInv
  OBVIOUS
<1>1. RequestTypes
  BY IdleIsCall DEF BridgeInit, RequestTypes, Result, NoRequest
<1>2. RequestStages
  BY IdleIsCall DEF BridgeInit, RequestStages
<1>3. ResultsAreOwn
  BY IdleIsCall DEF BridgeInit, ResultsAreOwn
<1> QED
  BY <1>1, <1>2, <1>3 DEF ResultInv

(* Polls do not touch what belongs to requests.                             *)
LEMMA RequestsUntouched ==
  ASSUME ResultInv, UNCHANGED <<drive, call, answer>>,
         cpu' \in [masked : BOOLEAN, saved : BOOLEAN, torn : BOOLEAN]
  PROVE  ResultInv'
  BY DEF ResultInv, RequestTypes, RequestStages, ResultsAreOwn, HandingOver, FetchingResult,
         FetchingData, NothingReceived, Executed

(* What runs is not a request.                                              *)
LEMMA NotARequest ==
  ASSUME ResultInv, UNCHANGED <<drive, answer>>, call' \in Call,
         call'.at \notin {"select", "transfer"},
         cpu' \in [masked : BOOLEAN, saved : BOOLEAN, torn : BOOLEAN]
  PROVE  ResultInv'
  BY DEF ResultInv, RequestTypes, RequestStages, ResultsAreOwn

(* A request that is given up has no result, or the one received before.    *)
LEMMA GivingUp ==
  ASSUME ResultInv, call.at \in {"select", "transfer"}, call.todo # <<>>,
         call' = GivenUp, UNCHANGED <<answer, cpu>>,
         drive' \in [result : Result, out : Nat, opt : Nat],
         Head(call.todo) \in {"out", "opt"} => drive' = drive
  PROVE  ResultInv'
<1> DEFINE kind == call.kind  todo == call.todo
<1>1. kind \in DOMAIN ConnectionsOf
  BY DEF ResultInv, RequestStages
<1>2. CASE todo \in HandsOver[kind] \/ todo \in FetchesResult[kind]
  <2>1. Head(todo) \notin {"out", "opt"}
    BY <1>1, <1>2, HandingOverGoesOn, FetchingResultGoesOn
  <2>2. /\ call' \in Call /\ call'.kind = kind /\ call'.at = "select" /\ call'.todo = <<>>
        /\ call'.ret = MEDIAOFFLINE
    BY <2>1 DEF ResultInv, RequestTypes, Call, GivenUp, GoesOn, MEDIAOFFLINE, Result, Todos,
       ReadOpt
  <2>3. <<>> \in FetchesData[kind]
    BY <1>1, StagesAreTodos
  <2>4. <<>> \notin HandsOver[kind] /\ <<>> \notin FetchesResult[kind]
    BY <1>1, <2>3, StagesDiffer
  <2>5. RequestStages'
    BY <1>1, <2>2, <2>3, <2>4 DEF RequestStages, HandingOver, FetchingResult, FetchingData
  <2> QED
    BY <2>2, <2>5 DEF ResultInv, RequestTypes, ResultsAreOwn
<1>3. CASE todo \in FetchesData[kind]
  <2>1. /\ Head(todo) \in {"out", "opt"} /\ drive' = drive
        /\ Head(todo) = "out" => todo \in {<<"out">>, <<"out", "opt">>}
        /\ Head(todo) = "opt" => todo = <<"opt">>
        /\ kind \in {"key", "read"}
        /\ todo \in {<<"out">>, <<"opt">>} => Tail(todo) = <<>>
        /\ todo = <<"out", "opt">> => Tail(todo) = <<"opt">>
        /\ Tail(todo) \in FetchesData[kind] /\ <<>> \in FetchesData[kind]
    BY <1>1, <1>3, FetchingDataGoesOn
  <2>2. Tail(todo) \in Todos /\ <<>> \in Todos
    BY <1>1, <2>1, StagesAreTodos
  <2>3. /\ call' \in Call /\ call'.kind = kind /\ call'.of = call.of /\ call'.at = "select"
        /\ call'.todo = IF Head(todo) = "out" THEN Tail(todo) ELSE <<>>
        /\ call'.ret = call.ret /\ call'.out = call.out /\ call'.opt = call.opt
        /\ call'.broken /\ call'.refused = call.refused
    BY <2>1, <2>2 DEF ResultInv, RequestTypes, Call, GivenUp, GoesOn, ReadOpt
  <2>4. call'.todo \in FetchesData[kind] /\ (call'.todo = <<"opt">> => todo = <<"out", "opt">>)
        /\ call'.todo \in {<<"opt">>, <<>>}
    BY <2>1, <2>3
  <2>5. call'.todo \notin HandsOver[kind] /\ call'.todo \notin FetchesResult[kind]
    BY <1>1, <2>4, StagesDiffer
  <2>6. FetchingData
    BY DEF ResultInv, RequestStages
  <2>7. FetchingData'
    <3> SUFFICES ASSUME ~call.refused, call.ret # MEDIAOFFLINE
                 PROVE  /\ call'.ret.of = call.of
                        /\ kind = "write" => call'.ret.used = call.of
                        /\ call'.todo # <<>> => drive.out = call.of
                        /\ call'.todo = <<"opt">> => drive.opt = call.of
                        /\ call'.out \in {0, call.of} /\ call'.opt \in {0, call.of}
      BY <2>1, <2>3, <2>4 DEF FetchingData
    <3> QED
      BY <1>3, <2>1, <2>3, <2>4, <2>6 DEF FetchingData
  <2>8. RequestStages'
    BY <1>1, <2>3, <2>4, <2>5, <2>7 DEF RequestStages, HandingOver, FetchingResult
  <2> QED
    BY <2>1, <2>3, <2>8 DEF ResultInv, RequestTypes, ResultsAreOwn
<1> QED
  BY <1>2, <1>3 DEF ResultInv, RequestStages

LEMMA Starting ==
  ASSUME ResultInv, NEW k \in DOMAIN ConnectionsOf, ExecuteCommand(k)
  PROVE  ResultInv'
<1>1. call.of + 1 \in Nat
  BY DEF ResultInv, RequestTypes, Call
<1>2. ConnectionsOf[k] \in HandsOver[k] \/ (ConnectionsOf[k] = <<>> /\ k = "local")
  <2>1. CASE k = "name"
    BY <2>1 DEF ConnectionsOf, HandsOver, OnName, SendCmd
  <2>2. CASE k = "key"
    BY <2>2 DEF ConnectionsOf, HandsOver, OnKey, CalCmd
  <2>3. CASE k = "read"
    BY <2>3 DEF ConnectionsOf, HandsOver, OnRead, ReadOpt
  <2>4. CASE k = "write"
    BY <2>4 DEF ConnectionsOf, HandsOver, OnWrite, WriteOpt
  <2>5. CASE k = "local"
    BY <2>5 DEF ConnectionsOf, OnHost
  <2> QED
    BY Kinds, <2>1, <2>2, <2>3, <2>4, <2>5
<1>3. ConnectionsOf[k] \in Todos
  BY <1>2, StagesAreTodos
<1>4. k \in Kind
  BY Kinds DEF Kind
<1>5. /\ call' \in Call /\ call'.at = "select" /\ call'.kind = k /\ call'.todo = ConnectionsOf[k]
      /\ call'.ret = NoRequest /\ call'.out = 0 /\ call'.opt = 0 /\ ~call'.broken /\ ~call'.refused
  <2> DEFINE idle == Idle(call.of + 1)
  <2>1. /\ idle \in Call /\ idle.ret = NoRequest /\ idle.out = 0 /\ idle.opt = 0
        /\ ~idle.broken /\ ~idle.refused
    BY <1>1, IdleIsCall
  <2>2. call' = [idle EXCEPT !.at = "select", !.kind = k, !.todo = ConnectionsOf[k]]
    BY DEF ExecuteCommand
  <2> HIDE DEF idle
  <2> QED
    BY <1>3, <1>4, <2>1, <2>2 DEF Call
<1>6. answer'.kind = "none" /\ UNCHANGED <<drive, cpu>>
  BY IdleIsCall DEF ExecuteCommand, Ready
<1>7. CASE ConnectionsOf[k] \in HandsOver[k]
  <2>1. /\ ConnectionsOf[k] \notin FetchesResult[k] /\ ConnectionsOf[k] \notin FetchesData[k]
        /\ ~(k = "write" /\ ConnectionsOf[k] = <<"command", "result">>)
    <3>1. k = "write" => ConnectionsOf[k] = <<"data", "command", "result">>
      BY DEF ConnectionsOf, OnWrite, WriteOpt
    <3> QED
      BY <1>7, <3>1, StagesDiffer
  <2>2. RequestStages'
    BY <1>5, <1>7, <2>1
    DEF RequestStages, HandingOver, FetchingResult, FetchingData, NothingReceived
  <2> QED
    BY <1>5, <1>6, <2>2 DEF ResultInv, RequestTypes, ResultsAreOwn
<1>8. CASE ConnectionsOf[k] = <<>> /\ k = "local"
  <2>1. <<>> \in FetchesData[k] /\ <<>> \notin HandsOver[k] /\ <<>> \notin FetchesResult[k]
    BY StagesAreTodos, StagesDiffer
  <2>2. RequestStages'
    BY <1>5, <1>8, <2>1 DEF RequestStages, HandingOver, FetchingResult, FetchingData
  <2> QED
    BY <1>5, <1>6, <2>2 DEF ResultInv, RequestTypes, ResultsAreOwn
<1> QED
  BY <1>2, <1>7, <1>8

LEMMA Selecting ==
  ASSUME ResultInv, SelectBridge
  PROVE  ResultInv'
<1>1. UNCHANGED <<drive, answer, cpu>> /\ call.at = "select" /\ call.todo # <<>>
  BY DEF SelectBridge, Ready
<1>2. drive' \in [result : Result, out : Nat, opt : Nat]
  BY <1>1 DEF ResultInv, RequestTypes
<1>3. CASE call' = [call EXCEPT !.at = "transfer"]
  <2>1. /\ call' \in Call /\ call'.at = "transfer" /\ call'.kind = call.kind
        /\ call'.todo = call.todo /\ call'.ret = call.ret /\ call'.of = call.of
        /\ call'.out = call.out /\ call'.opt = call.opt
        /\ call'.broken = call.broken /\ call'.refused = call.refused
    BY <1>3 DEF ResultInv, RequestTypes, Call
  <2>2. RequestStages'
    BY <1>1, <2>1 DEF ResultInv, RequestStages, HandingOver, FetchingResult, FetchingData,
       NothingReceived, Executed
  <2> QED
    BY <1>1, <2>1, <2>2 DEF ResultInv, RequestTypes, ResultsAreOwn
<1>4. CASE call' = GivenUp
  BY <1>1, <1>2, <1>4, GivingUp
<1> QED
  BY <1>3, <1>4 DEF SelectBridge

(* What the bridge makes of what it was handed.                             *)
LEMMA WrittenType ==
  ASSUME ResultInv, WriteDrive, Head(call.todo) \in {"command", "data"}
  PROVE  /\ drive' \in [result : Result, out : Nat, opt : Nat]
         /\ Head(call.todo) = "data" => drive'.opt = call.of
         /\ Head(call.todo) = "command" =>
              /\ drive'.result.of = call.of /\ drive'.result.used = drive.opt
              /\ call.kind # "name" => drive'.out = call.of
              /\ drive'.result.value = 1 => drive'.opt = call.of
<1>1. /\ call.of \in Nat /\ drive.opt \in Nat
      /\ drive \in [result : Result, out : Nat, opt : Nat]
  BY DEF ResultInv, RequestTypes, Call
<1>2. CASE Head(call.todo) = "data"
  BY <1>1, <1>2 DEF WriteDrive, WriteOpt
<1>3. CASE Head(call.todo) = "command"
  <2>1. PICK value \in {-1, 0, 1} :
          drive' = [result |-> [of |-> call.of, value |-> value, used |-> drive.opt],
                    out |-> IF call.kind = "name" THEN 0 ELSE call.of,
                    opt |-> IF value = 1 THEN call.of ELSE drive.opt]
    BY <1>3 DEF WriteDrive, WriteOpt
  <2> QED
    BY <1>1, <1>3, <2>1 DEF Result
<1> QED
  BY <1>2, <1>3

(* A connection that hands something over and does not break off.           *)
LEMMA Written ==
  ASSUME ResultInv, UNCHANGED <<answer, cpu>>,
         call.at = "transfer", Head(call.todo) \in {"command", "data"},
         \/ WriteDrive /\ call' = GoesOn
         \/ UNCHANGED drive /\ call' = [GoesOn EXCEPT !.refused = TRUE]
  PROVE  ResultInv'
<1> DEFINE kind == call.kind  todo == call.todo
<1>1. kind \in DOMAIN ConnectionsOf /\ todo # <<>>
  BY DEF ResultInv, RequestStages
<1>2. todo \in HandsOver[kind]
  BY <1>1, FetchingResultGoesOn, FetchingDataGoesOn DEF ResultInv, RequestStages
<1>3. /\ Head(todo) = "data" => kind = "write" /\ Tail(todo) = <<"command", "result">>
      /\ Head(todo) = "command" => Tail(todo) \in FetchesResult[kind]
      /\ kind = "write" /\ Head(todo) = "command" => todo = <<"command", "result">>
  BY <1>1, <1>2, HandingOverGoesOn
<1>4. <<"command", "result">> \in HandsOver["write"]
  BY DEF HandsOver
<1>5. Tail(todo) \in HandsOver[kind] \/ Tail(todo) \in FetchesResult[kind]
  BY <1>3, <1>4
<1>6. Tail(todo) \in Todos
  BY <1>1, <1>5, StagesAreTodos
<1>7. /\ call' \in Call /\ call'.at = "select" /\ call'.kind = kind /\ call'.of = call.of
      /\ call'.todo = Tail(todo) /\ call'.ret = call.ret /\ call'.out = call.out
      /\ call'.opt = call.opt /\ call'.broken = call.broken
      /\ ~call'.refused => ~call.refused /\ WriteDrive
  BY ZenonT(60), <1>6 DEF ResultInv, RequestTypes, Call, GoesOn
<1>8. drive' \in [result : Result, out : Nat, opt : Nat]
  BY WrittenType DEF ResultInv, RequestTypes
<1>9. NothingReceived /\ NothingReceived'
  BY <1>2, <1>7 DEF ResultInv, RequestStages, HandingOver, NothingReceived
<1>10. CASE Head(todo) = "data"
  <2>1. ~call'.refused => drive'.opt = call.of
    BY <1>7, <1>10, WrittenType
  <2>2. /\ call'.todo \in HandsOver[kind]
        /\ call'.todo \notin FetchesResult[kind] /\ call'.todo \notin FetchesData[kind]
    BY ZenonT(60), <1>1, <1>3, <1>4, <1>7, <1>10, StagesDiffer
  <2>3. RequestStages'
    BY <1>1, <1>7, <1>9, <2>1, <2>2
    DEF RequestStages, HandingOver, FetchingResult, FetchingData
  <2> QED
    BY <1>7, <1>8, <2>3 DEF ResultInv, RequestTypes, ResultsAreOwn
<1>11. CASE Head(todo) = "command"
  <2>1. /\ call'.todo \in FetchesResult[kind]
        /\ call'.todo \notin HandsOver[kind] /\ call'.todo \notin FetchesData[kind]
    BY <1>1, <1>3, <1>7, <1>11, StagesDiffer
  <2>2. kind = "write" /\ ~call.refused => drive.opt = call.of
    BY <1>2, <1>3, <1>11 DEF ResultInv, RequestStages, HandingOver
  <2>3. ~call'.refused => Executed'
    BY <1>7, <1>11, <2>2, WrittenType DEF Executed
  <2>4. RequestStages'
    BY <1>1, <1>7, <1>9, <2>1, <2>3
    DEF RequestStages, HandingOver, FetchingResult, FetchingData
  <2> QED
    BY <1>7, <1>8, <2>4 DEF ResultInv, RequestTypes, ResultsAreOwn
<1> QED
  BY <1>10, <1>11

(* A connection that hands something over.                                  *)
LEMMA Writing == ASSUME ResultInv, WriteConnection PROVE ResultInv'
<1>1. /\ call.at = "transfer" /\ Head(call.todo) \in {"command", "data"}
      /\ UNCHANGED <<answer, cpu>>
  BY DEF WriteConnection, Transferring, Ready, WriteOpt
<1>2. CASE Fine /\ link' = "free" /\ WriteDrive /\ call' = GoesOn
  BY <1>1, <1>2, Written
<1>3. CASE Fail /\ link' = "free" /\ UNCHANGED drive /\ call' = [GoesOn EXCEPT !.refused = TRUE]
  BY <1>1, <1>3, Written
<1>4. CASE (WriteDrive \/ UNCHANGED drive) /\ call' = GivenUp
  <2>1. drive' \in [result : Result, out : Nat, opt : Nat]
    <3>1. UNCHANGED drive => drive' \in [result : Result, out : Nat, opt : Nat]
      BY DEF ResultInv, RequestTypes
    <3>2. WriteDrive => drive' \in [result : Result, out : Nat, opt : Nat]
      BY <1>1, WrittenType
    <3> QED
      BY <1>4, <3>1, <3>2
  <2>2. call.todo # <<>>
    BY <1>1 DEF ResultInv, RequestStages
  <2> QED
    BY <1>1, <1>4, <2>1, <2>2, GivingUp
<1> QED
  BY <1>2, <1>3, <1>4 DEF WriteConnection

LEMMA DataDiffer ==
  /\ <<>> # <<"opt">> /\ <<>> # <<"out">> /\ <<>> # <<"out", "opt">>
  /\ <<"out">> # <<"opt">> /\ <<"out">> # <<"out", "opt">> /\ <<"opt">> # <<"out", "opt">>
  OBVIOUS

(* What the result leaves to be fetched.                                    *)
LEMMA ResultDecides ==
  ASSUME NEW kind \in DOMAIN ConnectionsOf, NEW todo \in FetchesResult[kind],
         NEW value \in {-1, 0, 1}, NEW left, left = Remaining(Tail(todo), value)
  PROVE  /\ left \in FetchesData[kind] /\ left # <<"opt">>
         /\ left # <<>> => kind \in {"key", "read"}
         /\ left = <<"out", "opt">> => kind = "read" /\ value = 1
         /\ kind \in {"key", "read"} /\ value >= 0 => left # <<>>
         /\ kind = "read" /\ value > 0 => left = <<"out", "opt">>
<1>1. /\ Tail(todo) \in FetchesData[kind] /\ Tail(todo) # <<"opt">>
      /\ Tail(todo) # <<>> => kind \in {"key", "read"}
      /\ kind = "read" => Tail(todo) = <<"out", "opt">>
      /\ kind = "key" => Tail(todo) = <<"out">>
  BY FetchingResultGoesOn
<1>2. <<>> \in FetchesData[kind] /\ <<"out">> \in FetchesData["read"]
  BY StagesAreTodos DEF FetchesData
<1>3. /\ value < 0 => left = <<>>
      /\ value = 0 /\ Tail(todo) = <<"out", "opt">> => left = <<"out">>
      /\ ~(value < 0) /\ ~(value = 0 /\ Tail(todo) = <<"out", "opt">>) => left = Tail(todo)
  BY DEF Remaining, ReadOpt
<1>4. CASE value < 0
  <2>1. left = <<>> /\ left \in FetchesData[kind] /\ ~(value >= 0) /\ ~(value > 0)
    BY <1>2, <1>3, <1>4
  <2>2. left # <<"opt">> /\ left # <<"out", "opt">>
    BY <2>1, DataDiffer
  <2> QED
    BY <2>1, <2>2
<1>5. CASE value = 0 /\ kind = "read"
  BY <1>1, <1>2, <1>3, <1>5, DataDiffer
<1>6. CASE value = 0 /\ kind = "key"
  <2>1. Tail(todo) = <<"out">>
    BY <1>1, <1>6
  <2>2. ~(value < 0) /\ Tail(todo) # <<"out", "opt">>
    BY <1>6, <2>1, DataDiffer
  <2>3. left = <<"out">> /\ left \in FetchesData[kind]
    BY <1>1, <1>3, <2>1, <2>2
  <2>4. kind # "read"
    BY <1>6
  <2> QED
    BY <1>6, <2>3, <2>4, DataDiffer
<1>7. CASE value = 0 /\ kind \notin {"key", "read"}
  BY <1>1, <1>3, <1>7, DataDiffer
<1>8. CASE value > 0
  <2>1. left = Tail(todo) /\ value = 1 /\ ~(value < 0)
    BY <1>3, <1>8
  <2>2. CASE kind = "read"
    BY <1>1, <2>1, <2>2, DataDiffer
  <2>3. CASE kind = "key"
    <3>1. left = <<"out">> /\ left \in FetchesData[kind] /\ kind # "read"
      BY <1>1, <2>1, <2>3
    <3> QED
      BY <2>3, <3>1, DataDiffer
  <2>4. CASE kind \notin {"key", "read"}
    <3>1. left = <<>> /\ left \in FetchesData[kind]
      BY <1>1, <2>1, <2>4
    <3> QED
      BY <2>4, <3>1, DataDiffer
  <2> QED
    BY <2>2, <2>3, <2>4
<1> QED
  BY <1>4, <1>5, <1>6, <1>7, <1>8

LEMMA ReadingResult ==
  ASSUME ResultInv, call.at = "transfer", Head(call.todo) = "result", UNCHANGED <<drive, answer, cpu>>,
         call' = [GoesOn EXCEPT !.ret = drive.result, !.todo = Remaining(@, drive.result.value)]
  PROVE  ResultInv'
<1> DEFINE kind == call.kind  todo == call.todo
<1>1. kind \in DOMAIN ConnectionsOf /\ todo # <<>>
  BY DEF ResultInv, RequestStages
<1>2. todo \in FetchesResult[kind]
  BY <1>1, HandingOverGoesOn, FetchingDataGoesOn DEF ResultInv, RequestStages
<1>3. drive.result \in Result /\ drive.result.value \in {-1, 0, 1}
  BY DEF ResultInv, RequestTypes, Result
<1>4. PICK left \in FetchesData[kind] :
        /\ left = Remaining(Tail(todo), drive.result.value) /\ left # <<"opt">>
        /\ left # <<>> => kind \in {"key", "read"}
        /\ left = <<"out", "opt">> => kind = "read" /\ drive.result.value = 1
        /\ kind \in {"key", "read"} /\ drive.result.value >= 0 => left # <<>>
        /\ kind = "read" /\ drive.result.value > 0 => left = <<"out", "opt">>
  BY <1>1, <1>2, <1>3, ResultDecides
<1>5. left \in Todos
  BY <1>1, <1>4, StagesAreTodos
<1>6. /\ call' \in Call /\ call'.at = "select" /\ call'.kind = kind /\ call'.of = call.of
      /\ call'.todo = left /\ call'.ret = drive.result /\ call'.out = call.out
      /\ call'.opt = call.opt /\ call'.broken = call.broken /\ call'.refused = call.refused
  BY <1>3, <1>4, <1>5 DEF ResultInv, RequestTypes, Call, GoesOn
<1>7. call.out = 0 /\ call.opt = 0 /\ (~call.refused => Executed)
  BY <1>2 DEF ResultInv, RequestStages, FetchingResult, NothingReceived
<1>8. FetchingData'
  <2> SUFFICES ASSUME ~call.refused
               PROVE  FetchingData'
    BY <1>6 DEF FetchingData
  <2> QED
    BY <1>3, <1>4, <1>6, <1>7 DEF FetchingData, Executed
<1>9. left \notin HandsOver[kind] /\ left \notin FetchesResult[kind]
  BY <1>1, <1>4, StagesDiffer
<1>10. RequestStages'
  BY <1>1, <1>4, <1>6, <1>8, <1>9 DEF RequestStages, HandingOver, FetchingResult
<1> QED
  BY <1>6, <1>10 DEF ResultInv, RequestTypes, ResultsAreOwn

LEMMA ReadingData ==
  ASSUME ResultInv, call.at = "transfer", UNCHANGED <<drive, answer, cpu>>,
         \/ Head(call.todo) = "out" /\ call' = [GoesOn EXCEPT !.out = drive.out]
         \/ Head(call.todo) = "opt" /\ call' = [GoesOn EXCEPT !.opt = drive.opt]
  PROVE  ResultInv'
<1> DEFINE kind == call.kind  todo == call.todo
<1>1. kind \in DOMAIN ConnectionsOf /\ todo # <<>> /\ FetchingData
  BY DEF ResultInv, RequestStages
<1>2. todo \in FetchesData[kind]
  BY <1>1, HandingOverGoesOn, FetchingResultGoesOn DEF ResultInv, RequestStages
<1>3. /\ Head(todo) = "out" => todo \in {<<"out">>, <<"out", "opt">>}
      /\ Head(todo) = "opt" => todo = <<"opt">>
      /\ kind \in {"key", "read"} /\ (todo # <<"out">> => kind = "read")
      /\ todo \in {<<"out">>, <<"opt">>} => Tail(todo) = <<>>
      /\ todo = <<"out", "opt">> => Tail(todo) = <<"opt">>
      /\ Tail(todo) \in FetchesData[kind]
  BY <1>1, <1>2, FetchingDataGoesOn
<1>4. Tail(todo) \in Todos
  BY <1>1, <1>3, StagesAreTodos
<1>5. /\ call' \in Call /\ call'.at = "select" /\ call'.kind = kind /\ call'.of = call.of
      /\ call'.todo = Tail(todo) /\ call'.ret = call.ret /\ call'.broken = call.broken
      /\ call'.refused = call.refused
      /\ Head(todo) = "out" => call'.out = drive.out /\ call'.opt = call.opt
      /\ Head(todo) = "opt" => call'.out = call.out /\ call'.opt = drive.opt
  BY ZenonT(60), <1>4 DEF ResultInv, RequestTypes, Call, GoesOn
<1>6. FetchingData'
  <2> SUFFICES ASSUME ~call.refused, call.ret # MEDIAOFFLINE
               PROVE  FetchingData'
    BY <1>5 DEF FetchingData
  <2>1. CASE todo = <<"out">>
    BY <1>1, <1>2, <1>3, <1>5, <2>1 DEF FetchingData
  <2>2. CASE todo = <<"out", "opt">>
    BY <1>1, <1>2, <1>3, <1>5, <2>2 DEF FetchingData
  <2>3. CASE todo = <<"opt">>
    BY <1>1, <1>2, <1>3, <1>5, <2>3 DEF FetchingData
  <2> QED
    BY <1>3, <2>1, <2>2, <2>3
<1>7. Tail(todo) \notin HandsOver[kind] /\ Tail(todo) \notin FetchesResult[kind]
  BY <1>1, <1>3, StagesDiffer
<1>8. RequestStages'
  BY <1>1, <1>3, <1>5, <1>6, <1>7 DEF RequestStages, HandingOver, FetchingResult
<1> QED
  BY <1>5, <1>8 DEF ResultInv, RequestTypes, ResultsAreOwn

(* A connection that fetches something.                                     *)
LEMMA Reading == ASSUME ResultInv, ReadConnection PROVE ResultInv'
<1>1. /\ call.at = "transfer" /\ Head(call.todo) \in {"result", "out", "opt"}
      /\ UNCHANGED <<drive, answer, cpu>> /\ call.todo # <<>>
  BY DEF ReadConnection, Transferring, Ready, ReadOpt, ResultInv, RequestStages
<1>2. CASE call' = GivenUp
  BY <1>1, <1>2, GivingUp DEF ResultInv, RequestTypes
<1>3. CASE call' = CASE Head(call.todo) = "result" ->
                          [GoesOn EXCEPT !.ret = drive.result,
                                         !.todo = Remaining(@, drive.result.value)]
                     [] Head(call.todo) = "out" -> [GoesOn EXCEPT !.out = drive.out]
                     [] OTHER -> [GoesOn EXCEPT !.opt = drive.opt]
  <2>1. CASE Head(call.todo) = "result"
    BY <1>1, <1>3, <2>1, ReadingResult
  <2>2. CASE Head(call.todo) = "out"
    BY <1>1, <1>3, <2>2, ReadingData
  <2>3. CASE Head(call.todo) = "opt"
    BY <1>1, <1>3, <2>3, ReadingData
  <2> QED
    BY <1>1, <2>1, <2>2, <2>3
<1> QED
  BY <1>2, <1>3 DEF ReadConnection

(* The answer of a request of which nothing is left to do.                  *)
LEMMA Answering == ASSUME ResultInv, SetResult PROVE ResultInv'
<1>1. /\ call.at = "select" /\ call.todo = <<>> /\ answer' = PassedOn(call)
      /\ call' = Idle(call.of) /\ UNCHANGED <<drive, cpu>>
  BY DEF SetResult, Ready
<1>2. /\ call \in Call /\ call.kind \in DOMAIN ConnectionsOf /\ FetchingData
  BY <1>1 DEF ResultInv, RequestTypes, RequestStages
<1>3. call' \in Call /\ call'.at = "idle"
  BY <1>1, <1>2, IdleIsCall DEF Call
<1>4. <<>> \in FetchesData[call.kind]
  BY <1>2, StagesAreTodos
<1>5. /\ answer'.kind = call.kind /\ answer'.of = call.of /\ answer'.ret = call.ret
      /\ answer'.refused = call.refused /\ answer'.broken = call.broken
      /\ answer'.opt = call.opt
      /\ answer'.out = IF call.ret.value < 0 THEN 0 ELSE call.out
  BY <1>1, <1>2 DEF PassedOn, Call
<1>6. ResultsAreOwn'
  <2> SUFFICES ASSUME call.kind # "local", call.ret # MEDIAOFFLINE, ~call.refused
               PROVE  ResultsAreOwn'
    BY <1>5 DEF ResultsAreOwn
  <2>1. call.ret.value \in {-1, 0, 1}
    BY <1>2 DEF Call, Result
  <2> QED
    BY <1>1, <1>2, <1>4, <1>5, <2>1 DEF FetchingData, ResultsAreOwn
<1> QED
  BY <1>1, <1>3, <1>6 DEF ResultInv, RequestTypes, RequestStages

LEMMA ResultNext == ResultInv /\ [BridgeNext]_bridgeVars => ResultInv'
<1> SUFFICES ASSUME ResultInv, [BridgeNext]_bridgeVars PROVE ResultInv'
  OBVIOUS
<1>1. CASE UNCHANGED bridgeVars
  BY <1>1, RequestsUntouched DEF bridgeVars, ResultInv, RequestTypes
<1>2. ASSUME NEW kind \in DOMAIN ConnectionsOf, ExecuteCommand(kind) PROVE ResultInv'
  BY <1>2, Starting
<1>3. CASE DriveStep
  BY <1>3, Selecting, Writing, Reading, Answering DEF DriveStep
<1>4. ASSUME NEW how \in {"trap", "call"}, SendPacket(how) PROVE ResultInv'
  <2>1. PICK idle \in Call : call' = [idle EXCEPT !.at = "save", !.kind = how, !.masked = cpu.masked]
    <3>1. call.of + 1 \in Nat
      BY DEF ResultInv, RequestTypes, Call
    <3> QED
      BY <1>4, <3>1, IdleIsCall DEF SendPacket
  <2>2. call' \in Call /\ call'.at = "save"
    BY <2>1 DEF Call, Kind, ResultInv, RequestTypes
  <2> QED
    BY <1>4, <2>2, NotARequest DEF SendPacket, Sending, ResultInv, RequestTypes
<1>5. CASE SaveMask
  BY <1>5, NotARequest DEF SaveMask, Sending, ResultInv, RequestTypes, Call
<1>6. CASE Mask
  BY <1>6, NotARequest DEF Mask, Sending, ResultInv, RequestTypes, Call
<1>7. CASE Send
  BY <1>7, NotARequest DEF Send, Sending, ResultInv, RequestTypes, Call
<1>8. CASE Unmask
  <2>1. call' \in Call /\ call'.at = "idle"
    BY <1>8, IdleIsCall DEF Unmask, ResultInv, RequestTypes, Call
  <2> QED
    BY <1>8, <2>1, NotARequest DEF Unmask, Sending, ResultInv, RequestTypes, Call
<1>9. CASE AddList
  BY <1>9, RequestsUntouched DEF AddList, ResultInv, RequestTypes
<1>10. CASE IntProcess
  BY <1>10, RequestsUntouched DEF IntProcess, ResultInv, RequestTypes
<1>11. CASE PollStep
  BY <1>11, RequestsUntouched
  DEF PollStep, GetPacketLen, FetchPacket, Handlers, ResultInv, RequestTypes
<1>12. CASE Arrive \/ BridgeFrees
  BY <1>12, RequestsUntouched DEF Arrive, BridgeFrees, driverState, ResultInv, RequestTypes
<1> QED
  BY <1>1, <1>2, <1>3, <1>4, <1>5, <1>6, <1>7, <1>8, <1>9, <1>10, <1>11, <1>12
  DEF BridgeNext, BridgeActs, SendStep

(* Whatever the polls, the requests before and the connections that break   *)
(* off have left in the bridge, a request that was not refused is answered  *)
(* with its own result and data (x68k/RASDRV/BRIDGE.C).                     *)
THEOREM ResultsOwn == BridgeSpec => []ResultsAreOwn
<1>1. ResultInv => ResultsAreOwn
  BY DEF ResultInv
<1> QED
  BY <1>1, ResultInit, ResultNext, PTL DEF BridgeSpec

-----------------------------------------------------------------------------
(* The printer                                                             *)

Known == Initiators \ Anonymous

(* While an initiator with an ID has the reservation, the file holds only   *)
(* what that one sent.                                                      *)
SpoolOfHolder == reserving \in Known => \A n \in DOMAIN spool : spool[n].by = reserving

(* Otherwise the file holds no protected data.                              *)
SpoolOfOthers == reserving \notin Known => \A n \in DOMAIN spool : ~Protected(spool[n])

(* The time of the reservation is that of its holder's last command.        *)
AgeOfHolder == reserving \in Known => silent >= age

PrinterInv == PrinterTypeOK /\ SpoolOfHolder /\ SpoolOfOthers /\ JobsNotMixed /\ AgeOfHolder

-----------------------------------------------------------------------------
LEMMA NoData == <<>> \in Seq(Chunk)
  OBVIOUS

(* The initial states.                                                      *)
LEMMA PrinterInvInit == PrinterInit => PrinterInv
<1> SUFFICES ASSUME PrinterInit PROVE PrinterInv
  OBVIOUS
<1>1. PrinterTypeOK
  <2>1. fd \in BOOLEAN
    BY DEF PrinterInit
  <2> QED
    BY <2>1, NoData, TimeoutAssumption DEF PrinterInit, PrinterTypeOK
<1>2. reserving \notin Known
  BY InitiatorsAssumption DEF PrinterInit, Known
<1> QED
  BY <1>1, <1>2 DEF PrinterInit, PrinterInv, SpoolOfHolder, SpoolOfOthers, JobsNotMixed,
     AgeOfHolder

(* Who passes the reservation of an initiator with an ID is that initiator. *)
LEMMA PassesKnown ==
  ASSUME NEW i \in Initiators, reserving \in Known, Passes(i)
  PROVE  i = reserving
  BY InitiatorsAssumption DEF Passes, GetInitiatorId, Known

(* A known ID is the ID of that initiator alone.                            *)
LEMMA IdKnown ==
  ASSUME NEW i \in Initiators, GetInitiatorId(i) \in Known
  PROVE  i = GetInitiatorId(i)
  BY InitiatorsAssumption DEF GetInitiatorId, Known

LEMMA IdType ==
  ASSUME NEW i \in Initiators
  PROVE  GetInitiatorId(i) \in Known \cup {UnknownId}
  BY DEF GetInitiatorId, Known

LEMMA LaterType ==
  ASSUME NEW t \in 0..(Timeout + 1)
  PROVE  Later(t) \in 0..(Timeout + 1)
  BY TimeoutAssumption DEF Later

-----------------------------------------------------------------------------
(* What an answer leaves of the invariant when the file is kept (and the    *)
(* reservation too), when it is gone, and when data are added to it.        *)
LEMMA SilentType ==
  ASSUME PrinterInv, NEW i \in Initiators, NEW code, NEW printed, Answered(i, code, printed)
  PROVE  silent' \in 0..(Timeout + 1)
  BY TimeoutAssumption DEF Answered, PrinterInv, PrinterTypeOK

LEMMA KeptFile ==
  ASSUME PrinterInv, NEW i \in Initiators, NEW code, Answered(i, code, <<>>),
         UNCHANGED <<reserving, spool>>, fd' \in BOOLEAN,
         age' = 0 \/ (~Passes(i) /\ UNCHANGED age)
  PROVE  PrinterInv'
<1>1. PrinterTypeOK'
  BY SilentType, TimeoutAssumption DEF PrinterInv, PrinterTypeOK, Answered
<1>2. AgeOfHolder'
  BY <1>1, TimeoutAssumption
  DEF PrinterInv, PrinterTypeOK, AgeOfHolder, Answered, Passes
<1>3. SpoolOfHolder' /\ SpoolOfOthers' /\ JobsNotMixed'
  BY DEF PrinterInv, SpoolOfHolder, SpoolOfOthers, JobsNotMixed, Answered, Protected
<1> QED
  BY <1>1, <1>2, <1>3 DEF PrinterInv

LEMMA GoneFile ==
  ASSUME PrinterInv, NEW i \in Initiators, NEW code, NEW printed, Answered(i, code, printed),
         printed = <<>> \/ printed = spool, Cleanup, age' = 0,
         reserving' \in Known \cup {UnknownId, NOT_RESERVED}
  PROVE  PrinterInv'
<1>1. PrinterTypeOK'
  <2>1. spool' \in Seq(Chunk) /\ job' \in Seq(Chunk)
    BY NoData DEF PrinterInv, PrinterTypeOK, Answered, Cleanup
  <2>2. fd' \in BOOLEAN
    BY DEF Cleanup
  <2> QED
    BY <2>1, <2>2, SilentType, TimeoutAssumption DEF PrinterTypeOK, Known
<1>2. AgeOfHolder'
  BY <1>1 DEF PrinterTypeOK, AgeOfHolder
<1>3. SpoolOfHolder' /\ SpoolOfOthers'
  BY DEF SpoolOfHolder, SpoolOfOthers, Cleanup
<1>4. JobsNotMixed'
  <2>1. CASE printed = <<>>
    BY <2>1 DEF JobsNotMixed, Answered
  <2>2. CASE printed = spool
    BY <2>2 DEF JobsNotMixed, Answered, PrinterInv, SpoolOfHolder, SpoolOfOthers
  <2> QED
    BY <2>1, <2>2
<1> QED
  BY <1>1, <1>2, <1>3, <1>4 DEF PrinterInv

LEMMA GrownFile ==
  ASSUME PrinterInv, NEW i \in Initiators, NEW code, Answered(i, code, <<>>),
         CheckReservation(i), UNCHANGED reserving, WriteByteSequence(i)
  PROVE  PrinterInv'
<1> DEFINE chunk == [by |-> i, reserved |-> reserving = GetInitiatorId(i)]
<1>1. chunk \in Chunk /\ spool \in Seq(Chunk) /\ spool' = Append(spool, chunk)
  BY DEF Chunk, PrinterInv, PrinterTypeOK, WriteByteSequence
<1>2. PrinterTypeOK'
  <2>1. spool' \in Seq(Chunk)
    BY <1>1
  <2> QED
    BY <2>1, SilentType, TimeoutAssumption
    DEF PrinterInv, PrinterTypeOK, Answered, CheckReservation, WriteByteSequence
<1>3. AgeOfHolder'
  BY <1>2 DEF PrinterTypeOK, AgeOfHolder, CheckReservation
<1>4. \A n \in DOMAIN spool' : (n \in DOMAIN spool /\ spool'[n] = spool[n]) \/ spool'[n] = chunk
  BY <1>1
<1>5. SpoolOfHolder'
  <2>1. reserving \in Known => chunk.by = reserving
    BY PassesKnown DEF CheckReservation
  <2> QED
    BY <1>4, <2>1 DEF PrinterInv, SpoolOfHolder
<1>6. SpoolOfOthers'
  <2>1. reserving \notin Known => ~Protected(chunk)
    BY DEF Protected, Known, GetInitiatorId
  <2> QED
    BY <1>4, <2>1 DEF PrinterInv, SpoolOfOthers
<1>7. JobsNotMixed'
  BY DEF JobsNotMixed, Answered
<1> QED
  BY <1>2, <1>3, <1>5, <1>6, <1>7 DEF PrinterInv

LEMMA RefusedInv ==
  ASSUME PrinterInv, NEW i \in Initiators, Refused(i)
  PROVE  PrinterInv'
<1>1. Answered(i, "RESERVATION CONFLICT", <<>>) /\ ~Passes(i)
      /\ UNCHANGED <<reserving, spool, age>> /\ fd' \in BOOLEAN
  BY DEF Refused, PrinterInv, PrinterTypeOK
<1> QED
  BY <1>1, KeptFile

-----------------------------------------------------------------------------
(* Every step.                                                              *)
LEMMA PrinterInvStep == PrinterInv /\ [PrinterNext]_printerVars => PrinterInv'
<1> SUFFICES ASSUME PrinterInv, [PrinterNext]_printerVars PROVE PrinterInv'
  OBVIOUS
<1>1. CASE Tick
  <2>1. PrinterTypeOK'
    BY <1>1, LaterType DEF Tick, PrinterInv, PrinterTypeOK
  <2>2. AgeOfHolder'
    BY <1>1, TimeoutAssumption DEF Tick, PrinterInv, PrinterTypeOK, AgeOfHolder, Later
  <2> QED
    BY <1>1, <2>1, <2>2
    DEF Tick, PrinterInv, SpoolOfHolder, SpoolOfOthers, JobsNotMixed, Protected
<1>2. CASE Detach
  <2>1. PrinterTypeOK'
    <3>1. fd' \in BOOLEAN
      BY <1>2 DEF Detach, DiscardReservation, Cleanup
    <3> QED
      BY <1>2, <3>1, NoData, TimeoutAssumption
      DEF Detach, DiscardReservation, Cleanup, PrinterInv, PrinterTypeOK
  <2>2. reserving' \notin Known
    BY <1>2, InitiatorsAssumption DEF Detach, DiscardReservation, Known
  <2> QED
    BY <1>2, <2>1, <2>2
    DEF Detach, DiscardReservation, Cleanup, PrinterInv, SpoolOfHolder, SpoolOfOthers,
        JobsNotMixed, AgeOfHolder
<1>3. ASSUME NEW i \in Initiators,
             TestUnitReady(i) \/ SendDiagnostic(i) \/ StopPrint(i)
      PROVE  PrinterInv'
  <2>1. CASE Refused(i)
    BY <2>1, RefusedInv
  <2>2. CASE /\ CheckReservation(i)
             /\ UNCHANGED <<reserving, fd, spool>>
             /\ Answered(i, "GOOD", <<>>)
    <3>1. fd' \in BOOLEAN /\ age' = 0 /\ UNCHANGED <<reserving, spool>>
      BY <2>2 DEF CheckReservation, PrinterInv, PrinterTypeOK
    <3> QED
      BY <2>2, <3>1, KeptFile
  <2> QED
    BY <1>3, <2>1, <2>2 DEF TestUnitReady, SendDiagnostic, StopPrint, OnlyChecked
<1>4. ASSUME NEW i \in Initiators, ReserveUnit(i)
      PROVE  PrinterInv'
  <2>1. CASE Refused(i)
    BY <2>1, RefusedInv
  <2>2. CASE ~Refused(i)
    <3>1. /\ Answered(i, "GOOD", <<>>) /\ Cleanup /\ age' = 0
          /\ reserving' \in Known \cup {UnknownId, NOT_RESERVED}
      BY <1>4, <2>2, IdType DEF ReserveUnit, CheckReservation
    <3> QED
      BY <3>1, GoneFile
  <2> QED
    BY <2>1, <2>2
<1>5. ASSUME NEW i \in Initiators, ReleaseUnit(i)
      PROVE  PrinterInv'
  <2>1. CASE Refused(i)
    BY <2>1, RefusedInv
  <2>2. CASE ~Refused(i)
    <3>1. /\ Answered(i, "GOOD", <<>>) /\ Cleanup /\ age' = 0
          /\ reserving' \in Known \cup {UnknownId, NOT_RESERVED}
      BY <1>5, <2>2 DEF ReleaseUnit, CheckReservation, DiscardReservation
    <3> QED
      BY <3>1, GoneFile
  <2> QED
    BY <2>1, <2>2
<1>6. ASSUME NEW i \in Initiators, PrintData(i)
      PROVE  PrinterInv'
  <2>1. CASE Refused(i)
    BY <2>1, RefusedInv
  <2>2. CASE ~Refused(i)
    <3>1. PICK code : /\ Answered(i, code, <<>>)
                      /\ \/ WriteByteSequence(i)
                         \/ UNCHANGED <<fd, spool>>
                         \/ fd' = TRUE /\ UNCHANGED spool
      BY <1>6, <2>2 DEF PrintData
    <3>2. CheckReservation(i) /\ UNCHANGED reserving
      BY <1>6, <2>2 DEF PrintData
    <3>3. CASE WriteByteSequence(i)
      BY <3>1, <3>2, <3>3, GrownFile
    <3>4. CASE UNCHANGED spool /\ (UNCHANGED fd \/ fd' = TRUE)
      <4>1. fd' \in BOOLEAN /\ age' = 0
        BY <3>2, <3>4 DEF CheckReservation, PrinterInv, PrinterTypeOK
      <4> QED
        BY <3>1, <3>2, <3>4, <4>1, KeptFile
    <3> QED
      BY <3>1, <3>3, <3>4
  <2> QED
    BY <2>1, <2>2
<1>7. ASSUME NEW i \in Initiators, SynchronizeBuffer(i)
      PROVE  PrinterInv'
  <2>1. CASE Refused(i)
    BY <2>1, RefusedInv
  <2>2. CASE ~Refused(i)
    <3>1. PICK code, printed : Answered(i, code, printed) /\ printed \in {<<>>, spool}
      BY <1>7, <2>2 DEF SynchronizeBuffer
    <3>2. /\ Cleanup /\ age' = 0
          /\ reserving' \in Known \cup {UnknownId, NOT_RESERVED}
      BY <1>7, <2>2 DEF SynchronizeBuffer, CheckReservation, PrinterInv, PrinterTypeOK, Known
    <3> QED
      BY <3>1, <3>2, GoneFile
  <2> QED
    BY <2>1, <2>2
<1>8. ASSUME NEW i \in Initiators, Crash(i) \/ Restart(i)
      PROVE  PrinterInv'
  BY <1>8 DEF Crash, Restart, PrinterInv, PrinterTypeOK, SpoolOfHolder, SpoolOfOthers,
     JobsNotMixed, AgeOfHolder, Protected
<1>9. CASE UNCHANGED printerVars
  BY <1>9 DEF printerVars, PrinterInv, PrinterTypeOK, SpoolOfHolder, SpoolOfOthers,
     JobsNotMixed, AgeOfHolder, Protected
<1> QED
  BY <1>1, <1>2, <1>3, <1>4, <1>5, <1>6, <1>7, <1>8, <1>9 DEF PrinterNext

LEMMA PrinterInvariant == PrinterSpec => []PrinterInv
  BY PrinterInvInit, PrinterInvStep, PTL DEF PrinterSpec

(* What is printed for an initiator that reserved the printer holds no data *)
(* of another one, for any initiators, with or without IDs of their own,    *)
(* and any timeout: a reservation always starts with no file, and only its  *)
(* holder gets past CheckReservation (scsi_printer.cpp:243).                *)
THEOREM JobsOfOne == PrinterSpec => []JobsNotMixed
<1>1. PrinterInv => JobsNotMixed
  BY DEF PrinterInv
<1> QED
  BY <1>1, PrinterInvariant, PTL

-----------------------------------------------------------------------------
(* A step that takes data out of the file deletes it.                       *)
LEMMA ReservedDataStep ==
  ASSUME PrinterInv, [PrinterNext]_printerVars, NEW i \in Known, reserving = i,
         ~IsPrefix(spool, spool'), silent <= Timeout
  PROVE  ReserveUnit(i) \/ ReleaseUnit(i) \/ SynchronizeBuffer(i) \/ Detach
<1>1. spool \in Seq(Chunk)
  BY DEF PrinterInv, PrinterTypeOK
<1>2. ~UNCHANGED spool
  BY <1>1 DEF IsPrefix
<1>3. ASSUME NEW j \in Initiators PROVE ~WriteByteSequence(j)
  BY <1>1 DEF IsPrefix, WriteByteSequence
<1>4. ~Expired
  BY TimeoutAssumption DEF Expired, PrinterInv, PrinterTypeOK, AgeOfHolder
<1>5. ASSUME NEW j \in Initiators PROVE ~Refused(j)
  BY <1>2 DEF Refused
<1>6. \/ Detach
      \/ \E j \in Initiators : ReserveUnit(j) \/ ReleaseUnit(j) \/ SynchronizeBuffer(j)
  <2>1. PrinterNext /\ ~Tick
    BY <1>2 DEF printerVars, Tick
  <2>2. ASSUME NEW j \in Initiators
        PROVE  /\ ~TestUnitReady(j) /\ ~SendDiagnostic(j) /\ ~StopPrint(j)
               /\ ~Crash(j) /\ ~Restart(j)
    BY <1>2, <1>5 DEF TestUnitReady, SendDiagnostic, StopPrint, OnlyChecked, Crash, Restart
  <2>3. ASSUME NEW j \in Initiators
        PROVE  ~PrintData(j)
    BY <1>2, <1>3, <1>5 DEF PrintData
  <2> QED
    BY <2>1, <2>2, <2>3 DEF PrinterNext
<1>7. ASSUME NEW j \in Initiators,
             ReserveUnit(j) \/ ReleaseUnit(j) \/ SynchronizeBuffer(j)
      PROVE  j = i
  <2>1. Passes(j)
    BY <1>4, <1>5, <1>7 DEF ReserveUnit, ReleaseUnit, SynchronizeBuffer, CheckReservation
  <2> QED
    BY <2>1, PassesKnown
<1> QED
  BY <1>6, <1>7

(* What was sent under a reservation stays in the file until its sender     *)
(* drops it, has it printed or was silent for longer than the timeout: only *)
(* an expired reservation is taken away, and the time runs from the last    *)
(* command of its holder (scsi_printer.cpp:105, 245).                       *)
THEOREM ReservedDataStay == PrinterSpec => ReservedDataKept
<1>1. PrinterInv /\ [PrinterNext]_printerVars =>
        [\A i \in Initiators \ Anonymous :
           reserving = i /\ spool # <<>> /\ ~IsPrefix(spool, spool')
             => \/ ReserveUnit(i) \/ ReleaseUnit(i) \/ SynchronizeBuffer(i) \/ Detach
                \/ silent > Timeout]_printerVars
  <2> SUFFICES ASSUME PrinterInv, [PrinterNext]_printerVars, NEW i \in Known, reserving = i,
                      ~IsPrefix(spool, spool'), ~(silent > Timeout)
               PROVE  ReserveUnit(i) \/ ReleaseUnit(i) \/ SynchronizeBuffer(i) \/ Detach
    BY DEF Known
  <2>1. silent <= Timeout
    BY TimeoutAssumption DEF PrinterInv, PrinterTypeOK
  <2> QED
    BY <2>1, ReservedDataStep
<1> QED
  BY <1>1, PrinterInvariant, PTL DEF PrinterSpec, ReservedDataKept

=============================================================================

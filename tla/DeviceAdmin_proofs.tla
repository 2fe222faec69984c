-------------------------- MODULE DeviceAdmin_proofs --------------------------
(***************************************************************************)
(* Theorems about the administration of devices, for any IDs, LUNs, image  *)
(* files and commands. The argument goes in three steps: what an operation *)
(* does to the devices, the factory and the controllers keeps them in      *)
(* order (WorldOK); a command stays within the devices there is room for   *)
(* (Base); and on that rest the reservations, the images and the LUNs 0.   *)
(***************************************************************************)
EXTENDS DeviceAdmin, FiniteSetTheorems, SequenceTheorems, TLAPS

(* What holds of the devices, the factory and the controllers at any time.  *)
IsRecord(w) ==
  w = [heap |-> w.heap, factory |-> w.factory, controllers |-> w.controllers,
       reserved |-> w.reserved]

Living(w) ==
  \A i \in DOMAIN w.controllers : \A l \in DOMAIN w.controllers[i] :
    /\ w.heap[w.controllers[i][l]].live
    /\ Place(w.heap[w.controllers[i][l]]) = <<i, l>>

Tracked(w) == Attached(w) \subseteq InFactory(w)

Sorted(w) ==
  \A i \in Ids : \A n \in DOMAIN w.factory[i] : w.heap[w.factory[i][n]].id = i

Distinct(w) ==
  \A i \in Ids : \A m, n \in DOMAIN w.factory[i] : w.factory[i][m] = w.factory[i][n] => m = n

Closed(w) ==
  \A h \in DOMAIN w.heap : w.heap[h].open => w.heap[h].path \in Files /\ ~w.heap[h].removed

WorldOK(w) ==
  IsRecord(w) /\ IsWorld(w) /\ Living(w) /\ Tracked(w) /\ Sorted(w) /\ Distinct(w) /\ Closed(w)

(* The places the factory knows.                                            *)
KnownIn(w) == {Place(w.heap[h]) : h \in InFactory(w)}

-----------------------------------------------------------------------------
(* Numbers, functions and sequences                                         *)

LEMMA Smallest ==
  ASSUME NEW S, S \subseteq Nat, S # {}
  PROVE  \E i \in S : \A j \in S : i <= j
<1> DEFINE R == {p \in Nat \X Nat : p[1] < p[2]}
<1>1. IsWellFoundedOn(R, Nat)
  BY NatLessThanWellFounded DEF OpToRel
<1>2. PICK i \in S : \A j \in S : ~(<<j, i>> \in R)
  BY <1>1, WFMin
<1>3. ASSUME NEW j \in S
      PROVE  i <= j
  <2>1. i \in Nat /\ j \in Nat /\ <<j, i>> \in Nat \X Nat
    BY <1>3
  <2>2. <<j, i>> \notin R
    BY <1>2, <1>3
  <2>3. ~(j < i)
    BY <2>1, <2>2
  <2> QED
    BY <2>1, <2>3
<1> QED
  BY <1>3

LEMMA RestrictFacts ==
  ASSUME NEW f, NEW S
  PROVE  DOMAIN Restrict(f, S) = S /\ \A x \in S : Restrict(f, S)[x] = f[x]
  BY DEF Restrict

LEMMA EmptyFunction ==
  ASSUME NEW f, NEW S, f \in [{} -> S]
  PROVE  f = <<>>
  OBVIOUS

LEMMA AppendFacts ==
  ASSUME NEW S, NEW s \in Seq(S), NEW x \in S
  PROVE  /\ Append(s, x) \in Seq(S) /\ Len(s) \in Nat
         /\ DOMAIN Append(s, x) = 1..(Len(s) + 1)
         /\ Append(s, x)[Len(s) + 1] = x
         /\ \A n \in 1..Len(s) : n \in DOMAIN Append(s, x) /\ Append(s, x)[n] = s[n]
         /\ \A n \in DOMAIN Append(s, x) : n = Len(s) + 1 \/ n \in 1..Len(s)
  OBVIOUS

LEMMA SeqOver ==
  ASSUME NEW S, NEW s \in Seq(S), NEW T, \A n \in DOMAIN s : s[n] \in T
  PROVE  s \in Seq(T)
  OBVIOUS

LEMMA RemoveAtFacts ==
  ASSUME NEW S, NEW s \in Seq(S), NEW i \in 1..Len(s)
  PROVE  /\ RemoveAt(s, i) \in Seq(S)
         /\ DOMAIN RemoveAt(s, i) = 1..(Len(s) - 1)
         /\ \A j \in 1..(Len(s) - 1) :
              RemoveAt(s, i)[j] = IF j < i THEN s[j] ELSE s[j + 1]
<1> DEFINE p == SubSeq(s, 1, i - 1)
           q == SubSeq(s, i + 1, Len(s))
<1>1. p \in Seq(S) /\ Len(p) = i - 1 /\ \A j \in 1..(i - 1) : p[j] = s[j]
  OBVIOUS
<1>2. /\ q \in Seq(S) /\ Len(q) = Len(s) - i
      /\ \A j \in 1..(Len(s) - i) : q[j] = s[j + i]
  OBVIOUS
<1>3. RemoveAt(s, i) = p \o q
  BY DEF RemoveAt
<1> HIDE DEF p, q
<1>4. /\ p \o q \in Seq(S) /\ Len(p \o q) = Len(s) - 1
      /\ \A j \in 1..(Len(s) - 1) :
           (p \o q)[j] = IF j <= Len(p) THEN p[j] ELSE q[j - Len(p)]
  <2>1. Len(p) + Len(q) = Len(s) - 1 /\ Len(p) \in Nat
    BY <1>1, <1>2
  <2>2. /\ p \o q \in Seq(S) /\ Len(p \o q) = Len(p) + Len(q)
        /\ \A j \in 1..(Len(p) + Len(q)) :
             (p \o q)[j] = IF j <= Len(p) THEN p[j] ELSE q[j - Len(p)]
    BY <1>1, <1>2, ConcatProperties
  <2> QED
    BY <2>1, <2>2
<1>5. ASSUME NEW j \in 1..(Len(s) - 1)
      PROVE  (p \o q)[j] = IF j < i THEN s[j] ELSE s[j + 1]
  <2>1. CASE j < i
    BY <1>1, <1>4, <2>1
  <2>2. CASE ~(j < i)
    <3>1. j - (i - 1) \in 1..(Len(s) - i) /\ (j - (i - 1)) + i = j + 1
      BY <2>2
    <3> QED
      BY SMTT(30), <1>2, <1>4, <2>2, <3>1
  <2> QED
    BY <2>1, <2>2
<1> QED
  BY <1>3, <1>4, <1>5

(* What is left are the entries at the other positions, none of them twice. *)
LEMMA RemoveAtRange ==
  ASSUME NEW S, NEW s \in Seq(S), NEW i \in 1..Len(s)
  PROVE  /\ \A m \in DOMAIN RemoveAt(s, i) :
              \E n \in 1..Len(s) : n # i /\ RemoveAt(s, i)[m] = s[n]
         /\ \A n \in 1..Len(s) \ {i} :
              \E m \in DOMAIN RemoveAt(s, i) : RemoveAt(s, i)[m] = s[n]
         /\ (\A m, n \in 1..Len(s) : s[m] = s[n] => m = n) =>
              \A m, n \in DOMAIN RemoveAt(s, i) :
                RemoveAt(s, i)[m] = RemoveAt(s, i)[n] => m = n
<1> DEFINE r == RemoveAt(s, i)
<1>1. /\ DOMAIN r = 1..(Len(s) - 1)
      /\ \A j \in 1..(Len(s) - 1) : r[j] = IF j < i THEN s[j] ELSE s[j + 1]
  BY RemoveAtFacts
<1> HIDE DEF r
<1>2. ASSUME NEW m \in DOMAIN r
      PROVE  \E n \in 1..Len(s) : n # i /\ r[m] = s[n]
  BY <1>1, <1>2
<1>3. ASSUME NEW n \in 1..Len(s) \ {i}
      PROVE  \E m \in DOMAIN r : r[m] = s[n]
  <2>1. CASE n < i
    BY <1>1, <1>3, <2>1
  <2>2. CASE ~(n < i)
    <3>1. n - 1 \in 1..(Len(s) - 1) /\ ~(n - 1 < i) /\ (n - 1) + 1 = n
      BY <1>3, <2>2
    <3>2. r[n - 1] = s[n]
      BY <1>1, <3>1
    <3> QED
      BY <1>1, <3>1, <3>2
  <2> QED
    BY <2>1, <2>2
<1>4. ASSUME \A m, n \in 1..Len(s) : s[m] = s[n] => m = n,
             NEW m \in DOMAIN r, NEW n \in DOMAIN r, r[m] = r[n]
      PROVE  m = n
  BY <1>1, <1>4
<1> QED
  BY <1>2, <1>3, <1>4 DEF r

-----------------------------------------------------------------------------
(* The devices, the factory and the controllers                             *)

LEMMA AttachedIff ==
  ASSUME NEW w, NEW h
  PROVE  h \in Attached(w) <=>
           \E i \in DOMAIN w.controllers : \E l \in DOMAIN w.controllers[i] :
             h = w.controllers[i][l]
  BY DEF Attached, Range

LEMMA InFactoryIff ==
  ASSUME NEW w, NEW h
  PROVE  h \in InFactory(w) <=>
           \E i \in Ids : \E n \in DOMAIN w.factory[i] : h = w.factory[i][n]
  BY DEF InFactory, Range

LEMMA FactoryTypes ==
  ASSUME NEW w, IsWorld(w)
  PROVE  /\ \A i \in Ids :
              /\ w.factory[i] \in Seq(DOMAIN w.heap)
              /\ DOMAIN w.factory[i] = 1..Len(w.factory[i]) /\ Len(w.factory[i]) \in Nat
              /\ \A n \in DOMAIN w.factory[i] : w.factory[i][n] \in DOMAIN w.heap
         /\ InFactory(w) \subseteq DOMAIN w.heap
<1>1. ASSUME NEW i \in Ids
      PROVE  /\ w.factory[i] \in Seq(DOMAIN w.heap)
             /\ DOMAIN w.factory[i] = 1..Len(w.factory[i]) /\ Len(w.factory[i]) \in Nat
             /\ \A n \in DOMAIN w.factory[i] : w.factory[i][n] \in DOMAIN w.heap
  <2>1. w.factory[i] \in Seq(DOMAIN w.heap)
    BY DEF IsWorld
  <2> QED
    BY <2>1
<1> QED
  BY <1>1, InFactoryIff

(* Where an attached device is.                                             *)
LEMMA AttachedAt ==
  ASSUME NEW w, WorldOK(w), NEW d \in Attached(w)
  PROVE  /\ d \in InFactory(w) /\ d \in DOMAIN w.heap /\ w.heap[d] \in Device
         /\ w.heap[d].live
         /\ w.heap[d].id \in DOMAIN w.controllers
         /\ w.heap[d].lun \in DOMAIN w.controllers[w.heap[d].id]
         /\ w.controllers[w.heap[d].id][w.heap[d].lun] = d
<1>1. PICK i \in DOMAIN w.controllers : \E l \in DOMAIN w.controllers[i] :
        d = w.controllers[i][l]
  BY AttachedIff
<1>2. PICK l \in DOMAIN w.controllers[i] : d = w.controllers[i][l]
  BY <1>1
<1>3. w.heap[d].live /\ Place(w.heap[d]) = <<i, l>>
  BY <1>2 DEF WorldOK, Living
<1>4. w.heap[d].id = i /\ w.heap[d].lun = l
  BY <1>3 DEF Place
<1>5. d \in InFactory(w) /\ d \in DOMAIN w.heap
  BY FactoryTypes DEF WorldOK, Tracked
<1>6. w.heap[d] \in Device
  BY <1>5 DEF WorldOK, IsWorld
<1> QED
  BY <1>2, <1>3, <1>4, <1>5, <1>6

(* No two devices are attached at one place.                                *)
LEMMA PlaceUnique ==
  ASSUME NEW w, WorldOK(w), NEW d \in Attached(w), NEW e \in Attached(w),
         Place(w.heap[d]) = Place(w.heap[e])
  PROVE  d = e
  BY AttachedAt DEF Place

LEMMA ControllerAt ==
  ASSUME NEW w, WorldOK(w), NEW i \in DOMAIN w.controllers,
         NEW l \in DOMAIN w.controllers[i]
  PROVE  /\ i \in Ids /\ l \in Luns /\ w.controllers[i][l] \in Attached(w)
         /\ w.heap[w.controllers[i][l]].id = i /\ w.heap[w.controllers[i][l]].lun = l
<1>1. i \in Ids /\ l \in Luns
  BY DEF WorldOK, IsWorld, IsController
<1>2. Place(w.heap[w.controllers[i][l]]) = <<i, l>>
  BY DEF WorldOK, Living
<1> QED
  BY <1>1, <1>2, AttachedIff DEF Place

(* The devices change, but not their places.                                *)
LEMMA KeepWorld ==
  ASSUME NEW w, WorldOK(w), NEW v, IsRecord(v), v.factory = w.factory,
         v.controllers = w.controllers, IsReservations(v.reserved),
         DOMAIN v.heap = DOMAIN w.heap, v.heap \in [DOMAIN w.heap -> Device],
         \A h \in DOMAIN w.heap : /\ v.heap[h].id = w.heap[h].id
                                  /\ v.heap[h].lun = w.heap[h].lun
                                  /\ v.heap[h].live = w.heap[h].live,
         Closed(v)
  PROVE  /\ WorldOK(v) /\ Attached(v) = Attached(w)
         /\ InFactory(v) = InFactory(w) /\ KnownIn(v) = KnownIn(w)
<1>1. Attached(v) = Attached(w) /\ InFactory(v) = InFactory(w)
  BY DEF Attached, InFactory
<1>2. InFactory(w) \subseteq DOMAIN w.heap
  BY FactoryTypes DEF WorldOK
<1>3. IsWorld(v)
  BY DEF WorldOK, IsWorld, IsController
<1>4. Living(v)
  <2> SUFFICES ASSUME NEW i \in DOMAIN w.controllers, NEW l \in DOMAIN w.controllers[i]
               PROVE  /\ v.heap[w.controllers[i][l]].live
                      /\ Place(v.heap[w.controllers[i][l]]) = <<i, l>>
    BY DEF Living
  <2>1. w.controllers[i][l] \in DOMAIN w.heap
    BY AttachedAt, ControllerAt
  <2> QED
    BY <2>1 DEF Place, WorldOK, Living
<1>5. Tracked(v) /\ Distinct(v)
  BY <1>1 DEF WorldOK, Tracked, Distinct
<1>6. Sorted(v)
  BY FactoryTypes DEF WorldOK, Sorted
<1>7. KnownIn(v) = KnownIn(w)
  BY <1>1, <1>2 DEF KnownIn, Place
<1> QED
  BY <1>1, <1>3, <1>4, <1>5, <1>6, <1>7 DEF WorldOK

LEMMA OpenWorld ==
  ASSUME NEW w, WorldOK(w), NEW d \in DOMAIN w.heap, NEW f \in Files,
         NEW v, v = OpenFile(w, d, f)
  PROVE  /\ WorldOK(v) /\ Attached(v) = Attached(w)
         /\ InFactory(v) = InFactory(w) /\ KnownIn(v) = KnownIn(w)
         /\ v.controllers = w.controllers /\ v.reserved = w.reserved
         /\ DOMAIN v.heap = DOMAIN w.heap
         /\ \A h \in DOMAIN w.heap \ {d} : v.heap[h] = w.heap[h]
         /\ v.heap[d].path = f /\ v.heap[d].open
         /\ Place(v.heap[d]) = Place(w.heap[d]) /\ v.heap[d].live = w.heap[d].live
<1>1. /\ IsRecord(v) /\ v.factory = w.factory /\ v.controllers = w.controllers
      /\ v.reserved = w.reserved
  BY DEF OpenFile, WorldOK, IsRecord
<1> DEFINE dev == [w.heap[d] EXCEPT !.path = f, !.open = TRUE, !.ready = TRUE, !.removed = FALSE]
<1>2. v.heap = [w.heap EXCEPT ![d] = dev]
  BY DEF OpenFile, WorldOK, IsRecord
<1>3. w.heap \in [DOMAIN w.heap -> Device] /\ w.heap[d] \in Device
  BY DEF WorldOK, IsWorld
<1>4. /\ dev \in Device /\ dev.path = f /\ dev.open /\ ~dev.removed
      /\ dev.id = w.heap[d].id /\ dev.lun = w.heap[d].lun /\ dev.live = w.heap[d].live
  BY <1>3 DEF Device
<1> HIDE DEF dev
<1>5. /\ DOMAIN v.heap = DOMAIN w.heap /\ v.heap \in [DOMAIN w.heap -> Device]
      /\ v.heap[d] = dev /\ \A h \in DOMAIN w.heap \ {d} : v.heap[h] = w.heap[h]
  BY <1>2, <1>3, <1>4
<1>6. IsReservations(v.reserved)
  BY <1>1 DEF WorldOK, IsWorld
<1>7. Closed(v)
  BY <1>4, <1>5 DEF Closed, WorldOK
<1>8. Place(v.heap[d]) = Place(w.heap[d])
  BY <1>4, <1>5 DEF Place
<1>9. \A h \in DOMAIN w.heap : /\ v.heap[h].id = w.heap[h].id
                               /\ v.heap[h].lun = w.heap[h].lun
                               /\ v.heap[h].live = w.heap[h].live
  BY <1>4, <1>5
<1> QED
  BY <1>1, <1>4, <1>5, <1>6, <1>7, <1>8, <1>9, KeepWorld

(* Only the reserved files change.                                          *)
LEMMA ReservedWorld ==
  ASSUME NEW w, WorldOK(w), NEW r, IsReservations(r), NEW v, v = [w EXCEPT !.reserved = r]
  PROVE  /\ WorldOK(v) /\ Attached(v) = Attached(w)
         /\ InFactory(v) = InFactory(w) /\ KnownIn(v) = KnownIn(w)
         /\ v.controllers = w.controllers /\ v.heap = w.heap /\ v.factory = w.factory
         /\ v.reserved = r
<1>1. /\ IsRecord(v) /\ v.factory = w.factory /\ v.controllers = w.controllers
      /\ v.heap = w.heap /\ v.reserved = r
  BY DEF WorldOK, IsRecord
<1>2. v.heap \in [DOMAIN w.heap -> Device] /\ Closed(v)
  BY <1>1 DEF WorldOK, IsWorld, Closed
<1> QED
  BY <1>1, <1>2, KeepWorld

LEMMA WithReservation ==
  ASSUME NEW r, IsReservations(r), NEW f \in Files, NEW p \in Ids \X Luns
  PROVE  IsReservations(With(r, f, p))
  BY DEF IsReservations, With

LEMMA LessReservations ==
  ASSUME NEW r, IsReservations(r), NEW S, S \subseteq DOMAIN r
  PROVE  IsReservations(Restrict(r, S))
  BY DEF IsReservations, Restrict

LEMMA ReserveWorld ==
  ASSUME NEW w, WorldOK(w), NEW d \in DOMAIN w.heap, NEW f \in Files,
         NEW v, v = ReserveFile(w, d, f)
  PROVE  /\ WorldOK(v) /\ Attached(v) = Attached(w)
         /\ InFactory(v) = InFactory(w) /\ KnownIn(v) = KnownIn(w)
         /\ v.controllers = w.controllers /\ v.heap = w.heap /\ v.factory = w.factory
         /\ DOMAIN v.reserved = DOMAIN w.reserved \cup {f}
         /\ v.reserved[f] = Place(w.heap[d])
         /\ \A g \in DOMAIN w.reserved \ {f} : v.reserved[g] = w.reserved[g]
<1> DEFINE r == With(w.reserved, f, Place(w.heap[d]))
<1>1. w.heap[d] \in Device /\ IsReservations(w.reserved)
  BY DEF WorldOK, IsWorld
<1>2. Place(w.heap[d]) \in Ids \X Luns
  BY <1>1 DEF Place, Device
<1>3. IsReservations(r)
  BY <1>1, <1>2, WithReservation
<1>4. v = [w EXCEPT !.reserved = r]
  BY DEF ReserveFile
<1>5. /\ DOMAIN r = DOMAIN w.reserved \cup {f} /\ r[f] = Place(w.heap[d])
      /\ \A g \in DOMAIN w.reserved \ {f} : r[g] = w.reserved[g]
  BY DEF With
<1> HIDE DEF r
<1> QED
  BY <1>3, <1>4, <1>5, ReservedWorld

LEMMA UnreserveWorld ==
  ASSUME NEW w, WorldOK(w), NEW d \in DOMAIN w.heap, NEW v, v = UnreserveFile(w, d)
  PROVE  /\ WorldOK(v) /\ Attached(v) = Attached(w)
         /\ InFactory(v) = InFactory(w) /\ KnownIn(v) = KnownIn(w)
         /\ v.controllers = w.controllers /\ v.heap = w.heap /\ v.factory = w.factory
         /\ DOMAIN v.reserved = DOMAIN w.reserved \ {w.heap[d].path}
         /\ \A g \in DOMAIN v.reserved : v.reserved[g] = w.reserved[g]
<1> DEFINE S == DOMAIN w.reserved \ {w.heap[d].path}
           r == Restrict(w.reserved, S)
<1>1. IsReservations(w.reserved)
  BY DEF WorldOK, IsWorld
<1>2. IsReservations(r)
  BY <1>1, LessReservations
<1>3. v = [w EXCEPT !.reserved = r]
  BY DEF UnreserveFile
<1>4. DOMAIN r = S /\ \A g \in S : r[g] = w.reserved[g]
  BY RestrictFacts
<1> HIDE DEF r
<1> QED
  BY <1>2, <1>3, <1>4, ReservedWorld

LEMMA EjectWorld ==
  ASSUME NEW w, WorldOK(w), NEW d \in DOMAIN w.heap, Ejects(w, d), NEW v, v = Eject(w, d)
  PROVE  /\ WorldOK(v) /\ Attached(v) = Attached(w)
         /\ InFactory(v) = InFactory(w) /\ KnownIn(v) = KnownIn(w)
         /\ v.controllers = w.controllers
         /\ DOMAIN v.reserved = DOMAIN w.reserved \ {w.heap[d].path}
         /\ \A g \in DOMAIN v.reserved : v.reserved[g] = w.reserved[g]
         /\ DOMAIN v.heap = DOMAIN w.heap
         /\ \A h \in DOMAIN w.heap \ {d} : v.heap[h] = w.heap[h]
         /\ ~v.heap[d].open /\ v.heap[d].path = w.heap[d].path
         /\ Place(v.heap[d]) = Place(w.heap[d]) /\ v.heap[d].live = w.heap[d].live
<1> DEFINE u == UnreserveFile(w, d)
           dev == [w.heap[d] EXCEPT !.open = FALSE, !.ready = FALSE, !.removed = TRUE]
<1>1. /\ WorldOK(u) /\ Attached(u) = Attached(w)
      /\ InFactory(u) = InFactory(w) /\ KnownIn(u) = KnownIn(w)
      /\ u.controllers = w.controllers /\ u.heap = w.heap /\ u.factory = w.factory
      /\ DOMAIN u.reserved = DOMAIN w.reserved \ {w.heap[d].path}
      /\ \A g \in DOMAIN u.reserved : u.reserved[g] = w.reserved[g]
  BY UnreserveWorld
<1>2. v = [u EXCEPT !.heap[d].open = FALSE, !.heap[d].ready = FALSE, !.heap[d].removed = TRUE]
  BY DEF Eject
<1> HIDE DEF u
<1>3. /\ IsRecord(v) /\ v.factory = u.factory /\ v.controllers = u.controllers
      /\ v.reserved = u.reserved
  BY <1>1, <1>2 DEF WorldOK, IsRecord
<1>4. v.heap = [w.heap EXCEPT ![d] = dev]
  BY <1>1, <1>2 DEF WorldOK, IsRecord
<1>5. w.heap \in [DOMAIN w.heap -> Device] /\ w.heap[d] \in Device
  BY DEF WorldOK, IsWorld
<1>6. /\ dev \in Device /\ dev.path = w.heap[d].path /\ ~dev.open
      /\ dev.id = w.heap[d].id /\ dev.lun = w.heap[d].lun /\ dev.live = w.heap[d].live
  BY <1>5 DEF Device
<1> HIDE DEF dev
<1>7. /\ DOMAIN v.heap = DOMAIN w.heap /\ v.heap \in [DOMAIN w.heap -> Device]
      /\ v.heap[d] = dev /\ \A h \in DOMAIN w.heap \ {d} : v.heap[h] = w.heap[h]
  BY <1>4, <1>5, <1>6
<1>8. IsReservations(v.reserved)
  BY <1>1, <1>3 DEF WorldOK, IsWorld
<1>9. Closed(v)
  BY <1>6, <1>7 DEF Closed, WorldOK
<1>10. Place(v.heap[d]) = Place(w.heap[d])
  BY <1>6, <1>7 DEF Place
<1>11. \A h \in DOMAIN u.heap : /\ v.heap[h].id = u.heap[h].id
                                /\ v.heap[h].lun = u.heap[h].lun
                                /\ v.heap[h].live = u.heap[h].live
  BY <1>1, <1>6, <1>7
<1>12. /\ WorldOK(v) /\ Attached(v) = Attached(u)
       /\ InFactory(v) = InFactory(u) /\ KnownIn(v) = KnownIn(u)
  BY <1>1, <1>3, <1>7, <1>8, <1>9, <1>11, KeepWorld
<1> QED
  BY <1>1, <1>3, <1>6, <1>7, <1>10, <1>12

(* STOP: the device is no longer ready.                                     *)
Stopped(w, d) == [w EXCEPT !.heap[d].ready = FALSE]

LEMMA StopWorld ==
  ASSUME NEW w, WorldOK(w), NEW d \in DOMAIN w.heap, NEW v, v = Stopped(w, d)
  PROVE  /\ WorldOK(v) /\ Attached(v) = Attached(w)
         /\ InFactory(v) = InFactory(w) /\ KnownIn(v) = KnownIn(w)
         /\ v.controllers = w.controllers /\ v.reserved = w.reserved
         /\ DOMAIN v.heap = DOMAIN w.heap
         /\ \A h \in DOMAIN w.heap :
              /\ v.heap[h].open = w.heap[h].open /\ v.heap[h].path = w.heap[h].path
              /\ Place(v.heap[h]) = Place(w.heap[h])
<1>1. /\ IsRecord(v) /\ v.factory = w.factory /\ v.controllers = w.controllers
      /\ v.reserved = w.reserved
  BY DEF WorldOK, IsRecord, Stopped
<1> DEFINE dev == [w.heap[d] EXCEPT !.ready = FALSE]
<1>2. v.heap = [w.heap EXCEPT ![d] = dev]
  BY DEF WorldOK, IsRecord, Stopped
<1>3. w.heap \in [DOMAIN w.heap -> Device] /\ w.heap[d] \in Device
  BY DEF WorldOK, IsWorld
<1>3a. dev \in Device
  BY <1>3 DEF Device
<1>4. /\ dev.path = w.heap[d].path /\ dev.open = w.heap[d].open
      /\ dev.removed = w.heap[d].removed
      /\ dev.id = w.heap[d].id /\ dev.lun = w.heap[d].lun /\ dev.live = w.heap[d].live
  BY <1>3 DEF Device
<1> HIDE DEF dev
<1>5. /\ DOMAIN v.heap = DOMAIN w.heap /\ v.heap \in [DOMAIN w.heap -> Device]
      /\ v.heap[d] = dev /\ \A h \in DOMAIN w.heap \ {d} : v.heap[h] = w.heap[h]
  BY <1>2, <1>3, <1>3a
<1>6. ASSUME NEW h \in DOMAIN w.heap
      PROVE  /\ v.heap[h].id = w.heap[h].id /\ v.heap[h].lun = w.heap[h].lun
             /\ v.heap[h].live = w.heap[h].live
             /\ v.heap[h].open = w.heap[h].open /\ v.heap[h].path = w.heap[h].path
  <2>1. CASE h = d
    BY <1>4, <1>5, <2>1
  <2>2. CASE h # d
    BY <1>5, <2>2
  <2> QED
    BY <2>1, <2>2
<1>7. \A h \in DOMAIN w.heap : v.heap[h].removed = w.heap[h].removed
  <2> TAKE h \in DOMAIN w.heap
  <2>1. CASE h = d
    BY <1>4, <1>5, <2>1
  <2> QED
    BY <1>5, <2>1
<1>8. Closed(v) /\ IsReservations(v.reserved)
  BY <1>1, <1>5, <1>6, <1>7 DEF Closed, WorldOK, IsWorld
<1> QED
  BY <1>1, <1>5, <1>6, <1>8, KeepWorld DEF Place

(* CreateDevice: a new object, the last entry of its ID.                    *)
LEMMA CreateWorld ==
  ASSUME NEW w, WorldOK(w), NEW def \in Definitions, Handles \ DOMAIN w.heap # {},
         NEW d, d = NewHandle(w), NEW v, v = CreateDevice(w, def)
  PROVE  /\ WorldOK(v) /\ Attached(v) = Attached(w)
         /\ v.controllers = w.controllers /\ v.reserved = w.reserved
         /\ d \in Handles \ DOMAIN w.heap /\ DOMAIN v.heap = DOMAIN w.heap \cup {d}
         /\ \A h \in DOMAIN w.heap : v.heap[h] = w.heap[h]
         /\ v.heap[d].id = def.id /\ v.heap[d].lun = def.lun
         /\ ~v.heap[d].open /\ v.heap[d].live
         /\ InFactory(v) = InFactory(w) \cup {d}
<1> DEFINE dev == [id |-> def.id, lun |-> def.lun, type |-> def.type, path |-> NoFile,
                   open |-> FALSE, ready |-> FALSE,
                   removed |-> def.type # "net" /\ def.file = NoFile, live |-> TRUE]
           i == def.id
<1>1. d \in Handles \ DOMAIN w.heap
  BY DEF NewHandle
<1>2. def.id \in Ids /\ def.lun \in Luns /\ def.type \in Types
  BY DEF Definitions
<1>3. dev \in Device
  BY <1>2 DEF Device
<1>4. dev.id = def.id /\ dev.lun = def.lun /\ ~dev.open /\ dev.live
  OBVIOUS
<1>5. /\ IsRecord(v) /\ v.controllers = w.controllers /\ v.reserved = w.reserved
      /\ v.factory = [w.factory EXCEPT ![i] = Append(@, d)]
      /\ v.heap = With(w.heap, d, dev)
  BY DEF CreateDevice, WorldOK, IsRecord
<1>5a. i \in Ids /\ i = def.id
  BY <1>2
<1> HIDE DEF dev, i
<1>6. /\ DOMAIN v.heap = DOMAIN w.heap \cup {d} /\ v.heap[d] = dev
      /\ \A h \in DOMAIN w.heap : v.heap[h] = w.heap[h]
  BY <1>1, <1>5 DEF With
<1>7. w.heap \in [DOMAIN w.heap -> Device] /\ w.factory \in [Ids -> Seq(DOMAIN w.heap)]
  BY DEF WorldOK, IsWorld
<1>8. v.heap \in [DOMAIN v.heap -> Device]
  <2>1. \A h \in DOMAIN v.heap : v.heap[h] \in Device
    BY <1>3, <1>6, <1>7
  <2>2. v.heap = [h \in DOMAIN v.heap |-> v.heap[h]]
    BY <1>5 DEF With
  <2> QED
    BY <2>1, <2>2
<1>9. /\ DOMAIN v.factory = Ids /\ v.factory[i] = Append(w.factory[i], d)
      /\ \A j \in Ids \ {i} : v.factory[j] = w.factory[j]
  BY <1>5, <1>5a, <1>7
<1>10. /\ w.factory[i] \in Seq(DOMAIN w.heap) /\ DOMAIN w.factory[i] = 1..Len(w.factory[i])
       /\ Len(w.factory[i]) \in Nat
       /\ \A n \in 1..Len(w.factory[i]) : w.factory[i][n] \in DOMAIN w.heap
  BY <1>5a, FactoryTypes DEF WorldOK
<1>11. /\ v.factory[i] \in Seq(DOMAIN v.heap)
       /\ DOMAIN v.factory[i] = 1..(Len(w.factory[i]) + 1)
       /\ v.factory[i][Len(w.factory[i]) + 1] = d
       /\ \A n \in 1..Len(w.factory[i]) :
            n \in DOMAIN v.factory[i] /\ v.factory[i][n] = w.factory[i][n]
       /\ \A n \in DOMAIN v.factory[i] : n = Len(w.factory[i]) + 1 \/ n \in 1..Len(w.factory[i])
  <2>1. w.factory[i] \in Seq(DOMAIN v.heap) /\ d \in DOMAIN v.heap
    BY <1>6, <1>10
  <2> DEFINE e == w.factory[i]
  <2>2. /\ Append(e, d) \in Seq(DOMAIN v.heap)
        /\ DOMAIN Append(e, d) = 1..(Len(e) + 1)
        /\ Append(e, d)[Len(e) + 1] = d
        /\ \A n \in 1..Len(e) : n \in DOMAIN Append(e, d) /\ Append(e, d)[n] = e[n]
        /\ \A n \in DOMAIN Append(e, d) : n = Len(e) + 1 \/ n \in 1..Len(e)
    <3>1. e \in Seq(DOMAIN v.heap) /\ d \in DOMAIN v.heap
      BY <2>1
    <3> HIDE DEF e
    <3> QED
      BY <3>1, AppendFacts
  <2>3. v.factory[i] = Append(e, d)
    BY <1>9
  <2> QED
    BY <2>2, <2>3
<1>12. v.factory \in [Ids -> Seq(DOMAIN v.heap)]
  <2>1. ASSUME NEW j \in Ids \ {i}
        PROVE  v.factory[j] \in Seq(DOMAIN v.heap)
    <3>1. w.factory[j] \in Seq(DOMAIN w.heap)
      BY <1>7
    <3> QED
      BY <1>6, <1>9, <3>1
  <2>2. v.factory = [j \in Ids |-> v.factory[j]]
    BY <1>5, <1>7
  <2> QED
    BY <1>11, <2>1, <2>2
<1>13. IsWorld(v)
  <2>1. \A j \in DOMAIN v.controllers : IsController(v.controllers[j], v)
    BY <1>5, <1>6 DEF WorldOK, IsWorld, IsController
  <2>2. DOMAIN v.heap \subseteq Handles
    BY <1>1, <1>6 DEF WorldOK, IsWorld
  <2>3. DOMAIN v.controllers \subseteq Ids /\ IsReservations(v.reserved)
    BY <1>5 DEF WorldOK, IsWorld
  <2> QED
    BY <1>8, <1>12, <2>1, <2>2, <2>3 DEF IsWorld
<1>14. Attached(v) = Attached(w)
  BY <1>5 DEF Attached
<1>15. InFactory(v) = InFactory(w) \cup {d}
  <2>1. ASSUME NEW h \in InFactory(v)
        PROVE  h \in InFactory(w) \cup {d}
    <3>1. PICK j \in Ids : \E n \in DOMAIN v.factory[j] : h = v.factory[j][n]
      BY <2>1, InFactoryIff
    <3>2. PICK n \in DOMAIN v.factory[j] : h = v.factory[j][n]
      BY <3>1
    <3>3. CASE j = i /\ n = Len(w.factory[i]) + 1
      BY <1>11, <3>2, <3>3
    <3>4. CASE j = i /\ n # Len(w.factory[i]) + 1
      <4>0. n \in 1..Len(w.factory[i])
        BY <1>11, <3>2, <3>4
      <4>1. n \in DOMAIN w.factory[i] /\ h = w.factory[i][n]
        BY <1>10, <1>11, <3>2, <3>4, <4>0
      <4> QED
        BY <1>5a, <4>1, InFactoryIff
    <3>5. CASE j # i
      BY <1>9, <3>1, <3>5, InFactoryIff
    <3> QED
      BY <3>3, <3>4, <3>5
  <2>2. ASSUME NEW h \in InFactory(w)
        PROVE  h \in InFactory(v)
    <3>1. PICK j \in Ids : \E n \in DOMAIN w.factory[j] : h = w.factory[j][n]
      BY <2>2, InFactoryIff
    <3>2. CASE j = i
      <4>1. PICK n \in 1..Len(w.factory[i]) : h = w.factory[i][n]
        BY <1>10, <3>1, <3>2
      <4>2. n \in DOMAIN v.factory[i] /\ h = v.factory[i][n]
        BY <1>10, <1>11, <4>1
      <4> QED
        BY <1>5a, <4>2, InFactoryIff
    <3>3. CASE j # i
      BY <1>9, <3>1, <3>3, InFactoryIff
    <3> QED
      BY <3>2, <3>3
  <2>3. d \in InFactory(v)
    <3>1. Len(w.factory[i]) + 1 \in DOMAIN v.factory[i]
      BY <1>10, <1>11
    <3> QED
      BY <1>5a, <1>11, <3>1, InFactoryIff
  <2> QED
    BY <2>1, <2>2, <2>3
<1>16. Living(v)
  <2> SUFFICES ASSUME NEW j \in DOMAIN w.controllers, NEW l \in DOMAIN w.controllers[j]
               PROVE  /\ v.heap[w.controllers[j][l]].live
                      /\ Place(v.heap[w.controllers[j][l]]) = <<j, l>>
    BY <1>5 DEF Living
  <2>1. w.controllers[j][l] \in DOMAIN w.heap
    BY AttachedAt, ControllerAt
  <2> QED
    BY <1>6, <2>1 DEF WorldOK, Living
<1>17. Tracked(v)
  BY <1>14, <1>15 DEF WorldOK, Tracked
<1>18. Sorted(v)
  <2> SUFFICES ASSUME NEW j \in Ids, NEW n \in DOMAIN v.factory[j]
               PROVE  v.heap[v.factory[j][n]].id = j
    BY DEF Sorted
  <2>1. CASE j # i
    BY <1>6, <1>9, <2>1, FactoryTypes DEF WorldOK, Sorted
  <2>2. CASE j = i /\ n = Len(w.factory[i]) + 1
    BY <1>4, <1>5a, <1>6, <1>11, <2>2
  <2>3. CASE j = i /\ n \in 1..Len(w.factory[i])
    <3>1. v.factory[j][n] = w.factory[i][n] /\ w.factory[i][n] \in DOMAIN w.heap
      BY <1>10, <1>11, <2>3
    <3>2. w.heap[w.factory[i][n]].id = i
      BY <1>5a, <1>10, <2>3 DEF WorldOK, Sorted
    <3> QED
      BY <1>6, <2>3, <3>1, <3>2
  <2> QED
    BY <1>10, <1>11, <2>1, <2>2, <2>3
<1>19. Distinct(v)
  <2> SUFFICES ASSUME NEW j \in Ids, NEW m \in DOMAIN v.factory[j],
                      NEW n \in DOMAIN v.factory[j], v.factory[j][m] = v.factory[j][n]
               PROVE  m = n
    BY DEF Distinct
  <2>1. CASE j # i
    BY <1>9, <2>1 DEF WorldOK, Distinct
  <2>2. CASE j = i
    <3>1. \A k \in 1..Len(w.factory[i]) : v.factory[i][k] # d
      BY <1>1, <1>10, <1>11
    <3>2. \A k, l \in 1..Len(w.factory[i]) : w.factory[i][k] = w.factory[i][l] => k = l
      BY <1>5a, <1>10 DEF WorldOK, Distinct
    <3>3. CASE m \in 1..Len(w.factory[i]) /\ n \in 1..Len(w.factory[i])
      <4>1. w.factory[i][m] = w.factory[i][n]
        BY <1>11, <2>2, <3>3
      <4> QED
        BY <3>2, <3>3, <4>1
    <3>4. CASE m = Len(w.factory[i]) + 1
      <4>1. v.factory[i][n] = d
        BY <1>11, <2>2, <3>4
      <4>2. n \notin 1..Len(w.factory[i])
        BY <3>1, <4>1
      <4> QED
        BY <1>11, <2>2, <3>4, <4>2
    <3>5. CASE n = Len(w.factory[i]) + 1
      <4>1. v.factory[i][m] = d
        BY <1>11, <2>2, <3>5
      <4>2. m \notin 1..Len(w.factory[i])
        BY <3>1, <4>1
      <4> QED
        BY <1>11, <2>2, <3>5, <4>2
    <3> QED
      BY <1>11, <2>2, <3>3, <3>4, <3>5
  <2> QED
    BY <2>1, <2>2
<1>20. Closed(v)
  BY <1>4, <1>6 DEF WorldOK, Closed
<1> QED
  BY <1>1, <1>4, <1>5, <1>6, <1>13, <1>14, <1>15, <1>16, <1>17, <1>18, <1>19, <1>20 DEF WorldOK

(* The factory of v is that of w without an entry for ID i and this LUN.    *)
LosesEntry(v, w, i, lun) ==
  \E n \in 1..Len(w.factory[i]) :
    /\ w.heap[w.factory[i][n]].lun = lun
    /\ v.factory = [w.factory EXCEPT ![i] = RemoveAt(w.factory[i], n)]

(* DeleteDevice: the first entry for this place goes.                       *)
LEMMA DeleteShape ==
  ASSUME NEW w, WorldOK(w), NEW d \in InFactory(w), NEW v, v = DeleteDevice(w, d),
         NEW i, i = w.heap[d].id
  PROVE  /\ i \in Ids /\ IsRecord(v)
         /\ v.controllers = w.controllers /\ v.reserved = w.reserved
         /\ DOMAIN v.heap = InFactory(v) \cup Attached(v)
         /\ v.heap = [h \in DOMAIN v.heap |-> v.heap[h]]
         /\ \A h \in DOMAIN v.heap :
              v.heap[h] = IF h = d THEN [w.heap[d] EXCEPT !.live = FALSE] ELSE w.heap[h]
         /\ LosesEntry(v, w, i, w.heap[d].lun)
<1> DEFINE e == w.factory[i]
           matches == {n \in DOMAIN e : w.heap[e[n]].lun = w.heap[d].lun}
           first == CHOOSE m \in matches : \A n \in matches : m <= n
           left == [w EXCEPT !.factory[i] = RemoveAt(e, first)]
           kept == [h \in InFactory(left) \cup Attached(left) |->
                      IF h = d THEN [w.heap[d] EXCEPT !.live = FALSE] ELSE w.heap[h]]
<1>1. PICK j \in Ids : \E m \in DOMAIN w.factory[j] : d = w.factory[j][m]
  BY InFactoryIff
<1>2. PICK m \in DOMAIN w.factory[j] : d = w.factory[j][m]
  BY <1>1
<1>3. i = j
  BY <1>2 DEF WorldOK, Sorted
<1>4. DOMAIN e = 1..Len(e) /\ m \in DOMAIN e
  BY <1>1, <1>2, <1>3, FactoryTypes DEF WorldOK
<1>5. m \in matches
  BY <1>2, <1>3, <1>4
<1>6. first \in matches
  <2>1. matches \subseteq Nat
    <3>1. DOMAIN e \subseteq Nat
      <4> HIDE DEF e, matches
      <4> QED
        BY <1>4
    <3> QED
      BY <3>1, Zenon
  <2> HIDE DEF matches
  <2>2. \E x \in matches : \A n \in matches : x <= n
    BY <1>5, <2>1, Smallest
  <2> QED
    BY <2>2
<1>7. v = [left EXCEPT !.heap = kept]
  BY <1>5 DEF DeleteDevice
<1>7a. /\ DOMAIN kept = InFactory(left) \cup Attached(left)
       /\ kept = [h \in DOMAIN kept |-> kept[h]]
       /\ \A h \in DOMAIN kept :
            kept[h] = IF h = d THEN [w.heap[d] EXCEPT !.live = FALSE] ELSE w.heap[h]
  OBVIOUS
<1>8. first \in 1..Len(e) /\ w.heap[e[first]].lun = w.heap[d].lun
  BY <1>4, <1>6
<1> HIDE DEF first, matches, kept
<1>9. /\ left = [heap |-> w.heap, factory |-> left.factory, controllers |-> w.controllers,
                 reserved |-> w.reserved]
      /\ left.factory = [w.factory EXCEPT ![i] = RemoveAt(e, first)]
  BY DEF WorldOK, IsRecord
<1> HIDE DEF left
<1>10. /\ IsRecord(v) /\ v.controllers = w.controllers /\ v.reserved = w.reserved
       /\ v.factory = left.factory /\ v.heap = kept
  BY <1>7, <1>9 DEF IsRecord
<1>11. InFactory(v) = InFactory(left) /\ Attached(v) = Attached(left)
  BY <1>9, <1>10 DEF InFactory, Attached
<1> QED
  <2>1. LosesEntry(v, w, i, w.heap[d].lun)
    BY <1>8, <1>9, <1>10 DEF LosesEntry
  <2> QED
    BY <1>1, <1>3, <1>7a, <1>8, <1>9, <1>10, <1>11, <2>1

LEMMA DeleteWorld ==
  ASSUME NEW w, WorldOK(w), NEW d \in InFactory(w),
         \A e \in Attached(w) : Place(w.heap[e]) # Place(w.heap[d]),
         NEW v, v = DeleteDevice(w, d)
  PROVE  /\ WorldOK(v) /\ Attached(v) = Attached(w)
         /\ v.controllers = w.controllers /\ v.reserved = w.reserved
         /\ DOMAIN v.heap \subseteq DOMAIN w.heap
         /\ \A h \in DOMAIN v.heap \ {d} : v.heap[h] = w.heap[h]
         /\ \A h \in DOMAIN v.heap : Place(v.heap[h]) = Place(w.heap[h])
         /\ \E h \in InFactory(w) : /\ Place(w.heap[h]) = Place(w.heap[d])
                                    /\ InFactory(v) = InFactory(w) \ {h}
                                    /\ h \notin DOMAIN v.heap
<1> DEFINE dead == [w.heap[d] EXCEPT !.live = FALSE]
<1>0. PICK i : i = w.heap[d].id
  OBVIOUS
<1> DEFINE e == w.factory[i]
<1>1. /\ i \in Ids /\ IsRecord(v)
      /\ v.controllers = w.controllers /\ v.reserved = w.reserved
      /\ DOMAIN v.heap = InFactory(v) \cup Attached(v)
      /\ v.heap = [h \in DOMAIN v.heap |-> v.heap[h]]
      /\ \A h \in DOMAIN v.heap : v.heap[h] = IF h = d THEN dead ELSE w.heap[h]
  BY <1>0, DeleteShape
<1>2. PICK n \in 1..Len(e) : /\ w.heap[e[n]].lun = w.heap[d].lun
                             /\ v.factory = [w.factory EXCEPT ![i] = RemoveAt(e, n)]
  <2>1. LosesEntry(v, w, i, w.heap[d].lun)
    BY <1>0, DeleteShape
  <2> QED
    BY <2>1 DEF LosesEntry
<1>3. d \in DOMAIN w.heap /\ w.heap[d] \in Device /\ w.heap \in [DOMAIN w.heap -> Device]
  BY FactoryTypes DEF WorldOK, IsWorld
<1>4. /\ dead \in Device /\ dead.id = w.heap[d].id /\ dead.lun = w.heap[d].lun
      /\ dead.open = w.heap[d].open /\ dead.path = w.heap[d].path
      /\ dead.removed = w.heap[d].removed
  BY <1>3 DEF Device
<1>5. Place(dead) = Place(w.heap[d])
  BY <1>4 DEF Place
<1> HIDE DEF dead
<1>6. /\ e \in Seq(DOMAIN w.heap) /\ DOMAIN e = 1..Len(e)
      /\ w.factory \in [Ids -> Seq(DOMAIN w.heap)]
  BY <1>1, FactoryTypes DEF WorldOK, IsWorld
<1>7. /\ DOMAIN v.factory = Ids /\ v.factory[i] = RemoveAt(e, n)
      /\ \A j \in Ids \ {i} : v.factory[j] = w.factory[j]
  BY <1>1, <1>2, <1>6
<1> DEFINE r == v.factory[i]
<1>8. /\ r \in Seq(DOMAIN w.heap)
      /\ \A m \in DOMAIN r : \E k \in 1..Len(e) : k # n /\ r[m] = e[k]
      /\ \A k \in 1..Len(e) \ {n} : \E m \in DOMAIN r : r[m] = e[k]
  <2> HIDE DEF e
  <2> QED
    BY <1>6, <1>7, RemoveAtFacts, RemoveAtRange
<1>9. \A l, m \in DOMAIN r : r[l] = r[m] => l = m
  <2>1. \A l, m \in 1..Len(e) : e[l] = e[m] => l = m
    BY <1>1, <1>6 DEF WorldOK, Distinct
  <2> HIDE DEF e
  <2>2. \A l, m \in DOMAIN RemoveAt(e, n) : RemoveAt(e, n)[l] = RemoveAt(e, n)[m] => l = m
    BY <1>6, <2>1, RemoveAtRange
  <2> QED
    BY <1>7, <2>2
<1> DEFINE gone == e[n]
<1>10. gone \in InFactory(w) /\ w.heap[gone].id = i /\ Place(w.heap[gone]) = Place(w.heap[d])
  <2>1. w.heap[gone].id = i
    BY <1>1, <1>6 DEF WorldOK, Sorted
  <2> QED
    BY <1>0, <1>1, <1>2, <1>6, <2>1, InFactoryIff DEF Place
<1>11. Attached(v) = Attached(w)
  BY <1>1 DEF Attached
<1>12. gone \notin Attached(v) /\ d \notin Attached(v)
  BY <1>10, <1>11
<1>13. InFactory(v) = InFactory(w) \ {gone}
  <2>1. ASSUME NEW h \in InFactory(v)
        PROVE  h \in InFactory(w) /\ h # gone
    <3>1. PICK j \in Ids : \E m \in DOMAIN v.factory[j] : h = v.factory[j][m]
      BY <2>1, InFactoryIff
    <3>2. CASE j = i
      <4>1. PICK m \in DOMAIN r : h = r[m]
        BY <3>1, <3>2
      <4>2. PICK k \in 1..Len(e) : k # n /\ h = e[k]
        BY <1>8, <4>1
      <4>3. e[k] # e[n]
        BY <1>1, <1>6, <4>2 DEF WorldOK, Distinct
      <4> QED
        BY <1>1, <1>6, <4>2, <4>3, InFactoryIff
    <3>3. CASE j # i
      <4>1. PICK m \in DOMAIN w.factory[j] : h = w.factory[j][m]
        BY <1>7, <3>1, <3>3
      <4>2. w.heap[h].id = j
        BY <3>1, <4>1 DEF WorldOK, Sorted
      <4> QED
        BY <1>10, <3>1, <3>3, <4>1, <4>2, InFactoryIff
    <3> QED
      BY <3>2, <3>3
  <2>2. ASSUME NEW h \in InFactory(w), h # gone
        PROVE  h \in InFactory(v)
    <3>1. PICK j \in Ids : \E m \in DOMAIN w.factory[j] : h = w.factory[j][m]
      BY <2>2, InFactoryIff
    <3>2. CASE j = i
      <4>1. PICK k \in 1..Len(e) : h = e[k]
        BY <1>6, <3>1, <3>2
      <4>2. k \in 1..Len(e) \ {n}
        BY <2>2, <4>1
      <4>3. \E m \in DOMAIN r : r[m] = e[k]
        BY <1>8, <4>2
      <4> QED
        BY <1>1, <4>1, <4>3, InFactoryIff
    <3>3. CASE j # i
      BY <1>7, <3>1, <3>3, InFactoryIff
    <3> QED
      BY <3>2, <3>3
  <2> QED
    BY <2>1, <2>2
<1>14. DOMAIN v.heap = InFactory(v) \cup Attached(v)
  BY <1>1
<1>15. DOMAIN v.heap \subseteq DOMAIN w.heap /\ gone \notin DOMAIN v.heap
  BY <1>11, <1>12, <1>13, <1>14, AttachedAt, FactoryTypes DEF WorldOK
<1>16. /\ \A h \in DOMAIN v.heap : v.heap[h] = IF h = d THEN dead ELSE w.heap[h]
       /\ \A h \in DOMAIN v.heap : Place(v.heap[h]) = Place(w.heap[h])
  BY <1>1, <1>5
<1>17. v.heap \in [DOMAIN v.heap -> Device]
  <2>1. \A h \in DOMAIN v.heap : v.heap[h] \in Device
    BY <1>3, <1>4, <1>15, <1>16
  <2> QED
    BY <1>1, <2>1
<1> HIDE DEF gone, r, e
<1>18. v.factory \in [Ids -> Seq(DOMAIN v.heap)]
  <2>1. ASSUME NEW j \in Ids
        PROVE  v.factory[j] \in Seq(DOMAIN v.heap)
    <3>1. v.factory[j] \in Seq(DOMAIN w.heap)
      BY <1>6, <1>7, <1>8 DEF r
    <3>2. \A m \in DOMAIN v.factory[j] : v.factory[j][m] \in DOMAIN v.heap
      BY <1>14, InFactoryIff
    <3> QED
      BY <3>1, <3>2, SeqOver
  <2>2. v.factory = [j \in Ids |-> v.factory[j]]
    BY <1>2, <1>6
  <2> QED
    BY <2>1, <2>2
<1>19. IsWorld(v)
  <2>1. \A j \in DOMAIN v.controllers : IsController(v.controllers[j], v)
    <3> SUFFICES ASSUME NEW j \in DOMAIN w.controllers
                 PROVE  IsController(w.controllers[j], v)
      BY <1>1
    <3>1. \A l \in DOMAIN w.controllers[j] : w.controllers[j][l] \in DOMAIN v.heap
      BY <1>11, <1>14, ControllerAt
    <3>2. IsController(w.controllers[j], w)
      BY DEF WorldOK, IsWorld
    <3> QED
      BY <3>1, <3>2 DEF IsController
  <2>2. DOMAIN v.heap \subseteq Handles
    BY <1>15 DEF WorldOK, IsWorld
  <2>3. DOMAIN v.controllers \subseteq Ids /\ IsReservations(v.reserved)
    BY <1>1 DEF WorldOK, IsWorld
  <2> QED
    BY <1>17, <1>18, <2>1, <2>2, <2>3 DEF IsWorld
<1>20. Living(v)
  <2> SUFFICES ASSUME NEW j \in DOMAIN w.controllers, NEW l \in DOMAIN w.controllers[j]
               PROVE  /\ v.heap[w.controllers[j][l]].live
                      /\ Place(v.heap[w.controllers[j][l]]) = <<j, l>>
    <3>1. v.controllers = w.controllers
      BY <1>1
    <3> QED
      BY <3>1 DEF Living
  <2>1. w.controllers[j][l] \in Attached(w)
    BY ControllerAt
  <2>2. v.heap[w.controllers[j][l]] = w.heap[w.controllers[j][l]]
    BY <1>11, <1>12, <1>14, <1>16, <2>1
  <2> QED
    BY <2>2 DEF WorldOK, Living
<1>21. Tracked(v)
  BY <1>11, <1>12, <1>13 DEF WorldOK, Tracked
<1>22. Sorted(v)
  <2> SUFFICES ASSUME NEW j \in Ids, NEW m \in DOMAIN v.factory[j]
               PROVE  v.heap[v.factory[j][m]].id = j
    BY DEF Sorted
  <2>1. v.factory[j][m] \in DOMAIN v.heap
    BY <1>14, InFactoryIff
  <2>2. v.heap[v.factory[j][m]].id = w.heap[v.factory[j][m]].id
    BY <1>4, <1>16, <2>1
  <2>3. CASE j = i
    <3>1. PICK k \in 1..Len(e) : v.factory[j][m] = e[k]
      BY <1>8, <2>3 DEF r
    <3>2. k \in DOMAIN w.factory[j] /\ v.factory[j][m] = w.factory[j][k]
      BY <1>6, <2>3, <3>1 DEF e
    <3> QED
      BY <2>2, <3>2 DEF WorldOK, Sorted
  <2>4. CASE j # i
    BY <1>7, <2>2, <2>4 DEF WorldOK, Sorted
  <2> QED
    BY <2>3, <2>4
<1>23. Distinct(v)
  <2> SUFFICES ASSUME NEW j \in Ids, NEW l \in DOMAIN v.factory[j], NEW m \in DOMAIN v.factory[j],
                      v.factory[j][l] = v.factory[j][m]
               PROVE  l = m
    BY DEF Distinct
  <2>1. CASE j = i
    BY <1>9, <2>1 DEF r
  <2>2. CASE j # i
    BY <1>7, <2>2 DEF WorldOK, Distinct
  <2> QED
    BY <2>1, <2>2
<1>24. Closed(v)
  BY <1>3, <1>4, <1>15, <1>16 DEF WorldOK, Closed
<1> QED
  BY <1>1, <1>10, <1>11, <1>13, <1>15, <1>16, <1>19, <1>20, <1>21, <1>22, <1>23, <1>24 DEF WorldOK

(* CreateScsiController.                                                    *)
LEMMA AddWorld ==
  ASSUME NEW w, WorldOK(w), NEW d \in InFactory(w), w.heap[d].live,
         NEW i, i = w.heap[d].id, ~HasDevice(w, i, w.heap[d].lun), NEW v, v = AddDevice(w, d)
  PROVE  /\ WorldOK(v) /\ Attached(v) = Attached(w) \cup {d}
         /\ v.heap = w.heap /\ v.reserved = w.reserved
         /\ InFactory(v) = InFactory(w) /\ KnownIn(v) = KnownIn(w)
         /\ DOMAIN v.controllers = DOMAIN w.controllers \cup {i}
         /\ \A j \in DOMAIN w.controllers \ {i} : v.controllers[j] = w.controllers[j]
<1> DEFINE l == w.heap[d].lun
           luns == IF i \in DOMAIN w.controllers THEN w.controllers[i] ELSE <<>>
           c == With(luns, l, d)
<1>1. d \in DOMAIN w.heap /\ w.heap[d] \in Device
  BY FactoryTypes DEF WorldOK, IsWorld
<1>2. i \in Ids /\ l \in Luns /\ w.heap[d].lun = l
  BY <1>1 DEF Device
<1>3. /\ IsRecord(v) /\ v.heap = w.heap /\ v.reserved = w.reserved /\ v.factory = w.factory
      /\ v.controllers = With(w.controllers, i, c)
  BY DEF AddDevice, WorldOK, IsRecord
<1>4. l \notin DOMAIN luns /\ (i \notin DOMAIN w.controllers => DOMAIN luns = {})
  <2>1. CASE i \in DOMAIN w.controllers
    BY <2>1 DEF HasDevice
  <2>2. CASE i \notin DOMAIN w.controllers
    <3>1. luns = <<>>
      BY <2>2
    <3> QED
      BY <2>2, <3>1
  <2> QED
    BY <2>1, <2>2
<1> HIDE DEF c
<1>5. /\ DOMAIN v.controllers = DOMAIN w.controllers \cup {i} /\ v.controllers[i] = c
      /\ \A j \in DOMAIN w.controllers \ {i} : v.controllers[j] = w.controllers[j]
  BY <1>3 DEF With
<1>6. DOMAIN c = DOMAIN luns \cup {l} /\ c[l] = d /\ \A k \in DOMAIN luns : c[k] = luns[k]
  BY <1>4 DEF With, c
<1>7. c = [k \in DOMAIN c |-> c[k]]
  BY DEF With, c
<1>8. i \in DOMAIN w.controllers => luns = w.controllers[i]
  OBVIOUS
<1> HIDE DEF l, luns
<1>9. \A k \in DOMAIN luns : k \in Luns /\ luns[k] \in DOMAIN w.heap
  BY <1>4, <1>8, ControllerAt, AttachedAt
<1>10. IsController(c, w)
  BY <1>1, <1>2, <1>6, <1>7, <1>9 DEF IsController
<1>11. IsWorld(v)
  <2>1. \A j \in DOMAIN v.controllers : IsController(v.controllers[j], v)
    BY <1>3, <1>5, <1>10 DEF WorldOK, IsWorld, IsController
  <2> QED
    BY <1>2, <1>3, <1>5, <2>1 DEF WorldOK, IsWorld
<1>12. Attached(v) = Attached(w) \cup {d}
  <2>1. ASSUME NEW h \in Attached(v)
        PROVE  h \in Attached(w) \cup {d}
    <3>1. PICK j \in DOMAIN v.controllers : \E k \in DOMAIN v.controllers[j] :
            h = v.controllers[j][k]
      BY <2>1, AttachedIff
    <3>2. CASE j = i
      <4>1. PICK k \in DOMAIN c : h = c[k]
        BY <1>5, <3>1, <3>2
      <4>2. CASE k = l
        BY <1>6, <4>1, <4>2
      <4>3. CASE k \in DOMAIN luns
        <5>1. i \in DOMAIN w.controllers /\ h = w.controllers[i][k] /\ k \in DOMAIN w.controllers[i]
          BY <1>4, <1>6, <1>8, <4>1, <4>3
        <5> QED
          BY <5>1, AttachedIff
      <4> QED
        BY <1>6, <4>2, <4>3
    <3>3. CASE j # i
      BY <1>5, <3>1, <3>3, AttachedIff
    <3> QED
      BY <3>2, <3>3
  <2>2. ASSUME NEW h \in Attached(w)
        PROVE  h \in Attached(v)
    <3>1. PICK j \in DOMAIN w.controllers : \E k \in DOMAIN w.controllers[j] :
            h = w.controllers[j][k]
      BY <2>2, AttachedIff
    <3>2. CASE j = i
      BY <1>5, <1>6, <1>8, <3>1, <3>2, AttachedIff
    <3>3. CASE j # i
      BY <1>5, <3>1, <3>3, AttachedIff
    <3> QED
      BY <3>2, <3>3
  <2>3. d \in Attached(v)
    BY <1>5, <1>6, AttachedIff
  <2> QED
    BY <2>1, <2>2, <2>3
<1>13. InFactory(v) = InFactory(w) /\ KnownIn(v) = KnownIn(w)
  BY <1>3 DEF InFactory, KnownIn
<1>14. Living(v)
  <2> SUFFICES ASSUME NEW j \in DOMAIN v.controllers, NEW k \in DOMAIN v.controllers[j]
               PROVE  /\ w.heap[v.controllers[j][k]].live
                      /\ Place(w.heap[v.controllers[j][k]]) = <<j, k>>
    BY <1>3 DEF Living
  <2>1. CASE j = i /\ k = l
    BY <1>2, <1>5, <1>6, <2>1 DEF Place
  <2>2. CASE j = i /\ k \in DOMAIN luns
    <3>1. /\ i \in DOMAIN w.controllers /\ v.controllers[j][k] = w.controllers[i][k]
          /\ k \in DOMAIN w.controllers[i]
      BY <1>4, <1>5, <1>6, <1>8, <2>2
    <3> QED
      BY <2>2, <3>1 DEF WorldOK, Living
  <2>3. CASE j # i
    BY <1>5, <2>3 DEF WorldOK, Living
  <2> QED
    BY <1>5, <1>6, <2>1, <2>2, <2>3
<1>15. Tracked(v)
  BY <1>12, <1>13 DEF WorldOK, Tracked
<1>16. Sorted(v) /\ Distinct(v) /\ Closed(v)
  BY <1>3 DEF WorldOK, Sorted, Distinct, Closed
<1> QED
  BY <1>3, <1>5, <1>11, <1>12, <1>13, <1>14, <1>15, <1>16 DEF WorldOK

(* DeleteScsiDevice: the device leaves its controller.                      *)
LEMMA RemoveWorld ==
  ASSUME NEW w, WorldOK(w), NEW d \in Attached(w), NEW i, i = w.heap[d].id,
         NEW v, v = RemoveDevice(w, d)
  PROVE  /\ WorldOK(v) /\ Attached(v) = Attached(w) \ {d}
         /\ v.heap = w.heap /\ v.reserved = w.reserved
         /\ InFactory(v) = InFactory(w) /\ KnownIn(v) = KnownIn(w)
         /\ i \in DOMAIN w.controllers /\ w.controllers[i] # <<>>
         /\ DOMAIN v.controllers = DOMAIN w.controllers
         /\ \A j \in DOMAIN w.controllers \ {i} : v.controllers[j] = w.controllers[j]
         /\ v.controllers[i] # <<>> =>
              \E e \in Attached(w) \ {d} : w.heap[e].id = i
<1> DEFINE l == w.heap[d].lun
           c == w.controllers[i]
           r == Restrict(c, DOMAIN c \ {l})
<1>1. i \in DOMAIN w.controllers /\ l \in DOMAIN c /\ c[l] = d
  BY AttachedAt
<1>1a. c # <<>>
  BY <1>1
<1>2. /\ IsRecord(v) /\ v.heap = w.heap /\ v.reserved = w.reserved /\ v.factory = w.factory
      /\ v.controllers = [w.controllers EXCEPT ![i] = r]
  BY DEF RemoveDevice, WorldOK, IsRecord
<1>3. DOMAIN r = DOMAIN c \ {l} /\ \A k \in DOMAIN r : r[k] = c[k]
  BY RestrictFacts
<1>4. r = [k \in DOMAIN r |-> r[k]]
  BY DEF Restrict
<1> HIDE DEF r
<1>5. /\ DOMAIN v.controllers = DOMAIN w.controllers /\ v.controllers[i] = r
      /\ \A j \in DOMAIN w.controllers \ {i} : v.controllers[j] = w.controllers[j]
  BY <1>1, <1>2
<1>6. IsController(r, w)
  <2>1. \A k \in DOMAIN r : k \in Luns /\ r[k] \in DOMAIN w.heap
    <3>1. \A k \in DOMAIN c : k \in Luns /\ c[k] \in Attached(w)
      BY <1>1, ControllerAt
    <3>2. \A h \in Attached(w) : h \in DOMAIN w.heap
      BY AttachedAt
    <3> QED
      BY <1>3, <3>1, <3>2
  <2> QED
    BY <1>4, <2>1 DEF IsController
<1>7. IsWorld(v)
  <2>1. \A j \in DOMAIN v.controllers : IsController(v.controllers[j], v)
    BY <1>2, <1>5, <1>6 DEF WorldOK, IsWorld, IsController
  <2> QED
    BY <1>2, <1>5, <2>1 DEF WorldOK, IsWorld
<1>8. ASSUME NEW j \in DOMAIN v.controllers, NEW k \in DOMAIN v.controllers[j]
      PROVE  /\ k \in DOMAIN w.controllers[j] /\ v.controllers[j][k] = w.controllers[j][k]
             /\ v.controllers[j][k] # d
  <2>1. /\ k \in DOMAIN w.controllers[j] /\ v.controllers[j][k] = w.controllers[j][k]
        /\ j = i => k # l
    BY <1>3, <1>5
  <2>2. w.heap[w.controllers[j][k]].id = j /\ w.heap[w.controllers[j][k]].lun = k
    BY <1>5, <2>1, ControllerAt
  <2> QED
    BY <2>1, <2>2
<1>9. Attached(v) = Attached(w) \ {d}
  <2>1. ASSUME NEW h \in Attached(v)
        PROVE  h \in Attached(w) \ {d}
    BY <1>5, <1>8, <2>1, AttachedIff
  <2>2. ASSUME NEW h \in Attached(w), h # d
        PROVE  h \in Attached(v)
    <3>1. PICK j \in DOMAIN w.controllers : \E k \in DOMAIN w.controllers[j] :
            h = w.controllers[j][k]
      BY <2>2, AttachedIff
    <3>2. CASE j = i
      <4>1. PICK k \in DOMAIN c : h = c[k]
        BY <3>1, <3>2
      <4>2. k \in DOMAIN r /\ h = r[k]
        BY <1>1, <1>3, <2>2, <4>1
      <4> QED
        BY <1>1, <1>5, <4>2, AttachedIff
    <3>3. CASE j # i
      BY <1>5, <3>1, <3>3, AttachedIff
    <3> QED
      BY <3>2, <3>3
  <2> QED
    BY <2>1, <2>2
<1>10. InFactory(v) = InFactory(w) /\ KnownIn(v) = KnownIn(w)
  BY <1>2 DEF InFactory, KnownIn
<1>11. Living(v)
  BY <1>2, <1>5, <1>8 DEF WorldOK, Living
<1>12. Tracked(v)
  BY <1>9, <1>10 DEF WorldOK, Tracked
<1>13. Sorted(v) /\ Distinct(v) /\ Closed(v)
  BY <1>2 DEF WorldOK, Sorted, Distinct, Closed
<1>14. ASSUME v.controllers[i] # <<>>
       PROVE  \E e \in Attached(w) \ {d} : w.heap[e].id = i
  <2>1. DOMAIN r # {}
    <3> SUFFICES ASSUME DOMAIN r = {}
                 PROVE  FALSE
      OBVIOUS
    <3>1. r \in [{} -> {}]
      BY <1>4
    <3>2. r = <<>>
      BY <3>1, EmptyFunction
    <3> QED
      BY <1>5, <1>14, <3>2
  <2>2. PICK k \in DOMAIN r : TRUE
    BY <2>1
  <2>3. r[k] \in Attached(v)
    BY <1>1, <1>5, <2>2, AttachedIff
  <2>4. w.heap[r[k]].id = i
    <3>1. k \in DOMAIN w.controllers[i] /\ r[k] = w.controllers[i][k]
      BY <1>1, <1>3, <2>2
    <3>2. i \in DOMAIN w.controllers
      BY <1>1
    <3> HIDE DEF l, c, r
    <3>3. w.heap[w.controllers[i][k]].id = i
      BY <3>1, <3>2, ControllerAt
    <3> QED
      BY <3>1, <3>3
  <2> QED
    BY <1>9, <2>3, <2>4
<1> QED
  BY <1>1, <1>1a, <1>2, <1>5, <1>7, <1>9, <1>10, <1>11, <1>12, <1>13, <1>14 DEF WorldOK

-----------------------------------------------------------------------------
(* What the operations do with several of these steps                       *)

(* The attached devices of v are those of w, as they were.                  *)
Alike(a, b) == a.open = b.open /\ a.path = b.path /\ a.id = b.id /\ a.lun = b.lun

Same(v, w) ==
  /\ WorldOK(v) /\ Attached(v) = Attached(w) /\ v.controllers = w.controllers
  /\ \A h \in Attached(w) : Alike(v.heap[h], w.heap[h])
  /\ KnownIn(w) \subseteq KnownIn(v)

(* u has one device more than w, which is not attached yet.                 *)
Grown(u, w, d, def) ==
  /\ WorldOK(u) /\ Attached(u) = Attached(w) /\ u.controllers = w.controllers
  /\ d \in Handles \ DOMAIN w.heap /\ DOMAIN u.heap = DOMAIN w.heap \cup {d}
  /\ \A h \in DOMAIN w.heap : u.heap[h] = w.heap[h]
  /\ u.heap[d].id = def.id /\ u.heap[d].lun = def.lun /\ u.heap[d].live
  /\ InFactory(u) = InFactory(w) \cup {d}

FreeHandles(w) == Cardinality(Handles \ DOMAIN w.heap)

LEMMA HandlesFinite ==
  ASSUME NEW w
  PROVE  IsFiniteSet(Handles \ DOMAIN w.heap) /\ FreeHandles(w) \in Nat
<1>1. IsFiniteSet(Handles)
  BY AdminAssumption, FS_Interval DEF Handles
<1>2. IsFiniteSet(Handles \ DOMAIN w.heap)
  BY <1>1, FS_Subset
<1> QED
  BY <1>2, FS_CardinalityType DEF FreeHandles

LEMMA OneHandleLess ==
  ASSUME NEW w, NEW u, NEW d \in Handles \ DOMAIN w.heap, DOMAIN u.heap = DOMAIN w.heap \cup {d}
  PROVE  FreeHandles(u) = FreeHandles(w) - 1
<1>1. Handles \ DOMAIN u.heap = (Handles \ DOMAIN w.heap) \ {d}
  OBVIOUS
<1> DEFINE A == Handles \ DOMAIN w.heap
<1>2. IsFiniteSet(A) /\ d \in A /\ Cardinality(A) = FreeHandles(w)
  BY HandlesFinite DEF FreeHandles
<1> HIDE DEF A
<1>3. Cardinality(A \ {d}) = Cardinality(A) - 1
  BY <1>2, FS_RemoveElement
<1> QED
  BY <1>1, <1>2, <1>3 DEF FreeHandles, A

LEMMA NoHandleLess ==
  ASSUME NEW w, NEW v, NEW d \in Handles \ DOMAIN w.heap, DOMAIN w.heap \subseteq Handles,
         DOMAIN v.heap \subseteq DOMAIN w.heap \cup {d},
         NEW h \in DOMAIN w.heap \cup {d}, h \notin DOMAIN v.heap
  PROVE  FreeHandles(v) >= FreeHandles(w)
<1> DEFINE A == Handles \ DOMAIN w.heap
           B == A \ {d}
           C == B \cup {h}
<1>1. IsFiniteSet(A) /\ Cardinality(A) \in Nat
  BY HandlesFinite DEF FreeHandles
<1>2. d \in A /\ h \notin B
  OBVIOUS
<1>3. C \subseteq Handles \ DOMAIN v.heap
  OBVIOUS
<1> HIDE DEF A
<1>4. IsFiniteSet(B) /\ Cardinality(B) = Cardinality(A) - 1
  BY <1>1, <1>2, FS_RemoveElement
<1> HIDE DEF B
<1>5. Cardinality(C) = Cardinality(B) + 1
  BY <1>2, <1>4, FS_AddElement
<1> HIDE DEF C
<1>6. Cardinality(C) <= Cardinality(Handles \ DOMAIN v.heap)
  BY <1>3, HandlesFinite, FS_Subset
<1>7. Cardinality(A) = FreeHandles(w) /\ Cardinality(Handles \ DOMAIN v.heap) = FreeHandles(v)
  BY DEF A, FreeHandles
<1> QED
  BY <1>1, <1>4, <1>5, <1>6, <1>7, HandlesFinite

LEMMA GrownSame ==
  ASSUME NEW w, WorldOK(w), NEW u, NEW d, NEW def, Grown(u, w, d, def)
  PROVE  Same(u, w)
<1>1. \A h \in Attached(w) : h \in DOMAIN w.heap
  BY AttachedAt
<1>2. \A h \in Attached(w) : Alike(u.heap[h], w.heap[h])
  BY <1>1 DEF Grown, Alike
<1>3. KnownIn(w) \subseteq KnownIn(u)
  <2>1. \A h \in InFactory(w) : h \in InFactory(u) /\ u.heap[h] = w.heap[h]
    BY FactoryTypes DEF Grown, WorldOK
  <2> QED
    BY <2>1 DEF KnownIn
<1> QED
  BY <1>2, <1>3 DEF Grown, Same

(* CreateDevice and, for an image file, its opening and reservation.        *)
LEMMA CreateGrown ==
  ASSUME NEW w, WorldOK(w), NEW def \in Definitions, Handles \ DOMAIN w.heap # {},
         NEW d, d = NewHandle(w), NEW u, u = CreateDevice(w, def)
  PROVE  Grown(u, w, d, def) /\ ~u.heap[d].open /\ u.reserved = w.reserved
  BY CreateWorld DEF Grown

LEMMA OpenGrown ==
  ASSUME NEW w, NEW u, NEW d, NEW def, Grown(u, w, d, def), NEW f \in Files,
         NEW v, v = ReserveFile(OpenFile(u, d, f), d, f), w.reserved = u.reserved
  PROVE  /\ Grown(v, w, d, def) /\ v.heap[d].open /\ v.heap[d].path = f
         /\ DOMAIN v.reserved = DOMAIN w.reserved \cup {f}
         /\ v.reserved[f] = Place(def)
         /\ \A g \in DOMAIN w.reserved \ {f} : v.reserved[g] = w.reserved[g]
<1> DEFINE x == OpenFile(u, d, f)
<1>1. WorldOK(u) /\ d \in DOMAIN u.heap
  BY DEF Grown
<1>2. /\ WorldOK(x) /\ Attached(x) = Attached(u)
      /\ InFactory(x) = InFactory(u)
      /\ x.controllers = u.controllers /\ x.reserved = u.reserved
      /\ DOMAIN x.heap = DOMAIN u.heap
      /\ \A h \in DOMAIN u.heap \ {d} : x.heap[h] = u.heap[h]
      /\ x.heap[d].path = f /\ x.heap[d].open
      /\ Place(x.heap[d]) = Place(u.heap[d]) /\ x.heap[d].live = u.heap[d].live
  BY <1>1, OpenWorld
<1> HIDE DEF x
<1>3. v = ReserveFile(x, d, f)
  BY DEF x
<1>4. /\ WorldOK(v) /\ Attached(v) = Attached(x)
      /\ InFactory(v) = InFactory(x)
      /\ v.controllers = x.controllers /\ v.heap = x.heap
      /\ DOMAIN v.reserved = DOMAIN x.reserved \cup {f}
      /\ v.reserved[f] = Place(x.heap[d])
      /\ \A g \in DOMAIN x.reserved \ {f} : v.reserved[g] = x.reserved[g]
  BY <1>1, <1>2, <1>3, ReserveWorld
<1>5. x.heap[d].id = def.id /\ x.heap[d].lun = def.lun /\ Place(x.heap[d]) = Place(def)
  BY <1>2 DEF Grown, Place
<1>6. x.heap[d].live
  BY <1>2 DEF Grown
<1>7. \A h \in DOMAIN w.heap : x.heap[h] = w.heap[h]
  BY <1>2 DEF Grown
<1>8. /\ DOMAIN v.heap = DOMAIN w.heap \cup {d} /\ InFactory(v) = InFactory(w) \cup {d}
      /\ Attached(v) = Attached(w) /\ v.controllers = w.controllers
      /\ d \in Handles \ DOMAIN w.heap
  BY <1>2, <1>4 DEF Grown
<1>9. Grown(v, w, d, def)
  BY <1>4, <1>5, <1>6, <1>7, <1>8 DEF Grown
<1> QED
  BY <1>2, <1>4, <1>5, <1>9

(* A device that is created and deleted again leaves everything as it was,  *)
(* and no object more than before: what becomes of the factory, see         *)
(* DryRunLeavesNoDevice.                                                    *)
LEMMA TriedSame ==
  ASSUME NEW w, WorldOK(w), NEW u, NEW d, NEW def, Grown(u, w, d, def),
         ~HasDevice(w, def.id, def.lun), NEW v, v = DeleteDevice(u, d)
  PROVE  Same(v, w) /\ v.reserved = u.reserved /\ FreeHandles(v) >= FreeHandles(w)
<1>1. WorldOK(u) /\ d \in InFactory(u) /\ Attached(u) = Attached(w)
  BY DEF Grown
<1>2. \A e \in Attached(u) : e \in DOMAIN w.heap /\ u.heap[e] = w.heap[e]
  BY <1>1, AttachedAt DEF Grown
<1>3. \A e \in Attached(u) : Place(u.heap[e]) # Place(u.heap[d])
  <2> SUFFICES ASSUME NEW e \in Attached(w), Place(w.heap[e]) = Place(u.heap[d])
               PROVE  FALSE
    BY <1>1, <1>2
  <2>1. w.heap[e].id = def.id /\ w.heap[e].lun = def.lun
    BY DEF Place, Grown
  <2> QED
    BY <2>1, AttachedAt DEF HasDevice
<1>4. /\ WorldOK(v) /\ Attached(v) = Attached(u)
      /\ v.controllers = u.controllers /\ v.reserved = u.reserved
      /\ DOMAIN v.heap \subseteq DOMAIN u.heap
      /\ \A h \in DOMAIN v.heap \ {d} : v.heap[h] = u.heap[h]
      /\ \A h \in DOMAIN v.heap : Place(v.heap[h]) = Place(u.heap[h])
      /\ \E h \in InFactory(u) : /\ Place(u.heap[h]) = Place(u.heap[d])
                                 /\ InFactory(v) = InFactory(u) \ {h}
                                 /\ h \notin DOMAIN v.heap
  BY <1>1, <1>3, DeleteWorld
<1>5. PICK gone \in InFactory(u) : /\ Place(u.heap[gone]) = Place(u.heap[d])
                                   /\ InFactory(v) = InFactory(u) \ {gone}
                                   /\ gone \notin DOMAIN v.heap
  BY <1>4
<1>6. \A h \in Attached(w) : v.heap[h] = w.heap[h]
  <2> SUFFICES ASSUME NEW h \in Attached(w)
               PROVE  v.heap[h] = w.heap[h]
    OBVIOUS
  <2>1. h \in DOMAIN v.heap
    BY <1>1, <1>4, AttachedAt
  <2>2. h # d
    BY <1>1, <1>3
  <2> QED
    BY <1>1, <1>2, <1>4, <2>1, <2>2
<1>7. KnownIn(w) \subseteq KnownIn(v)
  <2> SUFFICES ASSUME NEW h \in InFactory(w)
               PROVE  \E g \in InFactory(v) : Place(v.heap[g]) = Place(w.heap[h])
    BY DEF KnownIn
  <2>1. h \in InFactory(u) /\ u.heap[h] = w.heap[h] /\ h # d
    BY FactoryTypes DEF Grown, WorldOK
  <2>2. \A g \in InFactory(v) : g \in DOMAIN v.heap
    BY <1>4, FactoryTypes DEF WorldOK
  <2>3. CASE h = gone
    <3>1. d \in InFactory(v)
      BY <1>1, <1>5, <2>1, <2>3
    <3>2. Place(v.heap[d]) = Place(u.heap[d])
      BY <1>4, <2>2, <3>1
    <3> QED
      BY <1>5, <2>1, <2>3, <3>1, <3>2
  <2>4. CASE h # gone
    BY <1>4, <1>5, <2>1, <2>2, <2>4
  <2> QED
    BY <2>3, <2>4
<1>8. FreeHandles(v) >= FreeHandles(w)
  <2>1. d \in Handles \ DOMAIN w.heap /\ DOMAIN u.heap = DOMAIN w.heap \cup {d}
    BY DEF Grown
  <2>2. DOMAIN w.heap \subseteq Handles
    BY DEF WorldOK, IsWorld
  <2>3. gone \in DOMAIN w.heap \cup {d}
    BY <1>1, <1>5, <2>1, FactoryTypes DEF WorldOK
  <2> QED
    BY <1>4, <1>5, <2>1, <2>2, <2>3, NoHandleLess
<1> QED
  BY <1>1, <1>4, <1>6, <1>7, <1>8 DEF Same, Alike, Grown

(* Detach().                                                                *)
LEMMA DetachWorld ==
  ASSUME NEW w, WorldOK(w), NEW d \in Attached(w), NEW i, i = w.heap[d].id,
         NEW v, v = DeleteDevice(RemoveDevice(UnreserveFile(w, d), d), d)
  PROVE  /\ WorldOK(v) /\ Attached(v) = Attached(w) \ {d}
         /\ \A h \in Attached(v) : v.heap[h] = w.heap[h]
         /\ DOMAIN v.reserved = DOMAIN w.reserved \ {w.heap[d].path}
         /\ \A g \in DOMAIN v.reserved : v.reserved[g] = w.reserved[g]
         /\ DOMAIN v.controllers = DOMAIN w.controllers
         /\ w.controllers[i] # <<>>
         /\ \A j \in DOMAIN w.controllers \ {i} : v.controllers[j] = w.controllers[j]
         /\ v.controllers[i] # <<>> => \E e \in Attached(w) \ {d} : w.heap[e].id = i
         /\ \A p \in KnownIn(w) : p # Place(w.heap[d]) => p \in KnownIn(v)
<1> DEFINE u == UnreserveFile(w, d)
           x == RemoveDevice(u, d)
<1>1. /\ WorldOK(u) /\ Attached(u) = Attached(w)
      /\ InFactory(u) = InFactory(w) /\ KnownIn(u) = KnownIn(w)
      /\ u.controllers = w.controllers /\ u.heap = w.heap
      /\ DOMAIN u.reserved = DOMAIN w.reserved \ {w.heap[d].path}
      /\ \A g \in DOMAIN u.reserved : u.reserved[g] = w.reserved[g]
  BY UnreserveWorld, AttachedAt
<1> HIDE DEF u
<1>2. /\ WorldOK(x) /\ Attached(x) = Attached(u) \ {d}
      /\ x.heap = u.heap /\ x.reserved = u.reserved
      /\ InFactory(x) = InFactory(u) /\ KnownIn(x) = KnownIn(u)
      /\ u.controllers[i] # <<>>
      /\ DOMAIN x.controllers = DOMAIN u.controllers
      /\ \A j \in DOMAIN u.controllers \ {i} : x.controllers[j] = u.controllers[j]
      /\ x.controllers[i] # <<>> => \E e \in Attached(u) \ {d} : u.heap[e].id = i
  BY <1>1, RemoveWorld
<1>3. v = DeleteDevice(x, d)
  BY DEF u
<1> HIDE DEF x
<1>4. d \in InFactory(x)
  BY <1>1, <1>2, AttachedAt
<1>5. \A e \in Attached(x) : Place(x.heap[e]) # Place(x.heap[d])
  BY <1>1, <1>2, PlaceUnique
<1>6. /\ WorldOK(v) /\ Attached(v) = Attached(x)
      /\ v.controllers = x.controllers /\ v.reserved = x.reserved
      /\ \A h \in DOMAIN v.heap \ {d} : v.heap[h] = x.heap[h]
      /\ \A h \in DOMAIN v.heap : Place(v.heap[h]) = Place(x.heap[h])
      /\ \E h \in InFactory(x) : /\ Place(x.heap[h]) = Place(x.heap[d])
                                 /\ InFactory(v) = InFactory(x) \ {h}
  BY <1>2, <1>3, <1>4, <1>5, DeleteWorld
<1>7. \A h \in Attached(v) : v.heap[h] = w.heap[h]
  <2> SUFFICES ASSUME NEW h \in Attached(v)
               PROVE  v.heap[h] = w.heap[h]
    OBVIOUS
  <2>1. h \in DOMAIN v.heap
    BY <1>6, AttachedAt
  <2> QED
    BY <1>1, <1>2, <1>6, <2>1
<1>8. ASSUME NEW h \in InFactory(w), Place(w.heap[h]) # Place(w.heap[d])
      PROVE  Place(w.heap[h]) \in KnownIn(v)
  <2>1. h \in InFactory(v)
    BY <1>1, <1>2, <1>6, <1>8
  <2>2. h \in DOMAIN v.heap
    BY <1>6, <2>1, FactoryTypes DEF WorldOK
  <2> QED
    BY <1>1, <1>2, <1>6, <2>1, <2>2 DEF KnownIn
<1>9. \A p \in KnownIn(w) : p # Place(w.heap[d]) => p \in KnownIn(v)
  BY <1>8 DEF KnownIn
<1> QED
  BY <1>1, <1>2, <1>6, <1>7, <1>9

-----------------------------------------------------------------------------
(* The steps of a command                                                   *)

(* The command the monitor thread works on, and the device that has been    *)
(* opened but not reserved.                                                 *)
Stage ==
  /\ pc = "idle" => cmd = NoCommand /\ next = 1
  /\ pc # "idle" => cmd \in Commands
  /\ pc = "reserve" =>
       /\ cmd.op = "INSERT" /\ next <= Len(cmd.defs) /\ HasDevice(sys, Def.id, Def.lun)
       /\ Def.file \in Files \ DOMAIN sys.reserved /\ sys.heap[Dev].path = Def.file

(* There is room for the devices an ATTACH has still to create.             *)
Room ==
  cmd.op = "ATTACH" /\ pc \in {"dry", "execute"} =>
    FreeHandles(sys) >= Len(cmd.defs) - (IF pc = "execute" THEN next - 1 ELSE 0)

Base == TypeOK /\ WorldOK(sys) /\ Stage /\ Room

(* The reservations that count: the dry run restores the list.              *)
Listed == IF pc = "dry" THEN snapshot ELSE sys.reserved

AtWork ==
  /\ running /\ pc \in {"dry", "execute"} /\ next <= Len(cmd.defs)
  /\ UNCHANGED <<files, reserved_ids, running>>

Refused ==
  /\ AtWork /\ Same(sys', sys) /\ sys'.reserved = Listed
  /\ Idle
  /\ Blame(sys', {}, {}, {}, IF dryRun THEN {} ELSE {def.id : def \in Range(cmd.defs)})

Accepted ==
  /\ AtWork /\ Same(sys', sys) /\ (dryRun \/ sys'.reserved = sys.reserved)
  /\ cmd.op = "ATTACH" => dryRun /\ FreeHandles(sys') >= FreeHandles(sys)
  /\ Accept(sys', {})

(* The device d was added to w.                                             *)
Added(v, w, d, def) ==
  /\ WorldOK(v) /\ Attached(v) = Attached(w) \cup {d}
  /\ d \in Handles \ DOMAIN w.heap /\ DOMAIN v.heap = DOMAIN w.heap \cup {d}
  /\ \A h \in DOMAIN w.heap : v.heap[h] = w.heap[h]
  /\ v.heap[d].id = def.id /\ v.heap[d].lun = def.lun
  /\ KnownIn(w) \subseteq KnownIn(v) /\ Place(def) \in KnownIn(v)
  /\ DOMAIN v.controllers = DOMAIN w.controllers \cup {def.id}
  /\ \A j \in DOMAIN w.controllers \ {def.id} : v.controllers[j] = w.controllers[j]
  /\ \/ ~v.heap[d].open /\ v.reserved = w.reserved
     \/ /\ def.file \in files \ DOMAIN w.reserved
        /\ v.heap[d].open /\ v.heap[d].path = def.file
        /\ DOMAIN v.reserved = DOMAIN w.reserved \cup {def.file}
        /\ v.reserved[def.file] = Place(def)
        /\ \A g \in DOMAIN w.reserved \ {def.file} : v.reserved[g] = w.reserved[g]

AttachedOne ==
  /\ AtWork /\ cmd.op = "ATTACH" /\ ~dryRun
  /\ Def.id \notin reserved_ids
  /\ \E d \in Handles : Added(sys', sys, d, Def)
  /\ Accept(sys', {})

DetachedOne ==
  /\ AtWork /\ cmd.op = "DETACH" /\ ~dryRun /\ HasDevice(sys, Def.id, Def.lun)
  /\ Def.lun # 0 \/ OtherLuns = {}
  /\ Accept(DeleteDevice(RemoveDevice(UnreserveFile(sys, Dev), Dev), Dev), Robs(sys, Dev))

EjectedOne ==
  /\ AtWork /\ cmd.op = "EJECT" /\ ~dryRun /\ HasDevice(sys, Def.id, Def.lun)
  /\ Ejects(sys, Dev)
  /\ Accept(Eject(sys, Dev), Robs(sys, Dev))

OpenedOne ==
  /\ AtWork /\ cmd.op = "INSERT" /\ ~dryRun /\ HasDevice(sys, Def.id, Def.lun)
  /\ sys.heap[Dev].removed /\ Def.file \in files \ DOMAIN sys.reserved
  /\ sys' = OpenFile(sys, Dev, Def.file)
  /\ pc' = "reserve"
  /\ UNCHANGED <<cmd, next, snapshot, faults>>

LEMMA WorkFacts ==
  ASSUME Base, pc # "idle"
  PROVE  /\ cmd \in Commands /\ cmd.op \in Operations /\ cmd.defs \in Seq(Definitions)
         /\ Len(cmd.defs) \in Nat /\ DOMAIN cmd.defs = 1..Len(cmd.defs)
         /\ next \in 1..(Len(cmd.defs) + 1)
         /\ next <= Len(cmd.defs) => next \in DOMAIN cmd.defs /\ Def \in Definitions
<1>1. cmd \in Commands
  BY DEF Base, Stage
<1>2. cmd.op \in Operations /\ cmd.defs \in Seq(Definitions)
  BY <1>1, AdminAssumption
<1>3. next \in 1..(Len(cmd.defs) + 1)
  BY DEF Base, TypeOK
<1>4. Len(cmd.defs) \in Nat /\ DOMAIN cmd.defs = 1..Len(cmd.defs)
  BY <1>2
<1>5. ASSUME next <= Len(cmd.defs)
      PROVE  next \in DOMAIN cmd.defs
  BY <1>3, <1>4, <1>5
<1>6. next \in DOMAIN cmd.defs => Def \in Definitions
  BY <1>2 DEF Def
<1> QED
  BY <1>1, <1>2, <1>3, <1>4, <1>5, <1>6

LEMMA DefFacts ==
  ASSUME NEW def \in Definitions
  PROVE  /\ def.id \in Ids /\ def.lun \in Luns /\ def.file \in Files \cup {NoFile}
         /\ def.fault = "init" => def.file = NoFile
  BY DEF Definitions

LEMMA DevFacts ==
  ASSUME WorldOK(sys), HasDevice(sys, Def.id, Def.lun)
  PROVE  /\ Dev \in Attached(sys) /\ Dev \in DOMAIN sys.heap
         /\ sys.heap[Dev].id = Def.id /\ sys.heap[Dev].lun = Def.lun
<1>1. Def.id \in DOMAIN sys.controllers /\ Def.lun \in DOMAIN sys.controllers[Def.id]
  BY DEF HasDevice
<1>2. Dev = sys.controllers[Def.id][Def.lun]
  BY DEF Dev
<1>3. Dev \in Attached(sys) /\ sys.heap[Dev].id = Def.id /\ sys.heap[Dev].lun = Def.lun
  BY <1>1, <1>2, ControllerAt
<1> QED
  BY <1>3, AttachedAt

LEMMA SameSelf ==
  ASSUME NEW w, WorldOK(w)
  PROVE  Same(w, w)
  BY DEF Same, Alike

LEMMA RefuseKind ==
  ASSUME Base, AtWork, NEW w, Same(w, sys), dryRun \/ w.reserved = sys.reserved, Refuse(w)
  PROVE  Refused
<1> DEFINE left == IF dryRun THEN [w EXCEPT !.reserved = snapshot] ELSE w
<1>1. /\ sys' = left /\ Idle
      /\ Blame(left, {}, {}, {}, IF dryRun THEN {} ELSE {def.id : def \in Range(cmd.defs)})
  BY DEF Refuse
<1>2. WorldOK(w)
  BY DEF Same
<1>3. Same(left, sys) /\ left.reserved = Listed
  <2>1. CASE dryRun
    <3>1. IsReservations(snapshot)
      BY DEF Base, TypeOK
    <3>2. /\ WorldOK(left) /\ Attached(left) = Attached(w)
          /\ KnownIn(left) = KnownIn(w)
          /\ left.controllers = w.controllers /\ left.heap = w.heap
          /\ left.reserved = snapshot
      BY <1>2, <2>1, <3>1, ReservedWorld
    <3> QED
      BY <2>1, <3>2 DEF Same, Listed, dryRun
  <2>2. CASE ~dryRun
    BY <2>2 DEF Listed, dryRun
  <2> QED
    BY <2>1, <2>2
<1> HIDE DEF left
<1> QED
  BY <1>1, <1>3 DEF Refused

LEMMA AcceptKind ==
  ASSUME AtWork, NEW w, Same(w, sys), dryRun \/ w.reserved = sys.reserved,
         cmd.op = "ATTACH" => dryRun /\ FreeHandles(w) >= FreeHandles(sys),
         Accept(w, {})
  PROVE  Accepted
<1>1. sys' = w
  BY DEF Accept
<1> QED
  BY <1>1 DEF Accepted, Accept

(* A device that was created and opened is added.                           *)
LEMMA AddGrown ==
  ASSUME NEW w, WorldOK(w), NEW u, NEW d, NEW def, Grown(u, w, d, def),
         ~HasDevice(w, def.id, def.lun),
         \/ ~u.heap[d].open /\ u.reserved = w.reserved
         \/ /\ def.file \in files \ DOMAIN w.reserved
            /\ u.heap[d].open /\ u.heap[d].path = def.file
            /\ DOMAIN u.reserved = DOMAIN w.reserved \cup {def.file}
            /\ u.reserved[def.file] = Place(def)
            /\ \A g \in DOMAIN w.reserved \ {def.file} : u.reserved[g] = w.reserved[g],
         NEW v, v = AddDevice(u, d)
  PROVE  Added(v, w, d, def)
<1>1. WorldOK(u) /\ d \in InFactory(u) /\ u.heap[d].live /\ u.heap[d].id = def.id
  BY DEF Grown
<1>2. ~HasDevice(u, def.id, u.heap[d].lun)
  BY DEF Grown, HasDevice
<1>3. /\ WorldOK(v) /\ Attached(v) = Attached(u) \cup {d}
      /\ v.heap = u.heap /\ v.reserved = u.reserved
      /\ InFactory(v) = InFactory(u) /\ KnownIn(v) = KnownIn(u)
      /\ DOMAIN v.controllers = DOMAIN u.controllers \cup {def.id}
      /\ \A j \in DOMAIN u.controllers \ {def.id} : v.controllers[j] = u.controllers[j]
  BY <1>1, <1>2, AddWorld
<1>4. KnownIn(w) \subseteq KnownIn(v)
  BY <1>3, GrownSame DEF Same
<1>5. Place(def) \in KnownIn(v)
  <2>1. Place(u.heap[d]) = Place(def)
    BY DEF Grown, Place
  <2> QED
    BY <1>1, <1>3, <2>1 DEF KnownIn
<1> QED
  BY <1>3, <1>4, <1>5 DEF Added, Grown

LEMMA RoomForOne ==
  ASSUME Base, pc \in {"dry", "execute"}, next <= Len(cmd.defs), cmd.op = "ATTACH"
  PROVE  Handles \ DOMAIN sys.heap # {}
<1>1. Len(cmd.defs) \in Nat /\ next \in 1..(Len(cmd.defs) + 1)
  BY WorkFacts
<1>2. FreeHandles(sys) >= Len(cmd.defs) - (IF pc = "execute" THEN next - 1 ELSE 0)
  BY DEF Base, Room
<1>3. FreeHandles(sys) # 0
  <2>1. FreeHandles(sys) \in Nat
    BY HandlesFinite
  <2>2. CASE pc = "execute"
    <3>1. FreeHandles(sys) >= Len(cmd.defs) - (next - 1)
      BY <1>2, <2>2
    <3> QED
      BY <1>1, <2>1, <3>1
  <2>3. CASE pc # "execute"
    <3>1. FreeHandles(sys) >= Len(cmd.defs) - 0
      BY <1>2, <2>3
    <3> QED
      BY <1>1, <2>1, <3>1
  <2> QED
    BY <2>2, <2>3
<1> QED
  BY <1>3, HandlesFinite, FS_EmptySet DEF FreeHandles

LEMMA AttachKinds ==
  ASSUME Base, AtWork, Attach
  PROVE  Refused \/ Accepted \/ AttachedOne
<1> DEFINE d == NewHandle(sys)
           created == CreateDevice(sys, Def)
           opened == IF Def.file = NoFile THEN created
                     ELSE ReserveFile(OpenFile(created, d, Def.file), d, Def.file)
           valid == /\ Def.fault # "block"
                    /\ Def.type = "disk" => Def.file # NoFile
                    /\ Def.file \notin DOMAIN sys.reserved
<1>1. cmd.op = "ATTACH" /\ pc \in {"dry", "execute"} /\ next <= Len(cmd.defs)
  BY DEF Attach, AtWork
<1>2. WorldOK(sys) /\ Handles \ DOMAIN sys.heap # {}
  BY <1>1, RoomForOne DEF Base
<1>3. Def \in Definitions
  BY <1>1, WorkFacts
<1>4. /\ Def.id \in Ids /\ Def.lun \in Luns /\ Def.file \in Files \cup {NoFile}
      /\ Def.fault = "init" => Def.file = NoFile
  BY <1>3, DefFacts
<1>5. Grown(created, sys, d, Def) /\ ~created.heap[d].open /\ created.reserved = sys.reserved
  BY <1>2, <1>3, CreateGrown
<1> HIDE DEF d, created
<1>6. /\ Grown(opened, sys, d, Def)
      /\ Def.file = NoFile => ~opened.heap[d].open /\ opened.reserved = sys.reserved
      /\ Def.file # NoFile =>
           /\ opened.heap[d].open /\ opened.heap[d].path = Def.file
           /\ DOMAIN opened.reserved = DOMAIN sys.reserved \cup {Def.file}
           /\ opened.reserved[Def.file] = Place(Def)
           /\ \A g \in DOMAIN sys.reserved \ {Def.file} :
                opened.reserved[g] = sys.reserved[g]
  <2>1. CASE Def.file = NoFile
    BY <1>5, <2>1
  <2>2. CASE Def.file # NoFile
    <3>1. opened = ReserveFile(OpenFile(created, d, Def.file), d, Def.file)
      BY <2>2
    <3>2. Def.file \in Files
      BY <1>4, <2>2
    <3> HIDE DEF opened
    <3> QED
      BY <1>5, <2>2, <3>1, <3>2, OpenGrown
  <2> QED
    BY <2>1, <2>2
<1>7. \/ Refuse(sys)
      \/ /\ Def.id \notin reserved_ids /\ ~HasDevice(sys, Def.id, Def.lun)
         /\ \/ Refuse(created)
            \/ Refuse(DeleteDevice(created, d))
            \/ /\ valid /\ Def.file \in files \cup {NoFile}
               /\ \/ dryRun /\ Accept(DeleteDevice(opened, d), {})
                  \/ ~dryRun /\ Def.fault = "init" /\ Refuse(DeleteDevice(opened, d))
                  \/ ~dryRun /\ Accept(AddDevice(opened, d), {})
  BY DEF Attach, d, created
<1> HIDE DEF opened, valid
<1>8. CASE Refuse(sys)
  BY <1>2, <1>8, RefuseKind, SameSelf
<1>9. CASE Refuse(created)
  <2>1. Same(created, sys) /\ created.reserved = sys.reserved
    BY <1>2, <1>5, GrownSame
  <2> QED
    BY <1>9, <2>1, RefuseKind
<1>10. CASE ~HasDevice(sys, Def.id, Def.lun) /\ Refuse(DeleteDevice(created, d))
  <2>1. Same(DeleteDevice(created, d), sys) /\ DeleteDevice(created, d).reserved = sys.reserved
    BY <1>2, <1>5, <1>10, TriedSame
  <2> QED
    BY <1>10, <2>1, RefuseKind
<1>11. ASSUME ~HasDevice(sys, Def.id, Def.lun)
       PROVE  /\ Same(DeleteDevice(opened, d), sys)
              /\ DeleteDevice(opened, d).reserved = opened.reserved
              /\ FreeHandles(DeleteDevice(opened, d)) >= FreeHandles(sys)
  BY <1>2, <1>6, <1>11, TriedSame
<1>12. CASE /\ ~HasDevice(sys, Def.id, Def.lun)
            /\ dryRun /\ Accept(DeleteDevice(opened, d), {})
  BY <1>11, <1>12, AcceptKind
<1>13. CASE /\ ~HasDevice(sys, Def.id, Def.lun) /\ Def.fault = "init"
            /\ Refuse(DeleteDevice(opened, d))
  BY <1>4, <1>6, <1>11, <1>13, RefuseKind
<1>14. CASE /\ Def.id \notin reserved_ids /\ ~HasDevice(sys, Def.id, Def.lun)
            /\ valid /\ Def.file \in files \cup {NoFile}
            /\ ~dryRun /\ Accept(AddDevice(opened, d), {})
  <2>1. \/ ~opened.heap[d].open /\ opened.reserved = sys.reserved
        \/ /\ Def.file \in files \ DOMAIN sys.reserved
           /\ opened.heap[d].open /\ opened.heap[d].path = Def.file
           /\ DOMAIN opened.reserved = DOMAIN sys.reserved \cup {Def.file}
           /\ opened.reserved[Def.file] = Place(Def)
           /\ \A g \in DOMAIN sys.reserved \ {Def.file} :
                opened.reserved[g] = sys.reserved[g]
    BY <1>6, <1>14 DEF valid
  <2>2. Added(AddDevice(opened, d), sys, d, Def)
    BY <1>2, <1>6, <1>14, <2>1, AddGrown
  <2>3. sys' = AddDevice(opened, d)
    BY <1>14 DEF Accept
  <2>4. Added(sys', sys, d, Def) /\ Accept(sys', {})
    BY <1>14, <2>2, <2>3
  <2>5. d \in Handles
    BY <1>6 DEF Grown
  <2> QED
    BY <1>1, <1>14, <2>4, <2>5 DEF AttachedOne
<1> QED
  BY <1>7, <1>8, <1>9, <1>10, <1>12, <1>13, <1>14

LEMMA StopSame ==
  ASSUME NEW w, WorldOK(w), NEW d \in DOMAIN w.heap, NEW v, v = Stopped(w, d)
  PROVE  Same(v, w) /\ v.reserved = w.reserved
<1>1. /\ WorldOK(v) /\ Attached(v) = Attached(w) /\ KnownIn(v) = KnownIn(w)
      /\ v.controllers = w.controllers /\ v.reserved = w.reserved
      /\ \A h \in DOMAIN w.heap :
           /\ v.heap[h].open = w.heap[h].open /\ v.heap[h].path = w.heap[h].path
           /\ Place(v.heap[h]) = Place(w.heap[h])
  BY StopWorld
<1>2. ASSUME NEW h \in Attached(w)
      PROVE  Alike(v.heap[h], w.heap[h])
  <2>1. h \in DOMAIN w.heap
    BY AttachedAt
  <2>2. Place(v.heap[h]) = Place(w.heap[h])
    BY <1>1, <2>1
  <2> QED
    BY <1>1, <2>1, <2>2 DEF Alike, Place
<1> QED
  BY <1>1, <1>2 DEF Same

LEMMA ProcessKinds ==
  ASSUME Base, ProcessDevice
  PROVE  Refused \/ Accepted \/ AttachedOne \/ DetachedOne \/ EjectedOne \/ OpenedOne
<1>1. AtWork
  BY DEF ProcessDevice, AtWork
<1>2. WorldOK(sys) /\ Same(sys, sys)
  BY SameSelf DEF Base
<1>3. Refuse(sys) => Refused
  BY <1>1, <1>2, RefuseKind
<1>4. cmd.op # "ATTACH" /\ Accept(sys, {}) => Accepted
  BY <1>1, <1>2, AcceptKind
<1>5. CASE Attach
  BY <1>1, <1>5, AttachKinds
<1>6. CASE Denied
  BY <1>3, <1>6 DEF Denied
<1>7. CASE Detach
  <2>1. cmd.op = "DETACH" /\ HasDevice(sys, Def.id, Def.lun)
    BY <1>7 DEF Detach, Allowed
  <2> QED
    BY <1>1, <1>3, <1>4, <1>7, <2>1 DEF Detach, DetachedOne
<1>8. CASE Insert
  <2>1. cmd.op = "INSERT" /\ HasDevice(sys, Def.id, Def.lun)
    BY <1>8 DEF Insert, Allowed
  <2>2. CASE Refuse(sys) \/ Accept(sys, {})
    BY <1>3, <1>4, <2>1, <2>2
  <2>3. CASE ~(Refuse(sys) \/ Accept(sys, {}))
    BY <1>1, <1>8, <2>1, <2>3 DEF Insert, OpenedOne
  <2> QED
    BY <2>2, <2>3
<1>9. CASE EjectMedium
  <2>1. cmd.op = "EJECT" /\ HasDevice(sys, Def.id, Def.lun)
    BY <1>9 DEF EjectMedium, Allowed
  <2>2. CASE dryRun
    BY <1>4, <1>9, <2>1, <2>2 DEF EjectMedium
  <2>3. CASE ~dryRun /\ Ejects(sys, Dev)
    BY <1>1, <1>9, <2>1, <2>3 DEF EjectMedium, EjectedOne
  <2>4. CASE ~dryRun /\ ~Ejects(sys, Dev)
    BY <1>4, <1>9, <2>1, <2>4 DEF EjectMedium, Eject
  <2> QED
    BY <2>2, <2>3, <2>4
<1>10. CASE Stop
  <2>1. cmd.op = "STOP" /\ HasDevice(sys, Def.id, Def.lun)
    BY <1>10 DEF Stop, Allowed
  <2>2. CASE dryRun
    BY <1>4, <1>10, <2>1, <2>2 DEF Stop
  <2>3. CASE ~dryRun
    <3> DEFINE w == Stopped(sys, Dev)
    <3>1. Accept(w, {})
      BY <1>10, <2>3 DEF Stop, Stopped
    <3>2. Same(w, sys) /\ w.reserved = sys.reserved
      BY <1>2, <2>1, DevFacts, StopSame
    <3> HIDE DEF w
    <3> QED
      BY <1>1, <2>1, <3>1, <3>2, AcceptKind
  <2> QED
    BY <2>2, <2>3
<1> QED
  BY <1>5, <1>6, <1>7, <1>8, <1>9, <1>10 DEF ProcessDevice

-----------------------------------------------------------------------------
(* Base is an inductive invariant                                           *)

FaultTypes ==
  [robbed : SUBSET Files, stale : SUBSET Files, renamed : SUBSET Files,
   incomplete : SUBSET Ids]

LEMMA NoReservation == IsReservations(<<>>)
<1>1. DOMAIN <<>> = {} /\ <<>> \in [{} -> Ids \X Luns]
  OBVIOUS
<1> QED
  BY <1>1 DEF IsReservations

LEMMA NothingWorld ==
  /\ WorldOK(NothingAttached) /\ Attached(NothingAttached) = {}
  /\ NothingAttached.controllers = <<>> /\ NothingAttached.reserved = <<>>
  /\ DOMAIN NothingAttached.controllers = {} /\ DOMAIN NothingAttached.reserved = {}
<1> DEFINE w == NothingAttached
<1>1. /\ IsRecord(w) /\ w.heap = <<>> /\ w.factory = [i \in Ids |-> <<>>]
      /\ w.controllers = <<>> /\ w.reserved = <<>>
  BY DEF NothingAttached, IsRecord
<1>2. DOMAIN w.heap = {} /\ DOMAIN w.controllers = {} /\ DOMAIN w.reserved = {}
  BY <1>1
<1>3. w.heap \in [{} -> Device]
  BY <1>1
<1>4. w.factory \in [Ids -> Seq({})]
  BY <1>1
<1>5. \A i \in Ids : DOMAIN w.factory[i] = {}
  BY <1>1
<1> HIDE DEF w
<1>6. IsWorld(w)
  BY <1>1, <1>2, <1>3, <1>4, NoReservation DEF IsWorld
<1>7. Attached(w) = {}
  BY <1>2, AttachedIff
<1> QED
  BY <1>1, <1>2, <1>5, <1>6, <1>7 DEF WorldOK, Living, Tracked, Sorted, Distinct, Closed, w

LEMMA OpenFilesTypes ==
  ASSUME NEW w, WorldOK(w)
  PROVE  OpenFiles(w) \subseteq Files
  BY AttachedAt DEF OpenFiles, WorldOK, Closed

LEMMA BlameTypes ==
  ASSUME TypeOK, NEW w, WorldOK(w), NEW R, NEW S, NEW N, NEW I, Blame(w, R, S, N, I)
  PROVE  faults' \in FaultTypes
<1>1. OpenFiles(w) \subseteq Files
  BY OpenFilesTypes
<1>2. DOMAIN w.reserved \subseteq Files /\ DOMAIN snapshot \subseteq Files
  BY DEF TypeOK, WorldOK, IsWorld, IsReservations
<1>3. \A i : HasNoLunZero(w, i) => i \in Ids
  BY DEF HasNoLunZero, WorldOK, IsWorld
<1> QED
  BY <1>1, <1>2, <1>3 DEF Blame, FaultTypes

(* The types of what a step leaves alone, and of the devices.               *)
LEMMA TypesKept ==
  ASSUME TypeOK, WorldOK(sys'), files' \subseteq Files, reserved_ids' \subseteq Ids,
         running' \in BOOLEAN, faults' \in FaultTypes,
         IsReservations(snapshot'),
         cmd' \in Commands \cup {NoCommand},
         pc' \in {"idle", "dry", "execute", "reserve"},
         next' \in 1..(Len(cmd'.defs) + 1)
  PROVE  TypeOK'
  BY DEF TypeOK, WorldOK, FaultTypes

LEMMA IdleTypes ==
  ASSUME Idle
  PROVE  /\ IsReservations(snapshot') /\ cmd' = NoCommand /\ pc' = "idle" /\ next' = 1
         /\ next' \in 1..(Len(cmd'.defs) + 1) /\ Stage' /\ Room'
<1>1. IsReservations(snapshot') /\ cmd' = NoCommand /\ pc' = "idle" /\ next' = 1
  BY NoReservation DEF Idle
<1>2. cmd'.defs = <<>>
  BY <1>1 DEF NoCommand
<1>3. next' \in 1..(Len(cmd'.defs) + 1)
  BY <1>1, <1>2
<1> QED
  BY <1>1, <1>3 DEF Stage, Room

LEMMA AcceptTypes ==
  ASSUME Base, AtWork, NEW w, NEW R, Accept(w, R)
  PROVE  /\ IsReservations(snapshot') /\ cmd' = cmd /\ cmd' \in Commands
         /\ next' = next + 1 /\ next' \in 1..(Len(cmd'.defs) + 1)
         /\ pc' \in {"dry", "execute"} /\ (pc' = "dry" <=> pc = "dry") /\ Stage'
<1>1. /\ sys' = w /\ next' = next + 1 /\ cmd' = cmd /\ snapshot' = snapshot
      /\ pc' = IF pc = "dry" THEN "dry" ELSE "execute"
  BY DEF Accept, dryRun
<1>2. cmd \in Commands /\ Len(cmd.defs) \in Nat /\ next \in 1..(Len(cmd.defs) + 1)
  BY WorkFacts DEF AtWork
<1>3. next' \in 1..(Len(cmd'.defs) + 1)
  BY <1>1, <1>2 DEF AtWork
<1>4. IsReservations(snapshot')
  BY <1>1 DEF Base, TypeOK
<1>5. Stage'
  BY <1>1, <1>2 DEF Stage
<1> QED
  BY <1>1, <1>2, <1>3, <1>4, <1>5

LEMMA RefusedBase ==
  ASSUME Base, Refused
  PROVE  Base'
<1>1. TypeOK /\ WorldOK(sys')
  BY DEF Base, Refused, Same
<1>2. faults' \in FaultTypes
  BY <1>1, BlameTypes DEF Refused
<1>3. /\ IsReservations(snapshot') /\ cmd' = NoCommand /\ pc' = "idle"
      /\ next' \in 1..(Len(cmd'.defs) + 1) /\ Stage' /\ Room'
  BY IdleTypes DEF Refused
<1>4. files' = files /\ reserved_ids' = reserved_ids /\ running' = running
  BY DEF Refused, AtWork
<1>5. TypeOK'
  BY <1>1, <1>2, <1>3, <1>4, TypesKept DEF TypeOK
<1> QED
  BY <1>1, <1>3, <1>5 DEF Base

(* A device definition has been processed: what is left is the room.        *)
LEMMA AcceptBase ==
  ASSUME Base, AtWork, NEW w, WorldOK(w), NEW R, Accept(w, R),
         cmd.op = "ATTACH" => \/ dryRun /\ FreeHandles(w) >= FreeHandles(sys)
                              \/ ~dryRun /\ FreeHandles(w) = FreeHandles(sys) - 1
  PROVE  Base'
<1>1. TypeOK /\ WorldOK(sys') /\ sys' = w
  BY DEF Base, Accept
<1>2. Blame(w, R, {}, {}, {})
  BY DEF Accept
<1>3. faults' \in FaultTypes
  BY <1>1, <1>2, BlameTypes
<1>4. /\ IsReservations(snapshot') /\ cmd' = cmd /\ cmd' \in Commands
      /\ next' = next + 1 /\ next' \in 1..(Len(cmd'.defs) + 1)
      /\ pc' \in {"dry", "execute"} /\ (pc' = "dry" <=> pc = "dry") /\ Stage'
  BY AcceptTypes
<1>5. files' = files /\ reserved_ids' = reserved_ids /\ running' = running
  BY DEF AtWork
<1>6. TypeOK'
  BY <1>1, <1>3, <1>4, <1>5, TypesKept DEF TypeOK
<1>7. Room'
  <2>1. SUFFICES ASSUME cmd.op = "ATTACH"
                 PROVE  FreeHandles(w) >= Len(cmd.defs) - (IF pc' = "execute" THEN next ELSE 0)
    <3>1. Len(cmd.defs) \in Nat /\ next \in 1..(Len(cmd.defs) + 1)
      BY WorkFacts DEF AtWork
    <3>2. (next + 1) - 1 = next
      BY <3>1
    <3> QED
      BY <1>1, <1>4, <3>2 DEF Room
  <2>2. pc \in {"dry", "execute"} /\ Len(cmd.defs) \in Nat /\ next \in 1..(Len(cmd.defs) + 1)
    BY WorkFacts DEF AtWork
  <2>3. FreeHandles(sys) >= Len(cmd.defs) - (IF pc = "execute" THEN next - 1 ELSE 0)
    BY <2>1, <2>2 DEF Base, Room
  <2>4. FreeHandles(w) \in Nat /\ FreeHandles(sys) \in Nat
    BY HandlesFinite
  <2>5. CASE pc = "dry"
    <3>1. FreeHandles(sys) >= Len(cmd.defs) - 0 /\ pc' # "execute"
      BY <1>4, <2>3, <2>5
    <3>2. FreeHandles(w) >= FreeHandles(sys)
      BY <2>1, <2>5 DEF dryRun
    <3> QED
      BY <2>2, <2>4, <3>1, <3>2
  <2>6. CASE pc = "execute"
    <3>1. FreeHandles(sys) >= Len(cmd.defs) - (next - 1)
      BY <2>3, <2>6
    <3>2. FreeHandles(w) = FreeHandles(sys) - 1
      BY <2>1, <2>6 DEF dryRun
    <3>3. pc' = "execute"
      BY <1>4, <2>6
    <3>4. FreeHandles(w) >= Len(cmd.defs) - next
      BY <2>2, <2>4, <3>1, <3>2
    <3> QED
      BY <3>3, <3>4
  <2> QED
    BY <2>2, <2>5, <2>6
<1> QED
  BY <1>1, <1>4, <1>6, <1>7 DEF Base

LEMMA ProcessBase ==
  ASSUME Base, ProcessDevice
  PROVE  Base'
<1>1. CASE Refused
  BY <1>1, RefusedBase
<1>2. CASE Accepted
  <2>1. WorldOK(sys') /\ AtWork /\ Accept(sys', {})
    BY <1>2 DEF Accepted, Same
  <2>2. cmd.op = "ATTACH" => dryRun /\ FreeHandles(sys') >= FreeHandles(sys)
    BY <1>2 DEF Accepted
  <2> QED
    BY <2>1, <2>2, AcceptBase
<1>3. CASE AttachedOne
  <2>1. AtWork /\ Accept(sys', {}) /\ ~dryRun
    BY <1>3 DEF AttachedOne
  <2>2. PICK d \in Handles : Added(sys', sys, d, Def)
    BY <1>3 DEF AttachedOne
  <2>3. WorldOK(sys') /\ d \in Handles \ DOMAIN sys.heap /\ DOMAIN sys'.heap = DOMAIN sys.heap \cup {d}
    BY <2>2 DEF Added
  <2>4. FreeHandles(sys') = FreeHandles(sys) - 1
    BY <2>3, OneHandleLess
  <2> QED
    BY <2>1, <2>3, <2>4, AcceptBase
<1>4. CASE DetachedOne
  <2> DEFINE w == DeleteDevice(RemoveDevice(UnreserveFile(sys, Dev), Dev), Dev)
  <2>1. AtWork /\ Accept(w, Robs(sys, Dev)) /\ cmd.op # "ATTACH"
    BY <1>4 DEF DetachedOne
  <2>2. WorldOK(sys) /\ Dev \in Attached(sys)
    BY <1>4, DevFacts DEF DetachedOne, Base
  <2>3. WorldOK(w)
    BY <2>2, DetachWorld
  <2> HIDE DEF w
  <2> QED
    BY <2>1, <2>3, AcceptBase
<1>5. CASE EjectedOne
  <2> DEFINE w == Eject(sys, Dev)
  <2>1. AtWork /\ Accept(w, Robs(sys, Dev)) /\ cmd.op # "ATTACH" /\ Ejects(sys, Dev)
    BY <1>5 DEF EjectedOne
  <2>2. WorldOK(sys) /\ Dev \in DOMAIN sys.heap
    BY <1>5, DevFacts DEF EjectedOne, Base
  <2>3. WorldOK(w)
    BY <2>1, <2>2, EjectWorld
  <2> HIDE DEF w
  <2> QED
    BY <2>1, <2>3, AcceptBase
<1>6. CASE OpenedOne
  <2>1. /\ AtWork /\ cmd.op = "INSERT" /\ HasDevice(sys, Def.id, Def.lun)
        /\ Def.file \in files \ DOMAIN sys.reserved /\ pc' = "reserve"
        /\ cmd' = cmd /\ next' = next /\ snapshot' = snapshot /\ faults' = faults
        /\ sys' = OpenFile(sys, Dev, Def.file)
    BY <1>6 DEF OpenedOne
  <2>2. WorldOK(sys) /\ Dev \in DOMAIN sys.heap /\ TypeOK
    BY <2>1, DevFacts DEF Base
  <2>3. Def.file \in Files
    BY <2>1, <2>2 DEF TypeOK
  <2>4. /\ WorldOK(sys') /\ sys'.controllers = sys.controllers
        /\ sys'.reserved = sys.reserved /\ sys'.heap[Dev].path = Def.file
    BY <2>1, <2>2, <2>3, OpenWorld
  <2>5. cmd \in Commands /\ next \in 1..(Len(cmd.defs) + 1) /\ next <= Len(cmd.defs)
    BY <2>1, WorkFacts DEF AtWork
  <2>6. files' = files /\ reserved_ids' = reserved_ids /\ running' = running
    BY <2>1 DEF AtWork
  <2>7. TypeOK'
    BY <2>1, <2>2, <2>4, <2>5, <2>6, TypesKept DEF TypeOK, FaultTypes
  <2>8. Def' = Def /\ Dev' = Dev
    BY <2>1, <2>4 DEF Def, Dev
  <2>9. HasDevice(sys', Def.id, Def.lun)
    BY <2>1, <2>4 DEF HasDevice
  <2>10. Stage'
    BY <2>1, <2>3, <2>4, <2>5, <2>8, <2>9 DEF Stage
  <2>11. Room'
    BY <2>1 DEF Room
  <2> QED
    BY <2>4, <2>7, <2>10, <2>11 DEF Base
<1> QED
  BY <1>1, <1>2, <1>3, <1>4, <1>5, <1>6, ProcessKinds

LEMMA InsertReserveBase ==
  ASSUME Base, InsertReserve
  PROVE  Base'
<1>1. /\ pc = "reserve" /\ pc' = "execute" /\ next' = next + 1
      /\ cmd' = cmd /\ snapshot' = snapshot
      /\ files' = files /\ reserved_ids' = reserved_ids /\ running' = running
      /\ sys' = ReserveFile(sys, Dev, Def.file)
  BY DEF InsertReserve
<1>2. /\ WorldOK(sys) /\ TypeOK /\ cmd.op = "INSERT" /\ next <= Len(cmd.defs)
      /\ HasDevice(sys, Def.id, Def.lun) /\ Def.file \in Files
  BY <1>1 DEF Base, Stage
<1>3. Dev \in DOMAIN sys.heap
  BY <1>2, DevFacts
<1>4. WorldOK(sys')
  BY <1>1, <1>2, <1>3, ReserveWorld
<1>5. faults' \in FaultTypes
  <2>1. Blame(sys', {}, IF sys.heap[Dev].open THEN {} ELSE {Def.file}, {}, {})
    BY <1>1 DEF InsertReserve
  <2> QED
    BY <1>2, <1>4, <2>1, BlameTypes
<1>6. cmd \in Commands /\ Len(cmd.defs) \in Nat /\ next \in 1..(Len(cmd.defs) + 1)
  BY <1>1, WorkFacts
<1>7. next' \in 1..(Len(cmd'.defs) + 1)
  BY <1>1, <1>2, <1>6
<1>8. TypeOK'
  BY <1>1, <1>2, <1>4, <1>5, <1>6, <1>7, TypesKept DEF TypeOK
<1>9. Stage' /\ Room'
  BY <1>1, <1>2, <1>6 DEF Stage, Room
<1> QED
  BY <1>4, <1>8, <1>9 DEF Base

LEMMA ReceiveBase ==
  ASSUME Base, Receive
  PROVE  Base'
<1>1. /\ pc = "idle" /\ pc' = "dry" /\ next' = next /\ snapshot' = sys.reserved
      /\ UNCHANGED <<sys, files, reserved_ids, running, faults>>
      /\ cmd' \in Commands
      /\ cmd'.op = "ATTACH" => FreeHandles(sys) >= Len(cmd'.defs)
  BY DEF Receive, FreeHandles
<1>2. WorldOK(sys) /\ TypeOK /\ next = 1
  BY <1>1 DEF Base, Stage
<1>3. Len(cmd'.defs) \in Nat
  BY <1>1, AdminAssumption
<1>4. next' \in 1..(Len(cmd'.defs) + 1)
  BY <1>1, <1>2, <1>3
<1>5. IsReservations(snapshot')
  BY <1>1, <1>2 DEF TypeOK, IsWorld
<1>6. TypeOK' /\ WorldOK(sys')
  BY <1>1, <1>2, <1>4, <1>5, TypesKept DEF TypeOK, FaultTypes
<1>7. Stage'
  BY <1>1 DEF Stage
<1>8. Room'
  BY <1>1, <1>3, HandlesFinite DEF Room
<1> QED
  BY <1>6, <1>7, <1>8 DEF Base

LEMMA ValidateBase ==
  ASSUME Base, Validate
  PROVE  Base'
<1> DEFINE w == [sys EXCEPT !.reserved = snapshot]
<1>1. /\ pc = "dry" /\ sys' = w /\ Blame(w, {}, {}, {}, {})
      /\ files' = files /\ reserved_ids' = reserved_ids /\ running' = running
      /\ \/ pc' = "execute" /\ next' = 1 /\ cmd' = cmd /\ snapshot' = snapshot
         \/ Idle
  BY DEF Validate
<1>2. WorldOK(sys) /\ TypeOK /\ IsReservations(snapshot)
  BY DEF Base, TypeOK
<1>3. WorldOK(w) /\ w.heap = sys.heap
  BY <1>2, ReservedWorld
<1> HIDE DEF w
<1>4. faults' \in FaultTypes
  BY <1>1, <1>2, <1>3, BlameTypes
<1>5. cmd \in Commands /\ Len(cmd.defs) \in Nat
  BY <1>1, WorkFacts
<1>6. CASE pc' = "execute" /\ next' = 1 /\ cmd' = cmd /\ snapshot' = snapshot
  <2>1. next' \in 1..(Len(cmd'.defs) + 1)
    BY <1>5, <1>6
  <2>2. TypeOK'
    BY <1>1, <1>2, <1>3, <1>4, <1>5, <1>6, <2>1, TypesKept DEF TypeOK
  <2>3. FreeHandles(sys') = FreeHandles(sys)
    BY <1>1, <1>3 DEF FreeHandles
  <2>4. cmd.op = "ATTACH" => FreeHandles(sys) >= Len(cmd.defs) - 0
    BY <1>1 DEF Base, Room
  <2>5. Stage' /\ Room'
    BY <1>5, <1>6, <2>3, <2>4 DEF Stage, Room
  <2> QED
    BY <1>1, <1>3, <2>2, <2>5 DEF Base
<1>7. CASE Idle
  <2>1. /\ IsReservations(snapshot') /\ cmd' = NoCommand /\ pc' = "idle"
        /\ next' \in 1..(Len(cmd'.defs) + 1) /\ Stage' /\ Room'
    BY <1>7, IdleTypes
  <2>2. TypeOK'
    BY <1>1, <1>2, <1>3, <1>4, <2>1, TypesKept DEF TypeOK
  <2> QED
    BY <1>1, <1>3, <2>1, <2>2 DEF Base
<1> QED
  BY <1>1, <1>6, <1>7

LEMMA ScsiEjectBase ==
  ASSUME Base, NEW d \in Attached(sys), ScsiEject(d)
  PROVE  Base'
<1>1. /\ Ejects(sys, d) /\ sys' = Eject(sys, d)
      /\ UNCHANGED <<files, reserved_ids, cmd, pc, next, snapshot, running>>
  BY DEF ScsiEject
<1>2. WorldOK(sys) /\ TypeOK /\ d \in DOMAIN sys.heap
  BY AttachedAt DEF Base
<1>3. /\ WorldOK(sys') /\ sys'.controllers = sys.controllers
      /\ DOMAIN sys'.reserved = DOMAIN sys.reserved \ {sys.heap[d].path}
      /\ DOMAIN sys'.heap = DOMAIN sys.heap
      /\ \A h \in DOMAIN sys.heap \ {d} : sys'.heap[h] = sys.heap[h]
      /\ sys'.heap[d].path = sys.heap[d].path
  BY <1>1, <1>2, EjectWorld
<1>4. faults' \in FaultTypes
  <2> DEFINE stale == IF dryRun THEN {sys.heap[d].path} \cap DOMAIN snapshot ELSE {}
  <2>1. faults' = [faults EXCEPT !.robbed = (@ \cup Robs(sys, d)) \cap OpenFiles(sys'),
                                 !.stale = @ \cup stale]
    BY DEF ScsiEject
  <2>2. OpenFiles(sys') \subseteq Files
    BY <1>3, OpenFilesTypes
  <2>3. stale \subseteq Files
    BY <1>2 DEF TypeOK, IsReservations
  <2>4. faults \in FaultTypes
    BY <1>2 DEF TypeOK, FaultTypes
  <2> HIDE DEF stale
  <2> QED
    BY <2>1, <2>2, <2>3, <2>4 DEF FaultTypes
<1>5. TypeOK'
  BY <1>1, <1>2, <1>3, <1>4, TypesKept DEF TypeOK
<1>6. Def' = Def /\ Dev' = Dev
  BY <1>1, <1>3 DEF Def, Dev
<1>7. Stage'
  <2>1. CASE pc = "reserve"
    <3>1. /\ cmd \in Commands /\ cmd.op = "INSERT" /\ next <= Len(cmd.defs)
          /\ HasDevice(sys, Def.id, Def.lun)
          /\ Def.file \in Files \ DOMAIN sys.reserved /\ sys.heap[Dev].path = Def.file
      BY <2>1 DEF Base, Stage
    <3>2. HasDevice(sys', Def.id, Def.lun)
      BY <1>3, <3>1 DEF HasDevice
    <3>3. Dev \in DOMAIN sys.heap
      BY <1>2, <3>1, DevFacts
    <3>4. sys'.heap[Dev].path = Def.file
      BY <1>3, <3>1, <3>3
    <3> QED
      BY <1>1, <1>3, <1>6, <2>1, <3>1, <3>2, <3>4 DEF Stage
  <2>2. CASE pc # "reserve"
    BY <1>1, <2>2 DEF Base, Stage
  <2> QED
    BY <2>1, <2>2
<1>8. Room'
  <2>1. FreeHandles(sys') = FreeHandles(sys)
    BY <1>3 DEF FreeHandles
  <2> QED
    BY <1>1, <2>1 DEF Base, Room
<1> QED
  BY <1>3, <1>5, <1>7, <1>8 DEF Base

(* Steps that leave the devices and the command alone.                      *)
LEMMA QuietBase ==
  ASSUME Base, UNCHANGED <<sys, cmd, pc, next, snapshot>>,
         files' \subseteq Files, reserved_ids' \subseteq Ids, running' \in BOOLEAN,
         faults' \in FaultTypes
  PROVE  Base'
<1>1. WorldOK(sys') /\ TypeOK
  BY DEF Base
<1>2. TypeOK'
  BY <1>1, TypesKept DEF TypeOK
<1>3. Def' = Def /\ Dev' = Dev
  BY DEF Def, Dev
<1>4. Stage'
  BY <1>3 DEF Base, Stage
<1>5. Room'
  BY DEF Base, Room
<1> QED
  BY <1>1, <1>2, <1>4, <1>5 DEF Base

LEMMA BaseInit == Init => Base
<1> SUFFICES ASSUME Init
             PROVE  Base
  OBVIOUS
<1>1. WorldOK(sys)
  BY NothingWorld DEF Init
<1>2. Stage /\ Room
  BY DEF Init, Stage, Room
<1>3. TypeOK
  <2>1. next \in 1..(Len(cmd.defs) + 1)
    <3>1. cmd.defs = <<>> /\ next = 1
      BY DEF Init, NoCommand
    <3> QED
      BY <3>1
  <2>2. IsWorld(sys)
    BY <1>1 DEF WorldOK
  <2> QED
    BY <2>1, <2>2, NoReservation DEF Init, TypeOK
<1> QED
  BY <1>1, <1>2, <1>3 DEF Base

LEMMA BaseNext == Base /\ [Next]_vars => Base'
<1> SUFFICES ASSUME Base, [Next]_vars
             PROVE  Base'
  OBVIOUS
<1>1. TypeOK /\ WorldOK(sys)
  BY DEF Base
<1>2. faults \in FaultTypes
  BY <1>1 DEF TypeOK, FaultTypes
<1>3. CASE Receive
  BY <1>3, ReceiveBase
<1>4. CASE ProcessDevice
  BY <1>4, ProcessBase
<1>5. CASE InsertReserve
  BY <1>5, InsertReserveBase
<1>6. CASE Validate
  BY <1>6, ValidateBase
<1>7. CASE Reply
  <2>1. /\ IsReservations(snapshot') /\ cmd' = NoCommand /\ pc' = "idle"
        /\ next' \in 1..(Len(cmd'.defs) + 1) /\ Stage' /\ Room'
    BY <1>7, IdleTypes DEF Reply
  <2>2. UNCHANGED <<sys, files, reserved_ids, running, faults>>
    BY <1>7 DEF Reply
  <2>3. TypeOK'
    BY <1>1, <1>2, <2>1, <2>2, TypesKept DEF TypeOK
  <2> QED
    BY <1>1, <2>1, <2>2, <2>3 DEF Base
<1>8. CASE DetachAll
  <2>1. /\ sys' = NothingAttached /\ Blame(sys', {}, {}, {}, {}) /\ pc = "idle"
        /\ UNCHANGED <<files, reserved_ids, cmd, pc, next, snapshot, running>>
    BY <1>8 DEF DetachAll
  <2>2. WorldOK(sys')
    BY <2>1, NothingWorld
  <2>3. faults' \in FaultTypes
    BY <1>1, <2>1, <2>2, BlameTypes
  <2>4. TypeOK'
    BY <1>1, <2>1, <2>2, <2>3, TypesKept DEF TypeOK
  <2>5. Stage' /\ Room'
    BY <2>1 DEF Base, Stage, Room
  <2> QED
    BY <2>2, <2>4, <2>5 DEF Base
<1>9. ASSUME NEW S \in SUBSET Ids, SetReservedIds(S)
      PROVE  Base'
  BY <1>1, <1>2, <1>9, QuietBase DEF SetReservedIds, TypeOK
<1>10. ASSUME NEW f \in Files, CreateImage(f) \/ DeleteImage(f)
       PROVE  Base'
  BY <1>1, <1>2, <1>10, QuietBase DEF CreateImage, DeleteImage, TypeOK
<1>11. ASSUME NEW f \in Files, NEW g \in Files, RenameImage(f, g)
       PROVE  Base'
  <2>1. faults' \in FaultTypes
    BY <1>1, <1>11, BlameTypes DEF RenameImage
  <2> QED
    BY <1>1, <1>11, <2>1, QuietBase DEF RenameImage, TypeOK
<1>12. ASSUME NEW d \in Attached(sys), ScsiEject(d)
       PROVE  Base'
  BY <1>12, ScsiEjectBase
<1>13. CASE Crash
  BY <1>1, <1>2, <1>13, QuietBase DEF Crash, TypeOK
<1>14. CASE UNCHANGED vars
  BY <1>1, <1>2, <1>14, QuietBase DEF vars, TypeOK
<1> QED
  BY <1>3, <1>4, <1>5, <1>6, <1>7, <1>8, <1>9, <1>10, <1>11, <1>12, <1>13, <1>14 DEF Next

LEMMA BaseHolds == Spec => []Base
BY BaseInit, BaseNext, PTL DEF Spec

(* The type invariant, for any devices, files and commands.                 *)
THEOREM TypeCorrect == Spec => []TypeOK
<1>1. Base => TypeOK
  BY DEF Base
<1> QED
  BY <1>1, BaseHolds, PTL

(* ControllerManager dispatches SCSI commands to the devices its            *)
(* controllers point to: none of them has been deleted, whatever Attach,    *)
(* Detach and the dry runs did to the factory, and each is at the ID and    *)
(* LUN it was attached to.                                                  *)
THEOREM DevicesLive == Spec => []AttachedAreLive
<1>1. Base => AttachedAreLive
  BY DEF Base, WorldOK, Living, AttachedAreLive
<1> QED
  BY <1>1, BaseHolds, PTL

-----------------------------------------------------------------------------
(* Reserved IDs                                                             *)

(* Only Attach, Detach and DETACH_ALL change the controllers.               *)
LEMMA ControllersKept ==
  ASSUME Base, [Next]_vars
  PROVE  \/ sys'.controllers = sys.controllers
         \/ AttachedOne \/ DetachedOne
         \/ sys' = NothingAttached /\ reserved_ids' = reserved_ids
<1>1. WorldOK(sys)
  BY DEF Base
<1>2. CASE ProcessDevice
  <2>1. CASE Refused \/ Accepted
    BY <2>1 DEF Refused, Accepted, Same
  <2>2. CASE EjectedOne
    <3>1. sys' = Eject(sys, Dev) /\ Ejects(sys, Dev) /\ HasDevice(sys, Def.id, Def.lun)
      BY <2>2 DEF EjectedOne, Accept
    <3> QED
      BY <1>1, <3>1, DevFacts, EjectWorld
  <2>3. CASE OpenedOne
    <3>1. /\ sys' = OpenFile(sys, Dev, Def.file) /\ HasDevice(sys, Def.id, Def.lun)
          /\ Def.file \in files
      BY <2>3 DEF OpenedOne
    <3>2. Def.file \in Files
      BY <3>1 DEF Base, TypeOK
    <3> QED
      BY <1>1, <3>1, <3>2, DevFacts, OpenWorld
  <2> QED
    BY <1>2, <2>1, <2>2, <2>3, ProcessKinds
<1>3. CASE InsertReserve
  <2>1. /\ sys' = ReserveFile(sys, Dev, Def.file) /\ HasDevice(sys, Def.id, Def.lun)
        /\ Def.file \in Files
    BY <1>3 DEF InsertReserve, Base, Stage
  <2> QED
    BY <1>1, <2>1, DevFacts, ReserveWorld
<1>4. CASE Validate
  <2>1. sys' = [sys EXCEPT !.reserved = snapshot]
    BY <1>4 DEF Validate
  <2>2. IsReservations(snapshot)
    BY DEF Base, TypeOK
  <2> QED
    BY <1>1, <2>1, <2>2, ReservedWorld
<1>5. ASSUME NEW d \in Attached(sys), ScsiEject(d)
      PROVE  sys'.controllers = sys.controllers
  <2>1. sys' = Eject(sys, d) /\ Ejects(sys, d)
    BY <1>5 DEF ScsiEject
  <2> QED
    BY <1>1, <2>1, AttachedAt, EjectWorld
<1>6. CASE DetachAll
  BY <1>6 DEF DetachAll
<1>7. CASE Receive \/ Reply \/ Crash \/ UNCHANGED vars
  BY <1>7 DEF Receive, Reply, Crash, vars
<1>8. ASSUME NEW S \in SUBSET Ids, SetReservedIds(S)
      PROVE  sys'.controllers = sys.controllers
  BY <1>8 DEF SetReservedIds
<1>9. ASSUME NEW f \in Files, CreateImage(f) \/ DeleteImage(f)
      PROVE  sys'.controllers = sys.controllers
  BY <1>9 DEF CreateImage, DeleteImage
<1>10. ASSUME NEW f \in Files, NEW g \in Files, RenameImage(f, g)
       PROVE  sys'.controllers = sys.controllers
  BY <1>10 DEF RenameImage
<1> QED
  BY <1>2, <1>3, <1>4, <1>5, <1>6, <1>7, <1>8, <1>9, <1>10 DEF Next

LEMMA IdsKept ==
  ASSUME [Next]_vars
  PROVE  reserved_ids' = reserved_ids \/ \E S \in SUBSET Ids : SetReservedIds(S)
<1>1. CASE Receive \/ ProcessDevice \/ InsertReserve \/ Validate
  BY <1>1 DEF Receive, ProcessDevice, InsertReserve, Validate
<1>2. CASE Reply \/ DetachAll \/ Crash \/ UNCHANGED vars
  BY <1>2 DEF Reply, DetachAll, Crash, vars
<1>3. CASE \E d \in Attached(sys) : ScsiEject(d)
  BY <1>3 DEF ScsiEject
<1>4. CASE \E f \in Files : CreateImage(f) \/ DeleteImage(f)
  BY <1>4 DEF CreateImage, DeleteImage
<1>5. CASE \E f, g \in Files : RenameImage(f, g)
  BY <1>5 DEF RenameImage
<1> QED
  BY <1>1, <1>2, <1>3, <1>4, <1>5 DEF Next

LEMMA ReservedIdsNext ==
  ASSUME Base, ReservedIdsUnused, [Next]_vars
  PROVE  ReservedIdsUnused'
<1>1. CASE \E S \in SUBSET Ids : SetReservedIds(S)
  BY <1>1 DEF SetReservedIds, ReservedIdsUnused
<1>2. CASE reserved_ids' = reserved_ids
  <2>1. CASE sys'.controllers = sys.controllers
    BY <1>2, <2>1 DEF ReservedIdsUnused
  <2>2. CASE AttachedOne
    <3>1. PICK d \in Handles : Added(sys', sys, d, Def)
      BY <2>2 DEF AttachedOne
    <3>2. /\ DOMAIN sys'.controllers = DOMAIN sys.controllers \cup {Def.id}
          /\ \A j \in DOMAIN sys.controllers \ {Def.id} :
               sys'.controllers[j] = sys.controllers[j]
      BY <3>1 DEF Added
    <3>3. Def.id \notin reserved_ids
      BY <2>2 DEF AttachedOne
    <3> QED
      BY <1>2, <3>2, <3>3 DEF ReservedIdsUnused
  <2>3. CASE DetachedOne
    <3> DEFINE w == DeleteDevice(RemoveDevice(UnreserveFile(sys, Dev), Dev), Dev)
    <3>1. WorldOK(sys) /\ Dev \in Attached(sys) /\ sys.heap[Dev].id = Def.id
      BY <2>3, DevFacts DEF DetachedOne, Base
    <3>2. /\ DOMAIN w.controllers = DOMAIN sys.controllers
          /\ sys.controllers[Def.id] # <<>>
          /\ \A j \in DOMAIN sys.controllers \ {Def.id} : w.controllers[j] = sys.controllers[j]
      BY <3>1, DetachWorld
    <3>3. sys' = w
      BY <2>3 DEF DetachedOne, Accept
    <3> HIDE DEF w
    <3> QED
      BY <1>2, <3>2, <3>3 DEF ReservedIdsUnused
  <2>4. CASE sys' = NothingAttached
    BY <2>4, NothingWorld DEF ReservedIdsUnused
  <2> QED
    BY <2>1, <2>2, <2>3, <2>4, ControllersKept
<1> QED
  BY <1>1, <1>2, IdsKept

(* RESERVE_IDS refuses an ID that has a controller, and Attach refuses a    *)
(* reserved ID: at no time has a reserved ID a device, whatever was         *)
(* attached, detached or reserved before.                                   *)
THEOREM ReservedIdsFree == Spec => []ReservedIdsUnused
<1>1. Init => ReservedIdsUnused
  BY DEF Init, ReservedIdsUnused
<1>2. Base /\ ReservedIdsUnused /\ [Next]_vars => ReservedIdsUnused'
  BY ReservedIdsNext
<1> QED
  BY <1>1, <1>2, BaseHolds, PTL DEF Spec

-----------------------------------------------------------------------------
(* Reserved files and images                                                *)

(* The devices of S that are open have their files in res, unless another   *)
(* device took the reservation away.                                        *)
Backed(w, res, robbed, S) ==
  \A d \in S : w.heap[d].open =>
    \/ w.heap[d].path \in robbed
    \/ w.heap[d].path \in DOMAIN res /\ res[w.heap[d].path] = Place(w.heap[d])

Needed(w, res, stale) ==
  \A f \in DOMAIN res :
    \/ f \in stale
    \/ \E d \in Attached(w) :
         w.heap[d].open /\ w.heap[d].path = f /\ Place(w.heap[d]) = res[f]

(* All attached devices but the one that is being given a medium.           *)
Settled == IF pc = "reserve" THEN Attached(sys) \ {Dev} ELSE Attached(sys)

Reservations ==
  /\ Backed(sys, Listed, faults.robbed, Settled)
  /\ Needed(sys, Listed, faults.stale)

Images == Reservations /\ OpenImageExists

LEMMA OpenFilesIff ==
  ASSUME NEW w, NEW f
  PROVE  f \in OpenFiles(w) <=> \E d \in Attached(w) : w.heap[d].open /\ w.heap[d].path = f
  BY DEF OpenFiles

LEMMA SameOpenFiles ==
  ASSUME NEW v, NEW w, Same(v, w)
  PROVE  OpenFiles(v) = OpenFiles(w)
<1>1. \A f : f \in OpenFiles(v) <=> f \in OpenFiles(w)
  BY OpenFilesIff DEF Same, Alike
<1> QED
  BY <1>1 DEF OpenFiles

LEMMA SameBacked ==
  ASSUME NEW v, NEW w, Same(v, w), NEW res, NEW R, NEW S, S \subseteq Attached(w),
         Backed(w, res, R, S), NEW R2, R \cap OpenFiles(v) \subseteq R2
  PROVE  Backed(v, res, R2, S)
<1> SUFFICES ASSUME NEW d \in S, v.heap[d].open, v.heap[d].path \notin R2
             PROVE  v.heap[d].path \in DOMAIN res /\ res[v.heap[d].path] = Place(v.heap[d])
  BY DEF Backed
<1>1. /\ w.heap[d].open /\ v.heap[d].path = w.heap[d].path
      /\ Place(v.heap[d]) = Place(w.heap[d]) /\ d \in Attached(v)
  BY DEF Same, Alike, Place
<1>2. v.heap[d].path \in OpenFiles(v)
  BY <1>1, OpenFilesIff
<1> QED
  BY <1>1, <1>2 DEF Backed

LEMMA SameNeeded ==
  ASSUME NEW v, NEW w, Same(v, w), NEW res, NEW St, Needed(w, res, St),
         NEW St2, St \cap DOMAIN res \subseteq St2
  PROVE  Needed(v, res, St2)
<1> SUFFICES ASSUME NEW f \in DOMAIN res, f \notin St2
             PROVE  \E d \in Attached(v) :
                      v.heap[d].open /\ v.heap[d].path = f /\ Place(v.heap[d]) = res[f]
  BY DEF Needed
<1>1. PICK d \in Attached(w) : w.heap[d].open /\ w.heap[d].path = f /\ Place(w.heap[d]) = res[f]
  BY DEF Needed
<1>2. d \in Attached(v) /\ Alike(v.heap[d], w.heap[d])
  BY DEF Same
<1> QED
  BY <1>1, <1>2 DEF Alike, Place

LEMMA BlameFields ==
  ASSUME NEW w, NEW R, NEW S, NEW N, NEW I, Blame(w, R, S, N, I)
  PROVE  /\ faults'.robbed = (faults.robbed \cup R) \cap OpenFiles(w)
         /\ faults'.stale = (faults.stale \cup S) \cap (DOMAIN w.reserved \cup DOMAIN snapshot)
         /\ faults'.renamed = (faults.renamed \cup N) \cap OpenFiles(w)
         /\ faults'.incomplete = {i \in faults.incomplete \cup I : HasNoLunZero(w, i)}
  BY DEF Blame

(* Steps after which the attached devices are as before.                    *)
LEMMA SameImages ==
  ASSUME Base, Images, Same(sys', sys), pc # "reserve", pc' # "reserve", Listed' = Listed,
         OpenFiles(sys) \cap files \subseteq files' \cup faults'.renamed \cup faults'.robbed,
         faults.robbed \cap OpenFiles(sys') \subseteq faults'.robbed,
         faults.renamed \cap OpenFiles(sys') \subseteq faults'.renamed,
         faults.stale \cap DOMAIN Listed \subseteq faults'.stale
  PROVE  Images'
<1>1. /\ Backed(sys, Listed, faults.robbed, Attached(sys))
      /\ Needed(sys, Listed, faults.stale)
      /\ OpenFiles(sys) \subseteq files \cup faults.renamed \cup faults.robbed
  BY DEF Images, Reservations, Settled, OpenImageExists
<1>2. Attached(sys') = Attached(sys) /\ OpenFiles(sys') = OpenFiles(sys)
  BY SameOpenFiles DEF Same
<1>3. Backed(sys', Listed, faults'.robbed, Attached(sys))
  BY <1>1, SameBacked
<1>4. Needed(sys', Listed, faults'.stale)
  BY <1>1, SameNeeded
<1>5. Settled' = Attached(sys)
  BY <1>2 DEF Settled
<1>6. Reservations'
  BY <1>3, <1>4, <1>5 DEF Reservations
<1>7. OpenImageExists'
  BY <1>1, <1>2 DEF OpenImageExists
<1> QED
  BY <1>6, <1>7 DEF Images

(* A device leaves, or its medium: it unreserves its file, which may be     *)
(* another device's.                                                        *)
LEMMA LeaveBacked ==
  ASSUME NEW w, WorldOK(w), NEW d \in Attached(w), NEW v, NEW T, NEW S, T \subseteq S,
         S \subseteq Attached(w), T \subseteq Attached(v),
         \A h \in T : v.heap[h].open => h # d /\ v.heap[h] = w.heap[h],
         DOMAIN v.reserved = DOMAIN w.reserved \ {w.heap[d].path},
         \A g \in DOMAIN v.reserved : v.reserved[g] = w.reserved[g],
         NEW R, Backed(w, w.reserved, R, S),
         NEW R2, (R \cup Robs(w, d)) \cap OpenFiles(v) \subseteq R2
  PROVE  Backed(v, v.reserved, R2, T)
<1> SUFFICES ASSUME NEW h \in T, v.heap[h].open, v.heap[h].path \notin R2
             PROVE  /\ v.heap[h].path \in DOMAIN v.reserved
                    /\ v.reserved[v.heap[h].path] = Place(v.heap[h])
  BY DEF Backed
<1>1. h # d /\ v.heap[h] = w.heap[h] /\ h \in Attached(w) /\ h \in S
  OBVIOUS
<1>2. v.heap[h].path \in OpenFiles(v)
  BY OpenFilesIff
<1>3. w.heap[h].path \notin R /\ w.heap[h].path \notin Robs(w, d)
  BY <1>1, <1>2
<1>4. w.heap[h].path \in DOMAIN w.reserved /\ w.reserved[w.heap[h].path] = Place(w.heap[h])
  BY <1>1, <1>3 DEF Backed
<1>5. Place(w.heap[h]) # Place(w.heap[d])
  BY <1>1, PlaceUnique
<1>6. w.heap[h].path # w.heap[d].path
  BY <1>3, <1>4, <1>5 DEF Robs
<1> QED
  BY <1>1, <1>4, <1>6

LEMMA LeaveNeeded ==
  ASSUME NEW w, NEW d, NEW v,
         \A h \in Attached(w) \ {d} : h \in Attached(v) /\ v.heap[h] = w.heap[h],
         DOMAIN v.reserved = DOMAIN w.reserved \ {w.heap[d].path},
         \A g \in DOMAIN v.reserved : v.reserved[g] = w.reserved[g],
         NEW St, Needed(w, w.reserved, St),
         NEW St2, St \cap DOMAIN v.reserved \subseteq St2
  PROVE  Needed(v, v.reserved, St2)
<1> SUFFICES ASSUME NEW f \in DOMAIN v.reserved, f \notin St2
             PROVE  \E h \in Attached(v) : /\ v.heap[h].open /\ v.heap[h].path = f
                                           /\ Place(v.heap[h]) = v.reserved[f]
  BY DEF Needed
<1>1. PICK h \in Attached(w) : /\ w.heap[h].open /\ w.heap[h].path = f
                               /\ Place(w.heap[h]) = w.reserved[f]
  BY DEF Needed
<1>2. h # d
  BY <1>1
<1> QED
  BY <1>1, <1>2

LEMMA ImagesInWords ==
  ASSUME Images, pc # "reserve"
  PROVE  /\ Backed(sys, Listed, faults.robbed, Attached(sys))
         /\ Needed(sys, Listed, faults.stale)
         /\ OpenFiles(sys) \subseteq files \cup faults.renamed \cup faults.robbed
  BY DEF Images, Reservations, Settled, OpenImageExists

LEMMA RefusedImages ==
  ASSUME Base, Images, Refused
  PROVE  Images'
<1>1. /\ Same(sys', sys) /\ sys'.reserved = Listed /\ pc # "reserve" /\ pc' = "idle"
      /\ files' = files /\ (pc # "dry" => Listed = sys.reserved)
  BY DEF Refused, AtWork, Idle, Listed
<1>2. Listed' = Listed
  BY <1>1 DEF Listed
<1>3. /\ faults'.robbed = (faults.robbed \cup {}) \cap OpenFiles(sys')
      /\ faults'.stale = (faults.stale \cup {}) \cap (DOMAIN sys'.reserved \cup DOMAIN snapshot)
      /\ faults'.renamed = (faults.renamed \cup {}) \cap OpenFiles(sys')
  BY BlameFields DEF Refused
<1> QED
  BY <1>1, <1>2, <1>3, SameImages

LEMMA AcceptedImages ==
  ASSUME Base, Images, Accepted
  PROVE  Images'
<1>1. /\ Same(sys', sys) /\ pc \in {"dry", "execute"} /\ files' = files
      /\ pc = "dry" \/ sys'.reserved = sys.reserved
      /\ Accept(sys', {})
  BY DEF Accepted, AtWork, dryRun
<1>2. pc' = pc /\ snapshot' = snapshot /\ Blame(sys', {}, {}, {}, {})
  BY <1>1 DEF Accept, dryRun
<1>3. Listed' = Listed /\ DOMAIN Listed \subseteq DOMAIN sys'.reserved \cup DOMAIN snapshot
  BY <1>1, <1>2 DEF Listed
<1>4. /\ faults'.robbed = (faults.robbed \cup {}) \cap OpenFiles(sys')
      /\ faults'.stale = (faults.stale \cup {}) \cap (DOMAIN sys'.reserved \cup DOMAIN snapshot)
      /\ faults'.renamed = (faults.renamed \cup {}) \cap OpenFiles(sys')
  BY <1>2, BlameFields
<1> QED
  BY <1>1, <1>2, <1>3, <1>4, SameImages

LEMMA AttachedImages ==
  ASSUME Base, Images, AttachedOne
  PROVE  Images'
<1>1. /\ pc = "execute" /\ pc' = "execute" /\ files' = files
      /\ Blame(sys', {}, {}, {}, {})
  BY DEF AttachedOne, AtWork, Accept, dryRun
<1>2. PICK d \in Handles : Added(sys', sys, d, Def)
  BY DEF AttachedOne
<1> DEFINE v == sys'
           f == Def.file
<1>3. /\ Attached(v) = Attached(sys) \cup {d} /\ d \notin DOMAIN sys.heap
      /\ \A h \in DOMAIN sys.heap : v.heap[h] = sys.heap[h]
      /\ v.heap[d].id = Def.id /\ v.heap[d].lun = Def.lun
  BY <1>2 DEF Added
<1>4. \/ ~v.heap[d].open /\ v.reserved = sys.reserved
      \/ /\ f \in files \ DOMAIN sys.reserved
         /\ v.heap[d].open /\ v.heap[d].path = f
         /\ DOMAIN v.reserved = DOMAIN sys.reserved \cup {f}
         /\ v.reserved[f] = Place(Def)
         /\ \A g \in DOMAIN sys.reserved \ {f} : v.reserved[g] = sys.reserved[g]
  BY <1>2 DEF Added
<1>5. /\ faults'.robbed = (faults.robbed \cup {}) \cap OpenFiles(v)
      /\ faults'.stale = (faults.stale \cup {}) \cap (DOMAIN v.reserved \cup DOMAIN snapshot)
      /\ faults'.renamed = (faults.renamed \cup {}) \cap OpenFiles(v)
  BY <1>1, BlameFields
<1>6. Place(v.heap[d]) = Place(Def)
  BY <1>3 DEF Place
<1>7. /\ Backed(sys, sys.reserved, faults.robbed, Attached(sys))
      /\ Needed(sys, sys.reserved, faults.stale)
      /\ OpenFiles(sys) \subseteq files \cup faults.renamed \cup faults.robbed
  BY <1>1, ImagesInWords DEF Listed
<1>8. WorldOK(sys)
  BY DEF Base
<1>9. \A h \in Attached(sys) : h \in Attached(v) /\ h # d /\ v.heap[h] = sys.heap[h]
  BY <1>3, <1>8, AttachedAt
<1>10. \A h \in Attached(v) : v.heap[h].open => v.heap[h].path \in OpenFiles(v)
  BY OpenFilesIff
<1> HIDE DEF v, f
<1>11. /\ DOMAIN sys.reserved \subseteq DOMAIN v.reserved
       /\ \A g \in DOMAIN sys.reserved : v.reserved[g] = sys.reserved[g]
       /\ v.heap[d].open =>
            /\ v.heap[d].path = f /\ f \in files
            /\ f \in DOMAIN v.reserved /\ v.reserved[f] = Place(Def)
       /\ \A g \in DOMAIN v.reserved \ DOMAIN sys.reserved :
            g = f /\ v.heap[d].open /\ v.heap[d].path = f
  BY <1>4
<1>12. Backed(v, v.reserved, faults'.robbed, Attached(v))
  <2> SUFFICES ASSUME NEW h \in Attached(v), v.heap[h].open, v.heap[h].path \notin faults'.robbed
               PROVE  /\ v.heap[h].path \in DOMAIN v.reserved
                      /\ v.reserved[v.heap[h].path] = Place(v.heap[h])
    BY DEF Backed
  <2>1. CASE h = d
    BY <1>6, <1>11, <2>1
  <2>2. CASE h \in Attached(sys)
    <3>1. v.heap[h] = sys.heap[h] /\ v.heap[h].path \notin faults.robbed
      BY <1>5, <1>9, <1>10, <2>2
    <3>2. /\ sys.heap[h].path \in DOMAIN sys.reserved
          /\ sys.reserved[sys.heap[h].path] = Place(sys.heap[h])
      BY <1>7, <2>2, <3>1 DEF Backed
    <3> QED
      BY <1>11, <3>1, <3>2
  <2> QED
    BY <1>3, <2>1, <2>2 DEF v
<1>13. Needed(v, v.reserved, faults'.stale)
  <2> SUFFICES ASSUME NEW g \in DOMAIN v.reserved, g \notin faults'.stale
               PROVE  \E h \in Attached(v) : /\ v.heap[h].open /\ v.heap[h].path = g
                                             /\ Place(v.heap[h]) = v.reserved[g]
    BY DEF Needed
  <2>1. CASE g \in DOMAIN sys.reserved
    <3>1. g \notin faults.stale
      BY <1>5
    <3>2. PICK h \in Attached(sys) : /\ sys.heap[h].open /\ sys.heap[h].path = g
                                     /\ Place(sys.heap[h]) = sys.reserved[g]
      BY <1>7, <2>1, <3>1 DEF Needed
    <3> QED
      BY <1>9, <1>11, <2>1, <3>2
  <2>2. CASE g \notin DOMAIN sys.reserved
    <3>1. d \in Attached(v)
      BY <1>3 DEF v
    <3> QED
      BY <1>6, <1>11, <2>2, <3>1
  <2> QED
    BY <2>1, <2>2
<1>14. OpenFiles(v) \subseteq files \cup faults'.renamed \cup faults'.robbed
  <2> SUFFICES ASSUME NEW g \in OpenFiles(v)
               PROVE  g \in files \cup faults'.renamed \cup faults'.robbed
    OBVIOUS
  <2>1. PICK h \in Attached(v) : v.heap[h].open /\ v.heap[h].path = g
    BY OpenFilesIff
  <2>2. CASE h = d
    BY <1>11, <2>1, <2>2
  <2>3. CASE h \in Attached(sys)
    <3>1. g \in OpenFiles(sys)
      BY <1>9, <2>1, <2>3, OpenFilesIff
    <3> QED
      BY <1>5, <1>7, <3>1
  <2> QED
    BY <1>3, <2>1, <2>2, <2>3 DEF v
<1> QED
  BY <1>1, <1>12, <1>13, <1>14 DEF Images, Reservations, OpenImageExists, Settled, Listed, v

LEMMA DetachedImages ==
  ASSUME Base, Images, DetachedOne
  PROVE  Images'
<1> DEFINE w == DeleteDevice(RemoveDevice(UnreserveFile(sys, Dev), Dev), Dev)
           d == Dev
<1>1. /\ pc = "execute" /\ pc' = "execute" /\ files' = files /\ sys' = w
      /\ Blame(w, Robs(sys, d), {}, {}, {})
  BY DEF DetachedOne, AtWork, Accept, dryRun
<1>2. WorldOK(sys) /\ d \in Attached(sys)
  BY DevFacts DEF DetachedOne, Base
<1>3. /\ Attached(w) = Attached(sys) \ {d}
      /\ \A h \in Attached(w) : w.heap[h] = sys.heap[h]
      /\ DOMAIN w.reserved = DOMAIN sys.reserved \ {sys.heap[d].path}
      /\ \A g \in DOMAIN w.reserved : w.reserved[g] = sys.reserved[g]
  BY <1>2, DetachWorld
<1> HIDE DEF w, d
<1>4. /\ Backed(sys, sys.reserved, faults.robbed, Attached(sys))
      /\ Needed(sys, sys.reserved, faults.stale)
      /\ OpenFiles(sys) \subseteq files \cup faults.renamed \cup faults.robbed
  BY <1>1, ImagesInWords DEF Listed
<1>5. /\ faults'.robbed = (faults.robbed \cup Robs(sys, d)) \cap OpenFiles(w)
      /\ faults'.stale = (faults.stale \cup {}) \cap (DOMAIN w.reserved \cup DOMAIN snapshot)
      /\ faults'.renamed = (faults.renamed \cup {}) \cap OpenFiles(w)
  BY <1>1, BlameFields
<1>6. Backed(w, w.reserved, faults'.robbed, Attached(w))
  <2>1. /\ Attached(w) \subseteq Attached(sys)
        /\ \A h \in Attached(w) : w.heap[h].open => h # d /\ w.heap[h] = sys.heap[h]
        /\ (faults.robbed \cup Robs(sys, d)) \cap OpenFiles(w) \subseteq faults'.robbed
    BY <1>3, <1>5
  <2> QED
    BY <1>2, <1>3, <1>4, <2>1, LeaveBacked
<1>7. Needed(w, w.reserved, faults'.stale)
  <2>1. /\ \A h \in Attached(sys) \ {d} : h \in Attached(w) /\ w.heap[h] = sys.heap[h]
        /\ faults.stale \cap DOMAIN w.reserved \subseteq faults'.stale
    BY <1>3, <1>5
  <2> QED
    BY <1>3, <1>4, <2>1, LeaveNeeded
<1>8. OpenFiles(w) \subseteq files \cup faults'.renamed \cup faults'.robbed
  <2>1. OpenFiles(w) \subseteq OpenFiles(sys)
    BY <1>3, OpenFilesIff
  <2> QED
    BY <1>4, <1>5, <2>1
<1> QED
  BY <1>1, <1>6, <1>7, <1>8 DEF Images, Reservations, OpenImageExists, Settled, Listed

(* What the ejection of a medium does, whoever asked for it.                *)
LEMMA EjectFacts ==
  ASSUME Base, NEW d \in Attached(sys), Ejects(sys, d), NEW w, w = Eject(sys, d)
  PROVE  /\ Attached(w) = Attached(sys) /\ w.controllers = sys.controllers
         /\ \A h \in Attached(sys) \ {d} : w.heap[h] = sys.heap[h]
         /\ ~w.heap[d].open
         /\ DOMAIN w.reserved = DOMAIN sys.reserved \ {sys.heap[d].path}
         /\ \A g \in DOMAIN w.reserved : w.reserved[g] = sys.reserved[g]
         /\ OpenFiles(w) \subseteq OpenFiles(sys)
<1>1. WorldOK(sys)
  BY DEF Base
<1>2. \A h \in Attached(sys) : h \in DOMAIN sys.heap
  BY <1>1, AttachedAt
<1>3. /\ Attached(w) = Attached(sys) /\ w.controllers = sys.controllers
      /\ DOMAIN w.reserved = DOMAIN sys.reserved \ {sys.heap[d].path}
      /\ \A g \in DOMAIN w.reserved : w.reserved[g] = sys.reserved[g]
      /\ \A h \in DOMAIN sys.heap \ {d} : w.heap[h] = sys.heap[h]
      /\ ~w.heap[d].open
  BY <1>1, <1>2, EjectWorld
<1>4. \A h \in Attached(sys) \ {d} : w.heap[h] = sys.heap[h]
  BY <1>2, <1>3
<1>5. \A f : f \in OpenFiles(w) => f \in OpenFiles(sys)
  BY <1>3, <1>4, OpenFilesIff
<1> QED
  BY <1>3, <1>4, <1>5

LEMMA EjectedImages ==
  ASSUME Base, Images, EjectedOne
  PROVE  Images'
<1> DEFINE w == Eject(sys, Dev)
           d == Dev
<1>1. /\ pc = "execute" /\ pc' = "execute" /\ files' = files /\ sys' = w
      /\ Blame(w, Robs(sys, d), {}, {}, {}) /\ Ejects(sys, d)
  BY DEF EjectedOne, AtWork, Accept, dryRun
<1>2. WorldOK(sys) /\ d \in Attached(sys)
  BY DevFacts DEF EjectedOne, Base
<1>3. /\ Attached(w) = Attached(sys)
      /\ \A h \in Attached(sys) \ {d} : w.heap[h] = sys.heap[h]
      /\ ~w.heap[d].open
      /\ DOMAIN w.reserved = DOMAIN sys.reserved \ {sys.heap[d].path}
      /\ \A g \in DOMAIN w.reserved : w.reserved[g] = sys.reserved[g]
      /\ OpenFiles(w) \subseteq OpenFiles(sys)
  BY <1>1, <1>2, EjectFacts
<1> HIDE DEF w, d
<1>4. /\ Backed(sys, sys.reserved, faults.robbed, Attached(sys))
      /\ Needed(sys, sys.reserved, faults.stale)
      /\ OpenFiles(sys) \subseteq files \cup faults.renamed \cup faults.robbed
  BY <1>1, ImagesInWords DEF Listed
<1>5. /\ faults'.robbed = (faults.robbed \cup Robs(sys, d)) \cap OpenFiles(w)
      /\ faults'.stale = (faults.stale \cup {}) \cap (DOMAIN w.reserved \cup DOMAIN snapshot)
      /\ faults'.renamed = (faults.renamed \cup {}) \cap OpenFiles(w)
  BY <1>1, BlameFields
<1>6. Backed(w, w.reserved, faults'.robbed, Attached(w))
  <2>1. /\ Attached(w) \subseteq Attached(sys)
        /\ \A h \in Attached(w) : w.heap[h].open => h # d /\ w.heap[h] = sys.heap[h]
        /\ (faults.robbed \cup Robs(sys, d)) \cap OpenFiles(w) \subseteq faults'.robbed
    BY <1>3, <1>5
  <2> QED
    BY <1>2, <1>3, <1>4, <2>1, LeaveBacked
<1>7. Needed(w, w.reserved, faults'.stale)
  <2>1. /\ \A h \in Attached(sys) \ {d} : h \in Attached(w) /\ w.heap[h] = sys.heap[h]
        /\ faults.stale \cap DOMAIN w.reserved \subseteq faults'.stale
    BY <1>3, <1>5
  <2> QED
    BY ZenonT(60), <1>3, <1>4, <2>1, LeaveNeeded
<1>8. OpenFiles(w) \subseteq files \cup faults'.renamed \cup faults'.robbed
  BY <1>3, <1>4, <1>5
<1> QED
  BY <1>1, <1>6, <1>7, <1>8 DEF Images, Reservations, OpenImageExists, Settled, Listed

LEMMA ScsiEjectImages ==
  ASSUME Base, Images, NEW d \in Attached(sys), ScsiEject(d)
  PROVE  Images'
<1> DEFINE w == Eject(sys, d)
           stale == IF dryRun THEN {sys.heap[d].path} \cap DOMAIN snapshot ELSE {}
           T == IF pc = "reserve" THEN Attached(sys) \ {Dev} ELSE Attached(sys)
<1>1. /\ Ejects(sys, d) /\ sys' = w
      /\ UNCHANGED <<files, reserved_ids, cmd, pc, next, snapshot, running>>
      /\ faults' = [faults EXCEPT !.robbed = (@ \cup Robs(sys, d)) \cap OpenFiles(w),
                                  !.stale = @ \cup stale]
  BY DEF ScsiEject
<1>2. WorldOK(sys) /\ TypeOK
  BY DEF Base
<1>3. /\ Attached(w) = Attached(sys) /\ w.controllers = sys.controllers
      /\ \A h \in Attached(sys) \ {d} : w.heap[h] = sys.heap[h]
      /\ ~w.heap[d].open
      /\ DOMAIN w.reserved = DOMAIN sys.reserved \ {sys.heap[d].path}
      /\ \A g \in DOMAIN w.reserved : w.reserved[g] = sys.reserved[g]
      /\ OpenFiles(w) \subseteq OpenFiles(sys)
  BY <1>1, EjectFacts
<1>4. (pc = "dry" => stale = {sys.heap[d].path} \cap DOMAIN snapshot)
  BY DEF dryRun
<1> HIDE DEF w, stale
<1>5. /\ faults'.robbed = (faults.robbed \cup Robs(sys, d)) \cap OpenFiles(w)
      /\ faults'.stale = faults.stale \cup stale
      /\ faults'.renamed = faults.renamed
  BY <1>1, <1>2 DEF TypeOK
<1>6. Settled = T /\ Settled' = T
  BY <1>1, <1>3 DEF Settled, Dev, Def
<1>7. T \subseteq Attached(sys)
  OBVIOUS
<1> HIDE DEF T
<1>8. /\ Backed(sys, Listed, faults.robbed, T)
      /\ Needed(sys, Listed, faults.stale)
      /\ OpenFiles(sys) \subseteq files \cup faults.renamed \cup faults.robbed
  BY <1>6 DEF Images, Reservations, OpenImageExists
<1>9. \A h \in T : w.heap[h].open => h # d /\ w.heap[h] = sys.heap[h]
  BY <1>3, <1>7
<1>10. Reservations'
  <2>1. CASE pc = "dry"
    <3>1. Listed = snapshot /\ Listed' = snapshot
      BY <1>1, <2>1 DEF Listed
    <3>2. Backed(w, snapshot, faults'.robbed, T)
      <4> SUFFICES ASSUME NEW h \in T, w.heap[h].open, w.heap[h].path \notin faults'.robbed
                   PROVE  /\ w.heap[h].path \in DOMAIN snapshot
                          /\ snapshot[w.heap[h].path] = Place(w.heap[h])
        BY DEF Backed
      <4>1. w.heap[h] = sys.heap[h] /\ w.heap[h].path \in OpenFiles(w)
        BY <1>3, <1>7, <1>9, OpenFilesIff
      <4>2. sys.heap[h].path \notin faults.robbed
        BY <1>5, <4>1
      <4> QED
        BY <1>8, <3>1, <4>1, <4>2 DEF Backed
    <3>3. Needed(w, snapshot, faults'.stale)
      <4> SUFFICES ASSUME NEW f \in DOMAIN snapshot, f \notin faults'.stale
                   PROVE  \E h \in Attached(w) : /\ w.heap[h].open /\ w.heap[h].path = f
                                                 /\ Place(w.heap[h]) = snapshot[f]
        BY DEF Needed
      <4>1. f \notin faults.stale /\ f # sys.heap[d].path
        BY <1>4, <1>5, <2>1
      <4>2. PICK h \in Attached(sys) : /\ sys.heap[h].open /\ sys.heap[h].path = f
                                       /\ Place(sys.heap[h]) = snapshot[f]
        BY <1>8, <3>1, <4>1 DEF Needed
      <4>3. h # d
        BY <4>1, <4>2
      <4> QED
        BY <1>3, <4>2, <4>3
    <3> QED
      BY <1>1, <1>6, <3>1, <3>2, <3>3 DEF Reservations
  <2>2. CASE pc # "dry"
    <3>1. Listed = sys.reserved /\ Listed' = w.reserved
      BY <1>1, <2>2 DEF Listed
    <3>2. (faults.robbed \cup Robs(sys, d)) \cap OpenFiles(w) \subseteq faults'.robbed
      BY <1>5
    <3>3. Backed(w, w.reserved, faults'.robbed, T)
      BY <1>2, <1>3, <1>7, <1>8, <1>9, <3>1, <3>2, LeaveBacked
    <3>4. /\ \A h \in Attached(sys) \ {d} : h \in Attached(w) /\ w.heap[h] = sys.heap[h]
          /\ faults.stale \cap DOMAIN w.reserved \subseteq faults'.stale
      BY <1>3, <1>5
    <3>5. Needed(w, w.reserved, faults'.stale)
      BY <1>3, <1>8, <3>1, <3>4, LeaveNeeded
    <3> QED
      BY <1>1, <1>6, <3>1, <3>3, <3>5 DEF Reservations
  <2> QED
    BY <2>1, <2>2
<1>11. OpenFiles(w) \subseteq files \cup faults'.renamed \cup faults'.robbed
  BY <1>3, <1>5, <1>8
<1> QED
  BY <1>1, <1>10, <1>11 DEF Images, OpenImageExists

LEMMA OpenedImages ==
  ASSUME Base, Images, OpenedOne
  PROVE  Images'
<1> DEFINE v == sys'
           d == Dev
           f == Def.file
<1>1. /\ pc = "execute" /\ pc' = "reserve" /\ files' = files /\ faults' = faults
      /\ cmd' = cmd /\ next' = next
      /\ HasDevice(sys, Def.id, Def.lun) /\ sys.heap[d].removed /\ f \in files
      /\ v = OpenFile(sys, d, f)
  BY DEF OpenedOne, AtWork, dryRun
<1>2. WorldOK(sys) /\ d \in Attached(sys) /\ d \in DOMAIN sys.heap
  BY <1>1, DevFacts DEF Base
<1>3. f \in Files
  BY <1>1 DEF Base, TypeOK
<1>4. ~sys.heap[d].open
  BY <1>1, <1>2 DEF WorldOK, Closed
<1>5. /\ Attached(v) = Attached(sys) /\ v.controllers = sys.controllers
      /\ v.reserved = sys.reserved
      /\ \A h \in DOMAIN sys.heap \ {d} : v.heap[h] = sys.heap[h]
      /\ v.heap[d].path = f
  BY <1>1, <1>2, <1>3, OpenWorld
<1>6. Dev' = d
  BY <1>1, <1>5 DEF Dev, Def
<1> HIDE DEF d, f, v
<1>7. \A h \in Attached(sys) \ {d} : v.heap[h] = sys.heap[h]
  BY <1>2, <1>5, AttachedAt
<1>8. /\ Backed(sys, sys.reserved, faults.robbed, Attached(sys))
      /\ Needed(sys, sys.reserved, faults.stale)
      /\ OpenFiles(sys) \subseteq files \cup faults.renamed \cup faults.robbed
  BY <1>1, ImagesInWords DEF Listed
<1>9. Backed(v, v.reserved, faults.robbed, Attached(sys) \ {d})
  BY <1>5, <1>7, <1>8 DEF Backed
<1>10. Needed(v, v.reserved, faults.stale)
  <2> SUFFICES ASSUME NEW g \in DOMAIN sys.reserved, g \notin faults.stale
               PROVE  \E h \in Attached(v) : /\ v.heap[h].open /\ v.heap[h].path = g
                                             /\ Place(v.heap[h]) = sys.reserved[g]
    BY <1>5 DEF Needed
  <2>1. PICK h \in Attached(sys) : /\ sys.heap[h].open /\ sys.heap[h].path = g
                                   /\ Place(sys.heap[h]) = sys.reserved[g]
    BY <1>8 DEF Needed
  <2>2. h # d
    BY <1>4, <2>1
  <2> QED
    BY <1>5, <1>7, <2>1, <2>2
<1>11. OpenFiles(v) \subseteq files \cup faults.renamed \cup faults.robbed
  <2> SUFFICES ASSUME NEW g \in OpenFiles(v)
               PROVE  g \in files \cup faults.renamed \cup faults.robbed
    OBVIOUS
  <2>1. PICK h \in Attached(sys) : v.heap[h].open /\ v.heap[h].path = g
    BY <1>5, OpenFilesIff
  <2>2. CASE h = d
    BY <1>1, <1>5, <2>1, <2>2 DEF f
  <2>3. CASE h # d
    <3>1. g \in OpenFiles(sys)
      BY <1>7, <2>1, <2>3, OpenFilesIff
    <3> QED
      BY <1>8, <3>1
  <2> QED
    BY <2>2, <2>3
<1>12. Settled' = Attached(sys) \ {d} /\ Listed' = v.reserved
  BY <1>1, <1>5, <1>6 DEF Settled, Listed, v
<1>13. Reservations'
  BY <1>1, <1>9, <1>10, <1>12 DEF Reservations, v
<1>14. OpenImageExists'
  BY <1>1, <1>11 DEF OpenImageExists, v
<1> QED
  BY <1>13, <1>14 DEF Images

LEMMA InsertReserveImages ==
  ASSUME Base, Images, InsertReserve
  PROVE  Images'
<1> DEFINE v == sys'
           d == Dev
           f == Def.file
           stale == IF sys.heap[d].open THEN {} ELSE {f}
<1>1. /\ pc = "reserve" /\ pc' = "execute" /\ files' = files
      /\ v = ReserveFile(sys, d, f) /\ Blame(v, {}, stale, {}, {})
  BY DEF InsertReserve
<1>2. /\ WorldOK(sys) /\ HasDevice(sys, Def.id, Def.lun)
      /\ f \in Files \ DOMAIN sys.reserved /\ sys.heap[d].path = f
  BY <1>1 DEF Base, Stage
<1>3. d \in Attached(sys) /\ d \in DOMAIN sys.heap
  BY <1>2, DevFacts
<1>4. /\ Attached(v) = Attached(sys) /\ v.heap = sys.heap
      /\ DOMAIN v.reserved = DOMAIN sys.reserved \cup {f}
      /\ v.reserved[f] = Place(sys.heap[d])
      /\ \A g \in DOMAIN sys.reserved \ {f} : v.reserved[g] = sys.reserved[g]
  BY <1>1, <1>2, <1>3, ReserveWorld
<1>5. /\ Backed(sys, sys.reserved, faults.robbed, Attached(sys) \ {d})
      /\ Needed(sys, sys.reserved, faults.stale)
      /\ OpenFiles(sys) \subseteq files \cup faults.renamed \cup faults.robbed
  BY <1>1 DEF Images, Reservations, OpenImageExists, Settled, Listed
<1>6. /\ faults'.robbed = (faults.robbed \cup {}) \cap OpenFiles(v)
      /\ faults'.stale = (faults.stale \cup stale) \cap (DOMAIN v.reserved \cup DOMAIN snapshot)
      /\ faults'.renamed = (faults.renamed \cup {}) \cap OpenFiles(v)
  BY <1>1, BlameFields
<1>7. ~sys.heap[d].open => f \in stale
  OBVIOUS
<1> HIDE DEF v, d, f, stale
<1>8. OpenFiles(v) = OpenFiles(sys)
  BY <1>4 DEF OpenFiles
<1>9. Backed(v, v.reserved, faults'.robbed, Attached(v))
  <2> SUFFICES ASSUME NEW h \in Attached(sys), sys.heap[h].open,
                      sys.heap[h].path \notin faults'.robbed
               PROVE  /\ sys.heap[h].path \in DOMAIN v.reserved
                      /\ v.reserved[sys.heap[h].path] = Place(sys.heap[h])
    BY <1>4 DEF Backed
  <2>1. CASE h = d
    BY <1>2, <1>4, <2>1
  <2>2. CASE h # d
    <3>1. sys.heap[h].path \notin faults.robbed
      BY <1>6, <1>8, OpenFilesIff
    <3>2. /\ sys.heap[h].path \in DOMAIN sys.reserved
          /\ sys.reserved[sys.heap[h].path] = Place(sys.heap[h])
      BY <1>5, <2>2, <3>1 DEF Backed
    <3> QED
      BY <1>2, <1>4, <3>2
  <2> QED
    BY <2>1, <2>2
<1>10. Needed(v, v.reserved, faults'.stale)
  <2> SUFFICES ASSUME NEW g \in DOMAIN v.reserved, g \notin faults'.stale
               PROVE  \E h \in Attached(sys) : /\ sys.heap[h].open /\ sys.heap[h].path = g
                                               /\ Place(sys.heap[h]) = v.reserved[g]
    BY <1>4 DEF Needed
  <2>1. g \notin faults.stale /\ g \notin stale
    BY <1>6
  <2>2. CASE g = f
    BY <1>2, <1>3, <1>4, <1>7, <2>1, <2>2
  <2>3. CASE g # f
    BY <1>4, <1>5, <2>1, <2>3 DEF Needed
  <2> QED
    BY <2>2, <2>3
<1>11. OpenFiles(v) \subseteq files \cup faults'.renamed \cup faults'.robbed
  BY <1>5, <1>6, <1>8
<1>12. Settled' = Attached(v) /\ Listed' = v.reserved
  BY <1>1 DEF Settled, Listed, v
<1>13. Reservations'
  BY <1>9, <1>10, <1>12 DEF Reservations, v
<1>14. OpenImageExists'
  BY <1>1, <1>11 DEF OpenImageExists, v
<1> QED
  BY <1>13, <1>14 DEF Images

LEMMA ValidateImages ==
  ASSUME Base, Images, Validate
  PROVE  Images'
<1> DEFINE w == [sys EXCEPT !.reserved = snapshot]
<1>1. /\ pc = "dry" /\ pc' \in {"execute", "idle"} /\ sys' = w /\ files' = files
      /\ Blame(w, {}, {}, {}, {})
  BY DEF Validate, Idle
<1>2. WorldOK(sys) /\ IsReservations(snapshot)
  BY DEF Base, TypeOK
<1>3. /\ WorldOK(w) /\ Attached(w) = Attached(sys) /\ KnownIn(w) = KnownIn(sys)
      /\ w.controllers = sys.controllers /\ w.heap = sys.heap /\ w.reserved = snapshot
  BY <1>2, ReservedWorld
<1> HIDE DEF w
<1>4. Same(w, sys)
  BY <1>3 DEF Same, Alike
<1>5. Listed = snapshot /\ Listed' = snapshot
  BY <1>1, <1>3 DEF Listed
<1>6. /\ faults'.robbed = (faults.robbed \cup {}) \cap OpenFiles(sys')
      /\ faults'.stale = (faults.stale \cup {}) \cap (DOMAIN sys'.reserved \cup DOMAIN snapshot)
      /\ faults'.renamed = (faults.renamed \cup {}) \cap OpenFiles(sys')
  BY <1>1, BlameFields
<1> QED
  BY <1>1, <1>4, <1>5, <1>6, SameImages

(* Steps that leave the devices and the reservations alone.                 *)
LEMMA QuietImages ==
  ASSUME Base, Images, sys' = sys, pc # "reserve", pc' # "reserve", Listed' = Listed,
         OpenFiles(sys) \cap files \subseteq files' \cup faults'.renamed \cup faults'.robbed,
         \/ faults' = faults
         \/ \E N : Blame(sys, {}, {}, N, {}) /\ pc = "idle"
  PROVE  Images'
<1>1. Same(sys', sys)
  BY SameSelf DEF Base
<1>2. CASE faults' = faults
  BY <1>1, <1>2, SameImages
<1>3. CASE \E N : Blame(sys, {}, {}, N, {}) /\ pc = "idle"
  <2>1. PICK N : Blame(sys, {}, {}, N, {})
    BY <1>3
  <2>2. /\ faults'.robbed = (faults.robbed \cup {}) \cap OpenFiles(sys)
        /\ faults'.stale = (faults.stale \cup {}) \cap (DOMAIN sys.reserved \cup DOMAIN snapshot)
        /\ faults'.renamed = (faults.renamed \cup N) \cap OpenFiles(sys)
    BY <2>1, BlameFields
  <2>3. Listed = sys.reserved
    BY <1>3 DEF Listed
  <2> QED
    BY <1>1, <2>2, <2>3, SameImages
<1> QED
  BY <1>2, <1>3

LEMMA ImagesNext ==
  ASSUME Base, Images, [Next]_vars
  PROVE  Images'
<1>1. CASE ProcessDevice
  BY <1>1, ProcessKinds, RefusedImages, AcceptedImages, AttachedImages, DetachedImages,
     EjectedImages, OpenedImages
<1>2. CASE InsertReserve
  BY <1>2, InsertReserveImages
<1>3. CASE Validate
  BY <1>3, ValidateImages
<1>4. ASSUME NEW d \in Attached(sys), ScsiEject(d)
      PROVE  Images'
  BY <1>4, ScsiEjectImages
<1>5. CASE Receive
  <2>1. /\ sys' = sys /\ pc = "idle" /\ pc' = "dry" /\ snapshot' = sys.reserved
        /\ files' = files /\ faults' = faults
    BY <1>5 DEF Receive
  <2>2. Listed' = Listed
    BY <2>1 DEF Listed
  <2> QED
    BY <2>1, <2>2, QuietImages
<1>6. CASE Reply
  <2>1. /\ sys' = sys /\ pc = "execute" /\ pc' = "idle" /\ files' = files /\ faults' = faults
    BY <1>6 DEF Reply, Idle
  <2>2. Listed' = Listed
    BY <2>1 DEF Listed
  <2> QED
    BY <2>1, <2>2, QuietImages
<1>7. CASE DetachAll
  <2>1. sys' = NothingAttached /\ pc = "idle" /\ pc' = pc
    BY <1>7 DEF DetachAll
  <2>2. Attached(sys') = {} /\ sys'.reserved = <<>> /\ DOMAIN sys'.reserved = {}
    BY <2>1, NothingWorld
  <2>3. OpenFiles(sys') = {}
    BY <2>2 DEF OpenFiles
  <2> QED
    BY <2>1, <2>2, <2>3
       DEF Images, Reservations, OpenImageExists, Settled, Listed, Backed, Needed
<1>8. ASSUME pc = "idle", pc' = pc, sys' = sys, snapshot' = snapshot,
             files \subseteq files', faults' = faults
      PROVE  Images'
  <2>1. Listed' = Listed
    BY <1>8 DEF Listed
  <2> QED
    BY <1>8, <2>1, QuietImages
<1>9. ASSUME NEW S \in SUBSET Ids, SetReservedIds(S)
      PROVE  Images'
  BY <1>8, <1>9 DEF SetReservedIds
<1>10. ASSUME NEW f \in Files, CreateImage(f)
       PROVE  Images'
  BY <1>8, <1>10 DEF CreateImage
<1>11. ASSUME NEW f \in Files, DeleteImage(f)
       PROVE  Images'
  <2>1. /\ pc = "idle" /\ pc' = pc /\ sys' = sys /\ snapshot' = snapshot /\ faults' = faults
        /\ f \notin DOMAIN sys.reserved /\ files' = files \ {f}
    BY <1>11 DEF DeleteImage
  <2>2. Listed' = Listed /\ Listed = sys.reserved
    BY <2>1 DEF Listed
  <2>3. f \in OpenFiles(sys) => f \in faults.robbed
    <3> SUFFICES ASSUME f \in OpenFiles(sys)
                 PROVE  f \in faults.robbed
      OBVIOUS
    <3>1. PICK d \in Attached(sys) : sys.heap[d].open /\ sys.heap[d].path = f
      BY OpenFilesIff
    <3> QED
      BY <2>1, <2>2, <3>1, ImagesInWords DEF Backed
  <2>4. OpenFiles(sys) \cap files \subseteq files' \cup faults'.renamed \cup faults'.robbed
    BY <2>1, <2>3
  <2> QED
    BY <2>1, <2>2, <2>4, QuietImages
<1>12. ASSUME NEW f \in Files, NEW g \in Files, RenameImage(f, g)
       PROVE  Images'
  <2>1. /\ pc = "idle" /\ pc' = pc /\ sys' = sys /\ snapshot' = snapshot
        /\ files' = (files \ {f}) \cup {g} /\ Blame(sys, {}, {}, {f}, {})
    BY <1>12 DEF RenameImage
  <2>2. Listed' = Listed
    BY <2>1 DEF Listed
  <2>3. faults'.renamed = (faults.renamed \cup {f}) \cap OpenFiles(sys)
    BY <2>1, BlameFields
  <2>4. OpenFiles(sys) \cap files \subseteq files' \cup faults'.renamed \cup faults'.robbed
    BY <2>1, <2>3
  <2> QED
    BY <2>1, <2>2, <2>4, QuietImages
<1>13. CASE Crash \/ UNCHANGED vars
  <2>1. UNCHANGED <<sys, files, cmd, pc, next, snapshot, faults>>
    BY <1>13 DEF Crash, vars
  <2> QED
    BY <2>1 DEF Images, Reservations, OpenImageExists, Settled, Listed, Dev, Def
<1> QED
  BY <1>1, <1>2, <1>3, <1>4, <1>5, <1>6, <1>7, <1>9, <1>10, <1>11, <1>12, <1>13 DEF Next

LEMMA ImagesHold == Spec => []Images
<1>1. Init => Images
  <2> SUFFICES ASSUME Init
               PROVE  Images
    OBVIOUS
  <2>1. Attached(sys) = {} /\ DOMAIN sys.reserved = {} /\ pc = "idle"
    BY NothingWorld DEF Init
  <2>2. OpenFiles(sys) = {}
    BY <2>1 DEF OpenFiles
  <2> QED
    BY <2>1, <2>2 DEF Images, Reservations, OpenImageExists, Settled, Listed, Backed, Needed
<1>2. Base /\ Images /\ [Next]_vars => Images'
  BY ImagesNext
<1> QED
  BY <1>1, <1>2, BaseHolds, PTL DEF Spec

(* Between commands the list of reserved files names exactly the files the  *)
(* attached devices have open, with their places (but for the two faults of *)
(* UnreserveFile and of the unsynchronised ejection, which the theorem      *)
(* excepts file by file): the dry run, a refused command and Detach leave   *)
(* nothing behind in it.                                                    *)
THEOREM ReservationsKept == Spec => []ReservationsMatch
<1>1. Images => ReservationsMatch
  BY DEF Images, Reservations, Settled, Listed, Backed, Needed, ReservationsMatch
<1> QED
  BY <1>1, ImagesHold, PTL

(* Attach and Insert look a file up in the list before they open it: two    *)
(* devices never write to one image, also while INSERT has opened a file it *)
(* has not reserved yet.                                                    *)
THEOREM ImagesUsedOnce == Spec => []ImageUsedOnce
<1>1. Base /\ Images => ImageUsedOnce
  <2> SUFFICES ASSUME Base, Images, NEW d \in Attached(sys), NEW e \in Attached(sys),
                      sys.heap[d].open, sys.heap[e].open, d # e,
                      sys.heap[d].path = sys.heap[e].path,
                      sys.heap[d].path \notin faults.robbed
               PROVE  FALSE
    BY DEF ImageUsedOnce
  <2> DEFINE p == sys.heap[d].path
  <2>1. WorldOK(sys)
    BY DEF Base
  <2>2. \A h \in Settled : sys.heap[h].open /\ sys.heap[h].path = p =>
                             p \in DOMAIN Listed /\ Listed[p] = Place(sys.heap[h])
    BY DEF Images, Reservations, Backed
  <2>3. CASE d \in Settled /\ e \in Settled
    <3>1. Place(sys.heap[d]) = Place(sys.heap[e])
      BY <2>2, <2>3
    <3> QED
      BY <2>1, <3>1, PlaceUnique
  <2>4. CASE ~(d \in Settled /\ e \in Settled)
    <3>1. pc = "reserve" /\ (d = Dev \/ e = Dev) /\ (d \in Settled \/ e \in Settled)
      BY <2>4 DEF Settled
    <3>2. p \in DOMAIN sys.reserved
      BY <2>2, <3>1 DEF Listed
    <3>3. sys.heap[Dev].path \notin DOMAIN sys.reserved
      BY <3>1 DEF Base, Stage
    <3> QED
      BY <3>1, <3>2, <3>3
  <2> QED
    BY <2>3, <2>4
<1> QED
  BY <1>1, BaseHolds, ImagesHold, PTL

(* DELETE_IMAGE refuses a reserved file, so the file a device has open      *)
(* exists: every access of the cache opens it again by its path.            *)
THEOREM ImagesExist == Spec => []OpenImageExists
<1>1. Images => OpenImageExists
  BY DEF Images
<1> QED
  BY <1>1, ImagesHold, PTL

-----------------------------------------------------------------------------
(* LUN 0                                                                    *)

(* A LUN 0 the factory knows, or one this ATTACH has still to create.       *)
Pending(i) ==
  /\ pc = "execute" /\ cmd.op = "ATTACH"
  /\ \E k \in next..Len(cmd.defs) : Place(cmd.defs[k]) = <<i, 0>>

ZeroAt(i) == <<i, 0>> \in KnownIn(sys) \/ Pending(i)

UsedHaveZero ==
  \A i \in DOMAIN sys.controllers : sys.controllers[i] # <<>> =>
    i \in faults.incomplete \/ ZeroAt(i)

NamedHaveZero ==
  pc = "execute" /\ cmd.op = "ATTACH" => \A k \in DOMAIN cmd.defs : ZeroAt(cmd.defs[k].id)

Zeros == UsedHaveZero /\ NamedHaveZero

LEMMA ZeroAttached ==
  ASSUME NEW w, WorldOK(w), NEW i \in DOMAIN w.controllers, 0 \in DOMAIN w.controllers[i]
  PROVE  <<i, 0>> \in KnownIn(w)
<1> DEFINE d == w.controllers[i][0]
<1>1. d \in Attached(w) /\ w.heap[d].id = i /\ w.heap[d].lun = 0
  BY ControllerAt
<1>2. d \in InFactory(w)
  BY <1>1, AttachedAt
<1>3. Place(w.heap[d]) = <<i, 0>>
  BY <1>1 DEF Place
<1> HIDE DEF d
<1> QED
  BY <1>2, <1>3 DEF KnownIn

(* Only the IDs without a LUN 0 need to be looked at.                       *)
LEMMA UsedHaveZeroNext ==
  ASSUME WorldOK(sys'),
         \A i \in DOMAIN sys'.controllers :
           HasNoLunZero(sys', i) => i \in faults'.incomplete \/ ZeroAt(i)'
  PROVE  UsedHaveZero'
<1> SUFFICES ASSUME NEW i \in DOMAIN sys'.controllers, sys'.controllers[i] # <<>>
             PROVE  i \in faults'.incomplete \/ ZeroAt(i)'
  BY DEF UsedHaveZero
<1>1. CASE 0 \in DOMAIN sys'.controllers[i]
  BY <1>1, ZeroAttached DEF ZeroAt
<1>2. CASE 0 \notin DOMAIN sys'.controllers[i]
  BY <1>2 DEF HasNoLunZero
<1> QED
  BY <1>1, <1>2

LEMMA ZerosKept ==
  ASSUME Zeros, WorldOK(sys'), sys'.controllers = sys.controllers,
         KnownIn(sys) \subseteq KnownIn(sys'),
         \A i : HasNoLunZero(sys', i) /\ i \in faults.incomplete => i \in faults'.incomplete,
         \A i : Pending(i) => Pending(i)' \/ (HasNoLunZero(sys', i) => i \in faults'.incomplete),
         pc' = "execute" /\ cmd'.op = "ATTACH" => pc = "execute" /\ cmd' = cmd /\ next' = next
  PROVE  Zeros'
<1>1. ASSUME NEW i \in DOMAIN sys'.controllers, HasNoLunZero(sys', i)
      PROVE  i \in faults'.incomplete \/ ZeroAt(i)'
  <2>1. sys.controllers[i] # <<>> /\ i \in DOMAIN sys.controllers
    BY <1>1 DEF HasNoLunZero
  <2>2. i \in faults.incomplete \/ <<i, 0>> \in KnownIn(sys) \/ Pending(i)
    BY <2>1 DEF Zeros, UsedHaveZero, ZeroAt
  <2> QED
    BY <1>1, <2>2 DEF ZeroAt
<1>2. UsedHaveZero'
  BY <1>1, UsedHaveZeroNext
<1>3. NamedHaveZero'
  <2> SUFFICES ASSUME pc' = "execute", cmd'.op = "ATTACH", NEW k \in DOMAIN cmd'.defs
               PROVE  ZeroAt(cmd.defs[k].id)'
    BY DEF NamedHaveZero, ZeroAt, Pending
  <2>1. pc = "execute" /\ cmd' = cmd /\ next' = next /\ cmd.op = "ATTACH"
    OBVIOUS
  <2>2. PICK i : i = cmd.defs[k].id
    OBVIOUS
  <2>3. ZeroAt(i)
    BY <2>1, <2>2 DEF Zeros, NamedHaveZero
  <2>4. Pending(i) => Pending(i)'
    BY <2>1 DEF Pending
  <2>5. ZeroAt(i)'
    BY <2>3, <2>4 DEF ZeroAt
  <2> QED
    BY <2>1, <2>2, <2>5 DEF ZeroAt, Pending
<1> QED
  BY <1>2, <1>3 DEF Zeros

LEMMA BlamedIncomplete ==
  ASSUME NEW w, NEW R, NEW S, NEW N, NEW I, Blame(w, R, S, N, I)
  PROVE  \A i : HasNoLunZero(w, i) /\ i \in faults.incomplete \cup I => i \in faults'.incomplete
  BY BlameFields

LEMMA RefusedZeros ==
  ASSUME Base, Zeros, Refused
  PROVE  Zeros'
<1> DEFINE I == IF dryRun THEN {} ELSE {def.id : def \in Range(cmd.defs)}
<1>1. /\ Same(sys', sys) /\ Blame(sys', {}, {}, {}, I) /\ pc' = "idle" /\ pc # "idle"
  BY DEF Refused, Idle, AtWork
<1>2. \A i : HasNoLunZero(sys', i) /\ i \in faults.incomplete \cup I => i \in faults'.incomplete
  <2> HIDE DEF I
  <2> QED
    BY <1>1, BlamedIncomplete
<1>3. ASSUME NEW i, Pending(i)
      PROVE  i \in I
  <2>1. PICK k \in next..Len(cmd.defs) : Place(cmd.defs[k]) = <<i, 0>>
    BY <1>3 DEF Pending
  <2>2. k \in DOMAIN cmd.defs
    BY <1>1, <2>1, WorkFacts
  <2>3. cmd.defs[k].id = i /\ cmd.defs[k] \in Range(cmd.defs)
    BY <2>1, <2>2 DEF Place, Range
  <2>4. ~dryRun
    BY <1>3 DEF Pending, dryRun
  <2> QED
    BY <2>3, <2>4
<1> HIDE DEF I
<1> QED
  BY <1>1, <1>2, <1>3, ZerosKept DEF Same

LEMMA AcceptedZeros ==
  ASSUME Base, Zeros, Accepted
  PROVE  Zeros'
<1>1. /\ Same(sys', sys) /\ Blame(sys', {}, {}, {}, {}) /\ cmd' = cmd
      /\ pc' = IF pc = "dry" THEN "dry" ELSE "execute"
      /\ cmd.op = "ATTACH" => pc = "dry"
  BY DEF Accepted, Accept, dryRun
<1>2. \A i : HasNoLunZero(sys', i) /\ i \in faults.incomplete \cup {} => i \in faults'.incomplete
  BY <1>1, BlamedIncomplete
<1>3. \A i : ~Pending(i)
  BY <1>1 DEF Pending
<1> QED
  BY <1>1, <1>2, <1>3, ZerosKept DEF Same

LEMMA AttachedZeros ==
  ASSUME Base, Zeros, AttachedOne
  PROVE  Zeros'
<1>1. /\ pc = "execute" /\ pc' = "execute" /\ cmd' = cmd /\ next' = next + 1
      /\ cmd.op = "ATTACH" /\ next <= Len(cmd.defs) /\ Blame(sys', {}, {}, {}, {})
  BY DEF AttachedOne, AtWork, Accept, dryRun
<1>2. PICK d \in Handles : Added(sys', sys, d, Def)
  BY DEF AttachedOne
<1>3. /\ WorldOK(sys') /\ KnownIn(sys) \subseteq KnownIn(sys') /\ Place(Def) \in KnownIn(sys')
      /\ DOMAIN sys'.controllers = DOMAIN sys.controllers \cup {Def.id}
      /\ \A j \in DOMAIN sys.controllers \ {Def.id} : sys'.controllers[j] = sys.controllers[j]
  BY <1>2 DEF Added
<1>4. /\ Len(cmd.defs) \in Nat /\ next \in Nat /\ next \in DOMAIN cmd.defs
      /\ Def = cmd.defs[next]
  BY <1>1, WorkFacts DEF Def
<1>5. ASSUME NEW i, ZeroAt(i)
      PROVE  ZeroAt(i)'
  <2>1. CASE <<i, 0>> \in KnownIn(sys)
    BY <1>3, <2>1 DEF ZeroAt
  <2>2. CASE Pending(i)
    <3>1. PICK k \in next..Len(cmd.defs) : Place(cmd.defs[k]) = <<i, 0>>
      BY <2>2 DEF Pending
    <3>2. CASE k = next
      <4>1. Place(Def) = <<i, 0>>
        BY <1>4, <3>1, <3>2
      <4> QED
        BY <1>3, <4>1 DEF ZeroAt
    <3>3. CASE k # next
      <4>1. k \in (next + 1)..Len(cmd.defs)
        BY <1>4, <3>1, <3>3
      <4> QED
        BY <1>1, <3>1, <4>1 DEF ZeroAt, Pending
    <3> QED
      BY <3>2, <3>3
  <2> QED
    BY <1>5, <2>1, <2>2 DEF ZeroAt
<1>6. \A k \in DOMAIN cmd.defs : ZeroAt(cmd.defs[k].id)
  BY <1>1 DEF Zeros, NamedHaveZero
<1>7. ASSUME NEW k \in DOMAIN cmd.defs
      PROVE  ZeroAt(cmd.defs[k].id)'
  <2>1. PICK i : i = cmd.defs[k].id
    OBVIOUS
  <2>2. ZeroAt(i)'
    BY <1>5, <1>6, <2>1
  <2> QED
    BY <1>1, <2>1, <2>2 DEF ZeroAt, Pending
<1>8. NamedHaveZero'
  BY <1>1, <1>7 DEF NamedHaveZero, ZeroAt, Pending
<1>9. \A i : HasNoLunZero(sys', i) /\ i \in faults.incomplete \cup {} => i \in faults'.incomplete
  BY <1>1, BlamedIncomplete
<1>10. ASSUME NEW i \in DOMAIN sys'.controllers, HasNoLunZero(sys', i)
       PROVE  i \in faults'.incomplete \/ ZeroAt(i)'
  <2>1. CASE i = Def.id
    <3>1. ZeroAt(i)
      BY <1>4, <1>6, <2>1
    <3> QED
      BY <1>5, <3>1
  <2>2. CASE i # Def.id
    <3>1. i \in DOMAIN sys.controllers /\ sys.controllers[i] # <<>>
      BY <1>3, <1>10, <2>2 DEF HasNoLunZero
    <3>2. i \in faults.incomplete \/ ZeroAt(i)
      BY <3>1 DEF Zeros, UsedHaveZero
    <3> QED
      BY <1>5, <1>9, <1>10, <3>2
  <2> QED
    BY <2>1, <2>2
<1>11. UsedHaveZero'
  BY <1>3, <1>10, UsedHaveZeroNext
<1> QED
  BY <1>8, <1>11 DEF Zeros

LEMMA DetachedZeros ==
  ASSUME Base, Zeros, DetachedOne
  PROVE  Zeros'
<1> DEFINE w == DeleteDevice(RemoveDevice(UnreserveFile(sys, Dev), Dev), Dev)
           d == Dev
           i0 == Def.id
<1>1. /\ cmd' = cmd /\ cmd.op = "DETACH" /\ sys' = w /\ Blame(w, Robs(sys, d), {}, {}, {})
      /\ HasDevice(sys, i0, Def.lun) /\ (Def.lun # 0 \/ OtherLuns = {})
  BY DEF DetachedOne, Accept
<1>2. /\ WorldOK(sys) /\ d \in Attached(sys) /\ sys.heap[d].id = i0 /\ sys.heap[d].lun = Def.lun
  BY <1>1, DevFacts DEF Base
<1>3. /\ WorldOK(w) /\ DOMAIN w.controllers = DOMAIN sys.controllers
      /\ sys.controllers[i0] # <<>>
      /\ \A j \in DOMAIN sys.controllers \ {i0} : w.controllers[j] = sys.controllers[j]
      /\ w.controllers[i0] # <<>> => \E e \in Attached(sys) \ {d} : sys.heap[e].id = i0
      /\ \A p \in KnownIn(sys) : p # Place(sys.heap[d]) => p \in KnownIn(w)
  BY <1>2, DetachWorld
<1> HIDE DEF w, d
<1>4. \A i : HasNoLunZero(w, i) /\ i \in faults.incomplete \cup {} => i \in faults'.incomplete
  BY <1>1, BlamedIncomplete
<1>5. ASSUME NEW i \in DOMAIN w.controllers, HasNoLunZero(w, i)
      PROVE  i \in faults'.incomplete \/ <<i, 0>> \in KnownIn(w)
  <2>1. i \in DOMAIN sys.controllers /\ w.controllers[i] # <<>>
    BY <1>3, <1>5 DEF HasNoLunZero
  <2>2. sys.controllers[i] # <<>>
    BY <1>3, <2>1
  <2>3. i \in faults.incomplete \/ <<i, 0>> \in KnownIn(sys)
    BY <1>1, <2>1, <2>2 DEF Zeros, UsedHaveZero, ZeroAt, Pending
  <2>4. <<i, 0>> # Place(sys.heap[d])
    <3> SUFFICES ASSUME <<i, 0>> = Place(sys.heap[d])
                 PROVE  FALSE
      OBVIOUS
    <3>1. i = i0 /\ Def.lun = 0
      BY <1>2 DEF Place
    <3>2. PICK e \in Attached(sys) \ {d} : sys.heap[e].id = i0
      BY <1>3, <2>1, <3>1
    <3>3. sys.heap[e].lun # 0
      BY <1>2, <3>1, <3>2, AttachedAt
    <3>4. e \in Range(sys.factory[i0])
      <4>1. e \in InFactory(sys)
        BY <1>2, <3>2, AttachedAt
      <4>2. PICK j \in Ids : \E n \in DOMAIN sys.factory[j] : e = sys.factory[j][n]
        BY <4>1, InFactoryIff
      <4>3. sys.heap[e].id = j
        BY <1>2, <4>2 DEF WorldOK, Sorted
      <4> QED
        BY <3>2, <4>2, <4>3 DEF Range
    <3> QED
      BY <1>1, <3>1, <3>3, <3>4 DEF OtherLuns
  <2> QED
    BY <1>3, <1>4, <1>5, <2>3, <2>4
<1>6. UsedHaveZero'
  BY <1>1, <1>3, <1>5, UsedHaveZeroNext DEF ZeroAt
<1>7. NamedHaveZero'
  BY <1>1 DEF NamedHaveZero
<1> QED
  BY <1>6, <1>7 DEF Zeros

(* The command goes on without an ATTACH, or stays where it is.             *)
LEMMA OtherZeros ==
  ASSUME Zeros, WorldOK(sys'), sys'.controllers = sys.controllers,
         KnownIn(sys) \subseteq KnownIn(sys'),
         \/ faults'.incomplete = faults.incomplete
         \/ \E R, S, N : Blame(sys', R, S, N, {}),
         \/ cmd' = cmd /\ cmd.op # "ATTACH"
         \/ pc' = pc /\ cmd' = cmd /\ next' = next
         \/ pc \in {"idle", "dry"} /\ pc' \in {"idle", "dry"}
         \/ pc' = "idle" /\ next > Len(cmd.defs) /\ next \in Nat /\ Len(cmd.defs) \in Nat
  PROVE  Zeros'
<1>1. \A i : HasNoLunZero(sys', i) /\ i \in faults.incomplete => i \in faults'.incomplete
  <2>1. CASE faults'.incomplete = faults.incomplete
    BY <2>1
  <2>2. ASSUME NEW R, NEW S, NEW N, Blame(sys', R, S, N, {})
        PROVE  \A i : HasNoLunZero(sys', i) /\ i \in faults.incomplete \cup {} => i \in faults'.incomplete
    BY <2>2, BlamedIncomplete
  <2> QED
    BY <2>1, <2>2
<1>2. \A i : Pending(i) => Pending(i)'
  BY DEF Pending
<1>3. pc' = "execute" /\ cmd'.op = "ATTACH" => pc = "execute" /\ cmd' = cmd /\ next' = next
  OBVIOUS
<1> QED
  BY <1>1, <1>2, <1>3, ZerosKept

LEMMA ProcessZeros ==
  ASSUME Base, Zeros, ProcessDevice
  PROVE  Zeros'
<1>1. WorldOK(sys)
  BY DEF Base
<1>2. CASE EjectedOne
  <2>1. /\ sys' = Eject(sys, Dev) /\ Ejects(sys, Dev) /\ HasDevice(sys, Def.id, Def.lun)
        /\ cmd' = cmd /\ cmd.op # "ATTACH" /\ Blame(sys', Robs(sys, Dev), {}, {}, {})
    BY <1>2 DEF EjectedOne, Accept
  <2>2. WorldOK(sys') /\ sys'.controllers = sys.controllers /\ KnownIn(sys') = KnownIn(sys)
    BY <1>1, <2>1, DevFacts, EjectWorld
  <2> QED
    BY <2>1, <2>2, OtherZeros
<1>3. CASE OpenedOne
  <2>1. /\ sys' = OpenFile(sys, Dev, Def.file) /\ HasDevice(sys, Def.id, Def.lun)
        /\ Def.file \in files
        /\ cmd' = cmd /\ cmd.op # "ATTACH" /\ faults' = faults
    BY <1>3 DEF OpenedOne
  <2>2. Def.file \in Files
    BY <2>1 DEF Base, TypeOK
  <2>3. WorldOK(sys') /\ sys'.controllers = sys.controllers /\ KnownIn(sys') = KnownIn(sys)
    BY <1>1, <2>1, <2>2, DevFacts, OpenWorld
  <2> QED
    BY <2>1, <2>3, OtherZeros
<1> QED
  BY <1>2, <1>3, ProcessKinds, RefusedZeros, AcceptedZeros, AttachedZeros, DetachedZeros

LEMMA ValidateZeros ==
  ASSUME Base, Zeros, Validate
  PROVE  Zeros'
<1> DEFINE w == [sys EXCEPT !.reserved = snapshot]
<1>1. /\ pc = "dry" /\ sys' = w /\ Blame(w, {}, {}, {}, {})
      /\ \/ ValidLunSetup /\ pc' = "execute" /\ next' = 1 /\ cmd' = cmd
         \/ pc' = "idle"
  BY DEF Validate, Idle
<1>2. WorldOK(sys) /\ IsReservations(snapshot)
  BY DEF Base, TypeOK
<1>3. /\ WorldOK(w) /\ KnownIn(w) = KnownIn(sys) /\ w.controllers = sys.controllers
  BY <1>2, ReservedWorld
<1> HIDE DEF w
<1>4. CASE pc' = "idle"
  BY <1>1, <1>3, <1>4, OtherZeros
<1>5. CASE ValidLunSetup /\ pc' = "execute" /\ next' = 1 /\ cmd' = cmd
  <2>1. \A i : HasNoLunZero(w, i) /\ i \in faults.incomplete \cup {} => i \in faults'.incomplete
    BY <1>1, BlamedIncomplete
  <2>2. ASSUME NEW i \in DOMAIN sys'.controllers, HasNoLunZero(sys', i)
        PROVE  i \in faults'.incomplete \/ ZeroAt(i)'
    <3>1. i \in DOMAIN sys.controllers /\ sys.controllers[i] # <<>>
      BY <1>1, <1>3, <2>2 DEF HasNoLunZero
    <3>2. i \in faults.incomplete \/ <<i, 0>> \in KnownIn(sys)
      BY <1>1, <3>1 DEF Zeros, UsedHaveZero, ZeroAt, Pending
    <3> QED
      BY <1>1, <1>3, <2>1, <2>2, <3>2 DEF ZeroAt
  <2>3. UsedHaveZero'
    BY <1>1, <1>3, <2>2, UsedHaveZeroNext
  <2>4. ASSUME NEW k \in DOMAIN cmd.defs, cmd.op = "ATTACH"
        PROVE  ZeroAt(cmd.defs[k].id)'
    <3>1. PICK i : i = cmd.defs[k].id
      OBVIOUS
    <3>2. cmd.defs[k] \in Range(cmd.defs)
      BY DEF Range
    <3>3. Place(cmd.defs[k]) \in Named /\ Place(cmd.defs[k])[1] = i
      BY <3>1, <3>2 DEF Named, Place
    <3>4. <<i, 0>> \in Named \cup Known
      BY <1>5, <3>3 DEF ValidLunSetup
    <3>5. CASE <<i, 0>> \in Known
      <4>1. <<i, 0>> \in KnownIn(sys')
        BY <1>1, <1>3, <3>5 DEF Known, KnownIn
      <4> QED
        BY <1>5, <3>1, <4>1 DEF ZeroAt
    <3>6. CASE <<i, 0>> \in Named
      <4>1. PICK def \in Range(cmd.defs) : Place(def) = <<i, 0>>
        BY <3>6 DEF Named
      <4>2. PICK n \in DOMAIN cmd.defs : cmd.defs[n] = def
        BY <4>1 DEF Range
      <4>3. n \in 1..Len(cmd.defs)
        BY <1>1, <4>2, WorkFacts
      <4>4. Pending(i)'
        BY <1>5, <2>4, <4>1, <4>2, <4>3 DEF Pending
      <4> QED
        BY <1>5, <3>1, <4>4 DEF ZeroAt, Pending
    <3> QED
      BY <3>4, <3>5, <3>6
  <2>5. NamedHaveZero'
    BY <1>5, <2>4 DEF NamedHaveZero, ZeroAt, Pending
  <2> QED
    BY <2>3, <2>5 DEF Zeros
<1> QED
  BY <1>1, <1>4, <1>5

LEMMA ZerosNext ==
  ASSUME Base, Zeros, [Next]_vars
  PROVE  Zeros'
<1>1. WorldOK(sys)
  BY DEF Base
<1>2. ASSUME sys' = sys, faults'.incomplete = faults.incomplete,
             \/ pc' = pc /\ cmd' = cmd /\ next' = next
             \/ pc = "idle" /\ pc' = "dry"
             \/ pc' = "idle" /\ next > Len(cmd.defs) /\ next \in Nat /\ Len(cmd.defs) \in Nat
      PROVE  Zeros'
  BY <1>1, <1>2, OtherZeros
<1>3. CASE ProcessDevice
  BY <1>3, ProcessZeros
<1>4. CASE Validate
  BY <1>4, ValidateZeros
<1>5. CASE InsertReserve
  <2>1. /\ sys' = ReserveFile(sys, Dev, Def.file) /\ HasDevice(sys, Def.id, Def.lun)
        /\ Def.file \in Files /\ cmd' = cmd /\ cmd.op # "ATTACH"
        /\ Blame(sys', {}, IF sys.heap[Dev].open THEN {} ELSE {Def.file}, {}, {})
    BY <1>5 DEF InsertReserve, Base, Stage
  <2>2. WorldOK(sys') /\ sys'.controllers = sys.controllers /\ KnownIn(sys') = KnownIn(sys)
    BY <1>1, <2>1, DevFacts, ReserveWorld
  <2> QED
    BY <2>1, <2>2, OtherZeros
<1>6. CASE Receive
  BY <1>2, <1>6 DEF Receive
<1>7. CASE Reply
  <2>1. next \in Nat /\ Len(cmd.defs) \in Nat
    BY <1>7, WorkFacts DEF Reply
  <2> QED
    BY <1>2, <1>7, <2>1 DEF Reply, Idle
<1>8. CASE DetachAll
  <2>1. sys' = NothingAttached /\ pc' = "idle"
    BY <1>8 DEF DetachAll
  <2>2. DOMAIN sys'.controllers = {}
    BY <2>1, NothingWorld
  <2> QED
    BY <2>1, <2>2 DEF Zeros, UsedHaveZero, NamedHaveZero
<1>9. ASSUME NEW d \in Attached(sys), ScsiEject(d)
      PROVE  Zeros'
  <2>1. /\ sys' = Eject(sys, d) /\ Ejects(sys, d) /\ UNCHANGED <<cmd, pc, next>>
    BY <1>9 DEF ScsiEject
  <2>2. faults'.incomplete = faults.incomplete
    BY <1>9 DEF ScsiEject, Base, TypeOK
  <2>3. WorldOK(sys') /\ sys'.controllers = sys.controllers /\ KnownIn(sys') = KnownIn(sys)
    BY <1>1, <2>1, AttachedAt, EjectWorld
  <2> QED
    BY <2>1, <2>2, <2>3, OtherZeros
<1>10. ASSUME NEW S \in SUBSET Ids, SetReservedIds(S)
       PROVE  Zeros'
  BY <1>2, <1>10 DEF SetReservedIds
<1>11. ASSUME NEW f \in Files, CreateImage(f) \/ DeleteImage(f)
       PROVE  Zeros'
  BY <1>2, <1>11 DEF CreateImage, DeleteImage
<1>12. ASSUME NEW f \in Files, NEW g \in Files, RenameImage(f, g)
       PROVE  Zeros'
  <2>1. /\ sys' = sys /\ UNCHANGED <<cmd, pc, next>> /\ Blame(sys', {}, {}, {f}, {})
    BY <1>12 DEF RenameImage
  <2> QED
    BY <1>1, <2>1, OtherZeros
<1>13. CASE Crash \/ UNCHANGED vars
  BY <1>2, <1>13 DEF Crash, vars
<1> QED
  BY <1>3, <1>4, <1>5, <1>6, <1>7, <1>8, <1>9, <1>10, <1>11, <1>12, <1>13 DEF Next

(* ValidateLunSetup: between commands every ID in use has a LUN 0, unless   *)
(* an executed command failed on the way or the factory still knows a LUN 0 *)
(* that was never attached. Detach keeps LUN 0 while the factory has        *)
(* another LUN, and an ATTACH names its LUN 0 or finds it.                  *)
THEOREM LunZero == Spec => []LunZeroExists
<1>1. Init => Zeros
  BY NothingWorld DEF Init, Zeros, UsedHaveZero, NamedHaveZero
<1>2. Base /\ Zeros /\ [Next]_vars => Zeros'
  BY ZerosNext
<1>3. Spec => []Zeros
  BY <1>1, <1>2, BaseHolds, PTL DEF Spec
<1>4. Zeros => LunZeroExists
  BY DEF Zeros, UsedHaveZero, ZeroAt, Pending, LunZeroExists, HasNoLunZero, Known, KnownIn
<1> QED
  BY <1>3, <1>4, PTL

=============================================================================

------------------------- MODULE HostSearch_proofs -------------------------
(***************************************************************************)
(* Theorems about what the file system of the X68000 bridge lists and      *)
(* finds, for any trees, any workloads and any sizes of its rings, on top  *)
(* of what HostFileSystem_proofs shows of the rings and of lookups: the    *)
(* lists of a cache that are trusted have what the host has; no search is  *)
(* left with a pointer into a list that was freed; and a search gives      *)
(* every entry that stays as it was.                                       *)
(***************************************************************************)
EXTENDS HostFileSystem_proofs

-----------------------------------------------------------------------------
(* What the calls of the host leave of the lists                           *)

Trees(h) == DOMAIN h = Units /\ \A u \in Units : IsTree(h[u])

(* Every list that is trusted has what is on the host.                      *)
Right(f, h) == Trees(h) /\ \A u \in DOMAIN f.cache : ListsOf(f.cache[u], h[u])

(* The path p of unit u is not cached, or its list is known to be wrong.    *)
Distrusted(f, u, p) ==
  \A i \in CachedAt(f.cache[u], p) : f.cache[u][i].refresh \/ f.cache[u][i].kept

(* The trees t and s have the same in the directory p.                      *)
SameIn(t, s, p) ==
  \A n \in Names :
    /\ Append(p, n) \in DOMAIN t <=> Append(p, n) \in DOMAIN s
    /\ Append(p, n) \in DOMAIN t => s[Append(p, n)].dir = t[Append(p, n)].dir

LEMMA ListedSame ==
  ASSUME NEW list, NEW p, NEW t, NEW s, Listed(list, p, t), SameIn(t, s, p)
  PROVE  Listed(list, p, s)
  <1>1. Contents(t, p) = Contents(s, p)
    BY DEF SameIn, Contents
  <1>2. \A n \in Contents(t, p) : s[Append(p, n)].dir = t[Append(p, n)].dir
    BY DEF SameIn, Contents
  <1>3. {[name |-> n, dir |-> s[Append(p, n)].dir] : n \in Contents(s, p)}
          = {[name |-> n, dir |-> t[Append(p, n)].dir] : n \in Contents(t, p)}
    BY <1>1, <1>2
  <1> QED
    BY <1>3 DEF Listed

LEMMA HostUnits ==
  ASSUME NEW f, FsOK(f), NEW u \in DOMAIN f.cache
  PROVE  u \in Units /\ u \in Nat
  BY HostAssumption DEF FsOK, Units

LEMMA HostRight ==
  ASSUME NEW f, FsOK(f), NEW h, Right(f, h), NEW k, Trees(k),
         \A u \in DOMAIN f.cache : \A i \in DOMAIN f.cache[u] :
           \/ f.cache[u][i].refresh \/ f.cache[u][i].kept
           \/ SameIn(h[u], k[u], f.cache[u][i].path)
  PROVE  Right(f, k)
  <1>1. ASSUME NEW u \in DOMAIN f.cache, NEW i \in DOMAIN f.cache[u]
        PROVE  Lists(f.cache[u][i], k[u])
    <2>1. Lists(f.cache[u][i], h[u])
      BY DEF Right, ListsOf
    <2> QED
      BY <2>1, ListedSame DEF Lists
  <1> QED
    BY <1>1 DEF Right, ListsOf

(* Only versions change.                                                    *)
LEMMA TouchRight ==
  ASSUME NEW f, FsOK(f), NEW h, Right(f, h), NEW u, NEW q
  PROVE  Right(f, Touch(h, u, q))
  <1> DEFINE k == Touch(h, u, q)
  <1>1. DOMAIN h = Units /\ \A v \in Units : IsTree(h[v])
    BY DEF Right, Trees
  <1>2. DOMAIN k = Units
    BY <1>1 DEF Touch
  <1>3. ASSUME NEW v \in Units
        PROVE  /\ DOMAIN k[v] = DOMAIN h[v]
               /\ \A r \in DOMAIN h[v] : k[v][r].dir = h[v][r].dir /\ k[v][r] \in [dir : BOOLEAN, ver : 0..1]
    <2>1. \A r \in DOMAIN h[v] : h[v][r] \in [dir : BOOLEAN, ver : 0..1]
      BY <1>1 DEF IsTree
    <2>2. CASE v # u
      <3>1. k[v] = h[v]
        BY <1>1, <2>2 DEF Touch
      <3> QED
        BY <2>1, <3>1
    <2>3. CASE v = u
      <3>1. k[v] = [h[v] EXCEPT ![q].ver = 1 - @]
        BY <1>1, <2>3 DEF Touch
      <3>2. PICK s : s = k[v]
        OBVIOUS
      <3>3. DOMAIN s = DOMAIN h[v] /\ \A r \in DOMAIN h[v] : r # q => s[r] = h[v][r]
        BY <3>1, <3>2
      <3>4. ASSUME q \in DOMAIN h[v]
            PROVE  s[q].dir = h[v][q].dir /\ s[q] \in [dir : BOOLEAN, ver : 0..1]
        <4>1. s[q] = [h[v][q] EXCEPT !.ver = 1 - h[v][q].ver]
          BY <3>1, <3>2, <3>4
        <4>2. h[v][q] \in [dir : BOOLEAN, ver : 0..1]
          BY <2>1, <3>4
        <4>3. PICK e \in [dir : BOOLEAN, ver : 0..1] : e = h[v][q]
          BY <4>2
        <4>4. 1 - e.ver \in 0..1
          BY <4>3
        <4>5. s[q] = [e EXCEPT !.ver = 1 - e.ver]
          BY <4>1, <4>3
        <4> QED
          BY <4>3, <4>4, <4>5
      <3> QED
        BY <2>1, <3>2, <3>3, <3>4
    <2> QED
      BY <2>2, <2>3
  <1> HIDE DEF k
  <1>4. ASSUME NEW v \in Units
        PROVE  IsTree(k[v])
    <2>1. IsTree(h[v])
      BY <1>1
    <2>2. \A p : IsDir(h[v], p) => IsDir(k[v], p)
      BY <1>3 DEF IsDir
    <2> QED
      BY <1>3, <2>1, <2>2 DEF IsTree
  <1>5. Trees(k)
    BY <1>2, <1>4 DEF Trees
  <1>6. \A v \in DOMAIN f.cache : \A i \in DOMAIN f.cache[v] : SameIn(h[v], k[v], f.cache[v][i].path)
    BY <1>3, HostUnits DEF SameIn
  <1> QED
    BY <1>5, <1>6, HostRight DEF k

LEMMA FlushedRight ==
  ASSUME NEW f, FsOK(f), NEW h, Right(f, h), NEW cs
  PROVE  Right(f, Flushed(h, cs))
  <1> DEFINE k == Flushed(h, cs)
             Written(u, q) == \E c \in cs : c.dirty /\ c.unit = u /\ c.file = q
  <1>1. DOMAIN h = Units /\ \A v \in Units : IsTree(h[v])
    BY DEF Right, Trees
  <1>2. k = [u \in DOMAIN h |-> [q \in DOMAIN h[u] |->
               IF Written(u, q) THEN [h[u][q] EXCEPT !.ver = 1 - @] ELSE h[u][q]]]
    BY DEF Flushed
  <1> HIDE DEF k, Written
  <1>3. DOMAIN k = Units
    BY <1>1, <1>2
  <1>4. ASSUME NEW v \in Units
        PROVE  /\ DOMAIN k[v] = DOMAIN h[v]
               /\ \A r \in DOMAIN h[v] : k[v][r].dir = h[v][r].dir /\ k[v][r] \in [dir : BOOLEAN, ver : 0..1]
    <2>1. k[v] = [q \in DOMAIN h[v] |->
                    IF Written(v, q) THEN [h[v][q] EXCEPT !.ver = 1 - @] ELSE h[v][q]]
      BY <1>1, <1>2
    <2>2. DOMAIN k[v] = DOMAIN h[v]
      BY <2>1
    <2>3. ASSUME NEW r \in DOMAIN h[v]
          PROVE  k[v][r].dir = h[v][r].dir /\ k[v][r] \in [dir : BOOLEAN, ver : 0..1]
      <3>1. PICK e \in [dir : BOOLEAN, ver : 0..1] : e = h[v][r]
        BY <1>1 DEF IsTree
      <3>2. k[v][r] = IF Written(v, r) THEN [e EXCEPT !.ver = 1 - @] ELSE e
        BY <2>1, <3>1
      <3>3. 1 - e.ver \in 0..1
        BY <3>1
      <3>4. PICK x : x = [e EXCEPT !.ver = 1 - @]
        OBVIOUS
      <3>5. x.dir = e.dir /\ x \in [dir : BOOLEAN, ver : 0..1]
        BY <3>1, <3>3, <3>4
      <3> QED
        BY <3>1, <3>2, <3>4, <3>5
    <2> QED
      BY <2>2, <2>3
  <1>5. ASSUME NEW v \in Units
        PROVE  IsTree(k[v])
    <2>1. IsTree(h[v])
      BY <1>1
    <2>2. \A p : IsDir(h[v], p) => IsDir(k[v], p)
      BY <1>4 DEF IsDir
    <2> QED
      BY <1>4, <2>1, <2>2 DEF IsTree
  <1>6. Trees(k)
    BY <1>3, <1>5 DEF Trees
  <1>7. \A v \in DOMAIN f.cache : \A i \in DOMAIN f.cache[v] : SameIn(h[v], k[v], f.cache[v][i].path)
    BY <1>4, HostUnits DEF SameIn
  <1> QED
    BY <1>6, <1>7, HostRight DEF k

(* The directories that a tree has on the way to a path.                    *)
LEMMA DirsAbove ==
  ASSUME NEW t, IsTree(t), NEW d \in Seq(Names), IsDir(t, d), NEW m \in 0..Len(d)
  PROVE  IsDir(t, SubSeq(d, 1, m))
  <1>1. Len(d) \in Nat /\ SubSeq(d, 1, Len(d)) = d
    OBVIOUS
  <1>2. CASE m = Len(d)
    BY <1>1, <1>2
  <1>3. CASE m # Len(d)
    <2>0. PICK l : l = Len(d)
      OBVIOUS
    <2>1. l \in Nat /\ m \in 0..l /\ m # l
      BY ZenonT(30), <1>1, <1>3, <2>0
    <2>2. l # 0 /\ m \in 0..(l - 1)
      BY <2>1
    <2>3. d # Root
      BY <2>0, <2>2 DEF Root
    <2>4. d \in DOMAIN t
      BY <2>3 DEF IsDir
    <2> QED
      BY <2>0, <2>2, <2>4 DEF IsTree
  <1> QED
    BY <1>2, <1>3

(* The tree of one unit changes, and the lists that are trusted are not of  *)
(* what changes.                                                            *)
LEMMA TreeRight ==
  ASSUME NEW f, FsOK(f), NEW h, Right(f, h), NEW u \in DOMAIN f.cache, NEW s, IsTree(s),
         \A p \in Seq(Names) : ~Distrusted(f, u, p) => SameIn(h[u], s, p)
  PROVE  Right(f, [h EXCEPT ![u] = s])
  <1> DEFINE k == [h EXCEPT ![u] = s]
  <1>1. DOMAIN h = Units /\ \A v \in Units : IsTree(h[v])
    BY DEF Right, Trees
  <1>2. u \in Units
    BY HostUnits
  <1>3. DOMAIN k = Units /\ k[u] = s /\ \A v \in Units : v # u => k[v] = h[v]
    BY <1>1, <1>2
  <1> HIDE DEF k
  <1>4. Trees(k)
    BY <1>1, <1>3 DEF Trees
  <1>5. ASSUME NEW v \in DOMAIN f.cache, NEW i \in DOMAIN f.cache[v],
               ~f.cache[v][i].refresh, ~f.cache[v][i].kept
        PROVE  SameIn(h[v], k[v], f.cache[v][i].path)
    <2> DEFINE p == f.cache[v][i].path
    <2>1. v \in Units
      BY HostUnits
    <2>2. CASE v = u
      <3>1. p \in Seq(Names)
        BY DEF FsOK, PathRing, IsPath
      <3>2. ~Distrusted(f, u, p)
        BY <1>5, <2>2 DEF Distrusted, CachedAt
      <3> QED
        BY <1>3, <2>2, <3>1, <3>2
    <2>3. CASE v # u
      BY <1>3, <2>1, <2>3 DEF SameIn
    <2> QED
      BY <2>2, <2>3
  <1> QED
    BY <1>4, <1>5, HostRight DEF k

LEMMA PutRight ==
  ASSUME NEW f, FsOK(f), NEW h, Right(f, h), NEW u \in DOMAIN f.cache, NEW d \in Seq(Names),
         NEW n \in Names, Append(d, n) \notin DOMAIN h[u], IsDir(h[u], d), Distrusted(f, u, d),
         NEW node \in [dir : BOOLEAN, ver : 0..1]
  PROVE  Right(f, Put(h, u, Append(d, n), node))
  <1> DEFINE t == h[u]
  <1>0. PICK q : q = Append(d, n)
    OBVIOUS
  <1>1. IsTree(t) /\ u \in DOMAIN h
    BY HostUnits DEF Right, Trees
  <1> HIDE DEF t
  <1>2. PICK s : s = [r \in DOMAIN t \cup {q} |-> IF r = q THEN node ELSE t[r]]
    OBVIOUS
  <1>3. Put(h, u, q, node) = [h EXCEPT ![u] = s]
    BY <1>1, <1>2 DEF Put, t
  <1>4. DOMAIN s = DOMAIN t \cup {q} /\ s[q] = node /\ \A r \in DOMAIN t : r # q => s[r] = t[r]
    BY <1>2
  <1>5. q \notin DOMAIN t /\ IsDir(t, d)
    BY <1>0 DEF t
  <1>6. /\ q \in Seq(Names) \ {Root} /\ Len(q) = Len(d) + 1 /\ Len(d) \in Nat
        /\ \A m \in 0..Len(d) : SubSeq(q, 1, m) = SubSeq(d, 1, m)
    BY <1>0, AppendPoints
  <1>7. \A p : IsDir(t, p) => IsDir(s, p)
    BY <1>4, <1>5 DEF IsDir
  <1>8. IsTree(s)
    <2>1. ASSUME NEW r \in DOMAIN t
          PROVE  /\ r \in Seq(Names) \ {Root} /\ s[r] \in [dir : BOOLEAN, ver : 0..1]
                 /\ \A m \in 0..(Len(r) - 1) : IsDir(s, SubSeq(r, 1, m))
      BY <1>1, <1>4, <1>5, <1>7 DEF IsTree
    <2>2. ASSUME NEW m \in 0..(Len(q) - 1)
          PROVE  IsDir(s, SubSeq(q, 1, m))
      <3>1. m \in 0..Len(d)
        BY <1>6
      <3>2. IsDir(t, SubSeq(d, 1, m))
        BY <1>1, <1>5, <3>1, DirsAbove
      <3> QED
        BY <1>6, <1>7, <3>1, <3>2
    <2> QED
      BY <1>4, <1>6, <2>1, <2>2 DEF IsTree
  <1>9. ASSUME NEW p \in Seq(Names), ~Distrusted(f, u, p)
        PROVE  SameIn(t, s, p)
    <2>1. p # d
      BY <1>9
    <2>2. \A x \in Names : Append(p, x) # q
      BY <1>0, <2>1, AppendInjective
    <2> QED
      BY <1>4, <2>2 DEF SameIn
  <1>10. \A p \in Seq(Names) : ~Distrusted(f, u, p) => SameIn(h[u], s, p)
    BY <1>9 DEF t
  <1>11. Right(f, [h EXCEPT ![u] = s])
    BY <1>8, <1>10, TreeRight
  <1> QED
    BY <1>0, <1>3, <1>11

LEMMA DropRight ==
  ASSUME NEW f, FsOK(f), NEW h, Right(f, h), NEW u \in DOMAIN f.cache, NEW d \in Seq(Names),
         NEW n \in Names, Append(d, n) \in DOMAIN h[u], Distrusted(f, u, d),
         ~h[u][Append(d, n)].dir \/ Contents(h[u], Append(d, n)) = {}
  PROVE  Right(f, Drop(h, u, Append(d, n)))
  <1> DEFINE t == h[u]
  <1>0. PICK q : q = Append(d, n)
    OBVIOUS
  <1>1. IsTree(t) /\ u \in DOMAIN h
    BY HostUnits DEF Right, Trees
  <1>2. q \in DOMAIN t /\ (~t[q].dir \/ Contents(t, q) = {})
    BY <1>0
  <1> HIDE DEF t
  <1>3. PICK s : s = [r \in DOMAIN t \ {q} |-> t[r]]
    OBVIOUS
  <1>4. Drop(h, u, q) = [h EXCEPT ![u] = s]
    BY <1>1, <1>3 DEF Drop, t
  <1>5. DOMAIN s = DOMAIN t \ {q} /\ \A r \in DOMAIN t : r # q => s[r] = t[r]
    BY <1>3
  <1>6. q \in Seq(Names) \ {Root}
    BY <1>0, AppendPoints
  <1>7. ASSUME NEW r \in DOMAIN t, NEW m \in 0..(Len(r) - 1)
        PROVE  SubSeq(r, 1, m) # q
    <2> SUFFICES ASSUME SubSeq(r, 1, m) = q
                 PROVE  FALSE
      OBVIOUS
    <2>1. r \in Seq(Names) /\ Len(r) \in Nat /\ \A k \in 0..(Len(r) - 1) : IsDir(t, SubSeq(r, 1, k))
      BY <1>1 DEF IsTree
    <2>2. t[q].dir
      BY <1>6, <2>1 DEF IsDir
    <2> DEFINE x == r[m + 1]
               y == SubSeq(r, 1, m + 1)
    <2>3. m \in Nat /\ m + 1 \in 1..Len(r) /\ m \in 0..Len(r) /\ m + 1 \in 0..Len(r)
      BY <2>1
    <2>4. x \in Names
      BY <2>1, <2>3
    <2>5. Len(q) = m /\ \A i \in 1..m : q[i] = r[i]
      BY <2>1, <2>3, SubSeqPoints
    <2>6. y \in Seq(Names) /\ Len(y) = m + 1 /\ \A i \in 1..(m + 1) : y[i] = r[i]
      BY <2>1, <2>3, SubSeqPoints
    <2>7. PICK z : z = Append(q, x)
      OBVIOUS
    <2>8. z \in Seq(Names) /\ Len(z) = m + 1 /\ z[m + 1] = x /\ \A i \in 1..m : z[i] = q[i]
      BY <1>6, <2>4, <2>5, <2>7, AppendPoints
    <2>9. \A i \in 1..(m + 1) : i \in 1..m \/ i = m + 1
      BY <2>3
    <2> HIDE DEF x, y
    <2>10. \A i \in 1..Len(z) : z[i] = y[i]
      BY <2>5, <2>6, <2>8, <2>9 DEF x
    <2>11. z = y
      BY <2>6, <2>8, <2>10, SamePoints
    <2>12. y \in DOMAIN t
      <3>1. CASE m + 1 = Len(r)
        <4>1. y = r
          BY <2>1, <2>6, <3>1, SamePoints
        <4> QED
          BY <4>1
      <3>2. CASE m + 1 # Len(r)
        <4>1. m + 1 \in 0..(Len(r) - 1)
          BY <2>1, <2>3, <3>2
        <4>2. IsDir(t, y)
          BY <2>1, <4>1 DEF y
        <4>3. y # Root
          BY <2>3, <2>6 DEF Root
        <4> QED
          BY <4>2, <4>3 DEF IsDir
      <3> QED
        BY <3>1, <3>2
    <2>13. x \in Contents(t, q)
      BY <2>4, <2>7, <2>11, <2>12 DEF Contents
    <2> QED
      BY <1>2, <2>2, <2>13
  <1>8. \A p : IsDir(t, p) /\ p # q => IsDir(s, p)
    BY <1>5 DEF IsDir
  <1>9. IsTree(s)
    <2>1. ASSUME NEW r \in DOMAIN s
          PROVE  /\ r \in Seq(Names) \ {Root} /\ s[r] \in [dir : BOOLEAN, ver : 0..1]
                 /\ \A m \in 0..(Len(r) - 1) : IsDir(s, SubSeq(r, 1, m))
      BY <1>1, <1>5, <1>7, <1>8 DEF IsTree
    <2> QED
      BY <2>1 DEF IsTree
  <1>10. ASSUME NEW p \in Seq(Names), ~Distrusted(f, u, p)
         PROVE  SameIn(t, s, p)
    <2>1. p # d
      BY <1>10
    <2>2. \A x \in Names : Append(p, x) # q
      BY <1>0, <2>1, AppendInjective
    <2> QED
      BY <1>5, <2>2 DEF SameIn
  <1>11. \A p \in Seq(Names) : ~Distrusted(f, u, p) => SameIn(h[u], s, p)
    BY <1>10 DEF t
  <1>12. Right(f, [h EXCEPT ![u] = s])
    BY <1>9, <1>11, TreeRight
  <1> QED
    BY <1>0, <1>4, <1>12

(* The tree that a rename of a to b leaves of t.                            *)
Staying(t, a, b) == {q \in DOMAIN t : ~IsPrefix(a, q) /\ ~IsPrefix(b, q)}
Moving(t, a, b) == {b \o Below(a, q) : q \in {r \in DOMAIN t : IsPrefix(a, r)}}
Moved(t, a, b) ==
  [q \in Staying(t, a, b) \cup Moving(t, a, b) |->
     IF q \in Moving(t, a, b) THEN t[a \o Below(b, q)] ELSE t[q]]

(* What is moved comes from below a and goes below b.                       *)
Comes(q, t, a, b) == \E x \in Seq(Names) : q = b \o x /\ a \o x \in DOMAIN t

LEMMA MovingFacts ==
  ASSUME NEW t, IsTree(t), NEW a \in Seq(Names), NEW b \in Seq(Names), NEW q
  PROVE  q \in Moving(t, a, b) <=> Comes(q, t, a, b)
  <1>1. ASSUME q \in Moving(t, a, b)
        PROVE  Comes(q, t, a, b)
    <2>1. PICK r \in DOMAIN t : IsPrefix(a, r) /\ q = b \o Below(a, r)
      BY <1>1 DEF Moving
    <2>2. r \in Seq(Names)
      BY DEF IsTree
    <2>3. Below(a, r) \in Seq(Names) /\ r = a \o Below(a, r)
      BY <2>1, <2>2, PrefixJoined
    <2> QED
      BY <2>1, <2>3 DEF Comes
  <1>2. ASSUME NEW x \in Seq(Names), q = b \o x, a \o x \in DOMAIN t
        PROVE  q \in Moving(t, a, b)
    <2>1. PICK r \in DOMAIN t : r = a \o x
      BY <1>2
    <2>2. IsPrefix(a, r) /\ Below(a, r) = x
      BY <2>1, JoinedPrefix
    <2>3. q = b \o Below(a, r)
      BY <1>2, <2>2
    <2> QED
      BY <2>2, <2>3 DEF Moving
  <1> QED
    BY <1>1, <1>2 DEF Comes

MovedOver(t, s, a, b) ==
  /\ DOMAIN s = Staying(t, a, b) \cup Moving(t, a, b)
  /\ \A q \in Moving(t, a, b) : q \in Seq(Names) /\ IsPrefix(b, q)
  /\ \A x \in Seq(Names) : a \o x \in DOMAIN t => b \o x \in DOMAIN s /\ s[b \o x] = t[a \o x]
  /\ \A q \in Staying(t, a, b) : q \in DOMAIN t /\ q \in Seq(Names) /\ s[q] = t[q]

LEMMA MovedFacts ==
  ASSUME NEW t, IsTree(t), NEW a \in Seq(Names), NEW b \in Seq(Names), NEW s, s = Moved(t, a, b)
  PROVE  MovedOver(t, s, a, b)
  <1>1. DOMAIN s = Staying(t, a, b) \cup Moving(t, a, b)
    BY DEF Moved
  <1>2. ASSUME NEW q \in Moving(t, a, b)
        PROVE  q \in Seq(Names) /\ IsPrefix(b, q)
    <2>1. PICK x \in Seq(Names) : q = b \o x /\ a \o x \in DOMAIN t
      BY ZenonT(30), <1>2, MovingFacts DEF Comes
    <2>2. b \o x \in Seq(Names) /\ IsPrefix(b, b \o x)
      BY JoinedPrefix, JoinedPoints
    <2> QED
      BY <2>1, <2>2
  <1>3. ASSUME NEW x \in Seq(Names), a \o x \in DOMAIN t
        PROVE  b \o x \in DOMAIN s /\ s[b \o x] = t[a \o x]
    <2>1. PICK q : q = b \o x
      OBVIOUS
    <2>2. q \in Moving(t, a, b)
      BY <1>3, <2>1, MovingFacts DEF Comes
    <2>3. Below(b, q) = x
      BY <2>1, JoinedPrefix
    <2>4. q \in DOMAIN s /\ s[q] = t[a \o Below(b, q)]
      BY <2>2 DEF Moved
    <2> QED
      BY <2>1, <2>3, <2>4
  <1>4. ASSUME NEW q \in Staying(t, a, b)
        PROVE  q \in DOMAIN t /\ q \in Seq(Names) /\ s[q] = t[q]
    <2>1. q \in DOMAIN t /\ ~IsPrefix(b, q)
      BY DEF Staying
    <2>2. q \notin Moving(t, a, b)
      BY <1>2, <2>1
    <2>3. s[q] = t[q]
      BY <2>2 DEF Moved
    <2> QED
      BY <2>1, <2>3 DEF IsTree
  <1> QED
    BY <1>1, <1>2, <1>3, <1>4 DEF MovedOver

(* It is a tree: b is in a directory that stays.                            *)
LEMMA MovedTree ==
  ASSUME NEW t, IsTree(t), NEW a \in Seq(Names), a # Root, NEW d \in Seq(Names), NEW n \in Names,
         NEW b, b = Append(d, n), a \in DOMAIN t, IsDir(t, d), ~t[a].dir \/ ~IsPrefix(a, b)
  PROVE  IsTree(Moved(t, a, b))
  <1>0. PICK s : s = Moved(t, a, b)
    OBVIOUS
  <1>1. /\ b \in Seq(Names) /\ Len(b) = Len(d) + 1 /\ Len(d) \in Nat /\ Len(a) \in Nat
        /\ \A m \in 0..Len(d) : SubSeq(b, 1, m) = SubSeq(d, 1, m)
    BY AppendPoints
  <1>2. /\ DOMAIN s = Staying(t, a, b) \cup Moving(t, a, b)
        /\ \A q \in Moving(t, a, b) : q \in Seq(Names) /\ IsPrefix(b, q)
        /\ \A x \in Seq(Names) : a \o x \in DOMAIN t => b \o x \in DOMAIN s /\ s[b \o x] = t[a \o x]
        /\ \A q \in Staying(t, a, b) : q \in DOMAIN t /\ q \in Seq(Names) /\ s[q] = t[q]
    <2>1. b \in Seq(Names)
      BY <1>1
    <2>2. MovedOver(t, s, a, b)
      BY <1>0, <2>1, MovedFacts
    <2> QED
      BY <2>2 DEF MovedOver
  <1>3. \A q \in DOMAIN t : /\ q \in Seq(Names) \ {Root} /\ t[q] \in [dir : BOOLEAN, ver : 0..1]
                            /\ \A m \in 0..(Len(q) - 1) : IsDir(t, SubSeq(q, 1, m))
    BY DEF IsTree
  <1>4. ASSUME NEW q, q = Root \/ (q \in DOMAIN t /\ ~IsPrefix(a, q) /\ ~IsPrefix(b, q)), IsDir(t, q)
        PROVE  IsDir(s, q)
    <2>1. CASE q = Root
      BY <2>1 DEF IsDir
    <2>2. CASE q # Root
      <3>1. q \in Staying(t, a, b) /\ t[q].dir
        BY <1>4, <2>2 DEF Staying, IsDir
      <3> QED
        BY <1>2, <3>1 DEF IsDir
    <2> QED
      BY <2>1, <2>2
  <1>5. ASSUME NEW q \in Staying(t, a, b)
        PROVE  /\ q \in Seq(Names) \ {Root} /\ s[q] \in [dir : BOOLEAN, ver : 0..1]
               /\ \A m \in 0..(Len(q) - 1) : IsDir(s, SubSeq(q, 1, m))
    <2>1. q \in DOMAIN t /\ q \in Seq(Names) /\ s[q] = t[q] /\ ~IsPrefix(a, q) /\ ~IsPrefix(b, q)
      BY <1>2 DEF Staying
    <2>2. ASSUME NEW m \in 0..(Len(q) - 1)
          PROVE  IsDir(s, SubSeq(q, 1, m))
      <3>1. PICK p : p = SubSeq(q, 1, m)
        OBVIOUS
      <3>2. m \in 0..Len(q)
        BY <2>1
      <3>3. ~IsPrefix(a, p) /\ ~IsPrefix(b, p)
        BY <1>1, <2>1, <3>1, <3>2, PrefixShort
      <3>4. IsDir(t, p)
        BY <1>3, <2>1, <3>1
      <3>5. IsDir(s, p)
        BY <1>4, <3>3, <3>4 DEF IsDir
      <3> QED
        BY <3>1, <3>5
    <2> QED
      BY <1>3, <2>1, <2>2
  <1>6. ASSUME NEW m \in 0..Len(d)
        PROVE  IsDir(s, SubSeq(b, 1, m))
    <2>1. PICK p : p = SubSeq(b, 1, m)
      OBVIOUS
    <2>2. m \in 0..Len(b) /\ m < Len(b) /\ m \in Nat
      BY <1>1
    <2>3. p \in Seq(Names) /\ Len(p) = m
      BY <1>1, <2>1, <2>2, SubSeqPoints
    <2>4. IsDir(t, p)
      BY <1>1, <2>1, DirsAbove
    <2>5. ~IsPrefix(b, p)
      <3>1. IsPrefix(b, p) => Len(b) <= m
        BY <1>1, <2>3, PrefixPoints
      <3> QED
        BY <1>1, <2>2, <3>1
    <2>6. ~IsPrefix(a, p)
      <3> SUFFICES ASSUME IsPrefix(a, p)
                   PROVE  FALSE
        OBVIOUS
      <3>1. IsPrefix(a, b)
        BY <1>1, <2>1, <2>2, PrefixShort
      <3>2. ~t[a].dir
        BY <3>1
      <3>3. Len(a) <= Len(p) /\ \A i \in 1..Len(a) : a[i] = p[i]
        BY <2>3, PrefixPoints
      <3>4. Len(a) \in 0..Len(p)
        BY <1>1, <2>2, <2>3, <3>3
      <3>5. PICK c : c = SubSeq(p, 1, Len(a))
        OBVIOUS
      <3>6. c \in Seq(Names) /\ Len(c) = Len(a) /\ \A i \in 1..Len(a) : c[i] = p[i]
        BY <2>3, <3>4, <3>5, SubSeqPoints
      <3>7. c = a
        BY <3>3, <3>6, SamePoints
      <3>8. IsDir(t, a)
        BY <2>3, <2>4, <3>4, <3>5, <3>7, DirsAbove
      <3> QED
        BY <3>2, <3>8 DEF IsDir
    <2>7. IsDir(s, p)
      BY <1>4, <2>4, <2>5, <2>6 DEF IsDir
    <2> QED
      BY <2>1, <2>7
  <1>7. ASSUME NEW q \in Moving(t, a, b)
        PROVE  /\ q \in Seq(Names) \ {Root} /\ s[q] \in [dir : BOOLEAN, ver : 0..1]
               /\ \A m \in 0..(Len(q) - 1) : IsDir(s, SubSeq(q, 1, m))
    <2>0. b \in Seq(Names)
      BY <1>1
    <2>1. PICK x \in Seq(Names) : q = b \o x /\ a \o x \in DOMAIN t
      <3>1. Comes(q, t, a, b)
        BY <1>7, <2>0, MovingFacts
      <3> QED
        BY <3>1 DEF Comes
    <2>2. Len(x) \in Nat /\ Len(q) = Len(b) + Len(x) /\ q \in Seq(Names)
      <3>1. b \o x \in Seq(Names) /\ Len(b \o x) = Len(b) + Len(x)
        BY <2>0, <2>1, JoinedPoints
      <3>2. Len(x) \in Nat
        BY <2>1
      <3> QED
        BY <2>1, <3>1, <3>2
    <2>3. q # Root
      <3>1. Len(q) # 0
        BY <1>1, <2>2
      <3> QED
        BY <3>1 DEF Root
    <2>4. s[q] \in [dir : BOOLEAN, ver : 0..1]
      BY <1>2, <1>3, <2>1
    <2>5. ASSUME NEW m \in 0..(Len(q) - 1)
          PROVE  IsDir(s, SubSeq(q, 1, m))
      <3>0. m \in Nat /\ m \in 0..(Len(b) + Len(x))
        BY <1>1, <2>2
      <3>1. CASE m < Len(b)
        <4>1. m \in 0..Len(d) /\ m <= Len(b)
          BY <1>1, <3>0, <3>1
        <4>2. SubSeq(q, 1, m) = SubSeq(b, 1, m)
          BY <1>1, <2>1, <3>0, <4>1, JoinedStarts
        <4> QED
          BY <1>6, <4>1, <4>2
      <3>2. CASE ~(m < Len(b))
        <4>1. PICK j : j = m - Len(b)
          OBVIOUS
        <4>2. j \in 0..Len(x) /\ j \in Nat /\ j # Len(x) /\ m >= Len(b)
          BY <1>1, <2>2, <3>0, <3>2, <4>1
        <4>3. PICK y : y = SubSeq(x, 1, j)
          OBVIOUS
        <4>4. y \in Seq(Names) /\ Len(y) = j
          BY <4>2, <4>3, SubSeqPoints
        <4>5. SubSeq(q, 1, m) = b \o y
          BY <1>1, <2>1, <3>0, <4>1, <4>2, <4>3, JoinedStarts
        <4>6. PICK c : c = a \o x
          OBVIOUS
        <4>7. c \in DOMAIN t /\ Len(c) = Len(a) + Len(x)
          BY <2>1, <4>6, JoinedPoints
        <4>8. PICK l : l = Len(a) + j
          OBVIOUS
        <4>9. l \in 0..(Len(a) + Len(x)) /\ l >= Len(a) /\ l - Len(a) = j /\ l \in 0..(Len(c) - 1)
          BY <1>1, <2>2, <4>2, <4>7, <4>8
        <4>10. SubSeq(c, 1, l) = a \o y
          BY <4>3, <4>6, <4>9, JoinedStarts
        <4>11. IsDir(t, a \o y)
          BY <1>3, <4>7, <4>9, <4>10
        <4>12. a \o y # Root
          <5>1. Len(a) # 0
            <6>1. a = <<>> \/ Len(a) # 0
              BY EmptySeq
            <6> QED
              BY <6>1 DEF Root
          <5>2. Len(a \o y) # 0
            BY <1>1, <4>2, <4>4, <5>1, JoinedPoints
          <5> QED
            BY <5>2 DEF Root
        <4>13. a \o y \in DOMAIN t /\ t[a \o y].dir
          BY <4>11, <4>12 DEF IsDir
        <4>14. b \o y \in DOMAIN s /\ s[b \o y].dir
          BY <1>2, <4>4, <4>13
        <4> QED
          BY <4>5, <4>14 DEF IsDir
      <3> QED
        BY <3>1, <3>2
    <2> QED
      BY <2>2, <2>3, <2>4, <2>5
  <1>8. IsTree(s)
    BY <1>2, <1>5, <1>7 DEF IsTree
  <1> QED
    BY <1>0, <1>8

LEMMA RenamedRight ==
  ASSUME NEW f, FsOK(f), NEW h, Right(f, h), NEW u \in DOMAIN f.cache,
         NEW d \in Seq(Names), NEW n \in Names, NEW e \in Seq(Names), NEW m \in Names,
         NEW a, a = Append(d, n), NEW b, b = Append(e, m), a # b, CanRename(h[u], a, b),
         Distrusted(f, u, d), Distrusted(f, u, e),
         \A p \in Seq(Names) : IsPrefix(a, p) \/ IsPrefix(b, p) => Distrusted(f, u, p)
  PROVE  Right(f, Renamed(h, u, a, b))
  <1> DEFINE t == h[u]
  <1>1. IsTree(t) /\ u \in DOMAIN h
    BY HostUnits DEF Right, Trees
  <1>2. a \in Seq(Names) /\ a # Root /\ b \in Seq(Names)
    BY AppendPoints
  <1>3. Front(b) = e
    <2>1. Len(b) = Len(e) + 1 /\ Len(e) \in Nat /\ SubSeq(b, 1, Len(e)) = SubSeq(e, 1, Len(e))
          /\ SubSeq(e, 1, Len(e)) = e
      BY AppendPoints
    <2>2. Len(b) - 1 = Len(e)
      BY <2>1
    <2> QED
      BY <2>1, <2>2 DEF Front
  <1>4. a \in DOMAIN t /\ IsDir(t, e) /\ (~t[a].dir \/ ~IsPrefix(a, b))
    BY <1>2, <1>3 DEF CanRename, Exists
  <1>5. Renamed(h, u, a, b) = [h EXCEPT ![u] = Moved(t, a, b)]
    BY DEF Renamed, Moved, Moving, Staying
  <1> HIDE DEF t
  <1>6. PICK s : s = Moved(t, a, b)
    OBVIOUS
  <1>7. IsTree(s)
    BY <1>1, <1>2, <1>4, <1>6, MovedTree
  <1>8. /\ DOMAIN s = Staying(t, a, b) \cup Moving(t, a, b)
        /\ \A q \in Moving(t, a, b) : q \in Seq(Names) /\ IsPrefix(b, q)
        /\ \A q \in Staying(t, a, b) : q \in DOMAIN t /\ q \in Seq(Names) /\ s[q] = t[q]
    <2>1. MovedOver(t, s, a, b)
      BY <1>1, <1>2, <1>6, MovedFacts
    <2> QED
      BY <2>1 DEF MovedOver
  <1>9. ASSUME NEW p \in Seq(Names), ~Distrusted(f, u, p)
        PROVE  SameIn(t, s, p)
    <2>1. p # d /\ p # e /\ ~IsPrefix(a, p) /\ ~IsPrefix(b, p)
      BY <1>9
    <2>2. ASSUME NEW x \in Names
          PROVE  ~IsPrefix(a, Append(p, x)) /\ ~IsPrefix(b, Append(p, x))
      <3>1. Append(p, x) # a /\ Append(p, x) # b
        BY <2>1, AppendInjective
      <3>2. a \in Seq(Names) /\ b \in Seq(Names)
        BY <1>2
      <3>3. IsPrefix(a, Append(p, x)) => a = Append(p, x) \/ IsPrefix(a, p)
        BY <3>2, PrefixAppend
      <3>4. IsPrefix(b, Append(p, x)) => b = Append(p, x) \/ IsPrefix(b, p)
        BY <3>2, PrefixAppend
      <3> QED
        BY <2>1, <3>1, <3>3, <3>4
    <2>3. ASSUME NEW x \in Names
          PROVE  /\ Append(p, x) \in DOMAIN t <=> Append(p, x) \in DOMAIN s
                 /\ Append(p, x) \in DOMAIN t => s[Append(p, x)].dir = t[Append(p, x)].dir
      BY <1>8, <2>2 DEF Staying
    <2> QED
      BY <2>3 DEF SameIn
  <1>10. \A p \in Seq(Names) : ~Distrusted(f, u, p) => SameIn(h[u], s, p)
    BY <1>9 DEF t
  <1>11. Right(f, [h EXCEPT ![u] = s])
    BY <1>7, <1>10, TreeRight
  <1> QED
    BY <1>5, <1>6, <1>11

-----------------------------------------------------------------------------
(* Calls: the lists stay right, and the positions of the searches too      *)

Well(f, h) == FsOK(f) /\ Right(f, h)

(* The entries of p that the host has before the step, and still after it.  *)
(* The trees h of a lookup that the step makes have them too.               *)
Lasting(u, p) == Entries(host[u], p) \cap Entries(host'[u], p)
Seen(h) == \A u, p : Lasting(u, p) \subseteq Entries(h[u], p)

(* They are not lost from the lists.                                        *)
Carried(f, g) ==
  \A u \in DOMAIN f.cache : \A p : \A e \in Lasting(u, p) :
    Has(f.cache[u], p, e) => Has(g.cache[u], p, e)

(* A call leaves g of f, and k of the host trees.                           *)
Upholds(f, g, k) ==
  /\ Well(g, k) /\ DOMAIN g.cache = DOMAIN f.cache /\ g.option = f.option
  /\ Pointed(f) => Pointed(g)
  /\ Carried(f, g)

Upholding(f, r) == Upholds(f, r.fs, r.host)

(* Only open files (and sectors) change.                                    *)
Fcbed(f, g) ==
  g.cache = f.cache /\ g.files = f.files /\ g.gid = f.gid /\ g.option = f.option

LEMMA UpholdsNothing ==
  ASSUME NEW f, NEW h, Well(f, h)
  PROVE  Upholds(f, f, h)
  BY DEF Upholds, Carried

LEMMA UpholdsTwice ==
  ASSUME NEW f, NEW g, NEW h, Upholds(f, g, h), NEW x, NEW y, Upholds(g, x, y)
  PROVE  Upholds(f, x, y)
  BY DEF Upholds, Carried

LEMMA UpholdsOn ==
  ASSUME NEW f, NEW g, NEW h, Upholds(f, g, h), NEW u \in DOMAIN f.cache
  PROVE  Well(g, h) /\ FsOK(g) /\ Right(g, h) /\ u \in DOMAIN g.cache
  BY DEF Upholds, Well

(* Lists that the lookup of any tree leaves like this have what they had.   *)
LEMMA LooksCarried ==
  ASSUME NEW f, NEW u \in DOMAIN f.cache, NEW g, NEW t, Looks(f, g, u, t),
         \A p : Lasting(u, p) \subseteq Entries(t, p)
  PROVE  Carried(f, g)
  <1> SUFFICES ASSUME NEW v \in DOMAIN f.cache, NEW p, NEW e \in Lasting(v, p), Has(f.cache[v], p, e)
               PROVE  Has(g.cache[v], p, e)
    BY DEF Carried
  <1>1. CASE v = u
    BY <1>1 DEF Looks
  <1>2. CASE v # u
    BY <1>2 DEF Looks
  <1> QED
    BY <1>1, <1>2

LEMMA LooksUpholds ==
  ASSUME NEW f, NEW h, Well(f, h), NEW u \in DOMAIN f.cache, NEW g, Looks(f, g, u, h[u]),
         NEW t, Looks(f, g, u, t), \A p : Lasting(u, p) \subseteq Entries(t, p)
  PROVE  Upholds(f, g, h)
  <1>1. FsOK(g) /\ DOMAIN g.cache = DOMAIN f.cache /\ g.option = f.option
    BY DEF Looks, LookedUp, FsOK, Well
  <1>2. \A v \in DOMAIN g.cache : ListsOf(g.cache[v], h[v])
    BY <1>1 DEF Looks, Well, Right
  <1>3. Carried(f, g)
    BY LooksCarried
  <1> QED
    BY <1>1, <1>2, <1>3 DEF Upholds, Well, Right, Looks

LEMMA UnitTree ==
  ASSUME NEW f, NEW h, Well(f, h), NEW u \in DOMAIN f.cache
  PROVE  FsOK(f) /\ IsTree(h[u])
  BY HostUnits DEF Well, Right, Trees

LEMMA FindUpholds ==
  ASSUME NEW f, NEW h, Well(f, h), Seen(h), NEW u \in DOMAIN f.cache, NEW d \in Seq(Names), NEW n, NEW attr
  PROVE  Upholds(f, Find(f, u, h[u], d).f, h) /\ Upholds(f, FindFile(f, h, u, d, n, attr).f, h)
  <1>1. PICK t : t = h[u]
    OBVIOUS
  <1>2. FsOK(f) /\ IsTree(t)
    BY <1>1, UnitTree
  <1>3. Looks(f, Find(f, u, t, d).f, u, t)
    BY <1>2, FindLooks
  <1>4. PICK g : g = Find(f, u, t, d).f
    OBVIOUS
  <1>5. Upholds(f, g, h)
    BY <1>1, <1>3, <1>4, LooksUpholds DEF Seen
  <1>6. FindFile(f, h, u, d, n, attr).f = g
    BY <1>1, <1>4 DEF FindFile
  <1> QED
    BY <1>1, <1>4, <1>5, <1>6

LEMMA CleanUpholds ==
  ASSUME NEW f, NEW h, Well(f, h), NEW u \in DOMAIN f.cache, NEW p
  PROVE  /\ Upholds(f, CleanCache(f, u, p), h) /\ Upholds(f, CleanCacheChild(f, u, p), h)
         /\ Upholds(f, DeleteCache(f, u, p), h)
  <1>1. PICK t : t = h[u]
    OBVIOUS
  <1>2. PICK t0 : t0 = host[u]
    OBVIOUS
  <1>3. FsOK(f) /\ \A q : Lasting(u, q) \subseteq Entries(t0, q)
    BY <1>2 DEF Well, Lasting
  <1>4. PICK x, y, z : x = CleanCache(f, u, p) /\ y = CleanCacheChild(f, u, p) /\ z = DeleteCache(f, u, p)
    OBVIOUS
  <1>5. /\ Looks(f, x, u, t) /\ Looks(f, y, u, t)
        /\ Looks(f, x, u, t0) /\ Looks(f, y, u, t0)
    BY <1>3, <1>4, CleanLooks
  <1>6. Looks(f, z, u, t) /\ Looks(f, z, u, t0)
    BY <1>3, <1>4, DeleteCacheLooks
  <1>7. Upholds(f, x, h) /\ Upholds(f, y, h)
    BY <1>1, <1>3, <1>5, LooksUpholds
  <1>8. Upholds(f, z, h)
    BY <1>1, <1>3, <1>6, LooksUpholds
  <1> QED
    BY <1>4, <1>7, <1>8

LEMMA FcbedUpholds ==
  ASSUME NEW f, NEW h, Well(f, h), NEW g, FsOK(g), Fcbed(f, g), NEW k, Right(f, k)
  PROVE  Upholds(f, g, k)
  BY DEF Upholds, Well, Right, Fcbed, Pointed, Carried

LEMMA HostUpholds ==
  ASSUME NEW f, NEW h, Well(f, h), NEW k, Right(f, k)
  PROVE  Upholds(f, f, k)
  BY DEF Upholds, Well, Carried

(* The lists of a path that is released are not trusted.                    *)
LEMMA ReleasedDistrusts ==
  ASSUME NEW f, FsOK(f), NEW u \in DOMAIN f.cache, NEW paths,
         NEW g, g = [f EXCEPT !.cache[u] = Released(@, paths)]
  PROVE  /\ \A p : Distrusted(f, u, p) => Distrusted(g, u, p)
         /\ \A p \in paths : Distrusted(g, u, p)
  <1> DEFINE r == f.cache[u]
  <1>1. PICK q : q = Released(r, paths)
    OBVIOUS
  <1>2. g.cache[u] = q
    BY <1>1 DEF FsOK, IsFs, FsFields
  <1>3. ASSUME NEW j \in DOMAIN r
        PROVE  /\ q[j].path = r[j].path /\ q[j].kept = r[j].kept
               /\ r[j].refresh \/ r[j].path \in paths => q[j].refresh
    <2>1. q[j] = IF r[j].path \in paths THEN [r[j] EXCEPT !.refresh = TRUE] ELSE r[j]
      BY <1>1 DEF Released
    <2>2. IsPath(r[j])
      BY DEF FsOK, PathRing
    <2> HIDE DEF r
    <2> QED
      BY <2>1, <2>2 DEF IsPath, PathFields
  <1>4. DOMAIN q = DOMAIN r
    BY <1>1 DEF Released
  <1> QED
    BY <1>2, <1>3, <1>4 DEF Distrusted, CachedAt

LEMMA CleanDistrusts ==
  ASSUME NEW f, FsOK(f), NEW u \in DOMAIN f.cache, NEW p
  PROVE  /\ Distrusted(CleanCache(f, u, p), u, p)
         /\ \A q : Distrusted(f, u, q) => Distrusted(CleanCache(f, u, p), u, q)
         /\ \A q : IsPrefix(p, q) => Distrusted(CleanCacheChild(f, u, p), u, q)
  <1>1. PICK g : g = [f EXCEPT !.cache[u] = Released(@, {p})]
    OBVIOUS
  <1>2. /\ \A q : Distrusted(f, u, q) => Distrusted(g, u, q)
        /\ Distrusted(g, u, p)
    BY <1>1, ReleasedDistrusts
  <1>3. CleanCache(f, u, p) = g
    BY <1>1 DEF CleanCache
  <1>4. PICK below : below = {q \in Paths(f.cache[u]) : IsPrefix(p, q)}
    OBVIOUS
  <1>5. PICK k : k = [f EXCEPT !.cache[u] = Released(@, below)]
    OBVIOUS
  <1>6. /\ \A q : Distrusted(f, u, q) => Distrusted(k, u, q)
        /\ \A q \in below : Distrusted(k, u, q)
    BY <1>5, ReleasedDistrusts
  <1>7. CleanCacheChild(f, u, p) = k
    BY <1>4, <1>5 DEF CleanCacheChild
  <1>8. ASSUME NEW q, IsPrefix(p, q)
        PROVE  Distrusted(k, u, q)
    <2>1. CASE q \in Paths(f.cache[u])
      BY <1>4, <1>6, <1>8, <2>1
    <2>2. CASE q \notin Paths(f.cache[u])
      <3>1. Distrusted(f, u, q)
        BY <2>2 DEF Paths, Distrusted, CachedAt
      <3> QED
        BY <1>6, <3>1
    <2> QED
      BY <2>1, <2>2
  <1> QED
    BY <1>2, <1>3, <1>7, <1>8

(* What a lookup has found is on the host, unless its list is not trusted.  *)
LEMMA FoundListed ==
  ASSUME NEW f, NEW h, Well(f, h), Seen(h), NEW u \in DOMAIN f.cache, NEW d \in Seq(Names), NEW n \in Names,
         NEW attr, NEW a, a = FindFile(f, h, u, d, n, attr), a.ok
  PROVE  Append(d, n) \in DOMAIN h[u] \/ Distrusted(a.f, u, d)
  <1>1. PICK b : b = Find(f, u, h[u], d)
    OBVIOUS
  <1>2. PICK list : list = b.f.cache[u][1].list
    OBVIOUS
  <1>3. a.f = b.f
    BY <1>1 DEF FindFile
  <1>4. b.ok
    <2>1. ~b.ok => ~FindFile(f, h, u, d, n, attr).ok
      BY ZenonT(30), <1>1 DEF FindFile
    <2> QED
      BY <2>1
  <1>5. FindFilename(list, n, attr) # {}
    <2>1. FindFile(f, h, u, d, n, attr).ok = (FindFilename(list, n, attr) # {})
      BY ZenonT(30), <1>1, <1>2, <1>4 DEF FindFile
    <2> QED
      BY <2>1
  <1>6. PICK i \in DOMAIN list : list[i].name = n
    BY <1>5 DEF FindFilename
  <1>7. FsOK(f)
    BY DEF Well
  <1>8. Standing(f, u, d, b)
    BY <1>1, <1>7, FindFacts
  <1>9. Upholds(f, b.f, h)
    BY <1>1, FindUpholds
  <1>10. Right(b.f, h) /\ u \in DOMAIN b.f.cache /\ PathRing(b.f.cache[u])
    BY <1>9, UpholdsOn DEF FsOK
  <1> DEFINE r == b.f.cache[u]
  <1>11. 1 \in DOMAIN r /\ r[1].path = d /\ \A j \in DOMAIN r : r[j].path = d => j = 1
    <2>1. Len(r) > 0 /\ r[1].path = d
      BY <1>4, <1>8 DEF Standing
    <2>2. 1 \in DOMAIN r
      BY <1>10, <2>1, SeqOfElements DEF PathRing
    <2> QED
      BY <1>10, <2>1, <2>2 DEF PathRing
  <1>12. CASE r[1].refresh \/ r[1].kept
    BY <1>3, <1>11, <1>12 DEF Distrusted, CachedAt
  <1>13. CASE ~r[1].refresh /\ ~r[1].kept
    <2>1. Listed(list, d, h[u])
      BY <1>2, <1>10, <1>11, <1>13 DEF Right, ListsOf, Lists
    <2>2. [name |-> n, dir |-> list[i].dir] \in Named(list)
      BY <1>6 DEF Named, ToSet
    <2>3. PICK m \in Contents(h[u], d) :
            [name |-> n, dir |-> list[i].dir] = [name |-> m, dir |-> h[u][Append(d, m)].dir]
      BY <2>1, <2>2 DEF Listed
    <2>4. n = m
      BY <2>3
    <2> QED
      BY <2>3, <2>4 DEF Contents
  <1> QED
    BY <1>12, <1>13

LEMMA RetUpholding ==
  ASSUME NEW f, NEW g, NEW h, Upholds(f, g, h), NEW code
  PROVE  Upholding(f, Ret(g, h, code))
  BY DEF Upholding, Ret

LEMMA OnUnitThere ==
  ASSUME NEW f, FsOK(f), NEW u \in DOMAIN f.cache, NEW h, NEW missing, NEW r
  PROVE  OnUnit(f, h, u, missing, r) = r
  <1>1. u \in 0..(f.units - 1) /\ f.units \in 0..DriveMax /\ DriveMax \in Nat
    BY HostAssumption DEF FsOK
  <1>2. ~(u >= DriveMax) /\ ~(u >= f.units)
    BY <1>1
  <1> QED
    BY <1>2 DEF OnUnit

LEMMA OnUnitUpholding ==
  ASSUME NEW f, NEW h, Well(f, h), NEW u \in Nat, NEW missing, NEW r,
         u \in DOMAIN f.cache => Upholding(f, r)
  PROVE  Upholding(f, OnUnit(f, h, u, missing, r))
  <1>1. FsOK(f)
    BY DEF Well
  <1>2. u < f.units => u \in DOMAIN f.cache
    BY <1>1, HostAssumption DEF FsOK
  <1>3. Upholding(f, Ret(f, h, "INVALIDUNIT")) /\ Upholding(f, Ret(f, h, missing))
    BY UpholdsNothing, RetUpholding
  <1>4. CASE u >= DriveMax
    BY <1>3, <1>4 DEF OnUnit
  <1>5. CASE ~(u >= DriveMax) /\ u >= f.units
    <2>1. u < DriveMax
      BY <1>5, HostAssumption
    <2> QED
      BY <2>1, <1>3, <1>5 DEF OnUnit
  <1>6. CASE ~(u >= DriveMax) /\ ~(u >= f.units)
    <2>1. u < f.units
      BY <1>1, <1>6 DEF FsOK
    <2>2. OnUnit(f, h, u, missing, r) = r
      BY <1>6 DEF OnUnit
    <2> QED
      BY <2>1, <2>2, <1>2
  <1> QED
    BY <1>4, <1>5, <1>6

LEMMA ChangedUpholds ==
  ASSUME NEW f, NEW g, NEW h, Upholds(f, g, h), NEW k, Right(g, k)
  PROVE  Upholds(f, g, k)
  BY DEF Upholds, Well

LEMMA FcbsFcbed ==
  ASSUME NEW f, FsOK(f), NEW x
  PROVE  Fcbed(f, [f EXCEPT !.fcbs = x])
  <1>1. IsFs(f)
    BY DEF FsOK
  <1> QED
    BY <1>1 DEF IsFs, FsFields, Fcbed

LEMMA FcbFirstFcbed ==
  ASSUME NEW f, FsOK(f), NEW c
  PROVE  Fcbed(f, [f EXCEPT !.fcbs[1] = c])
  <1>1. IsFs(f)
    BY DEF FsOK
  <1> QED
    BY <1>1 DEF IsFs, FsFields, Fcbed

(* The open files behind what a call has done.                              *)
LEMMA ServesUpholds ==
  ASSUME NEW f, NEW g, NEW h, Upholds(f, g, h), NEW x, Serves(g, x), Fcbed(g, x), NEW k, Right(g, k)
  PROVE  Upholds(f, x, k)
  <1>1. Well(g, h) /\ FsOK(x)
    BY DEF Upholds, Serves
  <1>2. Upholds(g, x, k)
    BY <1>1, FcbedUpholds
  <1> QED
    BY <1>2, UpholdsTwice

LEMMA UpholdsWell ==
  ASSUME NEW f, NEW g, NEW h, Upholds(f, g, h)
  PROVE  Well(g, h) /\ FsOK(g) /\ Right(g, h) /\ DOMAIN g.cache = DOMAIN f.cache
  BY DEF Upholds, Well

LEMMA SearchUpholds ==
  ASSUME NEW f, NEW h, Well(f, h), NEW k \in Keys, At(f.fcbs, k) # {}
  PROVE  LET g == FcbSearch(f, k)
         IN Upholds(f, g, h) /\ 1 \in DOMAIN g.fcbs /\ IsFcb(g.fcbs[1])
  <1>1. FsOK(f) /\ Upholds(f, f, h) /\ Right(f, h)
    BY UpholdsNothing DEF Well
  <1>2. PICK g : g = FcbSearch(f, k)
    OBVIOUS
  <1>3. Serves(f, g) /\ 1 \in DOMAIN g.fcbs /\ IsFcb(g.fcbs[1])
    BY <1>1, <1>2, FcbSearchFacts
  <1>4. Fcbed(f, g)
    BY <1>1, <1>2, FcbsFcbed DEF FcbSearch
  <1>5. Upholds(f, g, h)
    BY <1>1, <1>3, <1>4, ServesUpholds
  <1> QED
    BY <1>2, <1>3, <1>5

LEMMA FreeUpholding ==
  ASSUME NEW f, NEW g, NEW h, Upholds(f, g, h), 1 \in DOMAIN g.fcbs, NEW code
  PROVE  Upholding(f, FcbFree(g, h, code))
  <1>1. FsOK(g) /\ Right(g, h)
    BY UpholdsWell
  <1>2. PICK r : r = FcbFree(g, h, code)
    OBVIOUS
  <1>3. Serves(g, r.fs)
    BY <1>1, <1>2, FcbFreeFacts
  <1>4. PICK x, c : r.fs = [g EXCEPT !.fcbs = x] /\ r.host = Flushed(h, c)
    BY <1>2 DEF FcbFree, Ret
  <1>5. Fcbed(g, r.fs)
    BY <1>1, <1>4, FcbsFcbed
  <1>6. Right(g, r.host)
    BY <1>1, <1>4, FlushedRight
  <1>7. Upholds(f, r.fs, r.host)
    BY <1>3, <1>5, <1>6, ServesUpholds
  <1> QED
    BY <1>2, <1>7 DEF Upholding

LEMMA FirstUpholds ==
  ASSUME NEW f, NEW g, NEW h, Upholds(f, g, h), 1 \in DOMAIN g.fcbs, NEW c, IsFcb(c),
         c.key = g.fcbs[1].key
  PROVE  LET x == [g EXCEPT !.fcbs[1] = c]
         IN Upholds(f, x, h) /\ 1 \in DOMAIN x.fcbs
  <1>1. FsOK(g) /\ Right(g, h)
    BY UpholdsWell
  <1>2. PICK x : x = [g EXCEPT !.fcbs[1] = c]
    OBVIOUS
  <1>3. Serves(g, x) /\ 1 \in DOMAIN x.fcbs
    BY <1>1, <1>2, FcbUpdated
  <1>4. Fcbed(g, x)
    BY <1>1, <1>2, FcbFirstFcbed
  <1>5. Upholds(f, x, h)
    BY <1>1, <1>3, <1>4, ServesUpholds
  <1> QED
    BY <1>2, <1>3, <1>5

LEMMA SyncedUpholds ==
  ASSUME NEW f, NEW g, NEW h, Upholds(f, g, h), 1 \in DOMAIN g.fcbs, NEW places
  PROVE  LET x == Synced(g, places)
         IN Upholds(f, x, h) /\ 1 \in DOMAIN x.fcbs
  <1>1. FsOK(g) /\ Right(g, h)
    BY UpholdsWell
  <1>2. PICK x : x = Synced(g, places)
    OBVIOUS
  <1>3. Serves(g, g)
    BY <1>1, ServesNothing
  <1>4. Serves(g, x) /\ 1 \in DOMAIN x.fcbs
    BY <1>2, <1>3, SyncedServes
  <1>5. PICK t : x = [g EXCEPT !.fcbs = t]
    BY <1>2 DEF Synced
  <1>6. Fcbed(g, x)
    BY <1>1, <1>5, FcbsFcbed
  <1>7. Upholds(f, x, h)
    BY <1>1, <1>4, <1>6, ServesUpholds
  <1> QED
    BY <1>2, <1>4, <1>7

(* An FCB that may have no FILE.                                            *)
LEMMA OnStreamUpholding ==
  ASSUME NEW f, NEW g, NEW h, Upholds(f, g, h), NEW r, Upholding(f, r)
  PROVE  Upholding(f, OnStream(g, h, r))
  <1>1. Upholding(f, Ret(g, h, "CRASHED"))
    BY RetUpholding
  <1> QED
    BY <1>1 DEF OnStream

LEMMA AllocUpholds ==
  ASSUME NEW f, NEW h, Well(f, h), NEW u \in DOMAIN f.cache, NEW g, Upholds(f, g, h), LookedUp(f, g),
         NEW c, IsFcb(c), c.key # 0, At(f.fcbs, c.key) = {}
  PROVE  LET x == FcbAlloc(g, c)
         IN Upholds(f, x, h) /\ x.cache = g.cache /\ 1 \in DOMAIN x.fcbs /\ IsFcb(x.fcbs[1])
  <1>1. FsOK(f) /\ FsOK(g) /\ Right(g, h)
    BY UpholdsWell DEF Well
  <1>2. PICK x : x = FcbAlloc(g, c)
    OBVIOUS
  <1>3. g.fcbs = f.fcbs
    BY DEF LookedUp
  <1>4. Len(g.fcbs) > 0 /\ At(g.fcbs, c.key) = {}
    BY <1>1, <1>3, RingsThere
  <1>5. Serves(g, x) /\ 1 \in DOMAIN x.fcbs /\ IsFcb(x.fcbs[1])
    BY <1>1, <1>2, <1>4, FcbAllocFacts
  <1>6. Fcbed(g, x)
    BY <1>1, <1>2, FcbsFcbed DEF FcbAlloc
  <1>7. Upholds(f, x, h)
    BY <1>1, <1>5, <1>6, ServesUpholds
  <1> QED
    BY <1>2, <1>5, <1>6, <1>7 DEF Fcbed

(* A lookup, or a release of the cache, behind what a call has done.        *)
LEMMA UpholdsFind ==
  ASSUME NEW f, NEW g, NEW h, Upholds(f, g, h), Seen(h), NEW u \in DOMAIN f.cache, NEW d \in Seq(Names),
         NEW n, NEW attr
  PROVE  Upholds(f, Find(g, u, h[u], d).f, h) /\ Upholds(f, FindFile(g, h, u, d, n, attr).f, h)
  <1>1. Well(g, h) /\ u \in DOMAIN g.cache
    BY UpholdsWell
  <1>2. Upholds(g, Find(g, u, h[u], d).f, h) /\ Upholds(g, FindFile(g, h, u, d, n, attr).f, h)
    BY <1>1, FindUpholds
  <1> QED
    BY <1>2, UpholdsTwice

LEMMA UpholdsClean ==
  ASSUME NEW f, NEW g, NEW h, Upholds(f, g, h), NEW u \in DOMAIN f.cache, NEW p
  PROVE  /\ Upholds(f, CleanCache(g, u, p), h) /\ Upholds(f, CleanCacheChild(g, u, p), h)
         /\ Upholds(f, DeleteCache(g, u, p), h)
  <1>1. Well(g, h) /\ u \in DOMAIN g.cache
    BY UpholdsWell
  <1>2. /\ Upholds(g, CleanCache(g, u, p), h) /\ Upholds(g, CleanCacheChild(g, u, p), h)
        /\ Upholds(g, DeleteCache(g, u, p), h)
    BY <1>1, CleanUpholds
  <1> QED
    BY <1>2, UpholdsTwice

LEMMA UpholdsDistrust ==
  ASSUME NEW f, NEW g, NEW h, Upholds(f, g, h), NEW u \in DOMAIN f.cache, NEW p
  PROVE  /\ Distrusted(CleanCache(g, u, p), u, p)
         /\ \A q : Distrusted(g, u, q) => Distrusted(CleanCache(g, u, p), u, q)
         /\ \A q : IsPrefix(p, q) => Distrusted(CleanCacheChild(g, u, p), u, q)
  <1>1. FsOK(g) /\ u \in DOMAIN g.cache
    BY UpholdsWell
  <1> QED
    BY <1>1, CleanDistrusts

LEMMA CheckDirUpholding ==
  ASSUME NEW f, NEW h, Well(f, h), Seen(h), NEW u \in Nat, NEW d \in Seq(Names)
  PROVE  Upholding(f, CheckDir(f, h, u, d))
  <1> DEFINE a == Find(f, u, h[u], d)
             r == IF d = Root THEN Ret(f, h, "OK")
                  ELSE Ret(a.f, h, IF a.ok THEN "OK" ELSE "DIRNOTFND")
  <1>1. CheckDir(f, h, u, d) = OnUnit(f, h, u, "INVALIDFUNC", r)
    BY DEF CheckDir
  <1>2. ASSUME u \in DOMAIN f.cache
        PROVE  Upholding(f, r)
    <2>1. Upholds(f, f, h) /\ Upholds(f, a.f, h)
      BY <1>2, UpholdsNothing, FindUpholds
    <2> HIDE DEF a
    <2> QED
      BY <2>1, RetUpholding
  <1> HIDE DEF r
  <1> QED
    BY <1>1, <1>2, OnUnitUpholding

LEMMA MakeDirUpholding ==
  ASSUME NEW f, NEW h, Well(f, h), Seen(h), NEW u \in Nat, NEW d \in Seq(Names), NEW n \in Names
  PROVE  Upholding(f, MakeDir(f, h, u, d, n))
  <1> DEFINE a == Find(f, u, h[u], d)
             g == CleanCache(a.f, u, d)
             k == Made(h, u, d, n)
             r == IF a.ok /\ CanMake(h, u, d, n) THEN Ret(g, k, "OK")
                  ELSE Ret(a.f, h, "INVALIDPATH")
  <1>1. MakeDir(f, h, u, d, n) = OnUnit(f, h, u, "MEDIAOFFLINE", r)
    BY DEF MakeDir
  <1>2. ASSUME u \in DOMAIN f.cache
        PROVE  Upholding(f, r)
    <2>1. Upholds(f, a.f, h)
      BY <1>2, FindUpholds
    <2> HIDE DEF a
    <2>2. Upholds(f, g, h) /\ Distrusted(g, u, d)
      BY <1>2, <2>1, UpholdsClean, UpholdsDistrust
    <2> HIDE DEF g
    <2>3. ASSUME CanMake(h, u, d, n)
          PROVE  Upholds(f, g, k)
      <3>1. FsOK(g) /\ Right(g, h) /\ u \in DOMAIN g.cache
        BY <1>2, <2>2, UpholdsWell
      <3>2. Append(d, n) \notin DOMAIN h[u] /\ IsDir(h[u], d)
        BY <2>3 DEF CanMake, Exists
      <3>3. PICK node : node = [dir |-> TRUE, ver |-> 0]
        OBVIOUS
      <3>6. node \in [dir : BOOLEAN, ver : 0..1]
        <4>1. 0 \in 0..1 /\ TRUE \in BOOLEAN
          OBVIOUS
        <4> QED
          BY <3>3, <4>1
      <3>4. Right(g, Put(h, u, Append(d, n), node))
        BY <2>2, <3>1, <3>2, <3>6, PutRight
      <3>5. Right(g, k)
        BY <3>3, <3>4 DEF Made
      <3> QED
        BY <2>2, <3>5, ChangedUpholds
    <2> HIDE DEF k
    <2> QED
      BY <2>1, <2>3, RetUpholding
  <1> HIDE DEF r
  <1> QED
    BY <1>1, <1>2, OnUnitUpholding

LEMMA RemoveDirUpholding ==
  ASSUME NEW f, NEW h, Well(f, h), Seen(h), NEW u \in Nat, NEW d \in Seq(Names), NEW n \in Names
  PROVE  Upholding(f, RemoveDir(f, h, u, d, n))
  <1> DEFINE q == Append(d, n)
             empty == q \in DOMAIN h[u] /\ IsDir(h[u], q) /\ Contents(h[u], q) = {}
             a == FindFile(f, h, u, d, n, "dir")
             g == DeleteCache(a.f, u, q)
             x == CleanCache(g, u, d)
             k == Drop(h, u, q)
             r == IF a.ok THEN IF empty THEN Ret(x, k, "OK") ELSE Ret(g, h, "CANTDELETE")
                  ELSE Ret(a.f, h, "DIRNOTFND")
  <1>1. RemoveDir(f, h, u, d, n) = OnUnit(f, h, u, "MEDIAOFFLINE", r)
    BY DEF RemoveDir
  <1>2. ASSUME u \in DOMAIN f.cache
        PROVE  Upholding(f, r)
    <2>1. Upholds(f, a.f, h)
      BY <1>2, FindUpholds
    <2> HIDE DEF a
    <2>2. Upholds(f, g, h)
      BY <1>2, <2>1, UpholdsClean
    <2> HIDE DEF g
    <2>3. Upholds(f, x, h) /\ Distrusted(x, u, d)
      BY <1>2, <2>2, UpholdsClean, UpholdsDistrust
    <2> HIDE DEF x
    <2>4. ASSUME empty
          PROVE  Upholds(f, x, k)
      <3>1. FsOK(x) /\ Right(x, h) /\ u \in DOMAIN x.cache
        BY <1>2, <2>3, UpholdsWell
      <3>2. Right(x, k)
        BY <2>3, <2>4, <3>1, DropRight
      <3> QED
        BY <2>3, <3>2, ChangedUpholds
    <2> HIDE DEF k, empty
    <2> QED
      BY <2>1, <2>2, <2>4, RetUpholding
  <1> HIDE DEF r
  <1> QED
    BY <1>1, <1>2, OnUnitUpholding

(* The open files when a file is deleted, and when a path is renamed.       *)
LEMMA UnlinkedUpholds ==
  ASSUME NEW f, NEW g, NEW h, Upholds(f, g, h), NEW u, NEW q
  PROVE  Upholds(f, Unlinked(g, u, q), h) /\ Unlinked(g, u, q).cache = g.cache
  <1>1. FsOK(g) /\ Right(g, h)
    BY UpholdsWell
  <1>2. PICK x : x = Unlinked(g, u, q)
    OBVIOUS
  <1>3. Serves(g, x)
    BY <1>1, <1>2, UnlinkedServes
  <1>4. PICK y : x = [g EXCEPT !.fcbs = y]
    BY <1>2 DEF Unlinked
  <1>5. Fcbed(g, x)
    BY <1>1, <1>4, FcbsFcbed
  <1>6. Upholds(f, x, h)
    BY <1>1, <1>3, <1>5, ServesUpholds
  <1> QED
    BY <1>2, <1>5, <1>6 DEF Fcbed

LEMMA FollowedUpholds ==
  ASSUME NEW f, NEW g, NEW h, Upholds(f, g, h), NEW u, NEW from, NEW to
  PROVE  Upholds(f, Followed(g, u, from, to), h) /\ Followed(g, u, from, to).cache = g.cache
  <1>1. FsOK(g) /\ Right(g, h)
    BY UpholdsWell
  <1>2. PICK x : x = Followed(g, u, from, to)
    OBVIOUS
  <1>3. Serves(g, x)
    BY <1>1, <1>2, FollowedServes
  <1>4. PICK y : x = [g EXCEPT !.fcbs = y]
    BY <1>2 DEF Followed
  <1>5. Fcbed(g, x)
    BY <1>1, <1>4, FcbsFcbed
  <1>6. Upholds(f, x, h)
    BY <1>1, <1>3, <1>5, ServesUpholds
  <1> QED
    BY <1>2, <1>5, <1>6 DEF Fcbed

LEMMA DeleteUpholding ==
  ASSUME NEW f, NEW h, Well(f, h), Seen(h), NEW u \in Nat, NEW d \in Seq(Names), NEW n \in Names
  PROVE  Upholding(f, Delete(f, h, u, d, n))
  <1> DEFINE q == Append(d, n)
             a == FindFile(f, h, u, d, n, "file")
             there == q \in DOMAIN h[u] /\ ~h[u][q].dir
             g == Unlinked(a.f, u, q)
             x == CleanCache(g, u, d)
             k == Drop(h, u, q)
             r == IF ~a.ok THEN Ret(a.f, h, "FILENOTFND")
                  ELSE IF ~there THEN Ret(a.f, h, "CANTDELETE")
                  ELSE Ret(x, k, "OK")
  <1>1. Delete(f, h, u, d, n) = OnUnit(f, h, u, "MEDIAOFFLINE", r)
    BY DEF Delete
  <1>2. ASSUME u \in DOMAIN f.cache
        PROVE  Upholding(f, r)
    <2>1. Upholds(f, a.f, h)
      BY <1>2, FindUpholds
    <2> HIDE DEF a
    <2>2. Upholds(f, g, h)
      BY <2>1, UnlinkedUpholds
    <2> HIDE DEF g
    <2>3. Upholds(f, x, h) /\ Distrusted(x, u, d)
      BY <1>2, <2>2, UpholdsClean, UpholdsDistrust
    <2> HIDE DEF x
    <2>4. ASSUME there
          PROVE  Upholds(f, x, k)
      <3>1. FsOK(x) /\ Right(x, h) /\ u \in DOMAIN x.cache
        BY <1>2, <2>3, UpholdsWell
      <3>2. Right(x, k)
        BY <2>3, <2>4, <3>1, DropRight
      <3> QED
        BY <2>3, <3>2, ChangedUpholds
    <2> HIDE DEF k, there
    <2> QED
      BY <2>1, <2>4, RetUpholding
  <1> HIDE DEF r
  <1> QED
    BY <1>1, <1>2, OnUnitUpholding

LEMMA AttributeUpholding ==
  ASSUME NEW f, NEW h, Well(f, h), Seen(h), NEW u \in Nat, NEW d \in Seq(Names), NEW n \in Names, NEW attr,
         Seen(Attribute(f, h, u, d, n, attr).host)
  PROVE  Upholding(f, Attribute(f, h, u, d, n, attr))
  <1> DEFINE a == FindFile(f, h, u, d, n, "all")
             g == CleanCache(a.f, u, d)
             h1 == IF attr = "same" THEN h ELSE Touch(h, u, Append(d, n))
             b == FindFile(g, h1, u, d, n, "all")
             r == IF ~a.ok THEN Ret(a.f, h, "FILENOTFND")
                  ELSE IF attr = "get" THEN Ret(a.f, h, "OK")
                  ELSE IF attr = "volume" THEN Ret(a.f, h, "CANTACCESS")
                  ELSE IF attr = "set" /\ ~Exists(h[u], Append(d, n)) THEN Ret(a.f, h, "FILENOTFND")
                  ELSE Ret(b.f, h1, IF b.ok THEN "OK" ELSE "FILENOTFND")
  <1>1. Attribute(f, h, u, d, n, attr) = OnUnit(f, h, u, "MEDIAOFFLINE", r)
    BY DEF Attribute
  <1>2. ASSUME u \in DOMAIN f.cache
        PROVE  Upholding(f, r)
    <2>1. Upholds(f, a.f, h)
      BY <1>2, FindUpholds
    <2> HIDE DEF a
    <2>2. Upholds(f, g, h)
      BY <1>2, <2>1, UpholdsClean
    <2> HIDE DEF g
    <2>3. Right(g, h1)
      <3>1. FsOK(g) /\ Right(g, h)
        BY <2>2, UpholdsWell
      <3> QED
        BY <3>1, TouchRight
    <2> DEFINE gone == \/ attr \in {"get", "volume"} \/ ~a.ok
                       \/ attr = "set" /\ ~Exists(h[u], Append(d, n))
    <2>4. Upholds(f, g, h1)
      BY <2>2, <2>3, ChangedUpholds
    <2>5. r = Ret(b.f, h1, IF b.ok THEN "OK" ELSE "FILENOTFND") \/ gone
      OBVIOUS
    <2>6. gone => Upholding(f, r)
      BY <2>1, RetUpholding
    <2>7. ASSUME ~gone
          PROVE  Upholding(f, r)
      <3>1. r = Ret(b.f, h1, IF b.ok THEN "OK" ELSE "FILENOTFND")
        BY <2>5, <2>7
      <3> HIDE DEF h1, b
      <3>2. r.host = h1
        BY <3>1 DEF Ret
      <3>3. Attribute(f, h, u, d, n, attr).host = r.host
        <4> HIDE DEF r
        <4> QED
          BY <1>1, <1>2, OnUnitThere DEF Well
      <3>4. Seen(h1)
        BY <3>2, <3>3
      <3>5. Upholds(f, FindFile(g, h1, u, d, n, "all").f, h1)
        BY <1>2, <2>4, <3>4, UpholdsFind
      <3>6. Upholds(f, b.f, h1)
        BY <3>5 DEF b
      <3> QED
        BY <3>1, <3>6, RetUpholding
    <2> QED
      BY <2>6, <2>7
  <1> HIDE DEF r
  <1> QED
    BY <1>1, <1>2, OnUnitUpholding

(* What fopen leaves of a file, in a directory whose list is not trusted    *)
(* when the file is new.                                                    *)
LEMMA TruncatedRight ==
  ASSUME NEW f, FsOK(f), NEW h, Right(f, h), NEW u \in DOMAIN f.cache, NEW d \in Seq(Names),
         NEW n \in Names, IsDir(h[u], d), Append(d, n) \in DOMAIN h[u] \/ Distrusted(f, u, d)
  PROVE  Right(f, Truncated(h, u, Append(d, n)))
  <1>1. CASE Append(d, n) \in DOMAIN h[u]
    <2>1. Right(f, Touch(h, u, Append(d, n)))
      BY TouchRight
    <2> QED
      BY <1>1, <2>1 DEF Truncated
  <1>2. CASE Append(d, n) \notin DOMAIN h[u]
    <2>1. PICK node : node = [dir |-> FALSE, ver |-> 0]
      OBVIOUS
    <2>2. node \in [dir : BOOLEAN, ver : 0..1]
      <3>1. 0 \in 0..1 /\ FALSE \in BOOLEAN
        OBVIOUS
      <3> QED
        BY <2>1, <3>1
    <2>3. Right(f, Put(h, u, Append(d, n), node))
      BY <1>2, <2>2, PutRight
    <2> QED
      BY <1>2, <2>1, <2>3 DEF Truncated
  <1> QED
    BY <1>1, <1>2

LEMMA CreateUpholding ==
  ASSUME NEW f, NEW h, Well(f, h), Seen(h), NEW u \in Nat, NEW k \in Keys, NEW d \in Seq(Names),
         NEW n \in Names, NEW how, NEW special
  PROVE  Upholding(f, Create(f, h, u, k, d, n, how, special))
  <1> DEFINE q == Append(d, n)
             refused == IsDir(h[u], q) \/ ~IsDir(h[u], d) \/ (how = "new" /\ Exists(h[u], q))
             c == [NoFcb EXCEPT !.key = k, !.unit = u, !.name = q, !.file = q, !.mode = "full",
                                !.special = special]
             a == Find(f, u, h[u], d)
             g == FcbAlloc(a.f, c)
             x == CleanCache(g, u, d)
             h1 == Truncated(h, u, q)
             s == IF refused THEN FcbFree(g, h, "FILEEXIST")
                  ELSE Ret(x, h1, "OK")
             t == IF ~a.ok THEN Ret(a.f, h, "INVALIDPATH")
                  ELSE IF how = "attribute" THEN Ret(a.f, h, "CANTACCESS")
                  ELSE IF Last(a.f.fcbs).key # 0 THEN Ret(a.f, h, "OUTOFMEM")
                  ELSE s
             r == IF At(f.fcbs, k) # {} THEN Ret(FcbSearch(f, k), h, "INVALIDPTR") ELSE t
  <1>1. Create(f, h, u, k, d, n, how, special) = OnUnit(f, h, u, "MEDIAOFFLINE", r)
    BY DEF Create
  <1>2. ASSUME u \in DOMAIN f.cache
        PROVE  Upholding(f, r)
    <2>1. CASE At(f.fcbs, k) # {}
      <3>1. Upholds(f, FcbSearch(f, k), h)
        BY <2>1, SearchUpholds
      <3>2. Upholding(f, Ret(FcbSearch(f, k), h, "INVALIDPTR"))
        BY <3>1, RetUpholding
      <3> QED
        BY <2>1, <3>2
    <2>2. CASE At(f.fcbs, k) = {}
      <3>1. LookedUp(f, a.f) /\ Upholds(f, a.f, h)
        BY <1>2, FindFacts, FindUpholds DEF Standing, Well
      <3>2. IsFcb(c) /\ c.key = k /\ k # 0
        BY HostAssumption DEF IsFcb, FcbFields, NoFcb
      <3> HIDE DEF a, c
      <3>3. Upholds(f, g, h) /\ 1 \in DOMAIN g.fcbs /\ IsFcb(g.fcbs[1])
        BY <1>2, <2>2, <3>1, <3>2, AllocUpholds
      <3> HIDE DEF g
      <3>4. Upholding(f, FcbFree(g, h, "FILEEXIST"))
        BY <3>3, FreeUpholding
      <3>5. Upholds(f, x, h) /\ Distrusted(x, u, d)
        BY <1>2, <3>3, UpholdsClean, UpholdsDistrust
      <3> HIDE DEF x
      <3>6. ASSUME ~refused
            PROVE  Upholds(f, x, h1)
        <4>1. FsOK(x) /\ Right(x, h) /\ u \in DOMAIN x.cache
          BY <1>2, <3>5, UpholdsWell
        <4>2. IsDir(h[u], d)
          BY <3>6
        <4>3. Right(x, h1)
          BY <3>5, <4>1, <4>2, TruncatedRight
        <4> QED
          BY <3>5, <4>3, ChangedUpholds
      <3> HIDE DEF refused, h1, q
      <3>7. Upholding(f, s)
        BY <3>4, <3>6, RetUpholding
      <3> HIDE DEF s
      <3> QED
        BY <2>2, <3>1, <3>7, RetUpholding
    <2> QED
      BY <2>1, <2>2
  <1> HIDE DEF r
  <1> QED
    BY <1>1, <1>2, OnUnitUpholding

LEMMA OpenUpholding ==
  ASSUME NEW f, NEW h, Well(f, h), Seen(h), NEW u \in Nat, NEW k \in Keys, NEW d \in Seq(Names),
         NEW n \in Names, NEW mode, NEW special
  PROVE  Upholding(f, Open(f, h, u, k, d, n, mode, special))
  <1> DEFINE q == Append(d, n)
             refused == IsDir(h[u], q) \/ ~IsDir(h[u], d) \/ (mode # "write" /\ ~Exists(h[u], q))
             c == [NoFcb EXCEPT !.key = k, !.unit = u, !.name = q, !.special = special,
                                !.file = IF refused THEN Root ELSE q,
                                !.mode = IF refused THEN "none" ELSE mode]
             a == FindFile(f, h, u, d, n, "all")
             g == FcbAlloc(a.f, c)
             h1 == IF mode = "write" /\ ~refused THEN Truncated(h, u, q) ELSE h
             s == IF mode = "illegal" THEN FcbFree(g, h, "ILLEGALMOD")
                  ELSE IF refused /\ ~special THEN FcbFree(g, h, "INVALIDPATH")
                  ELSE Ret(g, h1, "OK")
             t == IF ~a.ok THEN Ret(a.f, h, "FILENOTFND")
                  ELSE IF Last(a.f.fcbs).key # 0 THEN Ret(a.f, h, "OUTOFMEM")
                  ELSE s
             r == IF At(f.fcbs, k) # {} THEN Ret(FcbSearch(f, k), h, "INVALIDPRM") ELSE t
  <1>1. Open(f, h, u, k, d, n, mode, special) = OnUnit(f, h, u, "MEDIAOFFLINE", r)
    BY DEF Open
  <1>2. ASSUME u \in DOMAIN f.cache
        PROVE  Upholding(f, r)
    <2>1. CASE At(f.fcbs, k) # {}
      <3>1. Upholds(f, FcbSearch(f, k), h)
        BY <2>1, SearchUpholds
      <3>2. Upholding(f, Ret(FcbSearch(f, k), h, "INVALIDPRM"))
        BY <3>1, RetUpholding
      <3> QED
        BY <2>1, <3>2
    <2>2. CASE At(f.fcbs, k) = {}
      <3>1. LookedUp(f, a.f) /\ Upholds(f, a.f, h)
        BY <1>2, FindFileFacts, FindUpholds DEF Well
      <3>2. IsFcb(c) /\ c.key = k /\ k # 0
        BY HostAssumption DEF IsFcb, FcbFields, NoFcb
      <3>3. a.ok => q \in DOMAIN h[u] \/ Distrusted(a.f, u, d)
        BY <1>2, FoundListed
      <3> HIDE DEF a, c
      <3>4. /\ Upholds(f, g, h) /\ 1 \in DOMAIN g.fcbs /\ IsFcb(g.fcbs[1])
            /\ g.cache = a.f.cache
        BY <1>2, <2>2, <3>1, <3>2, AllocUpholds
      <3>5. a.ok => q \in DOMAIN h[u] \/ Distrusted(g, u, d)
        BY <3>3, <3>4 DEF Distrusted
      <3> HIDE DEF g
      <3>6. /\ Upholding(f, FcbFree(g, h, "ILLEGALMOD"))
            /\ Upholding(f, FcbFree(g, h, "INVALIDPATH"))
        BY <3>4, FreeUpholding
      <3>7. ASSUME a.ok
            PROVE  Upholds(f, g, h1)
        <4>1. FsOK(g) /\ Right(g, h) /\ u \in DOMAIN g.cache
          BY <1>2, <3>4, UpholdsWell
        <4>2. ASSUME ~refused
              PROVE  Right(g, Truncated(h, u, q))
          <5>1. IsDir(h[u], d)
            BY <4>2
          <5> QED
            BY <3>5, <3>7, <4>1, <5>1, TruncatedRight
        <4> HIDE DEF refused
        <4>3. Right(g, h1)
          BY <4>1, <4>2
        <4> QED
          BY <3>4, <4>3, ChangedUpholds
      <3> HIDE DEF refused, h1, q
      <3>8. a.ok => Upholding(f, s)
        BY <3>6, <3>7, RetUpholding
      <3> HIDE DEF s
      <3> QED
        BY <2>2, <3>1, <3>8, RetUpholding
    <2> QED
      BY <2>1, <2>2
  <1> HIDE DEF r
  <1> QED
    BY <1>1, <1>2, OnUnitUpholding

LEMMA CloseUpholding ==
  ASSUME NEW f, NEW h, Well(f, h), NEW u \in Nat, NEW k \in Keys
  PROVE  Upholding(f, Close(f, h, u, k))
  <1> DEFINE g == FcbSearch(f, k)
             p == Front(g.fcbs[1].name)
             s == FcbFree(g, h, "OK")
             x == CleanCache(s.fs, u, p)
             r == IF At(f.fcbs, k) = {} THEN Ret(f, h, "INVALIDPRM")
                  ELSE IF g.fcbs[1].update THEN [s EXCEPT !.fs = x] ELSE s
  <1>1. Close(f, h, u, k) = OnUnit(f, h, u, "MEDIAOFFLINE", r)
    BY DEF Close
  <1>2. ASSUME u \in DOMAIN f.cache
        PROVE  Upholding(f, r)
    <2>1. CASE At(f.fcbs, k) = {}
      BY <2>1, UpholdsNothing, RetUpholding
    <2>2. CASE At(f.fcbs, k) # {}
      <3>1. Upholds(f, g, h) /\ 1 \in DOMAIN g.fcbs
        BY <2>2, SearchUpholds
      <3>2. Upholding(f, s)
        BY <3>1, FreeUpholding
      <3>3. [s EXCEPT !.fs = x].fs = x /\ [s EXCEPT !.fs = x].host = s.host
        BY DEF FcbFree, Ret
      <3> HIDE DEF g, s, p
      <3>4. Upholds(f, x, s.host)
        BY <1>2, <3>2, UpholdsClean DEF Upholding
      <3> HIDE DEF x
      <3>5. Upholding(f, [s EXCEPT !.fs = x])
        BY <3>3, <3>4 DEF Upholding
      <3> QED
        BY <2>2, <3>2, <3>5
    <2> QED
      BY <2>1, <2>2
  <1> HIDE DEF r
  <1> QED
    BY <1>1, <1>2, OnUnitUpholding

LEMMA OnFileUpholding ==
  ASSUME NEW f, NEW h, Well(f, h), NEW k \in Keys, NEW r, At(f.fcbs, k) # {} => Upholding(f, r)
  PROVE  Upholding(f, OnFile(f, h, k, r))
  <1>1. CASE At(f.fcbs, k) = {}
    <2>1. Upholding(f, Ret(f, h, "NOTOPENED"))
      BY UpholdsNothing, RetUpholding
    <2> QED
      BY <1>1, <2>1 DEF OnFile
  <1>2. CASE At(f.fcbs, k) # {}
    BY <1>2 DEF OnFile
  <1> QED
    BY <1>1, <1>2

LEMMA ReadUpholding ==
  ASSUME NEW f, NEW h, Well(f, h), NEW k \in Keys
  PROVE  Upholding(f, Read(f, h, k))
  <1> DEFINE g == FcbSearch(f, k)
             s == IF g.fcbs[1].mode = "write" THEN FcbFree(g, h, "INVALIDFUNC") ELSE Ret(g, h, "OK")
             r == OnStream(g, h, s)
  <1>1. Read(f, h, k) = OnFile(f, h, k, r)
    BY DEF Read
  <1>2. ASSUME At(f.fcbs, k) # {}
        PROVE  Upholding(f, r)
    <2>1. Upholds(f, g, h) /\ 1 \in DOMAIN g.fcbs
      BY <1>2, SearchUpholds
    <2> HIDE DEF g
    <2>2. Upholding(f, s)
      BY <2>1, FreeUpholding, RetUpholding
    <2> HIDE DEF s
    <2> QED
      BY <2>1, <2>2, OnStreamUpholding
  <1> HIDE DEF r
  <1> QED
    BY <1>1, <1>2, OnFileUpholding

LEMMA WriteUpholding ==
  ASSUME NEW f, NEW h, Well(f, h), NEW k \in Keys, NEW how
  PROVE  Upholding(f, Write(f, h, k, how))
  <1> DEFINE g == FcbSearch(f, k)
             c == g.fcbs[1]
             dirty == CASE how = "truncate" -> c.dirty [] how = "held" -> TRUE
                        [] how = "through" -> FALSE
             wrote == [c EXCEPT !.update = TRUE, !.dirty = dirty]
             h1 == IF how = "held" THEN h ELSE Flushed(h, {[c EXCEPT !.dirty = TRUE]})
             s == IF c.mode = "read" THEN FcbFree(g, h, IF how = "truncate" THEN "CANTSEEK" ELSE "CANTWRITE")
                  ELSE Ret([g EXCEPT !.fcbs[1] = wrote], h1, "OK")
             r == OnStream(g, h, s)
  <1>1. Write(f, h, k, how) = OnFile(f, h, k, r)
    BY DEF Write
  <1>2. ASSUME At(f.fcbs, k) # {}
        PROVE  Upholding(f, r)
    <2>1. Upholds(f, g, h) /\ 1 \in DOMAIN g.fcbs /\ IsFcb(c)
      BY <1>2, SearchUpholds
    <2> HIDE DEF g, dirty
    <2>2. IsFcb(wrote) /\ wrote.key = g.fcbs[1].key
      BY <2>1 DEF IsFcb, FcbFields
    <2> HIDE DEF c, wrote
    <2>3. PICK x : x = [g EXCEPT !.fcbs[1] = wrote]
      OBVIOUS
    <2>4. Upholds(f, x, h)
      BY <2>1, <2>2, <2>3, FirstUpholds
    <2>5. Right(x, h1)
      <3>1. FsOK(x) /\ Right(x, h)
        BY <2>4, UpholdsWell
      <3> QED
        BY <3>1, FlushedRight
    <2> HIDE DEF h1
    <2>6. Upholding(f, Ret(x, h1, "OK"))
      BY <2>4, <2>5, ChangedUpholds, RetUpholding
    <2>7. Upholding(f, FcbFree(g, h, IF how = "truncate" THEN "CANTSEEK" ELSE "CANTWRITE"))
      BY <2>1, FreeUpholding
    <2>8. Upholding(f, s)
      BY <2>3, <2>6, <2>7
    <2> HIDE DEF s
    <2> QED
      BY <2>1, <2>8, OnStreamUpholding
  <1> HIDE DEF r
  <1> QED
    BY <1>1, <1>2, OnFileUpholding

LEMMA SeekUpholding ==
  ASSUME NEW f, NEW h, Well(f, h), NEW k \in Keys, NEW mode
  PROVE  Upholding(f, Seek(f, h, k, mode))
  <1> DEFINE g == FcbSearch(f, k)
             x == Synced(g, {1})
             h1 == Flushed(h, {g.fcbs[1]})
             s == IF mode = "negative" THEN FcbFree(g, h, "CANTSEEK") ELSE Ret(x, h1, "OK")
             r == IF mode = "illegal" THEN FcbFree(g, h, "INVALIDPRM") ELSE OnStream(g, h, s)
  <1>1. Seek(f, h, k, mode) = OnFile(f, h, k, r)
    BY DEF Seek
  <1>2. ASSUME At(f.fcbs, k) # {}
        PROVE  Upholding(f, r)
    <2>1. Upholds(f, g, h) /\ 1 \in DOMAIN g.fcbs /\ IsFcb(g.fcbs[1])
      BY <1>2, SearchUpholds
    <2> HIDE DEF g
    <2>2. Upholds(f, x, h)
      BY <2>1, SyncedUpholds
    <2> HIDE DEF x
    <2>3. Right(x, h1)
      <3>1. FsOK(x) /\ Right(x, h)
        BY <2>2, UpholdsWell
      <3> QED
        BY <3>1, FlushedRight
    <2> HIDE DEF h1
    <2>4. Upholding(f, Ret(x, h1, "OK"))
      BY <2>2, <2>3, ChangedUpholds, RetUpholding
    <2>5. Upholding(f, FcbFree(g, h, "INVALIDPRM")) /\ Upholding(f, FcbFree(g, h, "CANTSEEK"))
      BY <2>1, FreeUpholding
    <2>6. Upholding(f, s)
      BY <2>4, <2>5
    <2> HIDE DEF s
    <2>7. Upholding(f, OnStream(g, h, s))
      BY <2>1, <2>6, OnStreamUpholding
    <2> QED
      BY <2>5, <2>7
  <1> HIDE DEF r
  <1> QED
    BY <1>1, <1>2, OnFileUpholding

LEMMA TimeStampUpholding ==
  ASSUME NEW f, NEW h, Well(f, h), NEW u \in Nat, NEW k \in Keys, NEW time
  PROVE  Upholding(f, TimeStamp(f, h, u, k, time))
  <1> DEFINE g == FcbSearch(f, k)
             c == g.fcbs[1]
             all == IF c.mode = "none" THEN DOMAIN g.fcbs ELSE {1}
             x == Synced(g, all)
             h1 == Flushed(h, {g.fcbs[i] : i \in all})
             there == Exists(h1[c.unit], c.name)
             p == Front(c.name)
             y == CleanCache(x, u, p)
             h2 == IF there THEN Touch(h1, c.unit, c.name) ELSE h1
             s == IF ~there /\ ~c.special THEN FcbFree(x, h1, "INVALIDPRM")
                  ELSE Ret(y, h2, "OK")
             r == OnFile(f, h, k, s)
  <1>1. TimeStamp(f, h, u, k, time) = IF time = 0 THEN Ret(f, h, "OK")
                                      ELSE OnUnit(f, h, u, "MEDIAOFFLINE", r)
    BY DEF TimeStamp
  <1>2. ASSUME u \in DOMAIN f.cache, At(f.fcbs, k) # {}
        PROVE  Upholding(f, s)
    <2>1. Upholds(f, g, h) /\ 1 \in DOMAIN g.fcbs /\ IsFcb(g.fcbs[1])
      BY <1>2, SearchUpholds
    <2> HIDE DEF g
    <2>2. Upholds(f, x, h) /\ 1 \in DOMAIN x.fcbs
      BY <2>1, SyncedUpholds
    <2> HIDE DEF all, x, p
    <2>3. Right(x, h1)
      <3>1. FsOK(x) /\ Right(x, h)
        BY <2>2, UpholdsWell
      <3> QED
        BY <3>1, FlushedRight
    <2> HIDE DEF h1, there
    <2>4. Upholds(f, x, h1)
      BY <2>2, <2>3, ChangedUpholds
    <2>5. Upholds(f, y, h1)
      BY <1>2, <2>4, UpholdsClean
    <2> HIDE DEF y
    <2>6. Right(y, h2)
      <3>1. FsOK(y) /\ Right(y, h1)
        BY <2>5, UpholdsWell
      <3> QED
        BY <3>1, TouchRight
    <2> HIDE DEF h2
    <2>7. Upholding(f, Ret(y, h2, "OK"))
      BY <2>5, <2>6, ChangedUpholds, RetUpholding
    <2>8. Upholding(f, FcbFree(x, h1, "INVALIDPRM"))
      BY <2>2, <2>4, FreeUpholding
    <2> QED
      BY <2>7, <2>8
  <1> HIDE DEF s
  <1>3. u \in DOMAIN f.cache => Upholding(f, r)
    BY <1>2, OnFileUpholding
  <1> HIDE DEF r
  <1>4. Upholding(f, OnUnit(f, h, u, "MEDIAOFFLINE", r))
    BY <1>3, OnUnitUpholding
  <1>5. Upholding(f, Ret(f, h, "OK"))
    BY UpholdsNothing, RetUpholding
  <1> QED
    BY <1>1, <1>4, <1>5

(* The calls that only report, and those of a unit.                         *)
LEMMA UnitUpholding ==
  ASSUME NEW f, NEW h, Well(f, h), NEW u \in Nat, NEW missing, NEW code
  PROVE  Upholding(f, OnUnit(f, h, u, missing, Ret(f, h, code)))
  BY UpholdsNothing, RetUpholding, OnUnitUpholding

LEMMA DriveUpholding ==
  ASSUME NEW f, NEW h, Well(f, h), NEW u \in Nat, NEW function
  PROVE  /\ Upholding(f, GetCapacity(f, h, u)) /\ Upholding(f, CtrlDrive(f, h, u, function))
         /\ Upholding(f, GetDPB(f, h, u)) /\ Upholding(f, DiskWrite(f, h, u))
         /\ Upholding(f, Flush(f, h, u)) /\ Upholding(f, CheckMedia(f, h, u))
         /\ Upholding(f, Lock(f, h, u))
  <1>1. Upholding(f, GetCapacity(f, h, u)) /\ Upholding(f, DiskWrite(f, h, u))
        /\ Upholding(f, Flush(f, h, u)) /\ Upholding(f, CheckMedia(f, h, u))
        /\ Upholding(f, Lock(f, h, u))
    BY UnitUpholding DEF GetCapacity, DiskWrite, Flush, CheckMedia, Lock
  <1>2. Upholding(f, CtrlDrive(f, h, u, function))
    BY UnitUpholding DEF CtrlDrive
  <1>3. Upholding(f, GetDPB(f, h, u))
    BY UpholdsNothing, RetUpholding DEF GetDPB
  <1> QED
    BY <1>1, <1>2, <1>3

(* Paths that are marked in the cache are no longer trusted.                *)
Marking(r, stale) ==
  [i \in DOMAIN r |-> IF r[i].path \in stale THEN [r[i] EXCEPT !.kept = TRUE] ELSE r[i]]

LEMMA MarkingFacts ==
  ASSUME NEW r, PathRing(r), NEW stale, NEW t, t = Marking(r, stale)
  PROVE  /\ PathRing(t) /\ DOMAIN t = DOMAIN r
         /\ \A i \in DOMAIN r : StandsFor(t[i], r[i]) /\ t[i].refresh = r[i].refresh
         /\ \A i \in DOMAIN r : r[i].kept \/ r[i].path \in stale => t[i].kept
  <1>1. ASSUME NEW i \in DOMAIN r
        PROVE  /\ IsPath(t[i]) /\ StandsFor(t[i], r[i]) /\ t[i].refresh = r[i].refresh
               /\ r[i].kept \/ r[i].path \in stale => t[i].kept
    <2>1. IsPath(r[i])
      BY DEF PathRing
    <2>2. PICK c : c = r[i]
      OBVIOUS
    <2>3. t[i] = IF c.path \in stale THEN [c EXCEPT !.kept = TRUE] ELSE c
      BY <2>2 DEF Marking
    <2>4. IsPath(t[i]) /\ t[i].refresh = c.refresh /\ (c.kept \/ c.path \in stale => t[i].kept)
      BY <2>1, <2>2, <2>3 DEF IsPath, PathFields
    <2>5. StandsFor(t[i], c)
      BY <2>1, <2>2, <2>3 DEF IsPath, PathFields, StandsFor
    <2> QED
      BY <2>2, <2>4, <2>5
  <1>2. DOMAIN t = DOMAIN r /\ t = [i \in DOMAIN r |-> t[i]]
    BY DEF Marking
  <1>3. \A i \in DOMAIN r : IsPath(t[i]) /\ t[i].path = r[i].path
    BY <1>1 DEF StandsFor
  <1>4. PathRing(t)
    BY <1>2, <1>3, PathMarked
  <1> QED
    BY <1>1, <1>2, <1>4

Marked(g, u, stale) == [g EXCEPT !.cache[u] = Marking(@, stale)]

(* What g did not trust, x does not, nor what is stale.                     *)
Distrusts(g, x, u, stale) ==
  /\ \A q : Distrusted(g, u, q) => Distrusted(x, u, q)
  /\ \A q \in stale : Distrusted(x, u, q)

LEMMA MarkedUpholds ==
  ASSUME NEW f, NEW g, NEW h, Upholds(f, g, h), NEW u \in DOMAIN f.cache, NEW stale,
         NEW x, x = Marked(g, u, stale)
  PROVE  Upholds(f, x, h) /\ Distrusts(g, x, u, stale)
  <1>1. Well(g, h) /\ FsOK(g) /\ u \in DOMAIN g.cache /\ PathRing(g.cache[u])
    BY UpholdsWell DEF FsOK
  <1>2. PICK r : r = g.cache[u]
    OBVIOUS
  <1>3. PICK t : t = Marking(r, stale)
    OBVIOUS
  <1>12. PICK tree : tree = h[u]
    OBVIOUS
  <1>4. /\ PathRing(t) /\ DOMAIN t = DOMAIN r
        /\ \A i \in DOMAIN r : StandsFor(t[i], r[i]) /\ t[i].refresh = r[i].refresh
        /\ \A i \in DOMAIN r : r[i].kept \/ r[i].path \in stale => t[i].kept
    BY <1>1, <1>2, <1>3, MarkingFacts
  <1>5. IsFs(g)
    BY <1>1 DEF FsOK
  <1>6. /\ IsFs(x) /\ x.units = g.units /\ x.option = g.option /\ x.files = g.files
        /\ x.fcbs = g.fcbs /\ x.gid = g.gid /\ x.cache = [g.cache EXCEPT ![u] = t]
    BY <1>2, <1>3, <1>5 DEF IsFs, FsFields, Marked
  <1>7. \A j \in DOMAIN t : \E i \in DOMAIN g.cache[u] : StandsFor(t[j], g.cache[u][i])
    BY <1>2, <1>4
  <1>13. PICK tree0 : tree0 = host[u]
    OBVIOUS
  <1>8. Looks(g, x, u, tree) /\ Looks(g, x, u, tree0) /\ x.cache[u] = t
    BY <1>1, <1>4, <1>6, <1>7, RingLooks
  <1>14. \A q : Lasting(u, q) \subseteq Entries(tree0, q)
    BY <1>13 DEF Lasting
  <1>9. Upholds(g, x, h)
    BY <1>1, <1>8, <1>12, <1>14, LooksUpholds
  <1>10. Upholds(f, x, h)
    BY <1>9, UpholdsTwice
  <1>11. ASSUME NEW q, Distrusted(g, u, q) \/ q \in stale
         PROVE  Distrusted(x, u, q)
    <2>1. ASSUME NEW i \in DOMAIN t, t[i].path = q
          PROVE  t[i].refresh \/ t[i].kept
      <3>1. i \in DOMAIN r /\ r[i].path = q /\ t[i].refresh = r[i].refresh
        BY <1>4, <2>1 DEF StandsFor
      <3>2. Distrusted(g, u, q) => r[i].refresh \/ r[i].kept
        BY <1>2, <3>1 DEF Distrusted, CachedAt
      <3> QED
        BY <1>4, <1>11, <3>1, <3>2
    <2> QED
      BY <1>8, <2>1 DEF Distrusted, CachedAt
  <1> QED
    BY <1>10, <1>11 DEF Distrusts

(* A renamed entry: its unit's lists at and below the two places, and those *)
(* of the two directories, are not trusted any more.                        *)
LEMMA UnlistedUpholds ==
  ASSUME NEW f, NEW g, NEW h, Upholds(f, g, h), NEW u \in DOMAIN f.cache,
         NEW from, NEW to, NEW dir,
         NEW stale, stale = {q \in Paths(g.cache[u]) : IsPrefix(to, q) \/ (~dir /\ IsPrefix(from, q))},
         dir => \A q \in Seq(Names) : IsPrefix(from, q) => Distrusted(g, u, q),
         NEW x, x = Marked(Followed(Unlinked(g, u, to), u, from, to), u, stale)
  PROVE  /\ Upholds(f, x, h)
         /\ \A q \in Seq(Names) : IsPrefix(from, q) \/ IsPrefix(to, q) => Distrusted(x, u, q)
  <1>1. PICK y : y = Unlinked(g, u, to)
    OBVIOUS
  <1>2. Upholds(f, y, h) /\ y.cache = g.cache
    BY <1>1, UnlinkedUpholds
  <1>3. PICK z : z = Followed(y, u, from, to)
    OBVIOUS
  <1>4. Upholds(f, z, h) /\ z.cache = g.cache
    BY <1>2, <1>3, FollowedUpholds
  <1>5. x = Marked(z, u, stale)
    BY <1>1, <1>3
  <1>6. Upholds(f, x, h) /\ Distrusts(z, x, u, stale)
    BY <1>4, <1>5, MarkedUpholds
  <1>9. \A q \in stale : Distrusted(x, u, q)
    BY <1>6 DEF Distrusts
  <1>10. \A q : Distrusted(z, u, q) => Distrusted(x, u, q)
    BY <1>6 DEF Distrusts
  <1>7. \A q : Distrusted(g, u, q) => Distrusted(x, u, q)
    BY <1>4, <1>10 DEF Distrusted
  <1>8. ASSUME NEW q \in Seq(Names), IsPrefix(from, q) \/ IsPrefix(to, q)
        PROVE  Distrusted(x, u, q)
    <2>1. CASE q \notin Paths(g.cache[u])
      <3>1. Distrusted(g, u, q)
        BY <2>1 DEF Paths, Distrusted, CachedAt
      <3> QED
        BY <1>7, <3>1
    <2>2. CASE q \in stale
      BY <1>9, <2>2
    <2>3. CASE q \in Paths(g.cache[u]) /\ q \notin stale
      <3>1. dir /\ IsPrefix(from, q)
        BY <1>8, <2>3
      <3> QED
        BY <1>7, <3>1
    <2> QED
      BY <2>1, <2>2, <2>3
  <1> QED
    BY <1>6, <1>8

LEMMA MovedUpholds ==
  ASSUME NEW f, NEW g, NEW h, Upholds(f, g, h), NEW u \in DOMAIN f.cache,
         NEW d \in Seq(Names), NEW n \in Names, NEW e \in Seq(Names), NEW m \in Names,
         NEW a, a = Append(d, n), NEW b, b = Append(e, m), a # b, CanRename(h[u], a, b),
         \A p \in Seq(Names) : IsPrefix(a, p) \/ IsPrefix(b, p) => Distrusted(g, u, p)
  PROVE  Upholds(f, CleanCache(CleanCache(g, u, d), u, e), Renamed(h, u, a, b))
  <1>1. PICK x : x = CleanCache(g, u, d)
    OBVIOUS
  <1>2. Upholds(f, x, h)
    BY <1>1, UpholdsClean
  <1>3. Distrusted(x, u, d) /\ \A q : Distrusted(g, u, q) => Distrusted(x, u, q)
    BY <1>1, UpholdsDistrust
  <1>4. PICK y : y = CleanCache(x, u, e)
    OBVIOUS
  <1>5. Upholds(f, y, h)
    BY <1>2, <1>4, UpholdsClean
  <1>6. Distrusted(y, u, e) /\ \A q : Distrusted(x, u, q) => Distrusted(y, u, q)
    BY <1>2, <1>4, UpholdsDistrust
  <1>7. FsOK(y) /\ Right(y, h) /\ u \in DOMAIN y.cache
    BY <1>5, UpholdsWell
  <1>8. \A p \in Seq(Names) : IsPrefix(a, p) \/ IsPrefix(b, p) => Distrusted(y, u, p)
    BY <1>3, <1>6
  <1>9. Right(y, Renamed(h, u, a, b))
    BY <1>3, <1>6, <1>7, <1>8, RenamedRight
  <1> QED
    BY <1>1, <1>4, <1>5, <1>9, ChangedUpholds

LEMMA RenamingUpholds ==
  ASSUME NEW f, NEW g, NEW h, Upholds(f, g, h), NEW u \in DOMAIN f.cache,
         NEW d \in Seq(Names), NEW n \in Names, NEW e \in Seq(Names), NEW m \in Names,
         NEW a, a = Append(d, n), NEW b, b = Append(e, m), CanRename(h[u], a, b), NEW dir,
         dir => \A q : IsPrefix(d, q) => Distrusted(g, u, q),
         NEW stale, stale = {q \in Paths(g.cache[u]) : IsPrefix(b, q) \/ (~dir /\ IsPrefix(a, q))},
         NEW x,
         x = IF a = b THEN g ELSE Marked(Followed(Unlinked(g, u, b), u, a, b), u, stale)
  PROVE  Upholds(f, CleanCache(CleanCache(x, u, d), u, e), Renamed(h, u, a, b))
  <1>1. CASE a = b
    <2>1. Upholds(f, x, h) /\ Renamed(h, u, a, b) = h
      BY <1>1 DEF Renamed
    <2> QED
      BY <2>1, UpholdsClean
  <1>2. CASE a # b
    <2>1. x = Marked(Followed(Unlinked(g, u, b), u, a, b), u, stale)
      BY <1>2
    <2>2. ASSUME dir, NEW q \in Seq(Names), IsPrefix(a, q)
          PROVE  Distrusted(g, u, q)
      <3>1. /\ a \in Seq(Names) /\ Len(a) = Len(d) + 1 /\ Len(d) \in Nat
            /\ \A i \in 1..Len(d) : a[i] = d[i]
        BY AppendPoints
      <3>2. Len(a) <= Len(q) /\ \A i \in 1..Len(a) : a[i] = q[i]
        BY <2>2, <3>1, PrefixPoints
      <3>3. Len(q) \in Nat
        OBVIOUS
      <3>4. Len(d) <= Len(q) /\ \A i \in 1..Len(d) : i \in 1..Len(a)
        BY <3>1, <3>2, <3>3
      <3>5. \A i \in 1..Len(d) : d[i] = q[i]
        BY <3>1, <3>2, <3>4
      <3>6. IsPrefix(d, q)
        BY <3>4, <3>5, PrefixPoints
      <3>7. \A p : IsPrefix(d, p) => Distrusted(g, u, p)
        BY <2>2
      <3> HIDE DEF IsPrefix
      <3> QED
        BY <3>6, <3>7
    <2>3. Upholds(f, x, h)
          /\ \A q \in Seq(Names) : IsPrefix(a, q) \/ IsPrefix(b, q) => Distrusted(x, u, q)
      BY ZenonT(30), <2>1, <2>2, UnlistedUpholds
    <2> QED
      BY <1>2, <2>3, MovedUpholds
  <1> QED
    BY <1>1, <1>2

LEMMA RenameUpholding ==
  ASSUME NEW f, NEW h, Well(f, h), Seen(h), NEW u \in Nat, NEW d \in Seq(Names), NEW n \in Names,
         NEW dNew \in Seq(Names), NEW nNew \in Names
  PROVE  Upholding(f, Rename(f, h, u, d, n, dNew, nNew))
  <1> DEFINE from == Append(d, n)
             to == Append(dNew, nNew)
             Stale(dir, g) ==
               {q \in Paths(g.cache[u]) : IsPrefix(to, q) \/ (~dir /\ IsPrefix(from, q))}
             Unlisted(dir, g) ==
               IF from = to THEN g
               ELSE Marked(Followed(Unlinked(g, u, to), u, from, to), u, Stale(dir, g))
             Renaming(dir, g) ==
               IF ~CanRename(h[u], from, to) THEN Ret(g, h, "FILENOTFND")
               ELSE Ret(CleanCache(CleanCache(Unlisted(dir, g), u, d), u, dNew), Renamed(h, u, from, to), "OK")
             a == FindFile(f, h, u, d, n, "all")
             b == Find(a.f, u, h[u], dNew)
             c == IF a.dir THEN CleanCacheChild(b.f, u, d) ELSE b.f
             r == IF a.ok THEN IF ~b.ok THEN Ret(b.f, h, "INVALIDPATH") ELSE Renaming(a.dir, c)
                  ELSE Ret(a.f, h, "FILENOTFND")
  <1>1. Rename(f, h, u, d, n, dNew, nNew) = OnUnit(f, h, u, "MEDIAOFFLINE", r)
    BY DEF Rename, Marked, Marking
  <1>2. ASSUME u \in DOMAIN f.cache, NEW dir, NEW g, Upholds(f, g, h),
               dir => \A q : IsPrefix(d, q) => Distrusted(g, u, q)
        PROVE  Upholding(f, Renaming(dir, g))
    <2>1. PICK stale : stale = Stale(dir, g)
      OBVIOUS
    <2>2. PICK x : x = Unlisted(dir, g)
      OBVIOUS
    <2>3. x = IF from = to THEN g
              ELSE Marked(Followed(Unlinked(g, u, to), u, from, to), u, stale)
      BY <2>1, <2>2
    <2>4. stale = {q \in Paths(g.cache[u]) : IsPrefix(to, q) \/ (~dir /\ IsPrefix(from, q))}
      BY <2>1
    <2> HIDE DEF Stale, Unlisted
    <2>5. ASSUME CanRename(h[u], from, to)
          PROVE  Upholds(f, CleanCache(CleanCache(x, u, d), u, dNew), Renamed(h, u, from, to))
      BY <1>2, <2>3, <2>4, <2>5, RenamingUpholds
    <2> HIDE DEF from, to
    <2>6. Upholding(f, Ret(g, h, "FILENOTFND"))
      BY <1>2, RetUpholding
    <2>7. ASSUME CanRename(h[u], from, to)
          PROVE  Upholding(f, Ret(CleanCache(CleanCache(x, u, d), u, dNew), Renamed(h, u, from, to), "OK"))
      BY <2>5, <2>7, RetUpholding
    <2> QED
      BY <2>2, <2>6, <2>7
  <1>3. ASSUME u \in DOMAIN f.cache
        PROVE  Upholding(f, r)
    <2>1. Upholds(f, a.f, h)
      BY <1>3, FindUpholds
    <2> HIDE DEF a
    <2>2. Upholds(f, b.f, h)
      BY <1>3, <2>1, UpholdsFind
    <2> HIDE DEF b
    <2>3. Upholds(f, c, h)
      BY <1>3, <2>2, UpholdsClean
    <2>4. a.dir => \A q : IsPrefix(d, q) => Distrusted(c, u, q)
      BY <1>3, <2>2, UpholdsDistrust
    <2> HIDE DEF c
    <2>5. Upholding(f, Renaming(a.dir, c))
      BY <1>2, <1>3, <2>3, <2>4
    <2> HIDE DEF Renaming
    <2> QED
      BY <2>1, <2>2, <2>5, RetUpholding
  <1> HIDE DEF r
  <1> QED
    BY <1>1, <1>3, OnUnitUpholding

-----------------------------------------------------------------------------
(* The search buffers                                                      *)

(* Only the search buffers (and sectors) change.                            *)
Filed(f, g) == g.cache = f.cache /\ g.gid = f.gid /\ g.option = f.option

LEMMA FiledUpholds ==
  ASSUME NEW f, NEW g, NEW h, Upholds(f, g, h), NEW x, FsOK(x), Filed(g, x),
         Pointed(g) => \A i \in DOMAIN x.files : Positioned(x.files[i], g.gid, g.cache)
  PROVE  Upholds(f, x, h)
  <1>1. Right(x, h)
    BY DEF Upholds, Well, Right, Filed
  <1>2. ASSUME Pointed(f)
        PROVE  Pointed(x)
    <2>1. Pointed(g)
      BY <1>2 DEF Upholds
    <2> QED
      BY <2>1 DEF Pointed, Filed
  <1> QED
    BY <1>1, <1>2 DEF Upholds, Well, Filed, Carried

(* A search that has not begun is nowhere.                                  *)
LEMMA UnbegunPositioned ==
  ASSUME NEW gid \in Nat, NEW cache, NEW s, s.count = 0, s.id = 0, s.at = 0
  PROVE  Positioned(s, gid, cache)
  <1>1. s.id \in 0..gid /\ ~(s.count > 0)
    OBVIOUS
  <1> QED
    BY <1>1 DEF Positioned

LEMMA FilesFiled ==
  ASSUME NEW f, FsOK(f), NEW x
  PROVE  LET g == [f EXCEPT !.files = x] IN Filed(f, g) /\ g.files = x
  <1>1. IsFs(f)
    BY DEF FsOK
  <1> QED
    BY <1>1 DEF IsFs, FsFields, Filed

(* A buffer is freed, whatever its search was made to be before.            *)
LEMMA FreedUpholds ==
  ASSUME NEW f, NEW g, NEW h, Upholds(f, g, h), NEW x, FsOK(x), Filed(g, x),
         DOMAIN x.files = DOMAIN g.files, NEW i \in DOMAIN x.files,
         \A j \in DOMAIN g.files : j # i => x.files[j] = g.files[j]
  PROVE  Upholds(f, FilesFree(x, i), h)
  <1> DEFINE r == x.files
  <1>1. PICK e : e = NoSearch
    OBVIOUS
  <1>2. e.key = 0 /\ e.count = 0 /\ e.id = 0 /\ e.at = 0
    BY <1>1 DEF NoSearch
  <1>3. PICK t : t = ToTail([r EXCEPT ![i] = e], i)
    OBVIOUS
  <1>4. PICK y : y = [x EXCEPT !.files = t]
    OBVIOUS
  <1>5. FilesFree(x, i) = y
    BY <1>1, <1>3, <1>4 DEF FilesFree
  <1>6. Filed(x, y) /\ y.files = t
    BY <1>4, FilesFiled
  <1>7. Takes(r, t, {i}, e)
    <2>1. IsSeq(r) /\ KeysOnce(r) /\ i \in DOMAIN r
      BY DEF FsOK, SearchRing
    <2> HIDE DEF r
    <2> QED
      BY <2>1, <1>2, <1>3, RingFreed
  <1>8. FsOK(y)
    BY <1>5, FilesFreeFacts DEF Searches
  <1>9. ASSUME Pointed(g), NEW j \in DOMAIN y.files
        PROVE  Positioned(y.files[j], g.gid, g.cache)
    <2>1. g.gid \in Nat
      BY <1>9 DEF Pointed
    <2>2. CASE t[j] = e
      BY <1>2, <1>6, <2>1, <2>2, UnbegunPositioned
    <2>3. CASE t[j] # e
      <3>1. PICK m \in DOMAIN r \ {i} : t[j] = r[m]
        BY <1>6, <1>7, <2>3 DEF Takes
      <3>2. r[m] = g.files[m] /\ m \in DOMAIN g.files
        BY <3>1
      <3> QED
        BY <1>6, <1>9, <3>1, <3>2 DEF Pointed
    <2> QED
      BY <2>2, <2>3
  <1>10. Filed(g, y)
    BY <1>6 DEF Filed
  <1> QED
    BY <1>5, <1>8, <1>9, <1>10, FiledUpholds

LEMMA FreesUpholds ==
  ASSUME NEW f, NEW g, NEW h, Upholds(f, g, h), NEW i \in DOMAIN g.files
  PROVE  Upholds(f, FilesFree(g, i), h)
  <1>1. FsOK(g) /\ Filed(g, g)
    BY UpholdsWell DEF Filed
  <1> QED
    BY <1>1, FreedUpholds

LEMMA FilesAllocUpholds ==
  ASSUME NEW f, NEW g, NEW h, Upholds(f, g, h), Len(g.files) > 0, NEW k \in Keys, At(g.files, k) = {}
  PROVE  Upholds(f, FilesAlloc(g, k), h) /\ FilesAlloc(g, k).files[1].count = 0
  <1> DEFINE r == g.files
  <1>1. PICK e : e = [NoSearch EXCEPT !.key = k]
    OBVIOUS
  <1>2. e.key = k /\ e.key # 0 /\ e.count = 0 /\ e.id = 0 /\ e.at = 0
    BY <1>1, HostAssumption DEF NoSearch
  <1>3. PICK t : t = TakeLast(r, e)
    OBVIOUS
  <1>4. PICK y : y = [g EXCEPT !.files = t]
    OBVIOUS
  <1>5. FilesAlloc(g, k) = y
    BY <1>1, <1>3, <1>4 DEF FilesAlloc
  <1>6. FsOK(g)
    BY UpholdsWell
  <1>7. Filed(g, y) /\ y.files = t
    BY <1>4, <1>6, FilesFiled
  <1>8. Takes(r, t, {Len(r)}, e) /\ t[1] = e
    <2>1. IsSeq(r) /\ KeysOnce(r) /\ Len(r) > 0 /\ At(r, e.key) = {}
      BY <1>2, <1>6 DEF FsOK, SearchRing
    <2> HIDE DEF r
    <2> QED
      BY <2>1, <1>2, <1>3, RingTaken
  <1>9. FsOK(y)
    BY <1>5, <1>6, FilesAllocFacts DEF Searches
  <1>10. ASSUME Pointed(g), NEW j \in DOMAIN y.files
         PROVE  Positioned(y.files[j], g.gid, g.cache)
    <2>1. g.gid \in Nat
      BY <1>10 DEF Pointed
    <2>2. CASE t[j] = e
      BY <1>2, <1>7, <2>1, <2>2, UnbegunPositioned
    <2>3. CASE t[j] # e
      <3>1. PICK m \in DOMAIN r \ {Len(r)} : t[j] = r[m]
        BY <1>7, <1>8, <2>3 DEF Takes
      <3> QED
        BY <1>7, <1>10, <3>1 DEF Pointed
    <2> QED
      BY <2>2, <2>3
  <1> QED
    BY <1>2, <1>5, <1>7, <1>8, <1>9, <1>10, FiledUpholds

(* The search of a key in use comes to the front.                           *)
LEMMA FrontUpholds ==
  ASSUME NEW f, NEW g, NEW h, Upholds(f, g, h), NEW k \in Nat, At(g.files, k) # {},
         NEW x, FsOK(x), Filed(g, x), x.files = Searched(g.files, k)
  PROVE  Upholds(f, x, h)
  <1> DEFINE r == g.files
             t == x.files
  <1>1. IsSeq(r) /\ KeysOnce(r)
    BY UpholdsWell DEF FsOK, SearchRing
  <1>2. PICK i \in At(r, k) : t = ToFront(r, i)
    BY <1>1, SearchedFacts
  <1>3. i \in DOMAIN r
    BY DEF At
  <1>4. Takes(r, t, {}, r[i])
    <2> HIDE DEF r, t
    <2> QED
      BY <1>1, <1>2, <1>3, RingFronted
  <1>5. \A j \in DOMAIN t : \E m \in DOMAIN r : t[j] = r[m]
    BY <1>3, <1>4 DEF Takes
  <1>6. ASSUME Pointed(g), NEW j \in DOMAIN t
        PROVE  Positioned(t[j], g.gid, g.cache)
    BY <1>5, <1>6 DEF Pointed
  <1> QED
    BY <1>6, FiledUpholds

(* The first search becomes s.                                              *)
LEMMA FirstSearchUpholds ==
  ASSUME NEW f, NEW g, NEW h, Upholds(f, g, h), 1 \in DOMAIN g.files, NEW s, IsSearch(s),
         s.key = g.files[1].key, Pointed(g) => Positioned(s, g.gid, g.cache)
  PROVE  Upholds(f, [g EXCEPT !.files[1] = s], h)
  <1> DEFINE r == g.files
  <1>1. PICK x : x = [g EXCEPT !.files[1] = s]
    OBVIOUS
  <1>2. FsOK(g)
    BY UpholdsWell
  <1>3. FsOK(x)
    BY <1>1, <1>2, FirstSearched DEF Searches
  <1>4. Filed(g, x) /\ x.files = [r EXCEPT ![1] = s]
    BY <1>1, <1>2, FilesFiled
  <1>5. ASSUME Pointed(g), NEW j \in DOMAIN x.files
        PROVE  Positioned(x.files[j], g.gid, g.cache)
    <2>1. j \in DOMAIN r /\ x.files[j] = IF j = 1 THEN s ELSE r[j]
      BY <1>4
    <2> QED
      BY <1>5, <2>1 DEF Pointed
  <1> QED
    BY <1>1, <1>3, <1>4, <1>5, FiledUpholds

LEMMA RebegunUpholds ==
  ASSUME NEW f, NEW g, NEW h, Upholds(f, g, h), 1 \in DOMAIN g.files, g.files[1].count = 0,
         NEW u, NEW d \in Seq(Names), NEW attr
  PROVE  Upholds(f, Rebegun(g, u, d, attr), h)
  <1> DEFINE s == g.files[1]
  <1>1. PICK e : e = [s EXCEPT !.unit = u, !.path = d, !.attr = attr]
    OBVIOUS
  <1>2. FsOK(g) /\ IsSearch(s)
    BY UpholdsWell DEF FsOK, SearchRing
  <1>3. IsSearch(e) /\ e.key = s.key /\ e.count = s.count /\ e.id = s.id /\ e.at = s.at
    <2> HIDE DEF s
    <2> QED
      BY <1>1, <1>2 DEF IsSearch, SearchFields
  <1>4. Rebegun(g, u, d, attr) = [g EXCEPT !.files[1] = e]
    BY <1>1, <1>2 DEF Rebegun, FsOK, IsFs, FsFields
  <1>5. ASSUME Pointed(g)
        PROVE  Positioned(e, g.gid, g.cache)
    <2>1. Positioned(s, g.gid, g.cache)
      BY <1>5 DEF Pointed
    <2>2. ~(e.count > 0)
      BY <1>3
    <2> QED
      BY <1>3, <2>1, <2>2 DEF Positioned
  <1> QED
    BY <1>3, <1>4, <1>5, FirstSearchUpholds

(* A search that has found an entry stands behind it.                       *)
Behind(e, hit, c, s, p) ==
  /\ hit \in DOMAIN c.list /\ hit >= p /\ CheckAttribute(c.list[hit], s.attr)
  /\ \A i \in DOMAIN c.list : p <= i /\ i < hit => ~CheckAttribute(c.list[i], s.attr)
  /\ e.at = hit + 1 /\ Stands(c.list, e) /\ e.id = c.id /\ e.count \in Nat /\ e.count > 0

(* What a search has found, at p or behind it, in the list of c.            *)
Passed(e, found, c, s, p) ==
  \E hit : Behind(e, hit, c, s, p) /\ found.name = c.list[hit].name

Placed(search, path) == [search EXCEPT !.path = path]

Onward(e, found, c, s, u, p, path) ==
  /\ found.found =>
       /\ e.unit = u /\ e.path = path /\ e.attr = s.attr /\ e.key = s.key
       /\ Passed(e, found, c, s, p)
  /\ ~found.found =>
       \A i \in DOMAIN c.list : p <= i => ~CheckAttribute(c.list[i], s.attr)

LEMMA WentFacts ==
  ASSUME NEW c, IsSeq(c.list), NEW s, IsSearch(s), s.count \in Nat,
         NEW u, NEW p \in Nat \ {0}, NEW found, found = FindFilenameWildcard(c, s, u, p),
         NEW path, NEW e, e = Placed(found.search, path)
  PROVE  Onward(e, found, c, s, u, p, path)
  <1> DEFINE hits == {i \in p..Len(c.list) : CheckAttribute(c.list[i], s.attr)}
             hit == IF hits = {} THEN Len(c.list) + 1
                    ELSE CHOOSE i \in hits : \A j \in hits : i <= j
             at == IF hits = {} THEN hit ELSE hit + 1
             next == IF at <= Len(c.list) THEN c.list[at] ELSE NoEntry
             same == s.count > 0 /\ s.id # c.id /\ p <= Len(c.list) /\ c.list[p] = s.next
             count == (IF same THEN p - 1 ELSE s.count) + (at - p)
             went == [s EXCEPT !.unit = u, !.id = c.id, !.at = at, !.next = next, !.count = count]
  <1>1. /\ found.found = (hits # {}) /\ found.search = went
        /\ found.name = IF hits = {} THEN 0 ELSE c.list[hit].name
    BY ZenonT(30) DEF FindFilenameWildcard
  <1>2. Len(c.list) \in Nat /\ DOMAIN c.list = 1..Len(c.list)
    BY SeqOfElements
  <1>3. ASSUME NEW i \in DOMAIN c.list, p <= i, CheckAttribute(c.list[i], s.attr)
        PROVE  i \in hits
    BY <1>2, <1>3
  <1>4. CASE ~found.found
    BY ZenonT(30), <1>1, <1>3, <1>4 DEF Onward
  <1>5. CASE found.found
    <2>1. hits # {} /\ found.name = c.list[hit].name /\ at = hit + 1
      BY ZenonT(30), <1>1, <1>5
    <2>2. hits \subseteq Nat
      BY <1>2
    <2>3. \E i \in hits : \A j \in hits : i <= j
      <3> HIDE DEF hits
      <3> QED
        BY <2>1, <2>2, Smallest
    <2>4. hit \in hits /\ \A j \in hits : hit <= j
      BY <2>1, <2>3
    <2> HIDE DEF hit, at
    <2>5. hit \in DOMAIN c.list /\ hit >= p /\ CheckAttribute(c.list[hit], s.attr)
      BY <1>2, <2>4
    <2>6. hit \in Nat /\ hit <= Len(c.list) /\ hit # 0
      BY <1>2, <2>5
    <2>7. ASSUME NEW i \in DOMAIN c.list, p <= i, i < hit
          PROVE  ~CheckAttribute(c.list[i], s.attr)
      <3>1. i \in Nat /\ ~(hit <= i)
        BY <1>2, <2>6, <2>7
      <3> HIDE DEF hits
      <3> QED
        BY <1>3, <2>4, <2>7, <3>1
    <2>8. PICK w \in Nat : w = (IF same THEN p - 1 ELSE s.count)
      OBVIOUS
    <2> HIDE DEF hits, same
    <2>9. count = w + (at - p)
      BY <2>8
    <2>10. count \in Nat /\ count > 0
      <3> HIDE DEF count
      <3> QED
        BY <2>1, <2>5, <2>6, <2>9
    <2>11. /\ went.id = c.id /\ went.at = at /\ went.count = count /\ went.unit = u /\ went.next = next
           /\ went.attr = s.attr /\ went.key = s.key /\ went = [x \in SearchFields |-> went[x]]
      <3> HIDE DEF count, next
      <3> QED
        BY DEF IsSearch, SearchFields
    <2> HIDE DEF went, count
    <2>12. e = [went EXCEPT !.path = path]
      BY <1>1 DEF Placed
    <2>13. /\ e.id = c.id /\ e.at = at /\ e.count = count /\ e.unit = u /\ e.next = next
           /\ e.attr = s.attr /\ e.key = s.key /\ e.path = path
      <3> HIDE DEF next
      <3> QED
        BY <2>11, <2>12 DEF SearchFields
    <2>14. Stands(c.list, e)
      <3>1. at \in 1..(Len(c.list) + 1) /\ at \in Nat
        BY <1>2, <2>1, <2>6
      <3>2. at <= Len(c.list) => next = c.list[at]
        OBVIOUS
      <3>3. at = Len(c.list) + 1 => next = NoEntry
        <4>1. at = Len(c.list) + 1 => ~(at <= Len(c.list))
          BY <1>2, <3>1
        <4> QED
          BY <4>1
      <3> HIDE DEF next
      <3> QED
        BY <2>13, <3>1, <3>2, <3>3 DEF Stands
    <2>15. Behind(e, hit, c, s, p)
      BY <2>1, <2>5, <2>7, <2>10, <2>13, <2>14 DEF Behind
    <2> QED
      BY <1>5, <2>1, <2>13, <2>15 DEF Passed, Onward
  <1> QED
    BY <1>4, <1>5

LEMMA WentPositioned ==
  ASSUME NEW cache, NEW u \in DOMAIN cache, PathRing(cache[u]), 1 \in DOMAIN cache[u],
         NEW c, c = cache[u][1], NEW gid \in Nat, Numbered(c, gid), NEW s, IsSearch(s), s.count \in Nat,
         NEW p \in Nat \ {0}, NEW found, found = FindFilenameWildcard(c, s, u, p), found.found,
         NEW e, e = Placed(found.search, c.path)
  PROVE  Positioned(e, gid, cache)
  <1>0. IsSeq(c.list)
    BY DEF Numbered
  <1> DEFINE path == c.path
  <1>5. e = Placed(found.search, path)
    OBVIOUS
  <1> HIDE DEF path
  <1>7. Onward(e, found, c, s, u, p, path)
    BY <1>0, <1>5, WentFacts
  <1>6. e.unit = u /\ e.path = path /\ Passed(e, found, c, s, p)
    BY <1>7 DEF Onward
  <1>1. e.unit = u /\ e.path = c.path
    BY <1>6 DEF path
  <1>2. PICK hit : Behind(e, hit, c, s, p)
    BY <1>6 DEF Passed
  <1>3. e.id \in 0..gid /\ e.count \in Nat /\ Stands(c.list, e) /\ e.at \in Nat
    <2>1. hit \in Nat
      BY <1>2, SeqOfElements DEF Numbered, Behind
    <2> QED
      BY <1>2, <2>1 DEF Behind, Numbered
  <1>4. ASSUME NEW j \in DOMAIN cache[u]
        PROVE  ~Misses(cache[u][j], e)
    <2>1. CASE j = 1
      BY <1>3, <2>1 DEF Misses
    <2>2. CASE j # 1
      <3>1. cache[u][j].path # c.path
        BY <2>2 DEF PathRing
      <3> QED
        BY <1>1, <3>1 DEF Misses
    <2> QED
      BY <2>1, <2>2
  <1> QED
    BY <1>1, <1>3, <1>4 DEF Positioned

LEMMA StepUpholding ==
  ASSUME NEW f, NEW g, NEW h, Upholds(f, g, h), NEW u \in DOMAIN g.cache, Len(g.cache[u]) > 0,
         1 \in DOMAIN g.files, NEW p, Pointed(g) => p \in Nat \ {0}
  PROVE  Upholding(f, Step(g, h, u, p))
  <1> DEFINE c == g.cache[u][1]
             s == g.files[1]
             path == c.path
             found == FindFilenameWildcard(c, s, u, p)
             e == [found.search EXCEPT !.path = path]
             x == [g EXCEPT !.files[1] = e]
             y == [Ret(x, h, "OK") EXCEPT !.name = found.name]
  <1>1. FsOK(g)
    BY UpholdsWell
  <1>2. Step(g, h, u, p) = IF found.found THEN y ELSE Ret(FilesFree(x, 1), h, "FILENOTFND")
    BY DEF Step
  <1>3. 1 \in DOMAIN g.cache[u] /\ path \in Seq(Names)
    <2>1. PathRing(g.cache[u])
      BY <1>1 DEF FsOK
    <2>2. 1 \in DOMAIN g.cache[u]
      BY <2>1, SeqOfElements DEF PathRing
    <2> QED
      BY <2>1, <2>2 DEF PathRing, IsPath
  <1>4. IsSearch(s)
    BY <1>1 DEF FsOK, SearchRing
  <1> HIDE DEF path
  <1>5. IsSearch(e) /\ e.key = s.key
    BY <1>3, <1>4, SearchWent
  <1>6. ASSUME found.found, Pointed(g)
        PROVE  Positioned(e, g.gid, g.cache)
    <2>1. g.gid \in Nat /\ Numbered(c, g.gid) /\ Positioned(s, g.gid, g.cache)
      BY <1>3, <1>6 DEF Pointed
    <2>2. s.count \in Nat
      BY <2>1 DEF Positioned
    <2>3. p \in Nat \ {0}
      BY <1>6
    <2>4. PathRing(g.cache[u])
      BY <1>1 DEF FsOK
    <2>5. e = Placed(found.search, c.path)
      BY DEF path, Placed
    <2> HIDE DEF s, found, e
    <2>6. c = g.cache[u][1] /\ found = FindFilenameWildcard(c, s, u, p)
      BY DEF found
    <2> HIDE DEF c
    <2> QED
      BY <1>3, <1>4, <1>6, <2>1, <2>2, <2>3, <2>4, <2>5, <2>6, WentPositioned
  <1> HIDE DEF e
  <1>7. ASSUME found.found
        PROVE  Upholding(f, y)
    <2>1. Upholds(f, x, h)
      BY <1>5, <1>6, <1>7, FirstSearchUpholds
    <2>2. y.fs = x /\ y.host = h
      BY DEF Ret
    <2> QED
      BY <2>1, <2>2 DEF Upholding
  <1>8. Upholding(f, Ret(FilesFree(x, 1), h, "FILENOTFND"))
    <2>1. FsOK(x) /\ 1 \in DOMAIN x.files
      BY <1>1, <1>5, FirstSearched DEF Searches
    <2>2. Filed(g, x) /\ x.files = [g.files EXCEPT ![1] = e]
      BY <1>1, FilesFiled
    <2> HIDE DEF x
    <2>3. Upholds(f, FilesFree(x, 1), h)
      BY <2>1, <2>2, FreedUpholds
    <2> QED
      BY <2>3, RetUpholding
  <1> HIDE DEF found, y
  <1> QED
    BY <1>2, <1>7, <1>8

LEMMA RebegunThere ==
  ASSUME NEW f, FsOK(f), 1 \in DOMAIN f.files, NEW u, NEW d \in Seq(Names), NEW attr,
         NEW g, g = Rebegun(f, u, d, attr)
  PROVE  g.cache = f.cache /\ 1 \in DOMAIN g.files
  BY DEF Rebegun, FsOK, IsFs, FsFields

LEMMA FilesUpholding ==
  ASSUME NEW f, NEW h, Well(f, h), Seen(h), NEW u \in Nat, NEW k \in Keys, NEW d \in Seq(Names), NEW attr
  PROVE  Upholding(f, Files(f, h, u, k, d, attr))
  <1> DEFINE i == CHOOSE j \in At(f.files, k) : TRUE
             f0 == IF At(f.files, k) = {} THEN f ELSE FilesFree(f, i)
             g == FilesAlloc(f0, k)
             a == Find(g, u, h[u], d)
             x == Rebegun(a.f, u, d, attr)
             s == IF a.ok THEN Step(x, h, u, 1)
                  ELSE Ret(FilesFree(a.f, 1), h, IF d = Root THEN "FILENOTFND" ELSE "DIRNOTFND")
             t == IF attr = "volume" THEN FilesVolume(f0, h, d) ELSE s
  <1>1. Files(f, h, u, k, d, attr) = OnUnit(f0, h, u, "MEDIAOFFLINE", t)
    BY DEF Files, Rebegun
  <1>2. Upholds(f, f0, h) /\ At(f0.files, k) = {}
    <2>1. CASE At(f.files, k) = {}
      BY <2>1, UpholdsNothing
    <2>2. CASE At(f.files, k) # {}
      <3>1. i \in DOMAIN f.files /\ f.files[i].key = k
        BY <2>2 DEF At
      <3> HIDE DEF i
      <3>2. f0 = FilesFree(f, i)
        BY <2>2
      <3> HIDE DEF f0
      <3>3. k # 0 /\ FsOK(f)
        BY HostAssumption DEF Well
      <3>4. At(f0.files, k) = {}
        BY <3>1, <3>2, <3>3, FilesFreeFacts
      <3>5. Upholds(f, f, h)
        BY UpholdsNothing
      <3> QED
        BY <3>1, <3>2, <3>4, <3>5, FreesUpholds
    <2> QED
      BY <2>1, <2>2
  <1> HIDE DEF f0
  <1>3. Well(f0, h) /\ FsOK(f0) /\ Upholds(f0, f0, h)
    BY <1>2, UpholdsWell, UpholdsNothing
  <1>4. ASSUME u \in DOMAIN f0.cache
        PROVE  Upholding(f0, s)
    <2>1. Len(f0.files) > 0
      BY <1>3, <1>4, RingsThere
    <2>2. Upholds(f0, g, h) /\ g.files[1].count = 0
      BY <1>2, <1>3, <2>1, FilesAllocUpholds
    <2>3. 1 \in DOMAIN g.files
      BY <1>2, <1>3, <2>1, FilesAllocFacts
    <2> HIDE DEF g
    <2>4. FsOK(g) /\ u \in DOMAIN g.cache
      BY <1>4, <2>2, UpholdsWell
    <2>5. Standing(g, u, d, a)
      BY <2>4, FindFacts
    <2>6. Upholds(f0, a.f, h)
      BY <1>4, <2>2, UpholdsFind
    <2> HIDE DEF a
    <2>7. 1 \in DOMAIN a.f.files /\ a.f.files[1].count = 0 /\ u \in DOMAIN a.f.cache /\ FsOK(a.f)
      BY <2>2, <2>3, <2>4, <2>5 DEF Standing, LookedUp, FsOK, Alike
    <2>8. ASSUME a.ok
          PROVE  Upholding(f0, Step(x, h, u, 1))
      <3>1. Upholds(f0, x, h)
        BY <2>6, <2>7, RebegunUpholds
      <3>2. x = Rebegun(a.f, u, d, attr)
        OBVIOUS
      <3> HIDE DEF x
      <3>3. x.cache = a.f.cache /\ 1 \in DOMAIN x.files
        <4>1. PICK z : z = a.f
          OBVIOUS
        <4>3. x = Rebegun(z, u, d, attr) /\ FsOK(z) /\ 1 \in DOMAIN z.files
          BY <2>7, <3>2, <4>1
        <4>2. x.cache = z.cache /\ 1 \in DOMAIN x.files
          BY <4>3, RebegunThere
        <4> QED
          BY <4>1, <4>2
      <3>4. Len(x.cache[u]) > 0 /\ u \in DOMAIN x.cache
        BY <2>5, <2>7, <2>8, <3>3 DEF Standing
      <3> QED
        BY <3>1, <3>3, <3>4, StepUpholding
    <2>9. Upholding(f0, Ret(FilesFree(a.f, 1), h, IF d = Root THEN "FILENOTFND" ELSE "DIRNOTFND"))
      BY <2>6, <2>7, FreesUpholds, RetUpholding
    <2> HIDE DEF x
    <2> QED
      BY <2>8, <2>9
  <1> HIDE DEF s
  <1>5. Upholding(f0, FilesVolume(f0, h, d))
    BY <1>3, RetUpholding DEF FilesVolume
  <1>6. u \in DOMAIN f0.cache => Upholding(f0, t)
    BY <1>4, <1>5
  <1> HIDE DEF t
  <1>7. PICK r : r = OnUnit(f0, h, u, "MEDIAOFFLINE", t)
    OBVIOUS
  <1>8. Upholding(f0, r)
    BY <1>3, <1>6, <1>7, OnUnitUpholding
  <1>9. Upholding(f, r)
    BY <1>2, <1>8, UpholdsTwice DEF Upholding
  <1> QED
    BY <1>1, <1>7, <1>9

(* The lookup that NFILES starts with.                                      *)
LEMMA NFilesFoundUpholds ==
  ASSUME NEW f, NEW h, Well(f, h), Seen(h), NEW u \in DOMAIN f.cache, NEW k \in Keys, At(f.files, k) # {},
         NEW a, a = NFilesFound(f, h, u, k)
  PROVE  /\ Upholds(f, a.f, h) /\ FsOK(a.f) /\ 1 \in DOMAIN a.f.files
         /\ u \in DOMAIN a.f.cache /\ (a.ok => Len(a.f.cache[u]) > 0)
  <1> DEFINE d == f.files[CHOOSE i \in At(f.files, k) : TRUE].path
  <1>1. PICK g : g = [f EXCEPT !.files = Searched(@, k)]
    OBVIOUS
  <1>2. FsOK(f) /\ k \in Nat /\ Upholds(f, f, h)
    BY UpholdsNothing, HostAssumption DEF Well
  <1>3. FsOK(g) /\ 1 \in DOMAIN g.files
    BY <1>1, <1>2, SearchedFront
  <1>4. Filed(f, g) /\ g.files = Searched(f.files, k)
    <2>1. PICK t : t = Searched(f.files, k)
      OBVIOUS
    <2>2. g = [f EXCEPT !.files = t]
      BY <1>1, <2>1
    <2> QED
      BY <1>2, <2>1, <2>2, FilesFiled
  <1>5. Upholds(f, g, h)
    BY <1>2, <1>3, <1>4, FrontUpholds
  <1>6. d \in Seq(Names)
    <2>1. \E i \in At(f.files, k) : d = f.files[i].path
      OBVIOUS
    <2> HIDE DEF d
    <2> QED
      BY <1>2, <2>1 DEF At, FsOK, SearchRing, IsSearch
  <1>7. a = Find(g, u, h[u], d)
    BY <1>1 DEF NFilesFound
  <1> HIDE DEF d
  <1>8. Upholds(f, a.f, h)
    BY <1>5, <1>6, <1>7, UpholdsFind
  <1>9. Standing(g, u, d, a)
    BY <1>3, <1>4, <1>6, <1>7, FindFacts DEF Filed
  <1>10. 1 \in DOMAIN a.f.files /\ (a.ok => Len(a.f.cache[u]) > 0)
    BY <1>3, <1>9 DEF Standing, LookedUp
  <1> QED
    BY <1>8, <1>10, UpholdsWell

LEMMA NFilesUpholding ==
  ASSUME NEW f, NEW h, Well(f, h), Seen(h), NEW u \in Nat, NEW k \in Keys, NEW p,
         NEW a, a = NFilesFound(f, h, u, k),
         u \in DOMAIN f.cache /\ At(f.files, k) # {} /\ a.ok /\ Pointed(a.f) => p \in Nat \ {0}
  PROVE  Upholding(f, NFiles(f, h, u, k, p))
  <1> DEFINE s == IF a.ok THEN Step(a.f, h, u, p) ELSE Ret(FilesFree(a.f, 1), h, "FILENOTFND")
             t == IF At(f.files, k) = {} THEN Ret(f, h, "INVALIDPTR") ELSE s
  <1>1. NFiles(f, h, u, k, p) = OnUnit(f, h, u, "MEDIAOFFLINE", t)
    BY DEF NFiles
  <1>2. ASSUME u \in DOMAIN f.cache, At(f.files, k) # {}
        PROVE  Upholding(f, s)
    <2>1. /\ Upholds(f, a.f, h) /\ FsOK(a.f) /\ 1 \in DOMAIN a.f.files
          /\ u \in DOMAIN a.f.cache /\ (a.ok => Len(a.f.cache[u]) > 0)
      BY <1>2, NFilesFoundUpholds
    <2>2. CASE a.ok
      <3>1. Upholding(f, Step(a.f, h, u, p))
        BY <1>2, <2>1, <2>2, StepUpholding
      <3> QED
        BY <2>2, <3>1
    <2>3. CASE ~a.ok
      <3>1. Upholding(f, Ret(FilesFree(a.f, 1), h, "FILENOTFND"))
        BY <2>1, FreesUpholds, RetUpholding
      <3> QED
        BY <2>3, <3>1
    <2> QED
      BY <2>2, <2>3
  <1>3. Upholding(f, Ret(f, h, "INVALIDPTR"))
    BY UpholdsNothing, RetUpholding
  <1> HIDE DEF s
  <1>4. u \in DOMAIN f.cache => Upholding(f, t)
    BY <1>2, <1>3
  <1> HIDE DEF t
  <1> QED
    BY <1>1, <1>4, OnUnitUpholding

(* The position that NFILES continues at is one of the list, or behind it.  *)
LEMMA PositionsThere ==
  ASSUME NEW f, NEW u \in DOMAIN f.cache, Pointed(f), NEW i \in DOMAIN f.cache[u],
         NEW j \in DOMAIN f.files, NEW p \in Positions(f.cache[u][i], f.files[j])
  PROVE  p \in Nat \ {0}
  <1> DEFINE c == f.cache[u][i]
             s == f.files[j]
             same == {m \in DOMAIN c.list : c.list[m] = s.next}
             first == CHOOSE m \in same : \A n \in same : m <= n
  <1>1. Numbered(c, f.gid) /\ Positioned(s, f.gid, f.cache)
    BY DEF Pointed
  <1>2. PICK n \in Nat : n = Len(c.list) /\ DOMAIN c.list = 1..n
    BY <1>1, SeqOfElements DEF Numbered
  <1>3. s.count \in Nat /\ s.at \in Nat
    BY <1>1 DEF Positioned
  <1>4. CASE s.count = 0
    <2>1. Positions(c, s) = {1}
      BY <1>4 DEF Positions
    <2> QED
      BY <2>1
  <1>5. CASE s.count > 0 /\ s.id = c.id
    <2>1. Positions(c, s) = IF s.at = 0 THEN 1..(Len(c.list) + 1) ELSE {s.at}
      BY <1>3, <1>5 DEF Positions
    <2> QED
      BY <1>2, <1>3, <2>1
  <1>6. CASE s.count > 0 /\ s.id # c.id /\ same # {}
    <2>1. Positions(c, s) = {first}
      BY <1>3, <1>6 DEF Positions
    <2>2. same \subseteq Nat /\ \A m \in same : m # 0
      BY <1>2
    <2>3. \E m \in same : \A l \in same : m <= l
      <3> HIDE DEF same
      <3> QED
        BY <1>6, <2>2, Smallest
    <2>4. first \in same
      BY ZenonT(30), <2>3
    <2> QED
      BY ZenonT(30), <2>1, <2>2, <2>4
  <1>7. CASE s.count > 0 /\ s.id # c.id /\ same = {}
    <2>1. Positions(c, s) = {IF s.count > Len(c.list) THEN Len(c.list) + 1 ELSE s.count + 1}
      BY <1>3, <1>7 DEF Positions
    <2> QED
      BY <1>2, <1>3, <2>1
  <1> QED
    BY <1>3, <1>4, <1>5, <1>6, <1>7

LEMMA DiskReadUpholding ==
  ASSUME NEW f, NEW h, Well(f, h), NEW u \in Nat, NEW size, NEW k \in Nat, NEW cluster, NEW read
  PROVE  Upholding(f, DiskRead(f, h, u, size, k, cluster, read))
  <1> DEFINE of == IF cluster = 0 THEN 0 ELSE f.sectors[cluster]
             x == [f EXCEPT !.files = Searched(@, k), !.sectors[f.count + 1] = k,
                            !.count = (@ + 1) % SectorMax]
             y == [f EXCEPT !.files = Searched(@, of)]
             r == IF size # 1 THEN Ret(f, h, "INVALIDPRM")
                  ELSE IF At(f.files, k) # {} /\ cluster = 0 THEN Ret(x, h, "OK")
                  ELSE IF cluster # 0 /\ At(f.files, of) # {} THEN Ret(y, h, read)
                  ELSE Ret(f, h, "INVALIDPRM")
  <1>1. DiskRead(f, h, u, size, k, cluster, read) = OnUnit(f, h, u, "MEDIAOFFLINE", r)
    BY DEF DiskRead
  <1>2. FsOK(f) /\ Upholds(f, f, h)
    BY UpholdsNothing DEF Well
  <1>3. ASSUME NEW j \in Nat, At(f.files, j) # {}, NEW g, IsFs(g), g.files = Searched(f.files, j),
               g.units = f.units, g.fcbs = f.fcbs, Filed(f, g)
        PROVE  Upholds(f, g, h)
    <2>1. PICK z : z = [f EXCEPT !.files = Searched(@, j)]
      OBVIOUS
    <2>2. FsOK(z)
      BY <1>2, <1>3, <2>1, SearchedFront
    <2>3. z.files = g.files /\ z.units = g.units /\ z.fcbs = g.fcbs /\ z.cache = g.cache
      BY <1>2, <1>3, <2>1 DEF FsOK, IsFs, FsFields, Filed
    <2>4. FsOK(g)
      BY <1>3, <2>2, <2>3, SectorsChanged
    <2> QED
      BY <1>2, <1>3, <2>4, FrontUpholds
  <1>4. ASSUME At(f.files, k) # {}
        PROVE  Upholds(f, x, h)
    <2>1. /\ IsFs(x) /\ x.files = Searched(f.files, k) /\ x.units = f.units /\ x.fcbs = f.fcbs
          /\ Filed(f, x)
      BY <1>2 DEF FsOK, IsFs, FsFields, Filed
    <2> HIDE DEF x
    <2> QED
      BY <1>3, <1>4, <2>1
  <1>5. ASSUME At(f.files, of) # {}
        PROVE  Upholds(f, y, h)
    <2> HIDE DEF of
    <2>1. PICK i \in DOMAIN f.files : f.files[i].key = of
      BY <1>5 DEF At
    <2>2. of \in Nat
      BY <1>2, <2>1 DEF FsOK, SearchRing, IsSearch
    <2>3. /\ IsFs(y) /\ y.files = Searched(f.files, of) /\ y.units = f.units /\ y.fcbs = f.fcbs
          /\ Filed(f, y)
      BY <1>2 DEF FsOK, IsFs, FsFields, Filed
    <2> HIDE DEF y
    <2> QED
      BY <1>3, <1>5, <2>2, <2>3
  <1> HIDE DEF x, y, of
  <1>6. ASSUME At(f.files, k) # {}
        PROVE  Upholding(f, Ret(x, h, "OK"))
    BY <1>4, <1>6, RetUpholding
  <1>7. ASSUME At(f.files, of) # {}
        PROVE  Upholding(f, Ret(y, h, read))
    BY <1>5, <1>7, RetUpholding
  <1>8. Upholding(f, Ret(f, h, "INVALIDPRM"))
    BY <1>2, RetUpholding
  <1>9. Upholding(f, r)
    BY <1>6, <1>7, <1>8
  <1> HIDE DEF r
  <1> QED
    BY <1>1, <1>9, OnUnitUpholding

(* A call after which the lists are right; and so are the positions, unless *)
(* it restarts the numbering.                                               *)
Sustains(f, r) ==
  /\ Well(r.fs, r.host)
  /\ r.fs.option = f.option => (Pointed(f) => Pointed(r.fs)) /\ Carried(f, r.fs)

LEMMA UpholdingSustains ==
  ASSUME NEW f, NEW r, Upholding(f, r)
  PROVE  Sustains(f, r)
  BY DEF Upholding, Upholds, Sustains

LEMMA SetOptionFields ==
  ASSUME NEW f, IsFs(f), NEW option
  PROVE  LET g == SetOption(f, option)
         IN /\ g.option = option /\ g.files = f.files
            /\ g.gid = IF option # f.option THEN 0 ELSE f.gid
            /\ g.cache = IF option # f.option
                         THEN [u \in DOMAIN f.cache |-> Released(f.cache[u], Paths(f.cache[u]))]
                         ELSE f.cache
  BY DEF SetOption, IsFs, FsFields

LEMMA SetOptionSustains ==
  ASSUME NEW f, NEW h, Well(f, h), NEW option, NEW code
  PROVE  Sustains(f, Ret(SetOption(f, option), h, code))
  <1>1. PICK g : g = SetOption(f, option)
    OBVIOUS
  <1>2. FsOK(f) /\ Right(f, h)
    BY DEF Well
  <1>3. FsOK(g)
    BY <1>1, <1>2, SetOptionFacts DEF Serves
  <1>4. PICK c : c = [u \in DOMAIN f.cache |-> Released(f.cache[u], Paths(f.cache[u]))]
    OBVIOUS
  <1>5. /\ g.option = option /\ g.files = f.files
        /\ g.gid = IF option # f.option THEN 0 ELSE f.gid
        /\ g.cache = IF option # f.option THEN c ELSE f.cache
    BY <1>1, <1>2, <1>4, SetOptionFields DEF FsOK
  <1>6. ASSUME option = f.option
        PROVE  Right(g, h) /\ (Pointed(f) => Pointed(g)) /\ Carried(f, g)
    BY <1>2, <1>5, <1>6 DEF Right, Pointed, Carried
  <1>7. ASSUME option # f.option
        PROVE  Right(g, h)
    <2>1. ASSUME NEW u \in DOMAIN f.cache, NEW i \in DOMAIN c[u]
          PROVE  c[u][i].refresh
      <3>1. PICK r : r = f.cache[u]
        OBVIOUS
      <3>2. c[u] = Released(r, Paths(r))
        BY <1>4, <3>1
      <3>3. i \in DOMAIN r /\ c[u][i] = [r[i] EXCEPT !.refresh = TRUE]
        BY <2>1, <3>2 DEF Released, Paths
      <3>4. IsPath(r[i])
        BY <1>2, <3>1, <3>3 DEF FsOK, PathRing
      <3> QED
        BY <3>3, <3>4 DEF IsPath, PathFields
    <2>2. DOMAIN g.cache = DOMAIN f.cache /\ g.cache = c
      BY <1>4, <1>5, <1>7
    <2> QED
      BY <1>2, <2>1, <2>2 DEF Right, ListsOf, Lists
  <1>8. PICK r : r = Ret(g, h, code)
    OBVIOUS
  <1>9. r.fs = g /\ r.host = h
    BY <1>8 DEF Ret
  <1>10. Sustains(f, r)
    BY <1>3, <1>5, <1>6, <1>7, <1>9 DEF Sustains, Well
  <1> QED
    BY <1>1, <1>8, <1>10

LEMMA OnUnitSustains ==
  ASSUME NEW f, NEW h, Well(f, h), NEW u, NEW missing, NEW r, Sustains(f, r)
  PROVE  Sustains(f, OnUnit(f, h, u, missing, r))
  <1>1. Sustains(f, Ret(f, h, "INVALIDUNIT")) /\ Sustains(f, Ret(f, h, missing))
    BY UpholdsNothing, RetUpholding, UpholdingSustains
  <1> QED
    BY <1>1 DEF OnUnit

LEMMA IoctrlSustains ==
  ASSUME NEW f, NEW h, Well(f, h), NEW u, NEW function, NEW param
  PROVE  Sustains(f, Ioctrl(f, h, u, function, param))
  <1> DEFINE x == Ret(SetOption(f, param), h, "OK")
             r == CASE function = -2 -> x
                    [] function \in {0, 1, -1, -3} -> Ret(f, h, "OK")
                    [] function = 2 /\ param \in {-1, 0, 1} -> Ret(f, h, "OK")
                    [] OTHER -> Ret(f, h, "NOTIOCTRL")
  <1>1. Ioctrl(f, h, u, function, param) = OnUnit(f, h, u, "INVALIDFUNC", r)
    BY DEF Ioctrl
  <1>2. Sustains(f, x)
    BY SetOptionSustains
  <1>3. Sustains(f, Ret(f, h, "OK")) /\ Sustains(f, Ret(f, h, "NOTIOCTRL"))
    BY UpholdsNothing, RetUpholding, UpholdingSustains
  <1> HIDE DEF x
  <1>4. Sustains(f, r)
    <2>1. CASE function = -2
      <3>1. function \notin {0, 1, -1, -3} /\ function # 2
        BY <2>1
      <3>2. r = x
        BY <2>1, <3>1
      <3> QED
        BY <1>2, <3>2
    <2>2. CASE function # -2 /\ function \in {0, 1, -1, -3}
      <3>1. r = Ret(f, h, "OK")
        BY <2>2
      <3> QED
        BY <1>3, <3>1
    <2>3. CASE function # -2 /\ function \notin {0, 1, -1, -3} /\ function = 2 /\ param \in {-1, 0, 1}
      <3>1. r = Ret(f, h, "OK")
        BY <2>3
      <3> QED
        BY <1>3, <3>1
    <2>4. CASE /\ ~(function = -2) /\ ~(function \in {0, 1, -1, -3})
               /\ ~(function = 2 /\ param \in {-1, 0, 1})
      <3>1. r = Ret(f, h, "NOTIOCTRL")
        BY <2>4
      <3> QED
        BY <1>3, <3>1
    <2> QED
      BY <2>1, <2>2, <2>3, <2>4
  <1> HIDE DEF r
  <1> QED
    BY <1>1, <1>4, OnUnitSustains

LEMMA InitDeviceUpholds ==
  ASSUME NEW f, NEW h, Well(f, h), NEW n \in UnitCounts, NEW option
  PROVE  LET r == InitDevice(Reset(f), h, n, option)
         IN Well(r.fs, r.host) /\ Pointed(r.fs)
  <1> DEFINE f0 == [f EXCEPT !.files = <<>>, !.fcbs = <<>>, !.cache = <<>>,
                             !.sectors = [i \in DOMAIN @ |-> 0], !.count = 0]
             g == SetOption(Reset(f), option)
             x == [g EXCEPT !.units = n, !.cache = [u \in 0..(n - 1) |-> <<>>],
                            !.files = [i \in 1..FilesMax |-> NoSearch],
                            !.fcbs = [i \in 1..FcbMax |-> NoFcb]]
  <1>1. InitDevice(Reset(f), h, n, option) = Ret(x, h, "OK")
    BY DEF InitDevice
  <1>2. IsFs(f) /\ FsOK(f) /\ Right(f, h)
    BY DEF Well, FsOK
  <1>3. FsOK(x)
    <2>1. FsOK(InitDevice(Reset(f), h, n, option).fs)
      BY <1>2, InitDeviceFacts
    <2>2. Ret(x, h, "OK").fs = x
      BY DEF Ret
    <2> QED
      BY <1>1, <2>1, <2>2
  <1>4. IsFs(f0) /\ f0.gid = f.gid /\ Reset(f) = SetOption(f0, 0)
    <2>1. IsFs(f0) /\ f0.gid = f.gid
      BY <1>2 DEF IsFs, FsFields
    <2>2. Reset(f) = SetOption(f0, 0)
      BY DEF Reset
    <2> QED
      BY <2>1, <2>2
  <1> HIDE DEF f0
  <1>13. PICK e : e = Reset(f)
    OBVIOUS
  <1>5. IsFs(e) /\ e.gid \in {0, f.gid}
    <2>1. e = SetOption(f0, 0)
      BY <1>4, <1>13
    <2>2. IsFs(e) /\ e.gid = IF 0 # f0.option THEN 0 ELSE f0.gid
      BY <1>4, <2>1, OptionFs, SetOptionFields
    <2> QED
      BY <1>4, <2>2
  <1>6. IsFs(g) /\ g.gid \in {0, f.gid}
    <2>1. g = SetOption(e, option)
      BY <1>13
    <2> HIDE DEF g
    <2>2. IsFs(g) /\ g.gid = IF option # e.option THEN 0 ELSE e.gid
      BY <1>5, <2>1, OptionFs, SetOptionFields
    <2> QED
      BY <1>5, <2>2
  <1> HIDE DEF g
  <1>7. x.gid = g.gid /\ x.cache = [u \in 0..(n - 1) |-> <<>>] /\ x.files = [i \in 1..FilesMax |-> NoSearch]
    BY <1>6 DEF IsFs, FsFields
  <1> HIDE DEF x
  <1>8. Right(x, h)
    BY <1>2, <1>7 DEF Right, ListsOf
  <1>9. Pointed(x)
    <2>1. x.gid \in Nat
      BY <1>3 DEF FsOK, IsFs
    <2>2. PICK z : z = NoSearch
      OBVIOUS
    <2>3. z.count = 0 /\ z.id = 0 /\ z.at = 0
      BY <2>2 DEF NoSearch
    <2>4. \A i \in DOMAIN x.files : Positioned(x.files[i], x.gid, x.cache)
      <3>1. \A i \in DOMAIN x.files : x.files[i] = z
        BY <1>7, <2>2
      <3>2. Positioned(z, x.gid, x.cache)
        BY <2>1, <2>3, UnbegunPositioned
      <3> QED
        BY <3>1, <3>2
    <2>5. \A u \in DOMAIN x.cache : DOMAIN x.cache[u] = {}
      BY <1>7
    <2> QED
      BY <2>1, <2>4, <2>5 DEF Pointed
  <1>10. PICK r : r = Ret(x, h, "OK")
    OBVIOUS
  <1>11. r.fs = x /\ r.host = h
    BY <1>10 DEF Ret
  <1>12. Well(r.fs, r.host) /\ Pointed(r.fs)
    BY <1>3, <1>8, <1>9, <1>11 DEF Well
  <1> QED
    BY <1>1, <1>10, <1>12

-----------------------------------------------------------------------------
(* The lists and the positions in every state                              *)

FsRight == Right(fs, host) /\ ("restart" \in excuses \/ Pointed(fs))

LEMMA SeenNow == Seen(host)
  BY DEF Seen, Lasting

LEMMA SeenNext == Seen(host')
  BY DEF Seen, Lasting

LEMMA SustainedRight ==
  ASSUME RingsInv, FsRight, NEW r, Sustains(fs, r), fs' = r.fs, host' = r.host,
         "restart" \notin excuses' => "restart" \notin excuses /\ r.fs.option = fs.option
  PROVE  FsRight'
  BY DEF FsRight, Sustains, Well

(* The handlers that only report.                                           *)
LEMMA ReportedSustained ==
  ASSUME RingsInv, FsRight, NEW op, NEW r, Reported(op, r), Sustains(fs, r)
  PROVE  FsRight'
  <1>1. fs' = r.fs /\ host' = r.host
    BY DEF Reported, Answer
  <1>2. "restart" \notin excuses' => "restart" \notin excuses /\ r.fs.option = fs.option
    BY DEF Reported
  <1> QED
    BY <1>1, <1>2, SustainedRight

LEMMA ReportedRight ==
  ASSUME RingsInv, FsRight, NEW op, NEW r, Reported(op, r), Upholding(fs, r)
  PROVE  FsRight'
  <1>1. Sustains(fs, r)
    BY UpholdingSustains
  <1> QED
    BY <1>1, ReportedSustained

LEMMA UpheldRight ==
  ASSUME RingsInv, FsRight, NEW r, Upholding(fs, r), fs' = r.fs, host' = r.host,
         excuses \subseteq excuses'
  PROVE  FsRight'
  BY DEF FsRight, Upholding, Upholds, Well

LEMMA InitDeviceRight ==
  ASSUME RingsInv, FsRight, FS_InitDevice
  PROVE  FsRight'
  <1>1. PICK n \in UnitCounts, option \in 0..1 :
          Answer(InitDevice(Reset(fs), host, n, option), 0, Root)
    BY DEF FS_InitDevice
  <1>2. PICK r : r = InitDevice(Reset(fs), host, n, option)
    OBVIOUS
  <1>3. Well(fs, host)
    BY DEF RingsInv, FsRight, Well
  <1>4. Well(r.fs, r.host) /\ Pointed(r.fs)
    BY <1>2, <1>3, InitDeviceUpholds
  <1> QED
    BY <1>1, <1>2, <1>4 DEF FsRight, Well, Answer

LEMMA FilesRight ==
  ASSUME RingsInv, FsRight, FS_Files
  PROVE  FsRight'
  <1>1. PICK u \in UnitArgs, k \in work.keys, d \in Dirs,
             attr \in (IF work.strange THEN {"all", "file", "volume"} ELSE {"all"}) :
          LET r == Files(fs, host, u, k, d, attr)
          IN Answer(r, u, Entry(d, r))
    BY DEF FS_Files
  <1>2. u \in Nat /\ k \in Keys /\ d \in Seq(Names)
    BY Arguments
  <1>3. PICK r : r = Files(fs, host, u, k, d, attr)
    OBVIOUS
  <1>4. Well(fs, host)
    BY DEF RingsInv, FsRight, Well
  <1>5. Upholding(fs, r)
    BY <1>2, <1>3, <1>4, SeenNow, FilesUpholding
  <1>6. Answer(r, u, Entry(d, r)) /\ excuses' = excuses
    BY <1>1, <1>3 DEF FS_Files
  <1> QED
    BY <1>5, <1>6, UpheldRight DEF Answer

LEMMA NFilesRight ==
  ASSUME RingsInv, FsRight, FS_NFiles
  PROVE  FsRight'
  <1> DEFINE Ways(u, k) ==
               IF u < fs.units /\ At(fs.files, k) # {}
               THEN LET a == NFilesFound(fs, host, u, k)
                    IN IF a.ok THEN Positions(a.f.cache[u][1], a.f.files[1]) ELSE {1}
               ELSE {1}
             Went(u, k, p) ==
               LET r == NFiles(fs, host, u, k, p)
               IN Answer(r, u, IF r.name = 0 THEN Root ELSE Entry(r.fs.files[1].path, r))
  <1>0. PICK u \in UnitArgs, k \in work.keys : \E p \in Ways(u, k) : Went(u, k, p)
    BY ZenonT(30) DEF FS_NFiles
  <1>1. PICK p \in Ways(u, k) : Went(u, k, p)
    BY <1>0
  <1>2. u \in Nat /\ k \in Keys
    BY Arguments
  <1>3. Well(fs, host) /\ FsOK(fs)
    BY DEF RingsInv, FsRight, Well
  <1>4. PICK a : a = NFilesFound(fs, host, u, k)
    OBVIOUS
  <1>5. ASSUME u \in DOMAIN fs.cache, At(fs.files, k) # {}, a.ok, Pointed(a.f)
        PROVE  p \in Nat \ {0}
    <2>1. /\ FsOK(a.f) /\ 1 \in DOMAIN a.f.files
          /\ u \in DOMAIN a.f.cache /\ Len(a.f.cache[u]) > 0
      BY <1>2, <1>3, <1>4, <1>5, SeenNow, NFilesFoundUpholds
    <2>2. 1 \in DOMAIN a.f.cache[u]
      BY <2>1, SeqOfElements DEF FsOK, PathRing
    <2>3. u < fs.units
      BY <1>3, <1>5 DEF FsOK
    <2>4. Ways(u, k) = Positions(a.f.cache[u][1], a.f.files[1])
      BY <1>4, <1>5, <2>3
    <2> HIDE DEF Ways
    <2> QED
      BY <1>1, <1>5, <2>1, <2>2, <2>4, PositionsThere
  <1>6. PICK r : r = NFiles(fs, host, u, k, p)
    OBVIOUS
  <1>7. Answer(r, u, IF r.name = 0 THEN Root ELSE Entry(r.fs.files[1].path, r))
    BY <1>1, <1>6
  <1>10. excuses' = excuses
    BY DEF FS_NFiles
  <1> HIDE DEF Ways, Went
  <1>8. Upholding(fs, r)
    BY <1>2, <1>3, <1>4, <1>5, <1>6, SeenNow, NFilesUpholding
  <1> QED
    BY <1>7, <1>8, <1>10, UpheldRight DEF Answer

LEMMA DiskReadRight ==
  ASSUME RingsInv, FsRight, FS_DiskRead
  PROVE  FsRight'
  <1>1. PICK u \in UnitArgs, size \in 1..2, k \in work.keys \cup {0}, cluster \in 0..SectorMax,
             read \in {"OK", "INVALIDPRM"} :
          LET Free(g) == g # fs /\ g.files # <<>> /\ Head(g.files).key = 0
              Then(r) == /\ Answer(r, 0, Root) /\ watch' = Observed(r.fs, r.host)
                         /\ excuses' = IF Free(r.fs) THEN excuses \cup {"zero"} ELSE excuses
          IN Then(DiskRead(fs, host, u, size, k, cluster, read))
    BY DEF FS_DiskRead
  <1>2. u \in Nat /\ k \in Nat
    <2>1. UnitArgs \subseteq Nat /\ work.keys \subseteq Nat
      BY Arguments, HostAssumption
    <2>2. k \in work.keys \/ k = 0
      OBVIOUS
    <2>3. u \in Nat
      BY <2>1
    <2>4. CASE k \in work.keys
      BY <2>1, <2>3, <2>4
    <2>5. CASE k = 0
      BY <2>3, <2>5
    <2> QED
      BY <2>2, <2>4, <2>5
  <1>3. PICK r : r = DiskRead(fs, host, u, size, k, cluster, read)
    OBVIOUS
  <1>4. Well(fs, host)
    BY DEF RingsInv, FsRight, Well
  <1>5. Upholding(fs, r)
    BY <1>2, <1>3, <1>4, DiskReadUpholding
  <1>6. fs' = r.fs /\ host' = r.host /\ excuses \subseteq excuses'
    BY <1>1, <1>3 DEF Answer
  <1> QED
    BY <1>5, <1>6, UpheldRight

LEMMA InitRight ==
  ASSUME FsInit
  PROVE  FsRight
  <1>1. IsTree(work.tree)
    BY HostAssumption DEF FsInit
  <1>2. Trees(host)
    BY <1>1 DEF FsInit, Trees
  <1>3. fs.gid = 0 /\ fs.cache = <<>> /\ fs.files = <<>>
    BY DEF FsInit
  <1> QED
    BY <1>2, <1>3 DEF FsRight, Right, Pointed

LEMMA NextRight ==
  ASSUME RingsInv, FsRight, FsNext
  PROVE  FsRight'
  <1>1. /\ Well(fs, host) /\ UnitArgs \subseteq Nat /\ Dirs \subseteq Seq(Names)
        /\ work.keys \subseteq Keys
    BY Arguments DEF RingsInv, FsRight, Well
  <1>2. CASE FS_InitDevice
    BY <1>2, InitDeviceRight
  <1>3. CASE FS_CheckDir
    BY <1>1, <1>3, SeenNow, CheckDirUpholding, ReportedRight DEF FS_CheckDir
  <1>4. CASE FS_MakeDir
    BY <1>1, <1>4, SeenNow, MakeDirUpholding, ReportedRight DEF FS_MakeDir
  <1>5. CASE FS_RemoveDir
    BY <1>1, <1>5, SeenNow, RemoveDirUpholding, ReportedRight DEF FS_RemoveDir
  <1>6. CASE FS_Rename
    BY <1>1, <1>6, SeenNow, RenameUpholding, ReportedRight DEF FS_Rename
  <1>7. CASE FS_Delete
    BY <1>1, <1>7, SeenNow, DeleteUpholding, ReportedRight DEF FS_Delete
  <1>8. CASE FS_Attribute
    <2>1. PICK u \in UnitArgs, d \in Dirs, n \in Names, attr \in {"get", "volume", "same", "set"} :
            Reported("attribute", Attribute(fs, host, u, d, n, attr))
      BY <1>8 DEF FS_Attribute
    <2>2. Seen(Attribute(fs, host, u, d, n, attr).host)
      BY <2>1, SeenNext DEF Reported, Answer
    <2>3. Upholding(fs, Attribute(fs, host, u, d, n, attr))
      BY <1>1, <2>2, SeenNow, AttributeUpholding
    <2> QED
      BY <2>1, <2>3, ReportedRight
  <1>9. CASE FS_Files
    BY <1>9, FilesRight
  <1>10. CASE FS_NFiles
    BY <1>10, NFilesRight
  <1>11. CASE FS_Create
    BY <1>1, <1>11, SeenNow, CreateUpholding, ReportedRight DEF FS_Create
  <1>12. CASE FS_Open
    BY <1>1, <1>12, SeenNow, OpenUpholding, ReportedRight DEF FS_Open
  <1>13. CASE FS_Close
    BY <1>1, <1>13, CloseUpholding, ReportedRight DEF FS_Close
  <1>14. CASE FS_Read
    BY <1>1, <1>14, ReadUpholding, ReportedRight DEF FS_Read
  <1>15. CASE FS_Write
    BY <1>1, <1>15, WriteUpholding, ReportedRight DEF FS_Write
  <1>16. CASE FS_Seek
    BY <1>1, <1>16, SeekUpholding, ReportedRight DEF FS_Seek
  <1>17. CASE FS_TimeStamp
    BY <1>1, <1>17, TimeStampUpholding, ReportedRight DEF FS_TimeStamp
  <1>18. CASE FS_GetCapacity
    BY <1>1, <1>18, DriveUpholding, ReportedRight DEF FS_GetCapacity
  <1>19. CASE FS_CtrlDrive
    BY <1>1, <1>19, DriveUpholding, ReportedRight DEF FS_CtrlDrive
  <1>20. CASE FS_GetDPB
    BY <1>1, <1>20, DriveUpholding, ReportedRight DEF FS_GetDPB
  <1>21. CASE FS_DiskRead
    BY <1>21, DiskReadRight
  <1>22. CASE FS_DiskWrite
    BY <1>1, <1>22, DriveUpholding, ReportedRight DEF FS_DiskWrite
  <1>23. CASE FS_Ioctrl
    BY <1>1, <1>23, IoctrlSustains, ReportedSustained DEF FS_Ioctrl
  <1>24. CASE FS_Flush
    BY <1>1, <1>24, DriveUpholding, ReportedRight DEF FS_Flush
  <1>25. CASE FS_CheckMedia
    BY <1>1, <1>25, DriveUpholding, ReportedRight DEF FS_CheckMedia
  <1>26. CASE FS_Lock
    BY <1>1, <1>26, DriveUpholding, ReportedRight DEF FS_Lock
  <1> QED
    BY <1>2, <1>3, <1>4, <1>5, <1>6, <1>7, <1>8, <1>9, <1>10, <1>11, <1>12, <1>13, <1>14,
       <1>15, <1>16, <1>17, <1>18, <1>19, <1>20, <1>21, <1>22, <1>23, <1>24, <1>25, <1>26
    DEF FsNext

(* The lists that are trusted are right in every state, and so are the      *)
(* positions of the searches as long as the ids were never restarted. It    *)
(* takes the rings: a path that were cached twice could be right once.      *)
THEOREM RightKept == FsSpec => []FsRight
  <1>1. FsInit => FsRight
    BY InitRight
  <1>2. RingsInv /\ FsRight /\ [FsNext]_fsVars => FsRight'
    <2>1. ASSUME RingsInv, FsRight, FsNext
          PROVE  FsRight'
      BY <2>1, NextRight
    <2>2. ASSUME FsRight, UNCHANGED fsVars
          PROVE  FsRight'
      BY <2>2 DEF FsRight, fsVars
    <2> QED
      BY <2>1, <2>2
  <1> QED
    BY <1>1, <1>2, RingsKept, PTL DEF FsSpec

(* Whatever the trees, the calls of the driver and the sizes of the rings:  *)
(* a cached directory that is not due to be refreshed and was not kept on a *)
(* refresh lists what the host has there, each name once.                   *)
THEOREM ListingRight == FsSpec => []ListingMatchesHost
  <1>1. FsRight => ListingMatchesHost
    BY DEF FsRight, Right, ListsOf, Lists, Listed, ListingMatchesHost
  <1> QED
    BY <1>1, RightKept, PTL

(* And a search whose id is that of the list of its path holds no pointer   *)
(* to an entry that was freed, unless nothing is listed there.              *)
THEOREM PositionsRight == FsSpec => []NoStalePosition
  <1>1. FsRight => NoStalePosition
    <2> SUFFICES ASSUME FsRight, "restart" \notin excuses,
                        NEW i \in DOMAIN fs.files, NEW s, s = fs.files[i], s.key # 0, s.count > 0,
                        NEW j \in CachedAt(fs.cache[s.unit], s.path), fs.cache[s.unit][j].id = s.id
                 PROVE  s.at # 0 \/ fs.cache[s.unit][j].list = <<>>
      BY DEF NoStalePosition
    <2>1. Positioned(s, fs.gid, fs.cache)
      BY DEF FsRight, Pointed
    <2>2. j \in DOMAIN fs.cache[s.unit] /\ fs.cache[s.unit][j].path = s.path
      BY DEF CachedAt
    <2>3. ~Misses(fs.cache[s.unit][j], s)
      BY <2>1, <2>2 DEF Positioned
    <2>4. Numbered(fs.cache[s.unit][j], fs.gid)
      BY ZenonT(30), <2>1, <2>2 DEF FsRight, Pointed, Positioned
    <2>5. PICK list : list = fs.cache[s.unit][j].list
      OBVIOUS
    <2>6. IsSeq(list) /\ (list # <<>> => Stands(list, s))
      BY ZenonT(30), <2>2, <2>3, <2>4, <2>5 DEF Numbered, Misses
    <2>7. Stands(list, s) => s.at # 0
      BY <2>6, SeqOfElements DEF Stands
    <2> QED
      BY ZenonT(30), <2>5, <2>6, <2>7
  <1> QED
    BY <1>1, RightKept, PTL

-----------------------------------------------------------------------------
(* What a search is owed                                                   *)

(* The search s stands before every entry that is owed.                     *)
AheadOf(owed, s) == \A n \in owed : s.next # NoEntry /\ s.next.name <= n

(* The search s of the file system f can be held to its watch w.            *)
Holds(f, h, w, s) ==
  /\ s.unit = w.unit /\ s.path = w.path /\ s.count > 0
  /\ InPlace(h, w.unit, w.path, s) /\ Straight(f, w.unit, w.path)
  /\ w.owed \subseteq Attributed(h, w.unit, w.path, s.attr) /\ AheadOf(w.owed, s)
  /\ s.next # NoEntry => Has(f.cache[w.unit], w.path, s.next)

Tracked(f, h, w, k) ==
  /\ w.st = "open" /\ w.steady => \A i \in At(f.files, k) : Holds(f, h, w, f.files[i])
  /\ w.st = "ended" /\ w.steady => w.owed = {}

Tracks == "restart" \in excuses \/ \A k \in Keys : Tracked(fs, host, watch[k], k)

LEMMA Ordered ==
  ASSUME NEW list, IsSeq(list), Sorted(list), NEW i \in DOMAIN list, NEW j \in DOMAIN list,
         list[i].name <= list[j].name
  PROVE  i <= j
  <1>1. i \in Nat /\ j \in Nat
    BY SeqOfElements
  <1>2. /\ list[i].name \in Nat /\ list[j].name \in Nat
        /\ j < i => list[j].name < list[i].name
    BY DEF Sorted
  <1> DEFINE a == list[i].name
             b == list[j].name
  <1>3. a \in Nat /\ b \in Nat /\ a <= b /\ (j < i => b < a)
    BY <1>2
  <1> HIDE DEF a, b
  <1> QED
    BY <1>1, <1>3

LEMMA OwedListed ==
  ASSUME NEW list, NEW d, NEW t, Listed(list, d, t), NEW n \in Names, Append(d, n) \in DOMAIN t
  PROVE  \E i \in DOMAIN list : list[i].name = n /\ list[i].dir = t[Append(d, n)].dir
  <1> DEFINE x == [name |-> n, dir |-> t[Append(d, n)].dir]
  <1>1. x \in Named(list)
    BY DEF Listed, Contents
  <1>2. PICK y \in ToSet(list) : x = [name |-> y.name, dir |-> y.dir]
    BY <1>1 DEF Named
  <1>3. y.name = n /\ y.dir = t[Append(d, n)].dir
    BY <1>2
  <1> QED
    BY <1>3 DEF ToSet

(* All that is owed is listed at p or behind it.                            *)
Owes(owed, list, p) == \A n \in owed : \A i \in DOMAIN list : list[i].name = n => p <= i

(* A search that finds nothing from p on owes nothing.                      *)
LEMMA NothingOwed ==
  ASSUME NEW list, NEW d, NEW h, NEW u, Listed(list, d, h[u]), NEW attr, NEW p,
         NEW owed, owed \subseteq Attributed(h, u, d, attr), Owes(owed, list, p),
         \A i \in DOMAIN list : p <= i => ~CheckAttribute(list[i], attr)
  PROVE  owed = {}
  <1> SUFFICES ASSUME NEW n \in owed PROVE FALSE
    OBVIOUS
  <1>1. n \in Names /\ Append(d, n) \in DOMAIN h[u] /\ CheckAttribute(h[u][Append(d, n)], attr)
    BY DEF Attributed
  <1>2. PICK i \in DOMAIN list : list[i].name = n /\ list[i].dir = h[u][Append(d, n)].dir
    BY <1>1, OwedListed
  <1>3. p <= i
    BY <1>2 DEF Owes
  <1>4. CheckAttribute(list[i], attr)
    BY <1>1, <1>2 DEF CheckAttribute
  <1> QED
    BY <1>3, <1>4

(* What it still owes when it has found an entry is ahead of it.            *)
LEMMA RestAhead ==
  ASSUME NEW c, IsSeq(c.list), NEW d, NEW h, NEW u, Listed(c.list, d, h[u]),
         NEW s, NEW p \in Nat, NEW owed, owed \subseteq Attributed(h, u, d, s.attr), Owes(owed, c.list, p),
         NEW e, NEW hit, Behind(e, hit, c, s, p)
  PROVE  AheadOf(owed \ {c.list[hit].name}, e)
  <1> SUFFICES ASSUME NEW n \in owed, n # c.list[hit].name
               PROVE  e.next # NoEntry /\ e.next.name <= n
    BY DEF AheadOf
  <1> DEFINE list == c.list
  <1>1. n \in Names /\ Append(d, n) \in DOMAIN h[u] /\ CheckAttribute(h[u][Append(d, n)], s.attr)
    BY DEF Attributed
  <1>2. PICK i \in DOMAIN list : list[i].name = n /\ list[i].dir = h[u][Append(d, n)].dir
    BY <1>1, OwedListed
  <1>3. p <= i
    BY <1>2 DEF Owes
  <1>4. CheckAttribute(list[i], s.attr)
    BY <1>1, <1>2 DEF CheckAttribute
  <1>5. ~(i < hit) /\ i # hit
    BY <1>2, <1>3, <1>4 DEF Behind
  <1>6. DOMAIN list = 1..Len(list) /\ Len(list) \in Nat
    BY SeqOfElements
  <1>7. hit \in DOMAIN list /\ e.at = hit + 1 /\ Stands(list, e)
    BY DEF Behind
  <1>8. Sorted(list)
    BY DEF Listed
  <1> HIDE DEF list
  <1>9. i >= hit + 1 /\ hit + 1 \in DOMAIN list /\ hit + 1 <= Len(list)
    BY <1>5, <1>6, <1>7
  <1>10. e.next = list[hit + 1]
    BY <1>7, <1>9 DEF Stands
  <1> DEFINE j == hit + 1
  <1>11. j \in DOMAIN list /\ j \in Nat /\ i \in Nat /\ j <= i
    BY <1>6, <1>9
  <1> HIDE DEF j
  <1>12. list[j] # NoEntry /\ list[j].name \in Nat /\ (j < i => list[j].name < list[i].name)
    BY <1>8, <1>11 DEF Sorted
  <1>13. list[j].name <= list[i].name
    <2>1. CASE j = i
      BY <1>12, <2>1
    <2>2. CASE j < i
      <3>1. list[i].name \in Nat
        BY <1>8 DEF Sorted
      <3> QED
        BY <1>12, <2>2, <3>1
    <2> QED
      BY <1>11, <2>1, <2>2
  <1> QED
    BY <1>2, <1>10, <1>12, <1>13 DEF j

(* A search that is continued where it stands, or at the entry it stands at *)
(* when the list has changed, has what it owes ahead of it.                 *)
LEMMA ContinuedAhead ==
  ASSUME NEW c, IsSeq(c.list), Sorted(c.list), NEW s, s.count > 0, s.count \in Nat,
         s.id = c.id /\ c.list # <<>> => Stands(c.list, s),
         s.next # NoEntry => s.next \in ToSet(c.list),
         NEW owed, AheadOf(owed, s), NEW p \in Positions(c, s)
  PROVE  Owes(owed, c.list, p)
  <1> DEFINE list == c.list
             same == {i \in DOMAIN list : list[i] = s.next}
             first == CHOOSE i \in same : \A j \in same : i <= j
  <1> SUFFICES ASSUME NEW n \in owed, NEW i \in DOMAIN list, list[i].name = n
               PROVE  p <= i
    BY DEF Owes
  <1>1. DOMAIN list = 1..Len(list) /\ Len(list) \in Nat
    BY SeqOfElements
  <1>2. s.next # NoEntry /\ s.next.name <= list[i].name
    BY DEF AheadOf
  <1>3. ASSUME p \in DOMAIN list, list[p] = s.next
        PROVE  p <= i
    <2>1. list[p].name <= list[i].name
      BY <1>2, <1>3
    <2> QED
      BY <1>3, <2>1, Ordered
  <1>4. CASE s.id = c.id
    <2>1. list # <<>>
      BY <1>1
    <2>2. Stands(list, s)
      BY <1>4, <2>1
    <2>3. s.at \in 1..(Len(list) + 1) /\ s.at # 0
      BY <1>1, <2>2 DEF Stands
    <2>4. Positions(c, s) = {s.at}
      BY <1>4, <2>3 DEF Positions
    <2>5. s.at # Len(list) + 1
      BY <1>2, <2>2 DEF Stands
    <2>6. s.at <= Len(list) /\ s.at \in DOMAIN list
      BY <1>1, <2>3, <2>5
    <2>7. list[s.at] = s.next
      BY <2>2, <2>6 DEF Stands
    <2> HIDE DEF list
    <2> QED
      BY <1>3, <2>4, <2>6, <2>7
  <1>5. CASE s.id # c.id
    <2>1. same # {}
      BY <1>2 DEF ToSet
    <2>2. Positions(c, s) = {first}
      BY <1>5, <2>1 DEF Positions
    <2>3. same \subseteq Nat
      BY <1>1
    <2>4. \E m \in same : \A l \in same : m <= l
      <3> HIDE DEF same
      <3> QED
        BY <2>1, <2>3, Smallest
    <2>5. first \in same
      BY <2>4
    <2> HIDE DEF first
    <2>6. p = first
      BY <2>2
    <2> QED
      BY <1>3, <2>5, <2>6
  <1> QED
    BY <1>4, <1>5

-----------------------------------------------------------------------------
(* A directory that is not found                                           *)

(* A list that was kept on the way to p tells, or will tell, of a failure.  *)
LEMMA NotStraight ==
  ASSUME NEW f, FsOK(f), NEW u \in DOMAIN f.cache, NEW p \in Seq(Names), NEW n \in 0..Len(p),
         NEW i \in DOMAIN f.cache[u], f.cache[u][i].kept, f.cache[u][i].path = SubSeq(p, 1, n)
  PROVE  ~Straight(f, u, p)
  <1>1. PICK q : q = SubSeq(p, 1, n)
    OBVIOUS
  <1>2. q \in Seq(Names) /\ Len(q) = n /\ \A m \in 1..n : q[m] = p[m]
    BY <1>1, SubSeqPoints
  <1>3. n <= Len(p)
    OBVIOUS
  <1>4. IsPrefix(q, p)
    BY <1>2, <1>3, PrefixPoints
  <1> QED
    BY <1>1, <1>4 DEF Straight

(* The next directory on the way to p is listed, unless a list was kept.    *)
LEMMA NextListed ==
  ASSUME NEW list, NEW t, NEW p \in Seq(Names), NEW n \in 0..(Len(p) - 1),
         Listed(list, SubSeq(p, 1, n), t), IsDir(t, SubSeq(p, 1, n + 1))
  PROVE  FindFilename(list, p[n + 1], "dir") # {}
  <1>1. PICK d : d = SubSeq(p, 1, n)
    OBVIOUS
  <1>2. PICK q : q = SubSeq(p, 1, n + 1)
    OBVIOUS
  <1>3. n \in 0..Len(p) /\ n + 1 \in 0..Len(p) /\ n \in Nat /\ n + 1 \in 1..Len(p)
    OBVIOUS
  <1>4. PICK x : x = p[n + 1]
    OBVIOUS
  <1>5. x \in Names
    BY <1>3, <1>4
  <1>6. d \in Seq(Names) /\ Len(d) = n /\ \A i \in 1..n : d[i] = p[i]
    BY <1>1, <1>3, SubSeqPoints
  <1>7. PICK l : l = n + 1
    OBVIOUS
  <1>8. q \in Seq(Names) /\ Len(q) = l /\ \A i \in 1..l : q[i] = p[i]
    <2>1. q = SubSeq(p, 1, l) /\ l \in 0..Len(p)
      BY <1>2, <1>3, <1>7
    <2> QED
      BY <2>1, SubSeqPoints
  <1>9. PICK a : a = Append(d, x)
    OBVIOUS
  <1>10. a \in Seq(Names) /\ Len(a) = Len(d) + 1 /\ a[Len(d) + 1] = x /\ \A i \in 1..Len(d) : a[i] = d[i]
    BY <1>5, <1>6, <1>9, AppendPoints
  <1>11. Len(a) = Len(q) /\ \A i \in 1..Len(a) : a[i] = q[i]
    <2>1. Len(a) = l /\ a[l] = x /\ q[l] = x
      BY <1>3, <1>4, <1>6, <1>7, <1>8, <1>10
    <2>2. \A i \in 1..n : a[i] = q[i]
      BY <1>3, <1>6, <1>7, <1>8, <1>10
    <2> QED
      BY <1>3, <1>7, <1>8, <2>1, <2>2
  <1>12. a = q
    BY <1>8, <1>10, <1>11, SamePoints
  <1>13. q # Root
    BY <1>3, <1>7, <1>8 DEF Root
  <1>14. a \in DOMAIN t /\ t[a].dir
    BY <1>2, <1>12, <1>13 DEF IsDir
  <1>15. PICK i \in DOMAIN list : list[i].name = x /\ list[i].dir = t[a].dir
    <2>1. Listed(list, d, t)
      BY <1>1
    <2>2. Append(d, x) \in DOMAIN t
      BY <1>9, <1>14
    <2>3. \E i \in DOMAIN list : list[i].name = x /\ list[i].dir = t[Append(d, x)].dir
      BY ONLY <1>5, <2>1, <2>2, OwedListed
    <2> QED
      BY <1>9, <2>3
  <1>16. i \in FindFilename(list, x, "dir")
    BY <1>14, <1>15 DEF FindFilename, CheckAttribute
  <1> QED
    BY <1>4, <1>16

(* One step of MakeCache towards a directory that is there.                 *)
Arrives(made, u, p) == made.ok \/ ~Straight(made.f, u, p)

LEMMA DescendArrives ==
  ASSUME NEW f, FsOK(f), NEW u \in DOMAIN f.cache, NEW t, IsTree(t), ListsOf(f.cache[u], t),
         NEW p \in Seq(Names), NEW n \in 0..Len(p),
         n # Len(p) => IsDir(t, SubSeq(p, 1, n + 1)),
         NEW made, Looks(f, made.f, u, t), Arrives(made, u, p)
  PROVE  Arrives(Descend(made, u, t, p, n), u, p)
  <1>1. PICK q : q = SubSeq(p, 1, n)
    OBVIOUS
  <1>2. q \in Seq(Names)
    BY <1>1
  <1>3. PICK g : g = Visit(made.f, u, t, q)
    OBVIOUS
  <1>4. PICK next : next = Descend(made, u, t, p, n)
    OBVIOUS
  <1>5. CASE ~made.ok
    BY <1>5 DEF Descend
  <1>6. CASE made.ok
    <2>1. FsOK(made.f) /\ u \in DOMAIN made.f.cache
      BY LooksOn
    <2>2. Looks(made.f, g, u, t)
      BY <1>2, <1>3, <2>1, VisitLooks
    <2>3. LookedUp(made.f, g) /\ Len(g.cache[u]) > 0 /\ g.cache[u][1].path = q /\ ~g.cache[u][1].refresh
      BY <1>2, <1>3, <2>1, VisitFacts
    <2>4. ListsOf(g.cache[u], t)
      BY <2>2 DEF Looks
    <2>5. FsOK(g) /\ u \in DOMAIN g.cache /\ 1 \in DOMAIN g.cache[u]
      <3>1. FsOK(g) /\ u \in DOMAIN g.cache
        BY <2>1, <2>2, LooksOn
      <3>2. PathRing(g.cache[u])
        BY <3>1 DEF FsOK
      <3> QED
        BY <2>3, <3>1, <3>2, SeqOfElements DEF PathRing
    <2>6. next.f = g /\ next.ok = (n = Len(p) \/ FindFilename(g.cache[u][1].list, p[n + 1], "dir") # {})
      BY <1>1, <1>3, <1>4, <1>6 DEF Descend
    <2>7. CASE g.cache[u][1].kept
      BY <1>1, <1>4, <2>3, <2>5, <2>6, <2>7, NotStraight DEF Arrives
    <2>8. CASE ~g.cache[u][1].kept
      <3>1. Listed(g.cache[u][1].list, q, t)
        BY <2>3, <2>4, <2>5, <2>8 DEF ListsOf, Lists
      <3>2. ASSUME n # Len(p)
            PROVE  FindFilename(g.cache[u][1].list, p[n + 1], "dir") # {}
        <4>1. n \in 0..(Len(p) - 1)
          BY <3>2
        <4>2. PICK list : list = g.cache[u][1].list
          OBVIOUS
        <4> QED
          BY <1>1, <3>1, <3>2, <4>1, <4>2, NextListed
      <3> QED
        BY <1>4, <2>6, <3>2 DEF Arrives
    <2> QED
      BY <2>7, <2>8
  <1> QED
    BY <1>5, <1>6

LEMMA MakeCacheArrives ==
  ASSUME NEW f, FsOK(f), NEW u \in DOMAIN f.cache, NEW t, IsTree(t), ListsOf(f.cache[u], t),
         NEW p \in Seq(Names), \A n \in 0..Len(p) : IsDir(t, SubSeq(p, 1, n))
  PROVE  Arrives(MakeCache(f, u, t, p), u, p)
  <1>1. PICK made : /\ MadeTo(f, u, t, p, Len(p), made)
                    /\ MakeCache(f, u, t, p) = made[Len(p)]
    BY MakeCacheSteps
  <1> DEFINE start == [f |-> f, ok |-> TRUE]
             before(n) == IF n = 0 THEN start ELSE made[n - 1]
             On(m) == Looks(f, m.f, u, t) /\ Arrives(m, u, p)
             T == {n \in 0..Len(p) : ~On(made[n])}
  <1>2. Len(p) \in Nat
    OBVIOUS
  <1>3. ASSUME NEW n \in 0..Len(p), On(before(n))
        PROVE  On(made[n])
    <2>1. made[n] = Descend(before(n), u, t, p, n)
      BY <1>1 DEF MadeTo
    <2>2. PICK b : b = before(n)
      OBVIOUS
    <2>3. On(b)
      BY <1>3, <2>2
    <2>4. made[n] = Descend(b, u, t, p, n)
      BY <2>1, <2>2
    <2> HIDE DEF before
    <2>5. Looks(f, Descend(b, u, t, p, n).f, u, t)
      BY <2>3, DescendLooks
    <2>6. n # Len(p) => IsDir(t, SubSeq(p, 1, n + 1))
      <3>1. n # Len(p) => n + 1 \in 0..Len(p)
        BY <1>2
      <3> QED
        BY <3>1
    <2>7. Arrives(Descend(b, u, t, p, n), u, p)
      BY <2>3, <2>6, DescendArrives
    <2> QED
      BY <2>4, <2>5, <2>7
  <1>4. On(before(0))
    BY LooksNothing DEF Arrives
  <1>5. T = {}
    <2> SUFFICES ASSUME T # {}
                 PROVE  FALSE
      OBVIOUS
    <2>1. PICK n \in T : \A j \in T : n <= j
      <3>1. T \subseteq Nat
        BY <1>2
      <3> HIDE DEF T
      <3> QED
        BY <3>1, Smallest
    <2>2. n \in 0..Len(p) /\ ~On(made[n])
      BY <2>1
    <2> HIDE DEF On
    <2>3. CASE n = 0
      BY <2>2, <2>3, <1>3, <1>4
    <2>4. CASE n # 0
      <3>1. n - 1 \in 0..Len(p) /\ n - 1 \notin T
        BY <1>2, <2>1, <2>2, <2>4
      <3>2. On(made[n - 1])
        BY <3>1
      <3>3. On(before(n))
        BY <3>2, <2>4
      <3> QED
        BY <2>2, <3>3, <1>3
    <2> QED
      BY <2>3, <2>4
  <1>6. Len(p) \in 0..Len(p)
    BY <1>2
  <1>7. On(made[Len(p)])
    <2> HIDE DEF On
    <2> QED
      BY <1>5, <1>6
  <1> QED
    BY <1>1, <1>7

(* Releasing the cache keeps what was kept.                                 *)
LEMMA CleanStraight ==
  ASSUME NEW f, FsOK(f), NEW u \in DOMAIN f.cache, NEW p, Straight(CleanAll(f, u), u, p)
  PROVE  Straight(f, u, p)
  <1>1. PICK r : r = f.cache[u]
    OBVIOUS
  <1>2. PICK q : q = Released(r, Paths(r))
    OBVIOUS
  <1>3. PICK g : g = [f EXCEPT !.cache[u] = q]
    OBVIOUS
  <1>4. CleanAll(f, u) = g /\ g.cache[u] = q
    BY <1>1, <1>2, <1>3 DEF CleanAll, FsOK, IsFs, FsFields
  <1>5. ASSUME NEW i \in DOMAIN r
        PROVE  i \in DOMAIN q /\ q[i].path = r[i].path /\ q[i].kept = r[i].kept
    <2>1. i \in DOMAIN q /\ q[i] = IF r[i].path \in Paths(r) THEN [r[i] EXCEPT !.refresh = TRUE] ELSE r[i]
      BY <1>2 DEF Released
    <2>2. IsPath(r[i])
      BY <1>1 DEF FsOK, PathRing
    <2> QED
      BY <2>1, <2>2 DEF IsPath, PathFields
  <1> QED
    BY <1>1, <1>4, <1>5 DEF Straight

(* A directory that is there is found, unless a list was kept on the way.   *)
LEMMA FindArrives ==
  ASSUME NEW f, FsOK(f), NEW u \in DOMAIN f.cache, NEW t, IsTree(t), ListsOf(f.cache[u], t),
         NEW p \in Seq(Names), \A n \in 0..Len(p) : IsDir(t, SubSeq(p, 1, n))
  PROVE  Arrives(Find(f, u, t, p), u, p)
  <1>1. PICK copy : copy = CopyCache(f, u, p)
    OBVIOUS
  <1>2. PICK make : make = MakeCache(copy.f, u, t, p)
    OBVIOUS
  <1>3. Looks(f, copy.f, u, t)
    BY <1>1, CopyCacheLooks
  <1>4. FsOK(copy.f) /\ u \in DOMAIN copy.f.cache /\ ListsOf(copy.f.cache[u], t)
    BY <1>3, LooksOn DEF Looks
  <1>5. Arrives(make, u, p)
    BY <1>2, <1>4, MakeCacheArrives
  <1>6. CASE copy.ok
    BY <1>1, <1>6 DEF Find, Arrives
  <1>7. CASE ~copy.ok /\ make.ok
    BY <1>1, <1>2, <1>7 DEF Find, Arrives
  <1>8. CASE ~copy.ok /\ ~make.ok
    <2>1. Find(f, u, t, p).f = CleanAll(make.f, u)
      BY <1>1, <1>2, <1>8 DEF Find
    <2>2. Looks(copy.f, make.f, u, t)
      BY <1>2, <1>4, MakeCacheLooks
    <2>3. FsOK(make.f) /\ u \in DOMAIN make.f.cache
      BY <1>4, <2>2, LooksOn
    <2>4. ~Straight(make.f, u, p)
      BY <1>5, <1>8 DEF Arrives
    <2> QED
      BY <2>1, <2>3, <2>4, CleanStraight DEF Arrives
  <1> QED
    BY <1>6, <1>7, <1>8

(* Nothing is owed of a directory that is not found.                        *)
LEMMA NothingThere ==
  ASSUME NEW f, NEW h, Well(f, h), NEW u \in DOMAIN f.cache, NEW d \in Seq(Names),
         NEW a, a = Find(f, u, h[u], d), ~a.ok, Straight(a.f, u, d), NEW attr
  PROVE  Attributed(h, u, d, attr) = {}
  <1>1. PICK t : t = h[u]
    OBVIOUS
  <1>2. FsOK(f) /\ IsTree(t)
    BY <1>1, UnitTree
  <1>3. ListsOf(f.cache[u], t)
    BY <1>1 DEF Well, Right
  <1> SUFFICES ASSUME NEW n \in Attributed(h, u, d, attr)
               PROVE  FALSE
    OBVIOUS
  <1>4. n \in Names /\ Append(d, n) \in DOMAIN t
    BY <1>1 DEF Attributed
  <1>5. PICK q : q = Append(d, n)
    OBVIOUS
  <1>6. /\ Len(q) = Len(d) + 1
        /\ \A m \in 0..Len(d) : SubSeq(q, 1, m) = SubSeq(d, 1, m)
    BY <1>4, <1>5, AppendPoints
  <1>7. \A m \in 0..(Len(q) - 1) : IsDir(t, SubSeq(q, 1, m))
    BY <1>2, <1>4, <1>5 DEF IsTree
  <1>8. ASSUME NEW m \in 0..Len(d)
        PROVE  IsDir(t, SubSeq(d, 1, m))
    <2>1. m \in 0..(Len(q) - 1)
      BY <1>6
    <2> QED
      BY <1>6, <1>7, <2>1
  <1>9. Arrives(Find(f, u, t, d), u, d)
    BY <1>2, <1>3, <1>8, FindArrives
  <1> QED
    BY <1>1, <1>9 DEF Arrives

-----------------------------------------------------------------------------
(* What FILES and NFILES leave of what is owed                             *)

LEMMA StepWent ==
  ASSUME NEW g, FsOK(g), NEW h, NEW u, NEW p, NEW c, c = g.cache[u][1],
         1 \in DOMAIN g.files, NEW found, found = FindFilenameWildcard(c, g.files[1], u, p),
         NEW r, r = Step(g, h, u, p)
  PROVE  /\ r.host = h /\ r.fs.cache = g.cache
         /\ found.found => /\ r.result = "OK" /\ r.name = found.name
                           /\ r.fs.files[1] = Placed(found.search, c.path)
         /\ ~found.found => r.result = "FILENOTFND"
  <1> DEFINE path == c.path
             e == [found.search EXCEPT !.path = path]
             x == [g EXCEPT !.files[1] = e]
             y == [Ret(x, h, "OK") EXCEPT !.name = found.name]
             z == FilesFree(x, 1)
  <1>1. r = IF found.found THEN y ELSE Ret(z, h, "FILENOTFND")
    BY DEF Step
  <1>2. x.cache = g.cache /\ x.files[1] = e
    BY DEF FsOK, IsFs, FsFields
  <1>3. z.cache = x.cache
    <2>1. DOMAIN x = FsFields
      BY DEF FsOK, IsFs
    <2> HIDE DEF x
    <2> QED
      BY <2>1 DEF FilesFree, FsFields
  <1> HIDE DEF e, z
  <1>4. CASE found.found
    <2>1. r = y
      BY <1>1, <1>4
    <2>2. y.host = h /\ y.fs = x /\ y.result = "OK" /\ y.name = found.name
      BY DEF Ret
    <2> HIDE DEF x, y
    <2>3. e = Placed(found.search, c.path)
      BY DEF e, Placed
    <2> QED
      BY <1>2, <1>4, <2>1, <2>2, <2>3
  <1>5. CASE ~found.found
    <2>1. r = Ret(z, h, "FILENOTFND")
      BY <1>1, <1>5
    <2> QED
      BY <1>2, <1>3, <1>5, <2>1 DEF Ret
  <1> QED
    BY <1>4, <1>5

(* The search e of directory d on unit u goes on from s, with owed before   *)
(* it.                                                                      *)
GoesOn(e, s, u, d, owed, ring) ==
  /\ e.key = s.key /\ e.unit = u /\ e.path = d /\ e.attr = s.attr /\ e.count > 0
  /\ AheadOf(owed, e)
  /\ e.next # NoEntry => Has(ring, d, e.next)

LEMMA BehindHas ==
  ASSUME NEW ring, PathRing(ring), 1 \in DOMAIN ring, NEW c, c = ring[1], IsSeq(c.list),
         NEW e, NEW hit, NEW s, NEW p, Behind(e, hit, c, s, p), e.next # NoEntry
  PROVE  Has(ring, c.path, e.next)
  <1>1. PICK list : list = c.list
    OBVIOUS
  <1>2. IsSeq(list) /\ Stands(list, e)
    BY <1>1 DEF Behind
  <1>3. Len(list) \in Nat /\ DOMAIN list = 1..Len(list)
    BY <1>2, SeqOfElements
  <1>4. e.at \in 1..(Len(list) + 1) /\ e.at # Len(list) + 1
    BY <1>2 DEF Stands
  <1>5. e.at \in DOMAIN list /\ e.at <= Len(list)
    BY <1>3, <1>4
  <1>6. e.next = list[e.at]
    BY <1>2, <1>5 DEF Stands
  <1>7. e.next \in ToSet(list)
    BY <1>5, <1>6 DEF ToSet
  <1>8. ASSUME NEW i \in DOMAIN ring, ring[i].path = c.path
        PROVE  i = 1
    BY <1>8 DEF PathRing
  <1> QED
    BY <1>1, <1>7, <1>8 DEF Has

(* A search is continued at p, with all that is owed at p or behind it.     *)
StepsAt(g, h, u, c, s, p, d, owed, r) ==
  /\ Well(g, h) /\ Pointed(g) /\ u \in DOMAIN g.cache /\ Len(g.cache[u]) > 0
  /\ c = g.cache[u][1] /\ ~c.refresh /\ 1 \in DOMAIN g.files /\ s = g.files[1]
  /\ p \in Nat \ {0} /\ d = c.path
  /\ owed \subseteq Attributed(h, u, d, s.attr) /\ Owes(owed, c.list, p)
  /\ Straight(g, u, d) /\ r = Step(g, h, u, p)

StepsTo(r, s, u, d, owed) ==
  \/ r.result = "OK" /\ GoesOn(r.fs.files[1], s, u, d, owed \ {r.name}, r.fs.cache[u])
  \/ r.result = "FILENOTFND" /\ owed = {}

LEMMA StepOwes ==
  ASSUME NEW g, NEW h, NEW u, NEW c, NEW s, NEW p, NEW d, NEW owed, NEW r,
         StepsAt(g, h, u, c, s, p, d, owed, r)
  PROVE  StepsTo(r, s, u, d, owed)
  <1> SUFFICES ASSUME Well(g, h), Pointed(g), u \in DOMAIN g.cache, Len(g.cache[u]) > 0,
                      c = g.cache[u][1], ~c.refresh, 1 \in DOMAIN g.files, s = g.files[1],
                      p \in Nat \ {0}, d = c.path,
                      owed \subseteq Attributed(h, u, d, s.attr), Owes(owed, c.list, p),
                      Straight(g, u, d), r = Step(g, h, u, p)
               PROVE  \/ r.result = "OK" /\ GoesOn(r.fs.files[1], s, u, d, owed \ {r.name}, r.fs.cache[u])
                      \/ r.result = "FILENOTFND" /\ owed = {}
    BY DEF StepsAt, StepsTo
  <1>1. FsOK(g) /\ PathRing(g.cache[u]) /\ IsSearch(s)
    BY DEF Well, FsOK, SearchRing
  <1>2. 1 \in DOMAIN g.cache[u]
    BY <1>1, SeqOfElements DEF PathRing
  <1>3. Numbered(c, g.gid) /\ Positioned(s, g.gid, g.cache)
    BY <1>2 DEF Pointed
  <1>4. IsSeq(c.list) /\ s.count \in Nat
    BY <1>3 DEF Numbered, Positioned
  <1>5. d \in Seq(Names) /\ IsPrefix(d, d)
    <2>1. d \in Seq(Names)
      BY <1>1, <1>2 DEF PathRing, IsPath
    <2>2. Len(d) \in Nat
      BY <2>1
    <2> QED
      BY <2>1, <2>2, PrefixPoints
  <1>6. ~c.kept
    BY <1>2, <1>5 DEF Straight
  <1>7. Listed(c.list, d, h[u])
    BY <1>2, <1>6 DEF Well, Right, ListsOf, Lists
  <1>8. PICK found : found = FindFilenameWildcard(c, s, u, p)
    OBVIOUS
  <1>9. PICK e : e = Placed(found.search, d)
    OBVIOUS
  <1>10. Onward(e, found, c, s, u, p, d)
    BY <1>1, <1>4, <1>8, <1>9, WentFacts
  <1>11. /\ r.fs.cache = g.cache
         /\ found.found => r.result = "OK" /\ r.name = found.name /\ r.fs.files[1] = e
         /\ ~found.found => r.result = "FILENOTFND"
    BY <1>1, <1>8, <1>9, StepWent
  <1>12. CASE found.found
    <2>1. /\ e.unit = u /\ e.path = d /\ e.attr = s.attr /\ e.key = s.key
          /\ Passed(e, found, c, s, p)
      BY <1>10, <1>12 DEF Onward
    <2>2. PICK hit : Behind(e, hit, c, s, p) /\ found.name = c.list[hit].name
      BY <2>1 DEF Passed
    <2>3. AheadOf(owed \ {c.list[hit].name}, e)
      BY <1>4, <1>7, <2>2, RestAhead
    <2>4. e.next # NoEntry => Has(g.cache[u], d, e.next)
      BY <1>1, <1>2, <1>4, <2>2, BehindHas
    <2>5. e.count > 0
      BY <2>2 DEF Behind
    <2> QED
      BY <1>11, <1>12, <2>1, <2>2, <2>3, <2>4, <2>5 DEF GoesOn
  <1>13. CASE ~found.found
    <2>1. \A i \in DOMAIN c.list : p <= i => ~CheckAttribute(c.list[i], s.attr)
      BY <1>10, <1>13 DEF Onward
    <2>2. owed = {}
      BY <1>7, <2>1, NothingOwed
    <2> QED
      BY <1>11, <1>13, <2>2
  <1> QED
    BY <1>12, <1>13

-----------------------------------------------------------------------------
(* The watch on every search                                               *)

LEMMA OneOf ==
  ASSUME NEW f, FsOK(f), NEW k \in Keys, NEW i \in At(f.files, k), NEW j \in At(f.files, k)
  PROVE  i = j
  <1>1. k # 0
    BY HostAssumption
  <1> QED
    BY <1>1 DEF At, FsOK, SearchRing, KeysOnce

(* A search that a call has moved or repointed is held to what it was.      *)
LEMMA HeldOn ==
  ASSUME FsOK(fs), Pointed(fs), NEW k \in Keys, NEW o, o.st = "open", o.steady, Tracked(fs, host, o, k),
         NEW f, NEW h, host' = h, Carried(fs, f), NEW m \in At(fs.files, k), NEW s, Alike(fs.files[m], s),
         NEW w, w.unit = o.unit, w.path = o.path,
         w.owed = {n \in o.owed : Same(h, o.unit, Append(o.path, n))},
         InPlace(h, o.unit, o.path, s), Straight(f, o.unit, o.path)
  PROVE  Holds(f, h, w, s)
  <1>1. PICK x : x = fs.files[m]
    OBVIOUS
  <1>2. Holds(fs, host, o, x)
    BY <1>1 DEF Tracked
  <1>3. Alike(x, s)
    BY <1>1
  <1>4. PICK u : u = o.unit
    OBVIOUS
  <1>5. PICK d : d = o.path
    OBVIOUS
  <1>6. u \in DOMAIN fs.cache
    <2>1. Positioned(x, fs.gid, fs.cache)
      BY <1>1 DEF Pointed, At
    <2>2. x.key # 0 /\ x.count > 0 /\ x.unit = u
      BY <1>1, <1>2, <1>4, HostAssumption DEF At, Holds
    <2> QED
      BY <2>1, <2>2 DEF Positioned
  <1>7. w.owed \subseteq Attributed(h, u, d, s.attr)
    <2> SUFFICES ASSUME NEW n \in w.owed
                 PROVE  n \in Attributed(h, u, d, s.attr)
      OBVIOUS
    <2>1. n \in o.owed /\ Same(h, u, Append(d, n))
      BY <1>4, <1>5
    <2>2. n \in Attributed(host, u, d, s.attr)
      BY <1>2, <1>3, <1>4, <1>5, <2>1 DEF Holds, Alike
    <2> QED
      BY <2>1, <2>2 DEF Attributed, Same
  <1>8. AheadOf(w.owed, s)
    BY <1>2, <1>3 DEF Holds, AheadOf, Alike
  <1>9. ASSUME s.next # NoEntry
        PROVE  Has(f.cache[u], d, s.next)
    <2>1. s.next = x.next
      BY <1>3 DEF Alike
    <2>2. s.next \in Entries(host[u], d) /\ s.next \in Entries(h[u], d)
      BY <1>2, <1>4, <1>5, <1>9, <2>1 DEF Holds, InPlace
    <2>3. s.next \in Lasting(u, d)
      BY <2>2 DEF Lasting
    <2>4. Has(fs.cache[u], d, s.next)
      BY <1>2, <1>4, <1>5, <1>9, <2>1 DEF Holds
    <2> QED
      BY <1>6, <2>3, <2>4 DEF Carried
  <1> QED
    BY <1>2, <1>3, <1>4, <1>5, <1>7, <1>8, <1>9 DEF Holds, Alike

(* What every call but the two of the search leaves of the watch on it.     *)
LEMMA ObservedTracked ==
  ASSUME RingsInv, Pointed(fs), NEW k \in Keys, Tracked(fs, host, watch[k], k),
         NEW f, FsOK(f), NEW h, host' = h, Carried(fs, f), NEW new, Traced(fs, f, new), k \notin new
  PROVE  Tracked(f, h, Observed(f, h)[k], k)
  <1>1. PICK o : o = watch[k]
    OBVIOUS
  <1>2. PICK i : i = CHOOSE j \in At(f.files, k) : TRUE
    OBVIOUS
  <1>3. PICK s : s = f.files[i]
    OBVIOUS
  <1>4. PICK owed : owed = {n \in o.owed : Same(h, o.unit, Append(o.path, n))}
    OBVIOUS
  <1>5. PICK steady : steady = (/\ o.steady /\ InPlace(h, o.unit, o.path, s)
                                /\ Straight(f, o.unit, o.path))
    OBVIOUS
  <1>6. PICK w : w = Observed(f, h)[k]
    OBVIOUS
  <1>7. w = IF o.st # "open" THEN o
            ELSE IF At(f.files, k) = {} THEN NoWatch
            ELSE [o EXCEPT !.owed = owed, !.steady = steady]
    BY <1>1, <1>2, <1>3, <1>4, <1>5, <1>6 DEF Observed
  <1>8. CASE o.st # "open"
    BY <1>1, <1>6, <1>7, <1>8 DEF Tracked
  <1>9. CASE o.st = "open" /\ At(f.files, k) = {}
    <2>1. w = NoWatch
      BY <1>7, <1>9
    <2> QED
      BY <1>6, <2>1 DEF Tracked, NoWatch
  <1>10. CASE o.st = "open" /\ At(f.files, k) # {}
    <2>1. w = [o EXCEPT !.owed = owed, !.steady = steady]
      BY <1>7, <1>10
    <2>2. IsWatch(o)
      BY <1>1 DEF RingsInv, Watched
    <2>3. /\ w.st = "open" /\ w.unit = o.unit /\ w.path = o.path /\ w.owed = owed
          /\ w.steady = steady
      BY <1>10, <2>1, <2>2 DEF IsWatch, WatchFields
    <2>4. ASSUME w.steady, NEW j \in At(f.files, k)
          PROVE  Holds(f, h, w, f.files[j])
      <3>1. i \in At(f.files, k)
        BY <1>2, <1>10
      <3>2. i = j
        BY <3>1, OneOf
      <3>3. o.steady /\ InPlace(h, o.unit, o.path, s) /\ Straight(f, o.unit, o.path)
        BY <1>5, <2>3, <2>4
      <3>4. s.key = k /\ k # 0 /\ i \in DOMAIN f.files
        BY <1>3, <3>1, HostAssumption DEF At
      <3>5. PICK m \in DOMAIN fs.files : Alike(fs.files[m], s)
        BY <1>3, <3>4 DEF Traced
      <3>6. m \in At(fs.files, k)
        BY <3>4, <3>5 DEF At, Alike
      <3>7. FsOK(fs)
        BY DEF RingsInv
      <3>8. Tracked(fs, host, o, k)
        BY <1>1
      <3>9. w.owed = {n \in o.owed : Same(h, o.unit, Append(o.path, n))}
        BY <1>4, <2>3
      <3>10. Holds(f, h, w, s)
        BY <1>10, <2>3, <3>3, <3>5, <3>6, <3>7, <3>8, <3>9, HeldOn
      <3> QED
        BY <1>3, <3>2, <3>10
    <2> QED
      BY <1>6, <2>3, <2>4 DEF Tracked
  <1> QED
    BY <1>8, <1>9, <1>10

(* The search that FILES or NFILES leaves in the first buffer is held to    *)
(* what it owes.                                                            *)
LEMMA FirstHolds ==
  ASSUME NEW f, FsOK(f), NEW k \in Keys, NEW s, s.key = k, NEW u, NEW d, NEW owed,
         GoesOn(f.files[1], s, u, d, owed, f.cache[u]),
         NEW w, w.unit = u, w.path = d, w.owed = owed,
         NEW h, owed \subseteq Attributed(h, u, d, s.attr),
         InPlace(h, u, d, f.files[1]), Straight(f, u, d), NEW i \in At(f.files, k)
  PROVE  Holds(f, h, w, f.files[i])
  <1>1. PICK e : e = f.files[1]
    OBVIOUS
  <1>2. 1 \in DOMAIN f.files
    <2>1. i \in DOMAIN f.files /\ IsSeq(f.files)
      BY DEF At, FsOK, SearchRing
    <2> QED
      BY <2>1, SeqOfElements
  <1>3. e.key = k
    BY <1>1 DEF GoesOn
  <1>4. 1 \in At(f.files, k)
    BY <1>1, <1>2, <1>3 DEF At
  <1>5. i = 1
    BY <1>4, OneOf
  <1>6. GoesOn(e, s, u, d, owed, f.cache[u]) /\ InPlace(h, u, d, e)
    BY <1>1
  <1>7. Holds(f, h, w, e)
    BY <1>6 DEF Holds, GoesOn
  <1> QED
    BY <1>1, <1>5, <1>7

LEMMA StartedNothing ==
  ASSUME NEW f, NEW h, NEW k, NEW u, NEW d, NEW attr, NEW r,
         r.result # "OK", r.result # "FILENOTFND" \/ attr = "volume"
  PROVE  Tracked(f, h, Started(k, u, d, attr, r), k)
  <1>1. Started(k, u, d, attr, r) = [NoWatch EXCEPT !.st = "ended"]
    BY DEF Started
  <1>2. PICK w : w = Started(k, u, d, attr, r)
    OBVIOUS
  <1>3. w.st = "ended" /\ w.owed = {}
    BY <1>1, <1>2 DEF NoWatch
  <1> QED
    BY <1>2, <1>3 DEF Tracked

LEMMA StartedStep ==
  ASSUME NEW x, NEW h, Well(x, h), Pointed(x), NEW u \in DOMAIN x.cache, Len(x.cache[u]) > 0,
         NEW c, c = x.cache[u][1], ~c.refresh, NEW d, d = c.path, 1 \in DOMAIN x.files,
         NEW s, s = x.files[1], NEW k \in Keys, s.key = k, NEW attr, s.attr = attr, attr # "volume",
         NEW r, r = Step(x, h, u, 1), FsOK(r.fs)
  PROVE  Tracked(r.fs, r.host, Started(k, u, d, attr, r), k)
  <1>1. PICK w : w = Started(k, u, d, attr, r)
    OBVIOUS
  <1>2. PICK owed : owed = Attributed(h, u, d, attr)
    OBVIOUS
  <1>3. FsOK(x) /\ IsSeq(c.list)
    <2>1. FsOK(x) /\ PathRing(x.cache[u])
      BY DEF Well, FsOK
    <2>2. 1 \in DOMAIN x.cache[u]
      BY <2>1, SeqOfElements DEF PathRing
    <2> QED
      BY <2>1, <2>2 DEF Pointed, Numbered
  <1>4. r.host = h /\ r.fs.cache = x.cache
    <2>1. PICK found : found = FindFilenameWildcard(c, x.files[1], u, 1)
      OBVIOUS
    <2> QED
      BY <1>3, <2>1, StepWent
  <1>5. Owes(owed, c.list, 1)
    <2>1. DOMAIN c.list = 1..Len(c.list) /\ Len(c.list) \in Nat
      BY <1>3, SeqOfElements
    <2> QED
      BY <2>1 DEF Owes
  <1>6. ASSUME Straight(r.fs, u, d)
        PROVE  \/ r.result = "OK" /\ GoesOn(r.fs.files[1], s, u, d, owed \ {r.name}, r.fs.cache[u])
               \/ r.result = "FILENOTFND" /\ owed = {}
    <2>1. Straight(x, u, d)
      BY <1>4, <1>6 DEF Straight
    <2>2. owed \subseteq Attributed(h, u, d, s.attr)
      BY <1>2
    <2>3. PICK p \in Nat \ {0} : p = 1
      OBVIOUS
    <2>4. Owes(owed, c.list, p) /\ r = Step(x, h, u, p)
      BY <1>5, <2>3
    <2>5. p \in Nat \ {0}
      BY <2>3
    <2>6. StepsAt(x, h, u, c, s, p, d, owed, r)
      BY <2>1, <2>2, <2>4, <2>5 DEF StepsAt
    <2>7. StepsTo(r, s, u, d, owed)
      BY <2>6, StepOwes
    <2> QED
      BY <2>7 DEF StepsTo
  <1>7. CASE r.result = "OK"
    <2>1. /\ w.st = "open" /\ w.unit = u /\ w.path = d /\ w.owed = owed \ {r.name}
          /\ w.steady = (InPlace(h, u, d, r.fs.files[1]) /\ Straight(r.fs, u, d))
      BY <1>1, <1>2, <1>4, <1>7 DEF Started
    <2>2. ASSUME w.steady, NEW i \in At(r.fs.files, k)
          PROVE  Holds(r.fs, h, w, r.fs.files[i])
      <3>1. InPlace(h, u, d, r.fs.files[1]) /\ Straight(r.fs, u, d)
        BY <2>1, <2>2
      <3>2. GoesOn(r.fs.files[1], s, u, d, owed \ {r.name}, r.fs.cache[u])
        BY <1>6, <1>7, <3>1
      <3>3. owed \ {r.name} \subseteq Attributed(h, u, d, s.attr)
        BY <1>2
      <3> QED
        BY <2>1, <3>1, <3>2, <3>3, FirstHolds
    <2> QED
      BY <1>1, <1>4, <2>1, <2>2 DEF Tracked
  <1>8. CASE r.result = "FILENOTFND"
    <2>1. /\ w.st = "ended" /\ w.owed = owed /\ w.steady = Straight(r.fs, u, d)
      BY <1>1, <1>2, <1>4, <1>8 DEF Started
    <2>2. w.steady => w.owed = {}
      BY <1>6, <1>8, <2>1
    <2> QED
      BY <1>1, <2>1, <2>2 DEF Tracked
  <1>9. CASE r.result # "OK" /\ r.result # "FILENOTFND"
    BY <1>9, StartedNothing
  <1> QED
    BY <1>7, <1>8, <1>9

LEMMA StartedNowhere ==
  ASSUME NEW g, NEW h, Well(g, h), NEW u \in DOMAIN g.cache, NEW d \in Seq(Names),
         NEW a, a = Find(g, u, h[u], d), ~a.ok, FsOK(a.f), 1 \in DOMAIN a.f.files,
         NEW k, NEW attr, NEW code, code # "OK", NEW r, r = Ret(FilesFree(a.f, 1), h, code)
  PROVE  Tracked(r.fs, r.host, Started(k, u, d, attr, r), k)
  <1>1. PICK w : w = Started(k, u, d, attr, r)
    OBVIOUS
  <1>2. r.host = h /\ r.fs.cache = a.f.cache /\ r.result = code
    BY FilesFreeFacts DEF Ret
  <1>3. CASE code = "FILENOTFND" /\ attr # "volume"
    <2>1. w.st = "ended" /\ w.owed = Attributed(h, u, d, attr) /\ w.steady = Straight(r.fs, u, d)
      BY <1>1, <1>2, <1>3 DEF Started
    <2>2. ASSUME w.steady
          PROVE  w.owed = {}
      <3>1. Straight(a.f, u, d)
        BY ZenonT(30), <1>2, <2>1, <2>2 DEF Straight
      <3> QED
        BY <2>1, <3>1, NothingThere
    <2> QED
      BY <1>1, <2>1, <2>2 DEF Tracked
  <1>4. CASE code # "FILENOTFND" \/ attr = "volume"
    BY <1>2, <1>4, StartedNothing
  <1> QED
    BY <1>3, <1>4

LEMMA RebegunAttr ==
  ASSUME NEW f, FsOK(f), 1 \in DOMAIN f.files, NEW u, NEW d, NEW attr
  PROVE  LET g == Rebegun(f, u, d, attr)
         IN g.files[1].attr = attr /\ g.files[1].key = f.files[1].key
  BY DEF Rebegun, FsOK, IsFs, FsFields, SearchRing, IsSearch, SearchFields

(* FILES.                                                                   *)
LEMMA FilesTracked ==
  ASSUME NEW f, NEW h, Well(f, h), Pointed(f), Seen(h), NEW u \in Nat, NEW k \in Keys,
         NEW d \in Seq(Names), NEW attr, NEW r, r = Files(f, h, u, k, d, attr)
  PROVE  Tracked(r.fs, r.host, Started(k, u, d, attr, r), k)
  <1> DEFINE i == CHOOSE j \in At(f.files, k) : TRUE
             f0 == IF At(f.files, k) = {} THEN f ELSE FilesFree(f, i)
             g == FilesAlloc(f0, k)
             a == Find(g, u, h[u], d)
             x == Rebegun(a.f, u, d, attr)
             y == Step(x, h, u, 1)
             z == Ret(FilesFree(a.f, 1), h, IF d = Root THEN "FILENOTFND" ELSE "DIRNOTFND")
             s == IF a.ok THEN y ELSE z
             t == IF attr = "volume" THEN FilesVolume(f0, h, d) ELSE s
  <1>1. r = OnUnit(f0, h, u, "MEDIAOFFLINE", t)
    BY ZenonT(30) DEF Files, Rebegun
  <1>2. Upholds(f, f0, h) /\ At(f0.files, k) = {}
    <2>1. CASE At(f.files, k) = {}
      BY <2>1, UpholdsNothing
    <2>2. CASE At(f.files, k) # {}
      <3>1. i \in DOMAIN f.files /\ f.files[i].key = k
        BY <2>2 DEF At
      <3> HIDE DEF i
      <3>2. f0 = FilesFree(f, i)
        BY <2>2
      <3> HIDE DEF f0
      <3>3. k # 0 /\ FsOK(f)
        BY HostAssumption DEF Well
      <3>4. At(f0.files, k) = {}
        BY <3>1, <3>2, <3>3, FilesFreeFacts
      <3>5. Upholds(f, f, h)
        BY UpholdsNothing
      <3> QED
        BY <3>1, <3>2, <3>4, <3>5, FreesUpholds
    <2> QED
      BY <2>1, <2>2
  <1> HIDE DEF f0
  <1>3. Well(f0, h) /\ FsOK(f0)
    BY <1>2, UpholdsWell
  <1>4. ASSUME u \in DOMAIN f0.cache, attr # "volume"
        PROVE  Tracked(s.fs, s.host, Started(k, u, d, attr, s), k)
    <2>1. Len(f0.files) > 0
      BY <1>3, <1>4, RingsThere
    <2>2. Upholds(f, g, h) /\ g.files[1].count = 0
      BY <1>2, <2>1, FilesAllocUpholds
    <2>3. 1 \in DOMAIN g.files /\ g.files[1].key = k
      BY <1>2, <1>3, <2>1, FilesAllocFacts
    <2> HIDE DEF g
    <2>4. Well(g, h) /\ FsOK(g) /\ u \in DOMAIN g.cache
      BY <1>2, <1>4, <2>2, UpholdsWell
    <2>5. Standing(g, u, d, a)
      BY <2>4, FindFacts
    <2>6. Upholds(f, a.f, h)
      <3>1. Upholds(g, a.f, h)
        BY <2>4, FindUpholds
      <3> HIDE DEF a
      <3> QED
        BY <2>2, <3>1, UpholdsTwice
    <2>7. a = Find(g, u, h[u], d)
      OBVIOUS
    <2> HIDE DEF a
    <2>8. /\ 1 \in DOMAIN a.f.files /\ a.f.files[1].count = 0 /\ a.f.files[1].key = k
          /\ u \in DOMAIN a.f.cache /\ FsOK(a.f)
      BY <2>2, <2>3, <2>4, <2>5 DEF Standing, LookedUp, FsOK, Alike
    <2>9. ASSUME a.ok
          PROVE  Tracked(y.fs, y.host, Started(k, u, d, attr, y), k)
      <3>1. Upholds(f, x, h)
        BY <2>6, <2>8, RebegunUpholds
      <3>2. x.files[1].attr = attr /\ x.files[1].key = k
        BY <2>8, RebegunAttr
      <3>3. x.cache = a.f.cache /\ 1 \in DOMAIN x.files
        <4>1. x = Rebegun(a.f, u, d, attr)
          OBVIOUS
        <4> HIDE DEF x
        <4>2. PICK b : b = a.f
          OBVIOUS
        <4>3. x = Rebegun(b, u, d, attr) /\ FsOK(b) /\ 1 \in DOMAIN b.files
          BY <2>8, <4>1, <4>2
        <4>4. x.cache = b.cache /\ 1 \in DOMAIN x.files
          BY <4>3, RebegunThere
        <4> QED
          BY <4>2, <4>4
      <3> HIDE DEF x
      <3>4. /\ Len(x.cache[u]) > 0 /\ u \in DOMAIN x.cache
            /\ x.cache[u][1].path = d /\ ~x.cache[u][1].refresh
        BY <2>5, <2>8, <2>9, <3>3 DEF Standing
      <3>5. Well(x, h) /\ Pointed(x)
        BY <3>1 DEF Upholds
      <3>6. FsOK(y.fs)
        <4>1. Upholding(f, Step(x, h, u, 1))
          BY <3>1, <3>3, <3>4, StepUpholding
        <4> QED
          BY <4>1 DEF Upholding, Upholds, Well
      <3>7. PICK c : c = x.cache[u][1]
        OBVIOUS
      <3>8. PICK e : e = x.files[1]
        OBVIOUS
      <3>9. ~c.refresh /\ d = c.path /\ e.key = k /\ e.attr = attr
        BY <3>2, <3>4, <3>7, <3>8
      <3>10. y = Step(x, h, u, 1)
        OBVIOUS
      <3> HIDE DEF y
      <3> QED
        BY <1>4, <3>3, <3>4, <3>5, <3>6, <3>7, <3>8, <3>9, <3>10, StartedStep
    <2>10. ASSUME ~a.ok
           PROVE  Tracked(z.fs, z.host, Started(k, u, d, attr, z), k)
      <3>1. PICK code : code = IF d = Root THEN "FILENOTFND" ELSE "DIRNOTFND"
        OBVIOUS
      <3>2. code # "OK"
        BY <3>1
      <3>3. z = Ret(FilesFree(a.f, 1), h, code)
        BY <3>1
      <3> HIDE DEF z
      <3> QED
        BY <2>4, <2>7, <2>8, <2>10, <3>2, <3>3, StartedNowhere
    <2> HIDE DEF y, z
    <2>11. CASE a.ok
      <3>1. s = y
        BY <2>11
      <3> HIDE DEF s
      <3> QED
        BY <2>9, <2>11, <3>1
    <2>12. CASE ~a.ok
      <3>1. s = z
        BY <2>12
      <3> HIDE DEF s
      <3> QED
        BY <2>10, <2>12, <3>1
    <2> QED
      BY <2>11, <2>12
  <1> HIDE DEF s
  <1>5. ASSUME u \in DOMAIN f0.cache
        PROVE  Tracked(t.fs, t.host, Started(k, u, d, attr, t), k)
    <2>1. CASE attr = "volume"
      <3>1. t = FilesVolume(f0, h, d)
        BY <2>1
      <3>2. t.result # "OK"
        BY <3>1 DEF FilesVolume, Ret
      <3> QED
        BY <2>1, <3>2, StartedNothing
    <2>2. CASE attr # "volume"
      <3>1. t = s
        BY <2>2
      <3> HIDE DEF t
      <3> QED
        BY <1>4, <1>5, <2>2, <3>1
    <2> QED
      BY <2>1, <2>2
  <1> HIDE DEF t
  <1>6. CASE u >= DriveMax
    <2>0. ~(u < DriveMax)
      BY <1>6, HostAssumption
    <2>1. r = Ret(f0, h, "INVALIDUNIT")
      BY <1>1, <1>6, <2>0 DEF OnUnit
    <2>2. r.result = "INVALIDUNIT"
      BY <2>1 DEF Ret
    <2> QED
      BY <2>2, StartedNothing
  <1>7. CASE ~(u >= DriveMax) /\ u >= f0.units
    <2>1. u < DriveMax
      BY <1>7, HostAssumption
    <2>2. r = Ret(f0, h, "MEDIAOFFLINE")
      BY <1>1, <1>7, <2>1 DEF OnUnit
    <2>3. r.result = "MEDIAOFFLINE"
      BY <2>2 DEF Ret
    <2> QED
      BY <2>3, StartedNothing
  <1>8. CASE ~(u >= DriveMax) /\ ~(u >= f0.units)
    <2>1. u \in DOMAIN f0.cache
      BY <1>3, <1>8, HostAssumption DEF FsOK
    <2>2. r = t
      BY <1>1, <1>8 DEF OnUnit
    <2> QED
      BY <1>5, <2>1, <2>2
  <1> QED
    BY <1>6, <1>7, <1>8

(* NFILES has what its search is owed at the position it continues at, or   *)
(* behind it.                                                               *)
LEMMA ContinuesOwed ==
  ASSUME Well(fs, host), Pointed(fs), host' = host, NEW k \in Keys, NEW w, w.st = "open", w.steady,
         Tracked(fs, host, w, k), NEW m \in At(fs.files, k), NEW u, w.unit = u, NEW d, w.path = d,
         NEW x, Upholds(fs, x, host), u \in DOMAIN x.cache, Len(x.cache[u]) > 0, 1 \in DOMAIN x.files,
         NEW c, c = x.cache[u][1], ~c.refresh, c.path = d, Straight(x, u, d),
         NEW s, s = x.files[1], Alike(fs.files[m], s), NEW p \in Positions(c, s),
         NEW r, r = Step(x, host, u, p)
  PROVE  StepsAt(x, host, u, c, s, p, d, w.owed, r)
  <1>1. PICK z : z = fs.files[m]
    OBVIOUS
  <1>2. Holds(fs, host, w, z)
    BY <1>1 DEF Tracked
  <1>3. /\ s.key = k /\ s.unit = u /\ s.path = d /\ s.count > 0
        /\ s.attr = z.attr /\ s.next = z.next
    BY <1>1, <1>2 DEF Holds, Alike, At
  <1>4. Well(x, host) /\ Pointed(x) /\ Carried(fs, x) /\ DOMAIN x.cache = DOMAIN fs.cache
    BY DEF Upholds
  <1>5. FsOK(x) /\ PathRing(x.cache[u])
    BY <1>4 DEF Well, FsOK
  <1>6. 1 \in DOMAIN x.cache[u]
    BY <1>5, SeqOfElements DEF PathRing
  <1>7. Numbered(c, x.gid) /\ Positioned(s, x.gid, x.cache)
    BY <1>4, <1>6 DEF Pointed
  <1>8. IsSeq(c.list) /\ s.count \in Nat
    BY <1>7 DEF Numbered, Positioned
  <1>9. s.id = c.id /\ c.list # <<>> => Stands(c.list, s)
    <2>1. k # 0
      BY HostAssumption
    <2>2. ~Misses(c, s)
      BY <1>3, <1>6, <1>7, <2>1 DEF Positioned
    <2> QED
      BY <1>3, <2>2 DEF Misses
  <1>10. ~c.kept
    <2>1. d \in Seq(Names)
      BY <1>5, <1>6 DEF PathRing, IsPath
    <2>2. Len(d) \in Nat
      BY <2>1
    <2>3. IsPrefix(d, d)
      BY <2>1, <2>2, PrefixPoints
    <2> QED
      BY <1>6, <2>3 DEF Straight
  <1>11. Listed(c.list, d, host[u])
    BY <1>4, <1>6, <1>10 DEF Well, Right, ListsOf, Lists
  <1>12. ASSUME s.next # NoEntry
         PROVE  s.next \in ToSet(c.list)
    <2>1. s.next \in Entries(host[u], d)
      BY <1>2, <1>3, <1>12 DEF Holds, InPlace
    <2>2. s.next \in Lasting(u, d)
      BY <2>1 DEF Lasting
    <2>3. Has(fs.cache[u], d, s.next)
      BY <1>2, <1>3, <1>12 DEF Holds
    <2>4. Has(x.cache[u], d, s.next)
      BY <1>4, <2>2, <2>3 DEF Carried
    <2> QED
      BY <1>6, <1>10, <2>4 DEF Has
  <1>13. w.owed \subseteq Attributed(host, u, d, s.attr) /\ AheadOf(w.owed, s)
    BY <1>2, <1>3 DEF Holds, AheadOf
  <1>14. Owes(w.owed, c.list, p)
    <2>1. Sorted(c.list)
      BY <1>11 DEF Listed
    <2>2. PICK owed : owed = w.owed
      OBVIOUS
    <2>3. AheadOf(owed, s)
      BY <1>13, <2>2
    <2>4. Owes(owed, c.list, p)
      BY <1>3, <1>8, <1>9, <1>12, <2>1, <2>3, ContinuedAhead
    <2> QED
      BY <2>2, <2>4
  <1>15. p \in Nat \ {0}
    BY <1>4, <1>6, PositionsThere
  <1> QED
    BY <1>4, <1>13, <1>14, <1>15 DEF StepsAt

LEMMA ContinuedStep ==
  ASSUME Well(fs, host), Pointed(fs), host' = host, NEW k \in Keys, IsWatch(watch[k]),
         Tracked(fs, host, watch[k], k), NEW m \in At(fs.files, k), NEW u,
         NEW x, Upholds(fs, x, host), u \in DOMAIN x.cache, Len(x.cache[u]) > 0, 1 \in DOMAIN x.files,
         NEW d, ~x.cache[u][1].refresh, x.cache[u][1].path = d, fs.files[m].path = d,
         Alike(fs.files[m], x.files[1]), NEW p \in Positions(x.cache[u][1], x.files[1]),
         NEW r, r = Step(x, host, u, p), FsOK(r.fs)
  PROVE  Tracked(r.fs, r.host, Continued(u, k, r), k)
  <1>1. PICK w : w = watch[k]
    OBVIOUS
  <1>2. PICK c : c = x.cache[u][1]
    OBVIOUS
  <1>3. PICK s : s = x.files[1]
    OBVIOUS
  <1>4. PICK v : v = Continued(u, k, r)
    OBVIOUS
  <1>5. r.host = host /\ r.fs.cache = x.cache /\ r.result \in {"OK", "FILENOTFND"}
    <2>1. FsOK(x)
      BY DEF Upholds, Well
    <2>2. PICK found : found = FindFilenameWildcard(c, s, u, p)
      OBVIOUS
    <2> QED
      BY <1>2, <1>3, <2>1, <2>2, StepWent
  <1>6. ASSUME w.st = "open", w.steady, u = w.unit, Straight(r.fs, u, w.path)
        PROVE  StepsTo(r, s, u, d, w.owed) /\ w.owed \subseteq Attributed(host, u, d, s.attr) /\ w.path = d
    <2>1. w.path = d
      BY <1>1, <1>6 DEF Tracked, Holds
    <2>2. Straight(x, u, d)
      BY <1>5, <1>6, <2>1 DEF Straight
    <2>3. StepsAt(x, host, u, c, s, p, d, w.owed, r)
      BY <1>1, <1>2, <1>3, <1>6, <2>1, <2>2, ContinuesOwed
    <2>4. StepsTo(r, s, u, d, w.owed)
      BY <2>3, StepOwes
    <2> QED
      BY <2>1, <2>3, <2>4 DEF StepsAt
  <1>7. CASE w.st # "open"
    <2>1. v = w
      BY <1>1, <1>4, <1>7 DEF Continued
    <2> QED
      BY <1>1, <1>4, <1>7, <2>1 DEF Tracked
  <1>8. CASE w.st = "open" /\ r.result = "OK"
    <2>1. /\ v.st = "open" /\ v.unit = w.unit /\ v.path = w.path /\ v.owed = w.owed \ {r.name}
          /\ v.steady = (/\ w.steady /\ u = w.unit /\ Straight(r.fs, u, w.path)
                         /\ InPlace(r.host, u, w.path, r.fs.files[1]))
      BY ZenonT(30), <1>1, <1>4, <1>8 DEF Continued, IsWatch, WatchFields
    <2>2. ASSUME v.steady, NEW i \in At(r.fs.files, k)
          PROVE  Holds(r.fs, host, v, r.fs.files[i])
      <3>1. /\ w.steady /\ u = w.unit /\ Straight(r.fs, u, w.path)
            /\ InPlace(r.host, u, w.path, r.fs.files[1])
        BY <2>1, <2>2
      <3>2. StepsTo(r, s, u, d, w.owed) /\ w.owed \subseteq Attributed(host, u, d, s.attr) /\ w.path = d
        BY <1>6, <1>8, <3>1
      <3>3. PICK owed : owed = w.owed \ {r.name}
        OBVIOUS
      <3>4. GoesOn(r.fs.files[1], s, u, d, owed, r.fs.cache[u])
        BY <1>8, <3>2, <3>3 DEF StepsTo
      <3>5. owed \subseteq Attributed(host, u, d, s.attr)
        BY <3>2, <3>3
      <3>6. s.key = k
        BY <1>3 DEF Alike, At
      <3>7. v.unit = u /\ v.path = d /\ v.owed = owed
        BY <2>1, <3>1, <3>2, <3>3
      <3>8. InPlace(host, u, d, r.fs.files[1]) /\ Straight(r.fs, u, d)
        BY <1>5, <3>1, <3>2
      <3> QED
        BY <3>4, <3>5, <3>6, <3>7, <3>8, FirstHolds
    <2> QED
      BY <1>4, <1>5, <2>1, <2>2 DEF Tracked
  <1>9. CASE w.st = "open" /\ r.result = "FILENOTFND"
    <2>1. /\ v.st = "ended" /\ v.owed = w.owed
          /\ v.steady = (w.steady /\ u = w.unit /\ Straight(r.fs, u, w.path))
      BY <1>1, <1>4, <1>9 DEF Continued, IsWatch, WatchFields
    <2>2. v.steady => v.owed = {}
      BY <1>6, <1>9, <2>1 DEF StepsTo
    <2> QED
      BY <1>4, <2>1, <2>2 DEF Tracked
  <1> QED
    BY <1>5, <1>7, <1>8, <1>9

(* A call that reaches no search leaves the watch on it.                    *)
LEMMA ContinuedSame ==
  ASSUME NEW k, Tracked(fs, host, watch[k], k), NEW u, NEW r, r.fs = fs, r.host = host,
         r.result # "OK", r.result # "FILENOTFND"
  PROVE  Tracked(r.fs, r.host, Continued(u, k, r), k)
  <1>1. Continued(u, k, r) = watch[k]
    BY DEF Continued
  <1> QED
    BY <1>1

(* When the directory of the search is not found nothing is owed.           *)
LEMMA ContinuedNowhere ==
  ASSUME NEW k, IsWatch(watch[k]), Tracked(fs, host, watch[k], k), NEW m \in At(fs.files, k),
         NEW g, Well(g, host), NEW u \in DOMAIN g.cache, NEW d \in Seq(Names), fs.files[m].path = d,
         NEW a, a = Find(g, u, host[u], d), ~a.ok, FsOK(a.f), 1 \in DOMAIN a.f.files,
         NEW r, r = Ret(FilesFree(a.f, 1), host, "FILENOTFND")
  PROVE  Tracked(r.fs, r.host, Continued(u, k, r), k)
  <1>1. PICK w : w = watch[k]
    OBVIOUS
  <1>2. PICK v : v = Continued(u, k, r)
    OBVIOUS
  <1>3. r.fs.cache = a.f.cache /\ r.result = "FILENOTFND"
    BY FilesFreeFacts DEF Ret
  <1>4. CASE w.st # "open"
    <2>1. v = w
      BY <1>1, <1>2, <1>4 DEF Continued
    <2> QED
      BY <1>1, <1>2, <1>4, <2>1 DEF Tracked
  <1>5. CASE w.st = "open"
    <2>1. /\ v.st = "ended" /\ v.owed = w.owed
          /\ v.steady = (w.steady /\ u = w.unit /\ Straight(r.fs, u, w.path))
      BY <1>1, <1>2, <1>3, <1>5 DEF Continued, IsWatch, WatchFields
    <2>2. ASSUME v.steady
          PROVE  v.owed = {}
      <3>1. w.steady /\ u = w.unit /\ Straight(r.fs, u, w.path)
        BY <2>1, <2>2
      <3>2. PICK z : z = fs.files[m]
        OBVIOUS
      <3>3. w.path = d /\ w.owed \subseteq Attributed(host, u, d, z.attr)
        BY <1>1, <1>5, <3>1, <3>2 DEF Tracked, Holds
      <3>4. Straight(a.f, u, d)
        BY ZenonT(30), <1>3, <3>1, <3>3 DEF Straight
      <3>5. PICK attr : attr = z.attr
        OBVIOUS
      <3>6. Attributed(host, u, d, attr) = {}
        BY <3>4, NothingThere
      <3> QED
        BY <2>1, <3>3, <3>5, <3>6
    <2> QED
      BY <1>2, <2>1, <2>2 DEF Tracked
  <1> QED
    BY <1>4, <1>5

LEMMA NFilesTracked ==
  ASSUME RingsInv, Well(fs, host), Pointed(fs), host' = host, NEW u \in Nat, NEW k \in Keys,
         Tracked(fs, host, watch[k], k), NEW p, NEW a, a = NFilesFound(fs, host, u, k),
         u \in DOMAIN fs.cache /\ At(fs.files, k) # {} /\ a.ok
           => p \in Positions(a.f.cache[u][1], a.f.files[1]),
         NEW r, r = NFiles(fs, host, u, k, p)
  PROVE  Tracked(r.fs, r.host, Continued(u, k, r), k)
  <1> DEFINE y == Step(a.f, host, u, p)
             z == Ret(FilesFree(a.f, 1), host, "FILENOTFND")
             s == IF a.ok THEN y ELSE z
             t == IF At(fs.files, k) = {} THEN Ret(fs, host, "INVALIDPTR") ELSE s
  <1>1. r = OnUnit(fs, host, u, "MEDIAOFFLINE", t)
    BY DEF NFiles
  <1>2. FsOK(fs) /\ IsWatch(watch[k]) /\ k \in Nat
    BY HostAssumption DEF Well, RingsInv, Watched
  <1>3. ASSUME u \in DOMAIN fs.cache, At(fs.files, k) # {}
        PROVE  Tracked(s.fs, s.host, Continued(u, k, s), k)
    <2>1. PICK i \in At(fs.files, k) : i = CHOOSE j \in At(fs.files, k) : TRUE
      BY <1>3
    <2>2. PICK d : d = fs.files[i].path
      OBVIOUS
    <2>3. d \in Seq(Names)
      BY <1>2, <2>2 DEF At, FsOK, SearchRing, IsSearch
    <2>4. PICK g : g = [fs EXCEPT !.files = Searched(@, k)]
      OBVIOUS
    <2>5. /\ FsOK(g) /\ 1 \in DOMAIN g.files /\ g.files[1].key = k /\ g.cache = fs.cache
          /\ Traced(fs, g, {})
      BY <1>2, <1>3, <2>4, SearchedFront
    <2>6. Well(g, host)
      BY <2>5 DEF Well, Right
    <2>7. a = Find(g, u, host[u], d)
      BY <2>1, <2>2, <2>4 DEF NFilesFound
    <2>8. /\ Upholds(fs, a.f, host) /\ FsOK(a.f) /\ 1 \in DOMAIN a.f.files
          /\ u \in DOMAIN a.f.cache /\ (a.ok => Len(a.f.cache[u]) > 0)
      BY <1>3, SeenNow, NFilesFoundUpholds
    <2>9. Standing(g, u, d, a)
      BY <1>3, <2>3, <2>5, <2>7, FindFacts
    <2>10. Alike(fs.files[i], a.f.files[1])
      <3>1. Alike(g.files[1], a.f.files[1])
        BY <2>5, <2>9 DEF Standing, LookedUp
      <3>2. k # 0
        BY HostAssumption
      <3>3. PICK m \in DOMAIN fs.files : Alike(fs.files[m], g.files[1])
        BY <2>5, <3>2 DEF Traced
      <3>4. m \in At(fs.files, k)
        BY <2>5, <3>3 DEF At, Alike
      <3>5. m = i
        BY <1>2, <3>4, OneOf
      <3> QED
        BY <3>1, <3>3, <3>5 DEF Alike
    <2>11. ASSUME a.ok
           PROVE  Tracked(y.fs, y.host, Continued(u, k, y), k)
      <3>1. PICK x : x = a.f
        OBVIOUS
      <3>2. /\ Upholds(fs, x, host) /\ u \in DOMAIN x.cache /\ Len(x.cache[u]) > 0
            /\ 1 \in DOMAIN x.files /\ FsOK(x) /\ Alike(fs.files[i], x.files[1])
        BY <2>8, <2>10, <2>11, <3>1
      <3>3. ~x.cache[u][1].refresh /\ x.cache[u][1].path = d
        BY <2>9, <2>11, <3>1 DEF Standing
      <3>4. p \in Positions(x.cache[u][1], x.files[1])
        BY <1>3, <2>11, <3>1
      <3>5. Pointed(x) => p \in Nat \ {0}
        <4>1. 1 \in DOMAIN x.cache[u]
          BY <3>2, SeqOfElements DEF FsOK, PathRing
        <4> QED
          BY <3>2, <3>4, <4>1, PositionsThere
      <3>6. y = Step(x, host, u, p)
        BY <3>1
      <3> HIDE DEF y
      <3>7. FsOK(y.fs)
        <4>1. Upholding(fs, Step(x, host, u, p))
          BY <3>2, <3>5, StepUpholding
        <4> QED
          BY <3>6, <4>1 DEF Upholding, Upholds, Well
      <3>8. fs.files[i].path = d
        BY <2>2
      <3> QED
        BY <1>2, <3>2, <3>3, <3>4, <3>6, <3>7, <3>8, ContinuedStep
    <2>12. ASSUME ~a.ok
           PROVE  Tracked(z.fs, z.host, Continued(u, k, z), k)
      <3>1. u \in DOMAIN g.cache /\ fs.files[i].path = d
        BY <1>3, <2>2, <2>5
      <3>2. z = Ret(FilesFree(a.f, 1), host, "FILENOTFND")
        OBVIOUS
      <3> HIDE DEF z
      <3> QED
        BY <1>2, <2>3, <2>6, <2>7, <2>8, <2>12, <3>1, <3>2, ContinuedNowhere
    <2> HIDE DEF y, z
    <2>13. CASE a.ok
      <3>1. s = y
        BY <2>13
      <3> HIDE DEF s
      <3> QED
        BY <2>11, <2>13, <3>1
    <2>14. CASE ~a.ok
      <3>1. s = z
        BY <2>14
      <3> HIDE DEF s
      <3> QED
        BY <2>12, <2>14, <3>1
    <2> QED
      BY <2>13, <2>14
  <1> HIDE DEF s
  <1>4. ASSUME u \in DOMAIN fs.cache
        PROVE  Tracked(t.fs, t.host, Continued(u, k, t), k)
    <2>1. CASE At(fs.files, k) = {}
      <3>1. t = Ret(fs, host, "INVALIDPTR")
        BY <2>1
      <3> HIDE DEF t
      <3>2. t.fs = fs /\ t.host = host /\ t.result = "INVALIDPTR"
        BY <3>1 DEF Ret
      <3> QED
        BY <3>2, ContinuedSame
    <2>2. CASE At(fs.files, k) # {}
      <3>1. t = s
        BY <2>2
      <3> HIDE DEF t
      <3> QED
        BY <1>3, <1>4, <2>2, <3>1
    <2> QED
      BY <2>1, <2>2
  <1> HIDE DEF t
  <1>5. CASE u >= DriveMax
    <2>1. ~(u < DriveMax)
      BY <1>5, HostAssumption
    <2>2. r = Ret(fs, host, "INVALIDUNIT")
      BY <1>1, <1>5, <2>1 DEF OnUnit
    <2>3. r.fs = fs /\ r.host = host /\ r.result = "INVALIDUNIT"
      BY <2>2 DEF Ret
    <2> QED
      BY <2>3, ContinuedSame
  <1>6. CASE ~(u >= DriveMax) /\ u >= fs.units
    <2>1. u < DriveMax
      BY <1>6, HostAssumption
    <2>2. r = Ret(fs, host, "MEDIAOFFLINE")
      BY <1>1, <1>6, <2>1 DEF OnUnit
    <2>3. r.fs = fs /\ r.host = host /\ r.result = "MEDIAOFFLINE"
      BY <2>2 DEF Ret
    <2> QED
      BY <2>3, ContinuedSame
  <1>7. CASE ~(u >= DriveMax) /\ ~(u >= fs.units)
    <2>1. u \in DOMAIN fs.cache
      BY <1>2, <1>7, HostAssumption DEF FsOK
    <2>2. r = t
      BY <1>1, <1>7 DEF OnUnit
    <2> QED
      BY <1>4, <2>1, <2>2
  <1> QED
    BY <1>5, <1>6, <1>7

-----------------------------------------------------------------------------
(* The watch on the searches in every state                                *)

LEMMA TrackedNow ==
  ASSUME Tracks, "restart" \notin excuses, NEW k \in Keys
  PROVE  Tracked(fs, host, watch[k], k)
  BY DEF Tracks

LEMMA ObservedTracks ==
  ASSUME RingsInv, FsRight, Tracks, "restart" \notin excuses, NEW r, Well(r.fs, r.host), Carried(fs, r.fs),
         NEW new, Traced(fs, r.fs, new), host' = r.host, NEW k \in Keys, k \notin new
  PROVE  Tracked(r.fs, r.host, Observed(r.fs, r.host)[k], k)
  <1>1. Pointed(fs) /\ Tracked(fs, host, watch[k], k) /\ FsOK(r.fs)
    BY TrackedNow DEF FsRight, Well
  <1> QED
    BY <1>1, ObservedTracked

(* The handlers that only report.                                           *)
LEMMA ServingTraced ==
  ASSUME NEW r, Serving(fs, r)
  PROVE  Traced(fs, r.fs, {})
  BY DEF Serving, Serves, Traced

LEMMA ReportedTracks ==
  ASSUME RingsInv, FsRight, Tracks, NEW op, NEW r, Reported(op, r), Serving(fs, r), Sustains(fs, r)
  PROVE  Tracks'
  <1>1. fs' = r.fs /\ host' = r.host /\ watch' = Observed(r.fs, r.host)
    BY DEF Reported, Answer
  <1> SUFFICES ASSUME "restart" \notin excuses', NEW k \in Keys
               PROVE  Tracked(r.fs, r.host, Observed(r.fs, r.host)[k], k)
    BY <1>1 DEF Tracks
  <1>2. "restart" \notin excuses /\ r.fs.option = fs.option
    BY DEF Reported
  <1>3. Well(r.fs, r.host) /\ Carried(fs, r.fs)
    BY <1>2 DEF Sustains
  <1>4. Traced(fs, r.fs, {})
    BY ServingTraced
  <1>5. k \notin {}
    OBVIOUS
  <1> QED
    BY <1>1, <1>2, <1>3, <1>4, <1>5, ObservedTracks

LEMMA ReportedUpholds ==
  ASSUME RingsInv, FsRight, Tracks, NEW op, NEW r, Reported(op, r), Serving(fs, r), Upholding(fs, r)
  PROVE  Tracks'
  <1>1. Sustains(fs, r)
    BY UpholdingSustains
  <1> QED
    BY <1>1, ReportedTracks

LEMMA UnwatchedTracks ==
  ASSUME watch' = [k \in Keys |-> NoWatch]
  PROVE  Tracks'
  <1>1. ASSUME NEW k \in Keys
        PROVE  Tracked(fs', host', watch'[k], k)
    <2>1. watch'[k].st = "none"
      BY DEF NoWatch
    <2> QED
      BY <2>1 DEF Tracked
  <1> QED
    BY <1>1 DEF Tracks

(* The search that a call is about, and the others.                         *)
LEMMA SearchTracks ==
  ASSUME RingsInv, FsRight, Tracks, NEW r, Upholding(fs, r), NEW k \in Keys, Traced(fs, r.fs, {k}),
         NEW v, fs' = r.fs, host' = r.host, watch' = [Observed(r.fs, r.host) EXCEPT ![k] = v],
         "restart" \notin excuses => Tracked(r.fs, r.host, v, k), excuses' = excuses
  PROVE  Tracks'
  <1> SUFFICES ASSUME "restart" \notin excuses, NEW j \in Keys
               PROVE  Tracked(r.fs, r.host, watch'[j], j)
    BY DEF Tracks
  <1>1. PICK w : w = Observed(r.fs, r.host)
    OBVIOUS
  <1>2. w = [i \in Keys |-> w[i]]
    <2>1. SeenIn(r.fs, Observed(r.fs, r.host))
      BY ObservedFacts DEF RingsInv
    <2> QED
      BY <1>1, <2>1 DEF SeenIn
  <1>3. watch' = [w EXCEPT ![k] = v]
    BY <1>1
  <1>4. CASE j = k
    <2>1. watch'[j] = v
      BY <1>2, <1>3, <1>4
    <2> QED
      BY <1>4, <2>1
  <1>5. CASE j # k
    <2>1. watch'[j] = w[j]
      BY <1>2, <1>3, <1>5
    <2>2. Well(r.fs, r.host) /\ Carried(fs, r.fs)
      BY DEF Upholding, Upholds
    <2>3. PICK new : new = {k}
      OBVIOUS
    <2>4. Traced(fs, r.fs, new) /\ j \notin new
      BY <1>5, <2>3
    <2>5. Tracked(r.fs, r.host, Observed(r.fs, r.host)[j], j)
      BY <2>2, <2>4, ObservedTracks
    <2> QED
      BY <1>1, <2>1, <2>5
  <1> QED
    BY <1>4, <1>5

LEMMA FilesTracks ==
  ASSUME RingsInv, FsRight, Tracks, FS_Files
  PROVE  Tracks'
  <1>1. PICK u \in UnitArgs, k \in work.keys, d \in Dirs,
             attr \in (IF work.strange THEN {"all", "file", "volume"} ELSE {"all"}) :
          LET r == Files(fs, host, u, k, d, attr)
          IN /\ Answer(r, u, Entry(d, r))
             /\ watch' = [Observed(r.fs, r.host) EXCEPT ![k] = Started(k, u, d, attr, r)]
    BY DEF FS_Files
  <1>2. u \in Nat /\ k \in Keys /\ d \in Seq(Names)
    BY Arguments
  <1>3. PICK r : r = Files(fs, host, u, k, d, attr)
    OBVIOUS
  <1>4. PICK v : v = Started(k, u, d, attr, r)
    OBVIOUS
  <1>5. /\ fs' = r.fs /\ host' = r.host /\ watch' = [Observed(r.fs, r.host) EXCEPT ![k] = v]
        /\ excuses' = excuses
    BY <1>1, <1>3, <1>4 DEF FS_Files, Answer
  <1>6. Well(fs, host) /\ FsOK(fs)
    BY DEF RingsInv, FsRight, Well
  <1>7. Upholding(fs, r)
    BY <1>2, <1>3, <1>6, SeenNow, FilesUpholding
  <1>8. Traced(fs, r.fs, {k})
    <2>1. Starts(fs, k, r)
      BY <1>2, <1>3, <1>6, FilesStarts
    <2> QED
      BY <2>1 DEF Starts
  <1>9. ASSUME "restart" \notin excuses
        PROVE  Tracked(r.fs, r.host, v, k)
    <2>1. Pointed(fs)
      BY <1>9 DEF FsRight
    <2> QED
      BY <1>2, <1>3, <1>4, <1>6, <2>1, SeenNow, FilesTracked
  <1> HIDE <1>1
  <1> QED
    BY <1>2, <1>5, <1>7, <1>8, <1>9, SearchTracks

LEMMA NFilesHost ==
  ASSUME NEW f, NEW h, NEW u, NEW k, NEW p
  PROVE  NFiles(f, h, u, k, p).host = h
  BY DEF NFiles, OnUnit, Ret, Step

LEMMA NFilesTracks ==
  ASSUME RingsInv, FsRight, Tracks, FS_NFiles
  PROVE  Tracks'
  <1> DEFINE Ways(u, k) ==
               IF u < fs.units /\ At(fs.files, k) # {}
               THEN LET a == NFilesFound(fs, host, u, k)
                    IN IF a.ok THEN Positions(a.f.cache[u][1], a.f.files[1]) ELSE {1}
               ELSE {1}
             Went(u, k, p) ==
               LET r == NFiles(fs, host, u, k, p)
               IN /\ Answer(r, u, IF r.name = 0 THEN Root ELSE Entry(r.fs.files[1].path, r))
                  /\ watch' = [Observed(r.fs, r.host) EXCEPT ![k] = Continued(u, k, r)]
  <1>0. PICK u \in UnitArgs, k \in work.keys : \E p \in Ways(u, k) : Went(u, k, p)
    BY ZenonT(30) DEF FS_NFiles
  <1>1. PICK p \in Ways(u, k) : Went(u, k, p)
    BY <1>0
  <1>2. u \in Nat /\ k \in Keys
    BY Arguments
  <1>3. Well(fs, host) /\ FsOK(fs)
    BY DEF RingsInv, FsRight, Well
  <1>4. PICK a : a = NFilesFound(fs, host, u, k)
    OBVIOUS
  <1>5. u \in DOMAIN fs.cache /\ At(fs.files, k) # {} /\ a.ok
          => p \in Positions(a.f.cache[u][1], a.f.files[1])
    <2> SUFFICES ASSUME u \in DOMAIN fs.cache, At(fs.files, k) # {}, a.ok
                 PROVE  p \in Positions(a.f.cache[u][1], a.f.files[1])
      OBVIOUS
    <2>1. u < fs.units
      BY <1>2, <1>3 DEF FsOK
    <2>2. Ways(u, k) = Positions(a.f.cache[u][1], a.f.files[1])
      BY <1>4, <2>1
    <2> HIDE DEF Ways
    <2> QED
      BY <1>1, <2>2
  <1>6. PICK r : r = NFiles(fs, host, u, k, p)
    OBVIOUS
  <1>7. PICK v : v = Continued(u, k, r)
    OBVIOUS
  <1>8. /\ fs' = r.fs /\ host' = r.host /\ watch' = [Observed(r.fs, r.host) EXCEPT ![k] = v]
        /\ excuses' = excuses
    BY <1>1, <1>6, <1>7 DEF FS_NFiles, Answer
  <1> HIDE DEF Ways, Went
  <1>9. ASSUME u \in DOMAIN fs.cache, At(fs.files, k) # {}, a.ok, Pointed(a.f)
        PROVE  p \in Nat \ {0}
    <2>1. /\ FsOK(a.f) /\ 1 \in DOMAIN a.f.files
          /\ u \in DOMAIN a.f.cache /\ Len(a.f.cache[u]) > 0
      BY <1>2, <1>3, <1>4, <1>9, SeenNow, NFilesFoundUpholds
    <2>2. 1 \in DOMAIN a.f.cache[u]
      BY <2>1, SeqOfElements DEF FsOK, PathRing
    <2> QED
      BY <1>5, <1>9, <2>1, <2>2, PositionsThere
  <1>10. Upholding(fs, r)
    BY <1>2, <1>3, <1>4, <1>6, <1>9, SeenNow, NFilesUpholding
  <1>11. Traced(fs, r.fs, {k})
    <2>1. Resumes(fs, k, r)
      BY <1>2, <1>3, <1>6, NFilesContinues
    <2> QED
      BY <2>1, TracedNothing DEF Resumes, Continues
  <1>12. host' = host
    BY <1>6, <1>8, NFilesHost
  <1>13. ASSUME "restart" \notin excuses
         PROVE  Tracked(r.fs, r.host, v, k)
    <2>1. Pointed(fs) /\ Tracked(fs, host, watch[k], k)
      BY <1>2, <1>13, TrackedNow DEF FsRight
    <2> QED
      BY <1>2, <1>3, <1>4, <1>5, <1>6, <1>7, <1>12, <2>1, NFilesTracked
  <1> QED
    BY <1>2, <1>8, <1>10, <1>11, <1>13, SearchTracks

LEMMA DiskReadTracks ==
  ASSUME RingsInv, FsRight, Tracks, FS_DiskRead
  PROVE  Tracks'
  <1>1. PICK u \in UnitArgs, size \in 1..2, k \in work.keys \cup {0}, cluster \in 0..SectorMax,
             read \in {"OK", "INVALIDPRM"} :
          LET Free(g) == g # fs /\ g.files # <<>> /\ Head(g.files).key = 0
              Then(r) == /\ Answer(r, 0, Root) /\ watch' = Observed(r.fs, r.host)
                         /\ excuses' = IF Free(r.fs) THEN excuses \cup {"zero"} ELSE excuses
          IN Then(DiskRead(fs, host, u, size, k, cluster, read))
    BY DEF FS_DiskRead
  <1>2. u \in Nat /\ k \in Nat
    <2>1. UnitArgs \subseteq Nat /\ work.keys \subseteq Nat
      BY Arguments, HostAssumption
    <2>2. k \in work.keys \/ k = 0
      OBVIOUS
    <2>3. u \in Nat
      BY <2>1
    <2>4. CASE k \in work.keys
      BY <2>1, <2>3, <2>4
    <2>5. CASE k = 0
      BY <2>3, <2>5
    <2> QED
      BY <2>2, <2>4, <2>5
  <1>3. PICK r : r = DiskRead(fs, host, u, size, k, cluster, read)
    OBVIOUS
  <1>4. Well(fs, host) /\ FsOK(fs)
    BY DEF RingsInv, FsRight, Well
  <1>5. Upholding(fs, r)
    BY <1>2, <1>3, <1>4, DiskReadUpholding
  <1>6. fs' = r.fs /\ host' = r.host /\ watch' = Observed(r.fs, r.host) /\ excuses \subseteq excuses'
    BY <1>1, <1>3 DEF Answer
  <1>7. Traced(fs, r.fs, {})
    <2>1. read # "OUTOFMEM"
      OBVIOUS
    <2>2. Reads(fs, r)
      BY <1>2, <1>3, <1>4, <2>1, DiskReadReads
    <2> QED
      BY <2>2 DEF Reads
  <1> HIDE <1>1
  <1> SUFFICES ASSUME "restart" \notin excuses, NEW j \in Keys
               PROVE  Tracked(r.fs, r.host, Observed(r.fs, r.host)[j], j)
    BY <1>6 DEF Tracks
  <1>8. Well(r.fs, r.host) /\ Carried(fs, r.fs) /\ j \notin {}
    BY <1>5 DEF Upholding, Upholds
  <1> QED
    BY <1>6, <1>7, <1>8, ObservedTracks

LEMMA NextTracks ==
  ASSUME RingsInv, FsRight, Tracks, FsNext
  PROVE  Tracks'
  <1>1. /\ Well(fs, host) /\ FsOK(fs) /\ UnitArgs \subseteq Nat /\ Dirs \subseteq Seq(Names)
        /\ work.keys \subseteq Keys
    BY Arguments DEF RingsInv, FsRight, Well
  <1>2. CASE FS_InitDevice
    BY <1>2, UnwatchedTracks DEF FS_InitDevice
  <1>3. CASE FS_CheckDir
    BY <1>1, <1>3, SeenNow, CheckDirServing, CheckDirUpholding, ReportedUpholds DEF FS_CheckDir
  <1>4. CASE FS_MakeDir
    BY <1>1, <1>4, SeenNow, MakeDirServing, MakeDirUpholding, ReportedUpholds DEF FS_MakeDir
  <1>5. CASE FS_RemoveDir
    BY <1>1, <1>5, SeenNow, RemoveDirServing, RemoveDirUpholding, ReportedUpholds DEF FS_RemoveDir
  <1>6. CASE FS_Rename
    BY <1>1, <1>6, SeenNow, RenameServing, RenameUpholding, ReportedUpholds DEF FS_Rename
  <1>7. CASE FS_Delete
    BY <1>1, <1>7, SeenNow, DeleteServing, DeleteUpholding, ReportedUpholds DEF FS_Delete
  <1>8. CASE FS_Attribute
    <2>1. PICK u \in UnitArgs, d \in Dirs, n \in Names, attr \in {"get", "volume", "same", "set"} :
            Reported("attribute", Attribute(fs, host, u, d, n, attr))
      BY <1>8 DEF FS_Attribute
    <2>2. Seen(Attribute(fs, host, u, d, n, attr).host)
      BY <2>1, SeenNext DEF Reported, Answer
    <2>3. Upholding(fs, Attribute(fs, host, u, d, n, attr))
      BY <1>1, <2>2, SeenNow, AttributeUpholding
    <2>4. Serving(fs, Attribute(fs, host, u, d, n, attr))
      BY <1>1, AttributeServing
    <2> QED
      BY <2>1, <2>3, <2>4, ReportedUpholds
  <1>9. CASE FS_Files
    BY <1>9, FilesTracks
  <1>10. CASE FS_NFiles
    BY <1>10, NFilesTracks
  <1>11. CASE FS_Create
    BY <1>1, <1>11, SeenNow, CreateServing, CreateUpholding, ReportedUpholds DEF FS_Create
  <1>12. CASE FS_Open
    BY <1>1, <1>12, SeenNow, OpenServing, OpenUpholding, ReportedUpholds DEF FS_Open
  <1>13. CASE FS_Close
    BY <1>1, <1>13, CloseServing, CloseUpholding, ReportedUpholds DEF FS_Close
  <1>14. CASE FS_Read
    BY <1>1, <1>14, ReadServing, ReadUpholding, ReportedUpholds DEF FS_Read
  <1>15. CASE FS_Write
    BY <1>1, <1>15, WriteServing, WriteUpholding, ReportedUpholds DEF FS_Write
  <1>16. CASE FS_Seek
    BY <1>1, <1>16, SeekServing, SeekUpholding, ReportedUpholds DEF FS_Seek
  <1>17. CASE FS_TimeStamp
    BY <1>1, <1>17, TimeStampServing, TimeStampUpholding, ReportedUpholds DEF FS_TimeStamp
  <1>18. CASE FS_GetCapacity
    <2>1. ASSUME NEW u \in Nat
          PROVE  Serving(fs, GetCapacity(fs, host, u)) /\ Upholding(fs, GetCapacity(fs, host, u))
      BY <1>1, UnitServing, DriveUpholding DEF GetCapacity
    <2> QED
      BY <1>1, <1>18, <2>1, ReportedUpholds DEF FS_GetCapacity
  <1>19. CASE FS_CtrlDrive
    BY <1>1, <1>19, CtrlDriveServing, DriveUpholding, ReportedUpholds DEF FS_CtrlDrive
  <1>20. CASE FS_GetDPB
    BY <1>1, <1>20, GetDPBServing, DriveUpholding, ReportedUpholds DEF FS_GetDPB
  <1>21. CASE FS_DiskRead
    BY <1>21, DiskReadTracks
  <1>22. CASE FS_DiskWrite
    <2>1. ASSUME NEW u \in Nat
          PROVE  Serving(fs, DiskWrite(fs, host, u)) /\ Upholding(fs, DiskWrite(fs, host, u))
      BY <1>1, UnitServing, DriveUpholding DEF DiskWrite
    <2> QED
      BY <1>1, <1>22, <2>1, ReportedUpholds DEF FS_DiskWrite
  <1>23. CASE FS_Ioctrl
    BY <1>1, <1>23, IoctrlServing, IoctrlSustains, ReportedTracks DEF FS_Ioctrl
  <1>24. CASE FS_Flush
    <2>1. ASSUME NEW u \in Nat
          PROVE  Serving(fs, Flush(fs, host, u)) /\ Upholding(fs, Flush(fs, host, u))
      BY <1>1, UnitServing, DriveUpholding DEF Flush
    <2> QED
      BY <1>1, <1>24, <2>1, ReportedUpholds DEF FS_Flush
  <1>25. CASE FS_CheckMedia
    <2>1. ASSUME NEW u \in Nat
          PROVE  Serving(fs, CheckMedia(fs, host, u)) /\ Upholding(fs, CheckMedia(fs, host, u))
      BY <1>1, UnitServing, DriveUpholding DEF CheckMedia
    <2> QED
      BY <1>1, <1>25, <2>1, ReportedUpholds DEF FS_CheckMedia
  <1>26. CASE FS_Lock
    <2>1. ASSUME NEW u \in Nat
          PROVE  Serving(fs, Lock(fs, host, u)) /\ Upholding(fs, Lock(fs, host, u))
      BY <1>1, UnitServing, DriveUpholding DEF Lock
    <2> QED
      BY <1>1, <1>26, <2>1, ReportedUpholds DEF FS_Lock
  <1> QED
    BY <1>2, <1>3, <1>4, <1>5, <1>6, <1>7, <1>8, <1>9, <1>10, <1>11, <1>12, <1>13, <1>14,
       <1>15, <1>16, <1>17, <1>18, <1>19, <1>20, <1>21, <1>22, <1>23, <1>24, <1>25, <1>26
    DEF FsNext

(* In every state a search that can be held to what it owes has all of it   *)
(* ahead of it, and its next entry is listed: until the counter restarts.   *)
THEOREM TracksKept == FsSpec => []Tracks
  <1>1. FsInit => Tracks
    <2> SUFFICES ASSUME FsInit
                 PROVE  Tracks
      OBVIOUS
    <2>1. ASSUME NEW k \in Keys
          PROVE  Tracked(fs, host, watch[k], k)
      <3>1. watch[k].st = "none"
        BY DEF FsInit, NoWatch
      <3> QED
        BY <3>1 DEF Tracked
    <2> QED
      BY <2>1 DEF Tracks
  <1>2. RingsInv /\ FsRight /\ Tracks /\ [FsNext]_fsVars => Tracks'
    <2>1. ASSUME RingsInv, FsRight, Tracks, FsNext
          PROVE  Tracks'
      BY <2>1, NextTracks
    <2>2. ASSUME Tracks, UNCHANGED fsVars
          PROVE  Tracks'
      BY <2>2 DEF Tracks, fsVars
    <2> QED
      BY <2>1, <2>2
  <1> QED
    BY <1>1, <1>2, RingsKept, RightKept, PTL DEF FsSpec

(* Whatever is created, deleted, renamed, refreshed or evicted meanwhile: a *)
(* search of the driver that is told there is nothing more was given every  *)
(* entry that stayed as it was when the search began.                       *)
THEOREM SearchesComplete == FsSpec => []SearchComplete
  <1>1. Tracks => SearchComplete
    <2> SUFFICES ASSUME Tracks, NEW k \in Keys, watch[k].st = "ended", watch[k].steady,
                        "restart" \notin excuses
                 PROVE  watch[k].owed = {}
      BY DEF SearchComplete
    <2>1. Tracked(fs, host, watch[k], k)
      BY TrackedNow
    <2> QED
      BY <2>1 DEF Tracked
  <1> QED
    BY <1>1, TracksKept, PTL

=============================================================================

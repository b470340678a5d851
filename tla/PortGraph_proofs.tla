--------------------------- MODULE PortGraph_proofs ---------------------------
(***************************************************************************)
(* For any number of ports: the two halves of every connection agree, no   *)
(* connection is stored twice, only ports of one type are connected, and   *)
(* a ports file that is written and read brings every connection back.     *)
(*                                                                         *)
(* The loops that skip elements remove the same connections on both sides, *)
(* because what a loop visits is exactly what it leaves out of the array   *)
(* (SurvivorsOfLoop).  A port that was never allocated is in no array      *)
(* (NewUntouched), so port_new keeps the invariant.                        *)
(*                                                                         *)
(* The reader is followed name by name and element by element: Restored    *)
(* says which ports have been reached and which connections are back, and  *)
(* each name adds one connection or none (NamedRestores, NamesLoaded,      *)
(* PortLoaded, FileLoaded).                                                *)
(***************************************************************************)
EXTENDS PortsFile, Operators_proofs

\* What a loop over array leaves is a shorter array of what it does not visit.
LEMMA SurvivorsOfLoop ==
  ASSUME NEW array \in Seq(Ports), Distinct(array)
  PROVE  /\ Distinct(Survivors(array))
         /\ Elements(Survivors(array)) = Elements(array) \ Visited(array)
<1> DEFINE last == Len(array)
           half == last \div 2
           rest == Survivors(array)
<1>1. last \in Nat /\ half \in Nat /\ 2 * half <= last /\ last <= 2 * half + 1
  OBVIOUS
<1>2. DOMAIN array = 1..last
  OBVIOUS
<1>3. DOMAIN rest = 1..half /\ \A n \in 1..half : rest[n] = array[2 * n]
  BY DEF Survivors
<1>4. \A m, n \in 1..last : array[m] = array[n] => m = n
  BY <1>2 DEF Distinct
<1> HIDE DEF last, half, rest
<1>5. \A n \in 1..half : 2 * n \in 1..last /\ n \in Nat /\ (2 * n) % 2 = 0
  BY <1>1
<1>6. Distinct(rest)
  BY <1>3, <1>4, <1>5 DEF Distinct
<1>7. Elements(rest) \subseteq Elements(array) \ Visited(array)
  <2> SUFFICES ASSUME NEW n \in 1..half
               PROVE  rest[n] \in Elements(array) /\ rest[n] \notin Visited(array)
    BY <1>3 DEF Elements
  <2>1. rest[n] = array[2 * n] /\ 2 * n \in 1..last /\ (2 * n) % 2 = 0
    BY <1>3, <1>5
  <2>2. \A m \in 1..last : m % 2 = 1 => array[m] # array[2 * n]
    BY <2>1, <1>4
  <2> QED BY <2>1, <2>2, <1>2 DEF Elements, Visited
<1>8. Elements(array) \ Visited(array) \subseteq Elements(rest)
  <2> SUFFICES ASSUME NEW n \in 1..last, array[n] \notin Visited(array)
               PROVE  array[n] \in Elements(rest)
    BY <1>2 DEF Elements
  <2>1. n \in Nat /\ n % 2 # 1
    BY <1>1, <1>2 DEF Visited
  <2>2. PICK m \in Nat : n = 2 * m
    <3>1. n = 2 * (n \div 2) /\ n \div 2 \in Nat
      BY <2>1
    <3> QED BY <3>1
  <2>3. m \in 1..half
    BY <2>2, <1>1
  <2> QED BY <2>2, <2>3, <1>3 DEF Elements
<1> QED
  BY <1>6, <1>7, <1>8 DEF rest

\* The loop's array is again an array of ports.
LEMMA SurvivorsType ==
  ASSUME NEW array \in Seq(Ports)
  PROVE  /\ Survivors(array) \in Seq(Ports)
         /\ Elements(Survivors(array)) \subseteq Elements(array)
<1> DEFINE half == Len(array) \div 2
<1>1. half \in Nat /\ 2 * half <= Len(array)
  OBVIOUS
<1>2. DOMAIN array = 1..Len(array) /\ Len(array) \in Nat
  OBVIOUS
<1>3. Survivors(array) = [n \in 1..half |-> array[2 * n]]
  BY DEF Survivors
<1> HIDE DEF half
<1>4. \A n \in 1..half : 2 * n \in 1..Len(array) /\ array[2 * n] \in Ports
  <2> TAKE n \in 1..half
  <2>1. 2 * n \in 1..Len(array)
    BY <1>1, <1>2
  <2> QED BY <2>1
<1>5. [n \in 1..half |-> array[2 * n]] \in Seq(Ports)
  BY <1>1, <1>4
<1> QED
  BY <1>2, <1>3, <1>4, <1>5 DEF Elements
-----------------------------------------------------------------------------
\* The connections of a graph g are stored once, and on both sides, for the
\* ports of L.
GraphTypes(g) ==
  /\ g.srcs \in [Ports -> Seq(Ports)]
  /\ g.dests \in [Ports -> Seq(Ports)]

OnceIn(g, L) == \A p \in L : Distinct(g.srcs[p]) /\ Distinct(g.dests[p])

SymmetricIn(g, L) ==
  \A p, q \in L : q \in Elements(g.dests[p]) <=> p \in Elements(g.srcs[q])

GoodGraph(g, L) == GraphTypes(g) /\ OnceIn(g, L) /\ SymmetricIn(g, L)

\* h has no connection that g does not have.
Shrinks(g, h) ==
  \A p \in Ports : /\ Elements(h.srcs[p]) \subseteq Elements(g.srcs[p])
                   /\ Elements(h.dests[p]) \subseteq Elements(g.dests[p])

\* The loop over the sources of a port keeps a good graph good.
LEMMA DropSrcsGood ==
  ASSUME NEW g, NEW L \in SUBSET Ports, NEW p \in L, GoodGraph(g, L)
  PROVE  GoodGraph(DropSrcs(g, p), L) /\ Shrinks(g, DropSrcs(g, p))
<1> DEFINE h == DropSrcs(g, p)
           gone == Visited(g.srcs[p])
<1>1. GraphTypes(g) /\ OnceIn(g, L) /\ SymmetricIn(g, L) /\ p \in Ports
  BY DEF GoodGraph
<1>2. /\ h.srcs = [g.srcs EXCEPT ![p] = Survivors(g.srcs[p])]
      /\ h.dests = [q \in Ports |-> IF q \in gone THEN ArrayDelete(g.dests[q], p) ELSE g.dests[q]]
  BY <1>1 DEF DropSrcs, GraphTypes
<1> HIDE DEF h, gone
<1>3. \A q \in Ports : /\ h.srcs[q] = IF q = p THEN Survivors(g.srcs[p]) ELSE g.srcs[q]
                       /\ h.dests[q] = IF q \in gone THEN ArrayDelete(g.dests[q], p) ELSE g.dests[q]
  BY <1>1, <1>2 DEF GraphTypes
<1>4. \A q \in Ports : /\ h.srcs[q] \in Seq(Ports)
                       /\ Elements(h.srcs[q]) \subseteq Elements(g.srcs[q])
                       /\ h.dests[q] \in Seq(Ports)
                       /\ Elements(h.dests[q]) \subseteq Elements(g.dests[q])
  <2> TAKE q \in Ports
  <2>1. g.srcs[q] \in Seq(Ports) /\ g.dests[q] \in Seq(Ports)
    BY <1>1 DEF GraphTypes
  <2>2. CASE q = p
    BY <1>3, <2>1, <2>2, SurvivorsType, DeleteShrinks
  <2>3. CASE q # p
    BY <1>3, <2>1, <2>3, DeleteShrinks
  <2> QED BY <2>2, <2>3
<1>5. GraphTypes(h)
  <2>1. h.srcs = [q \in Ports |-> h.srcs[q]] /\ h.dests = [q \in Ports |-> h.dests[q]]
    BY <1>1, <1>2 DEF GraphTypes
  <2> QED BY <2>1, <1>4 DEF GraphTypes
<1>6. \A q \in L : /\ Distinct(h.srcs[q])
                   /\ Elements(h.srcs[q]) = Elements(g.srcs[q]) \ (IF q = p THEN gone ELSE {})
                   /\ Distinct(h.dests[q])
                   /\ Elements(h.dests[q]) = Elements(g.dests[q]) \ (IF q \in gone THEN {p} ELSE {})
  <2> TAKE q \in L
  <2>1. /\ g.srcs[q] \in Seq(Ports) /\ g.dests[q] \in Seq(Ports) /\ q \in Ports
        /\ Distinct(g.srcs[q]) /\ Distinct(g.dests[q])
    BY <1>1 DEF GraphTypes, OnceIn
  <2>2. /\ Distinct(h.dests[q])
        /\ Elements(h.dests[q]) = Elements(g.dests[q]) \ (IF q \in gone THEN {p} ELSE {})
    BY <1>3, <2>1, DeleteRemoves
  <2>3. CASE q = p
    <3>1. Distinct(h.srcs[q]) /\ Elements(h.srcs[q]) = Elements(g.srcs[q]) \ gone
      BY <1>3, <2>1, <2>3, SurvivorsOfLoop DEF gone
    <3> QED BY <3>1, <2>2, <2>3
  <2>4. CASE q # p
    BY <1>3, <2>1, <2>2, <2>4
  <2> QED BY <2>3, <2>4
<1>7. OnceIn(h, L)
  BY <1>6 DEF OnceIn
<1>8. SymmetricIn(h, L)
  BY <1>1, <1>6 DEF SymmetricIn
<1> QED
  BY <1>4, <1>5, <1>7, <1>8 DEF GoodGraph, Shrinks, h

\* The loop over the destinations of a port keeps a good graph good.
LEMMA DropDestsGood ==
  ASSUME NEW g, NEW L \in SUBSET Ports, NEW p \in L, GoodGraph(g, L)
  PROVE  GoodGraph(DropDests(g, p), L) /\ Shrinks(g, DropDests(g, p))
<1> DEFINE h == DropDests(g, p)
           gone == Visited(g.dests[p])
<1>1. GraphTypes(g) /\ OnceIn(g, L) /\ SymmetricIn(g, L) /\ p \in Ports
  BY DEF GoodGraph
<1>2. /\ h.dests = [g.dests EXCEPT ![p] = Survivors(g.dests[p])]
      /\ h.srcs = [q \in Ports |-> IF q \in gone THEN ArrayDelete(g.srcs[q], p) ELSE g.srcs[q]]
  BY <1>1 DEF DropDests, GraphTypes
<1> HIDE DEF h, gone
<1>3. \A q \in Ports : /\ h.dests[q] = IF q = p THEN Survivors(g.dests[p]) ELSE g.dests[q]
                       /\ h.srcs[q] = IF q \in gone THEN ArrayDelete(g.srcs[q], p) ELSE g.srcs[q]
  BY <1>1, <1>2 DEF GraphTypes
<1>4. \A q \in Ports : /\ h.srcs[q] \in Seq(Ports)
                       /\ Elements(h.srcs[q]) \subseteq Elements(g.srcs[q])
                       /\ h.dests[q] \in Seq(Ports)
                       /\ Elements(h.dests[q]) \subseteq Elements(g.dests[q])
  <2> TAKE q \in Ports
  <2>1. g.srcs[q] \in Seq(Ports) /\ g.dests[q] \in Seq(Ports)
    BY <1>1 DEF GraphTypes
  <2>2. CASE q = p
    BY <1>3, <2>1, <2>2, SurvivorsType, DeleteShrinks
  <2>3. CASE q # p
    BY <1>3, <2>1, <2>3, DeleteShrinks
  <2> QED BY <2>2, <2>3
<1>5. GraphTypes(h)
  <2>1. h.srcs = [q \in Ports |-> h.srcs[q]] /\ h.dests = [q \in Ports |-> h.dests[q]]
    BY <1>1, <1>2 DEF GraphTypes
  <2> QED BY <2>1, <1>4 DEF GraphTypes
<1>6. \A q \in L : /\ Distinct(h.dests[q])
                   /\ Elements(h.dests[q]) = Elements(g.dests[q]) \ (IF q = p THEN gone ELSE {})
                   /\ Distinct(h.srcs[q])
                   /\ Elements(h.srcs[q]) = Elements(g.srcs[q]) \ (IF q \in gone THEN {p} ELSE {})
  <2> TAKE q \in L
  <2>1. /\ g.srcs[q] \in Seq(Ports) /\ g.dests[q] \in Seq(Ports) /\ q \in Ports
        /\ Distinct(g.srcs[q]) /\ Distinct(g.dests[q])
    BY <1>1 DEF GraphTypes, OnceIn
  <2>2. /\ Distinct(h.srcs[q])
        /\ Elements(h.srcs[q]) = Elements(g.srcs[q]) \ (IF q \in gone THEN {p} ELSE {})
    BY <1>3, <2>1, DeleteRemoves
  <2>3. CASE q = p
    <3>1. Distinct(h.dests[q]) /\ Elements(h.dests[q]) = Elements(g.dests[q]) \ gone
      BY <1>3, <2>1, <2>3, SurvivorsOfLoop DEF gone
    <3> QED BY <3>1, <2>2, <2>3
  <2>4. CASE q # p
    BY <1>3, <2>1, <2>2, <2>4
  <2> QED BY <2>3, <2>4
<1>7. OnceIn(h, L)
  BY <1>6 DEF OnceIn
<1>8. SymmetricIn(h, L)
  BY <1>1, <1>6 DEF SymmetricIn
<1> QED
  BY <1>4, <1>5, <1>7, <1>8 DEF GoodGraph, Shrinks, h

\* port_disconnect_all keeps a good graph good.
LEMMA DisconnectAllGood ==
  ASSUME NEW g, NEW L \in SUBSET Ports, NEW p \in L, GoodGraph(g, L)
  PROVE  GoodGraph(DisconnectAll(g, p), L) /\ Shrinks(g, DisconnectAll(g, p))
<1> DEFINE h == DropSrcs(g, p)
<1>1. GoodGraph(h, L) /\ Shrinks(g, h)
  BY DropSrcsGood
<1>2. GoodGraph(DropDests(h, p), L) /\ Shrinks(h, DropDests(h, p))
  <2> HIDE DEF h
  <2> QED BY <1>1, DropDestsGood
<1>3. Shrinks(g, DropDests(h, p))
  <2> HIDE DEF h
  <2> QED BY <1>1, <1>2 DEF Shrinks
<1> QED
  BY <1>2, <1>3 DEF DisconnectAll
-----------------------------------------------------------------------------
\* A port that was never allocated is in no array.
NewUntouched ==
  \A p \in Ports : status[p] = "new" =>
    /\ srcs[p] = <<>> /\ dests[p] = <<>>
    /\ \A q \in Ports : p \notin Elements(srcs[q]) \cup Elements(dests[q])

IInv == TypeOK /\ Symmetric /\ StoredOnce /\ TypesMatch /\ NewUntouched

\* Only the empty array has no element.
LEMMA EmptyElements ==
  ASSUME NEW array \in Seq(Ports)
  PROVE  Elements(array) = {} <=> array = <<>>
<1>1. DOMAIN array = 1..Len(array) /\ Len(array) \in Nat
  OBVIOUS
<1>2. CASE Len(array) = 0
  <2>1. array = <<>>
    BY <1>2
  <2>2. \A n \in DOMAIN array : FALSE
    BY <1>1, <1>2
  <2> QED BY <2>1, <2>2 DEF Elements
<1>3. CASE Len(array) # 0
  <2>1. 1 \in DOMAIN array
    BY <1>1, <1>3
  <2>2. array # <<>>
    BY <1>3
  <2> QED BY <2>1, <2>2 DEF Elements
<1> QED
  BY <1>2, <1>3

\* What the invariant says of Graph.
LEMMA GraphIsGood ==
  ASSUME IInv
  PROVE  GoodGraph(Graph, Live) /\ Live \in SUBSET Ports
BY DEF IInv, TypeOK, Symmetric, StoredOnce, GoodGraph, GraphTypes, OnceIn,
       SymmetricIn, Graph, Live

\* A step that leaves a good graph h with no new connection, and allocates no
\* port, keeps the invariant; ports may have been freed.
LEMMA ShrinkingStep ==
  ASSUME IInv, NEW h, GoodGraph(h, Live), Shrinks(Graph, h), SetGraph(h),
         status' \in [Ports -> {"new", "live", "freed"}],
         registry' \in Seq(Ports), id' = id,
         Live' \subseteq Live, \A p \in Ports : status'[p] = "new" => status[p] = "new"
  PROVE  IInv'
<1>1. /\ srcs' = h.srcs /\ dests' = h.dests
      /\ \A p \in Ports : /\ Elements(srcs'[p]) \subseteq Elements(srcs[p])
                          /\ Elements(dests'[p]) \subseteq Elements(dests[p])
      /\ srcs' \in [Ports -> Seq(Ports)] /\ dests' \in [Ports -> Seq(Ports)]
  BY DEF SetGraph, Shrinks, Graph, GoodGraph, GraphTypes
<1>2. TypeOK'
  BY <1>1 DEF IInv, TypeOK
<1>3. Live' \in SUBSET Ports /\ Live \in SUBSET Ports
  BY DEF Live
<1>4. Symmetric'
  BY <1>1, <1>3 DEF Symmetric, GoodGraph, SymmetricIn
<1>5. StoredOnce'
  BY <1>1, <1>3 DEF StoredOnce, GoodGraph, OnceIn
<1>6. TypesMatch'
  BY <1>1, <1>3 DEF IInv, TypesMatch
<1>7. NewUntouched'
  <2> SUFFICES ASSUME NEW p \in Ports, status'[p] = "new"
               PROVE  /\ srcs'[p] = <<>> /\ dests'[p] = <<>>
                      /\ \A q \in Ports : p \notin Elements(srcs'[q]) \cup Elements(dests'[q])
    BY DEF NewUntouched
  <2>1. /\ srcs[p] = <<>> /\ dests[p] = <<>>
        /\ \A q \in Ports : p \notin Elements(srcs[q]) \cup Elements(dests[q])
    BY DEF IInv, NewUntouched
  <2>2. Elements(srcs'[p]) = {} /\ Elements(dests'[p]) = {}
    <3>1. srcs[p] \in Seq(Ports) /\ dests[p] \in Seq(Ports)
      BY DEF IInv, TypeOK
    <3>2. Elements(srcs[p]) = {} /\ Elements(dests[p]) = {}
      BY <2>1, <3>1, EmptyElements
    <3> QED BY <1>1, <3>2
  <2>4. srcs'[p] = <<>> /\ dests'[p] = <<>>
    <3>1. srcs'[p] \in Seq(Ports) /\ dests'[p] \in Seq(Ports)
      BY <1>1
    <3> QED BY <2>2, <3>1, EmptyElements
  <2> QED BY <1>1, <2>1, <2>4
<1> QED
  BY <1>2, <1>4, <1>5, <1>6, <1>7 DEF IInv

\* The arrays d and s differ from dests and srcs in the connection src to dest,
\* which both ends have when present holds and no end has otherwise.
EdgeChange(src, dest, present, d, s) ==
  /\ s \in [Ports -> Seq(Ports)] /\ d \in [Ports -> Seq(Ports)]
  /\ \A p \in Live : Distinct(s[p]) /\ Distinct(d[p])
  /\ \A p \in Live : \A q :
       /\ ~(p = src /\ q = dest) => (q \in Elements(d[p]) <=> q \in Elements(dests[p]))
       /\ ~(p = dest /\ q = src) => (q \in Elements(s[p]) <=> q \in Elements(srcs[p]))
  /\ dest \in Elements(d[src]) <=> present
  /\ src \in Elements(s[dest]) <=> present
  /\ \A p \in Ports \ Live : d[p] = dests[p] /\ s[p] = srcs[p]

\* port_disconnect and port_connect change one connection, at both ends.
LEMMA ConnectEnds ==
  ASSUME IInv, NEW src \in Live, NEW dest \in Live, src # dest
  PROVE  /\ EdgeChange(src, dest, FALSE, WithoutDest(src, dest), WithoutSrc(src, dest))
         /\ EdgeChange(src, dest, TRUE, WithDest(src, dest), WithSrc(src, dest))
<1> DEFINE d == WithoutDest(src, dest)
           s == WithoutSrc(src, dest)
           dd == WithDest(src, dest)
           ss == WithSrc(src, dest)
           dcut == ArrayDelete(dests[src], dest)
           scut == ArrayDelete(srcs[dest], src)
<1>1. /\ src \in Ports /\ dest \in Ports /\ Live \subseteq Ports
      /\ srcs \in [Ports -> Seq(Ports)] /\ dests \in [Ports -> Seq(Ports)]
      /\ \A p \in Live : Distinct(srcs[p]) /\ Distinct(dests[p])
  BY DEF IInv, TypeOK, StoredOnce, Live
<1>2. /\ dcut \in Seq(Ports) /\ Distinct(dcut) /\ Elements(dcut) = Elements(dests[src]) \ {dest}
      /\ scut \in Seq(Ports) /\ Distinct(scut) /\ Elements(scut) = Elements(srcs[dest]) \ {src}
  BY <1>1, DeleteShrinks, DeleteRemoves
<1> HIDE DEF dcut, scut
<1>3. /\ ArrayAppend(dcut, dest) \in Seq(Ports) /\ Distinct(ArrayAppend(dcut, dest))
      /\ Elements(ArrayAppend(dcut, dest)) = Elements(dests[src]) \cup {dest}
  <2>1. dcut \in Seq(Ports) /\ dest \in Ports /\ Distinct(dcut) /\ dest \notin Elements(dcut)
    BY <1>1, <1>2
  <2>2. /\ ArrayAppend(dcut, dest) \in Seq(Ports)
        /\ Elements(ArrayAppend(dcut, dest)) = Elements(dcut) \cup {dest}
    BY <2>1, AppendAdds
  <2>3. Distinct(ArrayAppend(dcut, dest))
    BY <2>1, AppendDistinct
  <2> QED BY <1>2, <2>2, <2>3
<1>4. /\ ArrayAppend(scut, src) \in Seq(Ports) /\ Distinct(ArrayAppend(scut, src))
      /\ Elements(ArrayAppend(scut, src)) = Elements(srcs[dest]) \cup {src}
  <2>1. scut \in Seq(Ports) /\ src \in Ports /\ Distinct(scut) /\ src \notin Elements(scut)
    BY <1>1, <1>2
  <2>2. /\ ArrayAppend(scut, src) \in Seq(Ports)
        /\ Elements(ArrayAppend(scut, src)) = Elements(scut) \cup {src}
    BY <2>1, AppendAdds
  <2>3. Distinct(ArrayAppend(scut, src))
    BY <2>1, AppendDistinct
  <2> QED BY <1>2, <2>2, <2>3
<1>5. d = [dests EXCEPT ![src] = dcut] /\ s = [srcs EXCEPT ![dest] = scut]
  BY DEF WithoutDest, WithoutSrc, dcut, scut
<1>11. /\ dd = [d EXCEPT ![src] = ArrayAppend(d[src], dest)]
       /\ ss = [s EXCEPT ![dest] = ArrayAppend(s[dest], src)]
  BY DEF WithDest, WithSrc
<1> HIDE DEF d, s, dd, ss
<1>6. /\ d \in [Ports -> Seq(Ports)] /\ s \in [Ports -> Seq(Ports)]
      /\ \A p \in Ports : /\ d[p] = IF p = src THEN dcut ELSE dests[p]
                          /\ s[p] = IF p = dest THEN scut ELSE srcs[p]
  BY <1>1, <1>2, <1>5
<1>7. /\ dd \in [Ports -> Seq(Ports)] /\ ss \in [Ports -> Seq(Ports)]
      /\ \A p \in Ports : /\ dd[p] = IF p = src THEN ArrayAppend(dcut, dest) ELSE dests[p]
                          /\ ss[p] = IF p = dest THEN ArrayAppend(scut, src) ELSE srcs[p]
  BY <1>1, <1>3, <1>4, <1>6, <1>11
<1>8. ASSUME NEW p \in Live
      PROVE  /\ Distinct(d[p]) /\ Distinct(dd[p])
             /\ Elements(d[p]) = Elements(dests[p]) \ (IF p = src THEN {dest} ELSE {})
             /\ Elements(dd[p]) = Elements(dests[p]) \cup (IF p = src THEN {dest} ELSE {})
  <2>1. p \in Ports /\ Distinct(dests[p])
    BY <1>1
  <2>2. CASE p = src
    BY <1>2, <1>3, <1>6, <1>7, <2>1, <2>2
  <2>3. CASE p # src
    BY <1>6, <1>7, <2>1, <2>3
  <2> QED BY <2>2, <2>3
<1>9. ASSUME NEW p \in Live
      PROVE  /\ Distinct(s[p]) /\ Distinct(ss[p])
             /\ Elements(s[p]) = Elements(srcs[p]) \ (IF p = dest THEN {src} ELSE {})
             /\ Elements(ss[p]) = Elements(srcs[p]) \cup (IF p = dest THEN {src} ELSE {})
  <2>1. p \in Ports /\ Distinct(srcs[p])
    BY <1>1
  <2>2. CASE p = dest
    BY <1>2, <1>4, <1>6, <1>7, <2>1, <2>2
  <2>3. CASE p # dest
    BY <1>6, <1>7, <2>1, <2>3
  <2> QED BY <2>2, <2>3
<1>10. \A p \in Ports \ Live :
         d[p] = dests[p] /\ s[p] = srcs[p] /\ dd[p] = dests[p] /\ ss[p] = srcs[p]
  BY <1>1, <1>6, <1>7
<1>12. ASSUME NEW p \in Live, NEW q
       PROVE  /\ ~(p = src /\ q = dest) =>
                   /\ q \in Elements(d[p]) <=> q \in Elements(dests[p])
                   /\ q \in Elements(dd[p]) <=> q \in Elements(dests[p])
              /\ ~(p = dest /\ q = src) =>
                   /\ q \in Elements(s[p]) <=> q \in Elements(srcs[p])
                   /\ q \in Elements(ss[p]) <=> q \in Elements(srcs[p])
  BY <1>8, <1>9
<1>13. /\ dest \notin Elements(d[src]) /\ dest \in Elements(dd[src])
       /\ src \notin Elements(s[dest]) /\ src \in Elements(ss[dest])
  BY <1>8, <1>9
<1>14. EdgeChange(src, dest, FALSE, d, s)
  BY <1>6, <1>8, <1>9, <1>10, <1>12, <1>13 DEF EdgeChange
<1>15. EdgeChange(src, dest, TRUE, dd, ss)
  BY <1>7, <1>8, <1>9, <1>10, <1>12, <1>13 DEF EdgeChange
<1> QED
  BY <1>14, <1>15 DEF d, s, dd, ss

\* A step that makes the connection src to dest present or absent at both ends,
\* and changes no other connection, keeps the invariant.
LEMMA EdgeStep ==
  ASSUME IInv, NEW src \in Live, NEW dest \in Live, NEW present \in BOOLEAN,
         present => PortType[src] = PortType[dest],
         NEW d, NEW s, EdgeChange(src, dest, present, d, s),
         dests' = d, srcs' = s, UNCHANGED <<status, registry, id>>
  PROVE  IInv'
<1>1. Live' = Live /\ Live \subseteq Ports /\ src \in Live /\ dest \in Live
  BY DEF Live
<1>2. TypeOK' /\ StoredOnce'
  BY <1>1 DEF IInv, TypeOK, StoredOnce, EdgeChange
<1>3. Symmetric'
  <2> SUFFICES ASSUME NEW p \in Live, NEW q \in Live
               PROVE  q \in Elements(d[p]) <=> p \in Elements(s[q])
    BY <1>1 DEF Symmetric
  <2>1. CASE p = src /\ q = dest
    BY <2>1 DEF EdgeChange
  <2>2. CASE ~(p = src /\ q = dest)
    BY <2>2 DEF EdgeChange, IInv, Symmetric
  <2> QED BY <2>1, <2>2
<1>4. TypesMatch'
  <2> SUFFICES ASSUME NEW p \in Live, NEW q, q \in Elements(s[p]) \cup Elements(d[p])
               PROVE  PortType[p] = PortType[q]
    BY <1>1 DEF TypesMatch
  <2>1. CASE p = src /\ q = dest
    <3>1. CASE present
      BY <2>1, <3>1
    <3>2. CASE ~present
      BY <2>1, <3>2 DEF EdgeChange, IInv, TypesMatch
    <3> QED BY <3>1, <3>2
  <2>2. CASE p = dest /\ q = src
    <3>1. CASE present
      BY <2>2, <3>1
    <3>2. CASE ~present
      BY <2>2, <3>2 DEF EdgeChange, IInv, TypesMatch
    <3> QED BY <3>1, <3>2
  <2>3. CASE ~(p = src /\ q = dest) /\ ~(p = dest /\ q = src)
    BY <2>3 DEF EdgeChange, IInv, TypesMatch
  <2> QED BY <2>1, <2>2, <2>3
<1>5. NewUntouched'
  <2> SUFFICES ASSUME NEW p \in Ports, status[p] = "new"
               PROVE  /\ srcs'[p] = <<>> /\ dests'[p] = <<>>
                      /\ \A q \in Ports : p \notin Elements(srcs'[q]) \cup Elements(dests'[q])
    BY DEF NewUntouched
  <2>1. /\ srcs[p] = <<>> /\ dests[p] = <<>>
        /\ \A q \in Ports : p \notin Elements(srcs[q]) \cup Elements(dests[q])
    BY DEF IInv, NewUntouched
  <2>2. p \notin Live /\ p # src /\ p # dest
    BY DEF Live
  <2>3. srcs'[p] = <<>> /\ dests'[p] = <<>>
    BY <2>1, <2>2 DEF EdgeChange
  <2>4. ASSUME NEW q \in Ports PROVE p \notin Elements(s[q]) \cup Elements(d[q])
    <3>1. CASE q \in Live
      BY <2>1, <2>2, <3>1 DEF EdgeChange
    <3>2. CASE q \notin Live
      <4>1. s[q] = srcs[q] /\ d[q] = dests[q]
        BY <3>2 DEF EdgeChange
      <4> QED BY <2>1, <4>1
    <3> QED BY <3>1, <3>2
  <2> QED BY <2>3, <2>4
<1> QED
  BY <1>2, <1>3, <1>4, <1>5 DEF IInv

\* port_disconnect, and port_connect when it refuses, keep the invariant.
LEMMA DisconnectStep ==
  ASSUME IInv, NEW src \in Live, NEW dest \in Live, src # dest,
         dests' = WithoutDest(src, dest), srcs' = WithoutSrc(src, dest),
         UNCHANGED <<status, registry, id>>
  PROVE  IInv'
<1>1. EdgeChange(src, dest, FALSE, WithoutDest(src, dest), WithoutSrc(src, dest))
  BY ConnectEnds
<1> QED
  BY <1>1, EdgeStep

\* port_connect, when the types match, keeps the invariant.
LEMMA ConnectStep ==
  ASSUME IInv, NEW src \in Live, NEW dest \in Live, src # dest,
         PortType[src] = PortType[dest],
         dests' = WithDest(src, dest), srcs' = WithSrc(src, dest),
         UNCHANGED <<status, registry, id>>
  PROVE  IInv'
<1>1. EdgeChange(src, dest, TRUE, WithDest(src, dest), WithSrc(src, dest))
  BY ConnectEnds
<1> QED
  BY <1>1, EdgeStep

\* port_new adds a port that is connected to nothing.
LEMMA NewStep ==
  ASSUME IInv, NEW p \in Ports, PortNew(p)
  PROVE  IInv'
<1>1. /\ status[p] = "new" /\ status' = [status EXCEPT ![p] = "live"]
      /\ id' = [id EXCEPT ![p] = Len(registry)]
      /\ registry' = Append(registry, p)
      /\ srcs' = srcs /\ dests' = dests
  BY DEF PortNew, ArrayAppend
<1>2. status \in [Ports -> {"new", "live", "freed"}] /\ registry \in Seq(Ports) /\ id \in [Ports -> Nat]
  BY DEF IInv, TypeOK
<1>3. TypeOK'
  <2>1. registry' \in Seq(Ports) /\ Len(registry) \in Nat
    BY <1>1, <1>2
  <2>2. status' \in [Ports -> {"new", "live", "freed"}] /\ id' \in [Ports -> Nat]
    BY <1>1, <1>2, <2>1
  <2> QED BY <1>1, <2>1, <2>2 DEF IInv, TypeOK
<1>4. Live' = Live \cup {p} /\ Live \subseteq Ports /\ p \notin Live
  BY <1>1, <1>2 DEF Live
<1>5. /\ srcs[p] = <<>> /\ dests[p] = <<>>
      /\ \A q \in Ports : p \notin Elements(srcs[q]) \cup Elements(dests[q])
      /\ Elements(srcs[p]) = {} /\ Elements(dests[p]) = {}
  BY <1>1, EmptyElements DEF IInv, NewUntouched, TypeOK
<1>6. Symmetric'
  BY <1>1, <1>4, <1>5 DEF IInv, Symmetric
<1>7. StoredOnce'
  <2>1. Distinct(srcs[p]) /\ Distinct(dests[p])
    BY <1>5 DEF Distinct
  <2> QED BY <1>1, <1>4, <2>1 DEF IInv, StoredOnce
<1>8. TypesMatch'
  BY <1>1, <1>4, <1>5 DEF IInv, TypesMatch
<1>9. NewUntouched'
  BY <1>1, <1>2 DEF IInv, NewUntouched
<1> QED
  BY <1>3, <1>6, <1>7, <1>8, <1>9 DEF IInv

\* port_free, and one port of clean_ports, on a graph that already lost some
\* connections.
LEMMA FreeStep ==
  ASSUME IInv, NEW p \in Live, NEW g, GoodGraph(g, Live), Shrinks(Graph, g), Free(p, g)
  PROVE  IInv'
<1> DEFINE h == DisconnectAll(g, p)
<1>1. GoodGraph(h, Live) /\ Shrinks(g, h) /\ SetGraph(h) /\ p \in Ports
  BY GraphIsGood, DisconnectAllGood DEF Free, Live
<1> HIDE DEF h
<1>2. Shrinks(Graph, h)
  BY <1>1 DEF Shrinks
<1>3. status \in [Ports -> {"new", "live", "freed"}] /\ registry \in Seq(Ports)
  BY DEF IInv, TypeOK
<1>4. /\ status' = [status EXCEPT ![p] = "freed"] /\ id' = id
      /\ registry' = ArrayDelete(registry, p)
  BY DEF Free
<1>5. /\ status' \in [Ports -> {"new", "live", "freed"}]
      /\ Live' \subseteq Live
      /\ \A q \in Ports : status'[q] = "new" => status[q] = "new"
  BY <1>3, <1>4 DEF Live
<1>6. registry' \in Seq(Ports)
  BY <1>3, <1>4, DeleteShrinks
<1> QED
  BY <1>1, <1>2, <1>4, <1>5, <1>6, ShrinkingStep

\* No port is connected at first.
LEMMA InitInvariant == Init => IInv
<1> SUFFICES ASSUME Init PROVE IInv
  OBVIOUS
<1> USE DEF Init
<1>1. TypeOK
  BY DEF TypeOK
<1>2. Live = {}
  BY DEF Live
<1>3. \A p \in Ports : Elements(srcs[p]) = {} /\ Elements(dests[p]) = {}
  BY EmptyElements, <1>1 DEF TypeOK
<1>4. NewUntouched
  BY <1>3 DEF NewUntouched
<1> QED
  BY <1>1, <1>2, <1>4 DEF IInv, Symmetric, StoredOnce, TypesMatch

\* Every operation keeps the invariant.
LEMMA StepInvariant == IInv /\ [Next]_vars => IInv'
<1> SUFFICES ASSUME IInv, [Next]_vars PROVE IInv'
  OBVIOUS
<1>1. GoodGraph(Graph, Live) /\ Live \in SUBSET Ports /\ Shrinks(Graph, Graph)
  BY GraphIsGood DEF Shrinks
<1>2. ASSUME NEW p \in Ports, PortNew(p) PROVE IInv'
  BY <1>2, NewStep
<1>3. ASSUME NEW p \in Ports, PortDisconnectAll(p) PROVE IInv'
  <2> DEFINE h == DisconnectAll(Graph, p)
  <2>1. p \in Live /\ SetGraph(h) /\ UNCHANGED <<status, registry, id>>
    BY <1>3 DEF PortDisconnectAll
  <2>2. GoodGraph(h, Live) /\ Shrinks(Graph, h)
    BY <1>1, <2>1, DisconnectAllGood
  <2> HIDE DEF h
  <2>3. Live' = Live /\ status' \in [Ports -> {"new", "live", "freed"}] /\ registry' \in Seq(Ports)
    BY <2>1 DEF Live, IInv, TypeOK
  <2> QED BY <2>1, <2>2, <2>3, ShrinkingStep
<1>4. ASSUME NEW p \in Ports, PortFree(p) PROVE IInv'
  BY <1>1, <1>4, FreeStep DEF PortFree
<1>5. ASSUME NEW p \in Ports, CleanPort(p) PROVE IInv'
  <2> DEFINE g == IF PortFlow[p] = "in" THEN DropSrcs(Graph, p) ELSE DropDests(Graph, p)
  <2>1. p \in Live /\ Free(p, g)
    BY <1>5 DEF CleanPort
  <2>2. GoodGraph(g, Live) /\ Shrinks(Graph, g)
    BY <1>1, <2>1, DropSrcsGood, DropDestsGood
  <2> HIDE DEF g
  <2> QED BY <2>1, <2>2, FreeStep
<1>6. ASSUME NEW src \in Ports, NEW dest \in Ports, PortConnect(src, dest) PROVE IInv'
  <2>1. src \in Live /\ dest \in Live /\ src # dest /\ UNCHANGED <<status, registry, id>>
    BY <1>6 DEF PortConnect
  <2>2. CASE PortType[src] = PortType[dest]
    BY <1>6, <2>1, <2>2, ConnectStep DEF PortConnect
  <2>3. CASE PortType[src] # PortType[dest]
    BY <1>6, <2>1, <2>3, DisconnectStep DEF PortConnect
  <2> QED BY <2>2, <2>3
<1>7. ASSUME NEW src \in Ports, NEW dest \in Ports, PortDisconnect(src, dest) PROVE IInv'
  <2>1. src \in Live /\ dest \in Live /\ src # dest
    BY <1>7 DEF PortDisconnect
  <2> QED BY <1>7, <2>1, DisconnectStep DEF PortDisconnect
<1>8. CASE UNCHANGED vars
  <2>1. /\ status' = status /\ registry' = registry /\ id' = id
        /\ srcs' = srcs /\ dests' = dests /\ Live' = Live
    BY <1>8 DEF vars, Live
  <2> QED BY <2>1 DEF IInv, TypeOK, Symmetric, StoredOnce, TypesMatch, NewUntouched
<1> QED
  BY <1>2, <1>3, <1>4, <1>5, <1>6, <1>7, <1>8 DEF Next

\* In every reachable state IInv holds.
LEMMA Invariance == Spec => []IInv
BY InitInvariant, StepInvariant, PTL DEF Spec

\* The ports, ids and arrays stay in their types (port.c).
THEOREM PortTypeCorrect == Spec => []TypeOK
<1>1. IInv => TypeOK
  BY DEF IInv
<1> QED BY <1>1, Invariance, PTL

\* The two halves of every connection between live ports agree, whatever
\* port_connect, port_disconnect and the loops that skip did.
THEOREM SymmetricCorrect == Spec => []Symmetric
<1>1. IInv => Symmetric
  BY DEF IInv
<1> QED BY <1>1, Invariance, PTL

\* port_connect never stores a connection twice.
THEOREM StoredOnceCorrect == Spec => []StoredOnce
<1>1. IInv => StoredOnce
  BY DEF IInv
<1> QED BY <1>1, Invariance, PTL

\* Only ports of one type are ever connected.
THEOREM TypesMatchCorrect == Spec => []TypesMatch
<1>1. IInv => TypesMatch
  BY DEF IInv
<1> QED BY <1>1, Invariance, PTL
-----------------------------------------------------------------------------
(***************************************************************************)
(* Loading the ports file.  While it is read, D are the ids of the ports   *)
(* that have a label, T gives the type of each port and C are the          *)
(* connections, as pairs of ids, that are back at both of their ends.      *)
(***************************************************************************)
LoadedPort ==
  [label : BOOLEAN, type : {"audio", "event", "unknown"}, srcs : Seq(Nat), dests : Seq(Nat)]

IsLoaded(ports) == DOMAIN ports \subseteq Nat /\ ports \in [DOMAIN ports -> LoadedPort]

Restored(ports, T, D, C) ==
  /\ IsLoaded(ports) /\ D \subseteq DOMAIN ports /\ C \subseteq D \X D
  /\ \A n \in DOMAIN ports :
       /\ ports[n].label <=> n \in D
       /\ Distinct(ports[n].srcs) /\ Distinct(ports[n].dests)
       /\ \A m : m \in Elements(ports[n].dests) <=> <<n, m>> \in C
       /\ \A m : m \in Elements(ports[n].srcs) <=> <<m, n>> \in C
  /\ \A n \in D : ports[n].type = T[n]

\* A port that is made blank has no connection.
LEMMA BlankMade ==
  ASSUME NEW ports, NEW T, NEW D, NEW C, Restored(ports, T, D, C), NEW n \in Nat
  PROVE  Restored(GetOrCreateBlank(ports, n), T, D, C) /\ n \in DOMAIN GetOrCreateBlank(ports, n)
<1> DEFINE known == GetOrCreateBlank(ports, n)
<1>1. /\ DOMAIN known = DOMAIN ports \cup {n}
      /\ \A m \in DOMAIN ports : known[m] = ports[m]
      /\ n \notin DOMAIN ports => known[n] = Blank
      /\ known = [m \in DOMAIN known |-> known[m]]
  BY DEF GetOrCreateBlank
<1> HIDE DEF known
<1>2. Blank \in LoadedPort
  BY DEF Blank, LoadedPort
<1>3. IsLoaded(known)
  BY <1>1, <1>2 DEF Restored, IsLoaded
<1>4. D \subseteq DOMAIN known /\ C \subseteq D \X D /\ \A m \in D : known[m].type = T[m]
  BY <1>1 DEF Restored
<1>5. ASSUME NEW m \in DOMAIN known
      PROVE  /\ known[m].label <=> m \in D
             /\ Distinct(known[m].srcs) /\ Distinct(known[m].dests)
             /\ \A k : k \in Elements(known[m].dests) <=> <<m, k>> \in C
             /\ \A k : k \in Elements(known[m].srcs) <=> <<k, m>> \in C
  <2>1. CASE m \in DOMAIN ports
    BY <1>1, <2>1 DEF Restored
  <2>2. CASE m \notin DOMAIN ports
    <3>1. known[m] = Blank /\ m \notin D
      BY <1>1, <2>2 DEF Restored
    <3>2. Elements(<<>>) = {} /\ Distinct(<<>>)
      BY DEF Elements, Distinct
    <3>3. \A k : <<m, k>> \notin C /\ <<k, m>> \notin C
      BY <3>1 DEF Restored
    <3>4. known[m].label = FALSE /\ known[m].srcs = <<>> /\ known[m].dests = <<>>
      BY <3>1 DEF Blank
    <3>5. Elements(known[m].dests) = {} /\ Elements(known[m].srcs) = {}
          /\ Distinct(known[m].dests) /\ Distinct(known[m].srcs)
      BY <3>2, <3>4
    <3> QED
      BY <3>1, <3>3, <3>4, <3>5
  <2> QED
    BY <2>1, <2>2
<1>6. Restored(known, T, D, C)
  BY <1>3, <1>4, <1>5 DEF Restored
<1> QED
  BY <1>1, <1>6 DEF known

\* What port_connect leaves of the arrays of both ends.
LEMMA ReconnectArrays ==
  ASSUME NEW array \in Seq(Nat), Distinct(array), NEW element \in Nat
  PROVE  LET new == ArrayAppend(ArrayDelete(array, element), element)
         IN  /\ new \in Seq(Nat) /\ Distinct(new)
             /\ Elements(new) = Elements(array) \cup {element}
<1> DEFINE without == ArrayDelete(array, element)
           new == ArrayAppend(without, element)
<1>1. /\ without \in Seq(Nat) /\ Distinct(without)
      /\ Elements(without) = Elements(array) \ {element}
  BY DeleteShrinks, DeleteRemoves
<1> HIDE DEF without
<1>2. new \in Seq(Nat) /\ Elements(new) = Elements(without) \cup {element}
  BY <1>1, AppendAdds
<1>3. Distinct(new)
  BY <1>1, AppendDistinct
<1> HIDE DEF new
<1>4. Elements(new) = Elements(array) \cup {element}
  BY <1>1, <1>2
<1> QED
  BY <1>2, <1>3, <1>4 DEF new, without

\* Connecting two ports of one type adds their connection at both ends.
LEMMA Reconnected ==
  ASSUME NEW ports, NEW T, NEW D, NEW C, Restored(ports, T, D, C),
         NEW src \in D, NEW dest \in D, T[src] = T[dest]
  PROVE  Restored(Reconnect(ports, src, dest), T, D, C \cup {<<src, dest>>})
<1> DEFINE without == [ports EXCEPT ![src].dests = ArrayDelete(@, dest),
                                    ![dest].srcs = ArrayDelete(@, src)]
           new == [without EXCEPT ![src].dests = ArrayAppend(@, dest),
                                  ![dest].srcs = ArrayAppend(@, src)]
           Dests(n) == IF n = src THEN ArrayAppend(ArrayDelete(ports[n].dests, dest), dest)
                       ELSE ports[n].dests
           Srcs(n) == IF n = dest THEN ArrayAppend(ArrayDelete(ports[n].srcs, src), src)
                      ELSE ports[n].srcs
           all == C \cup {<<src, dest>>}
<1>1. /\ src \in DOMAIN ports /\ dest \in DOMAIN ports /\ DOMAIN ports \subseteq Nat
      /\ \A n \in DOMAIN ports : ports[n] \in LoadedPort
      /\ ports[src].type = ports[dest].type
  BY DEF Restored, IsLoaded
<1>2. Reconnect(ports, src, dest) = new
  BY <1>1 DEF Reconnect
<1>3. ASSUME NEW n \in DOMAIN ports
      PROVE  new[n] = [label |-> ports[n].label, type |-> ports[n].type,
                       srcs |-> Srcs(n), dests |-> Dests(n)]
  <2>1. ports[n] = [label |-> ports[n].label, type |-> ports[n].type,
                    srcs |-> ports[n].srcs, dests |-> ports[n].dests]
    BY <1>1 DEF LoadedPort
  <2> DEFINE fewer == [label |-> ports[n].label, type |-> ports[n].type,
                       srcs |-> IF n = dest THEN ArrayDelete(ports[n].srcs, src) ELSE ports[n].srcs,
                       dests |-> IF n = src THEN ArrayDelete(ports[n].dests, dest) ELSE ports[n].dests]
  <2>2. without[n] = fewer
    BY <1>1, <2>1
  <2>3. DOMAIN without = DOMAIN ports
    OBVIOUS
  <2> HIDE DEF without
  <2>4. new[n] = [label |-> fewer.label, type |-> fewer.type,
                  srcs |-> IF n = dest THEN ArrayAppend(fewer.srcs, src) ELSE fewer.srcs,
                  dests |-> IF n = src THEN ArrayAppend(fewer.dests, dest) ELSE fewer.dests]
    BY <1>1, <2>2, <2>3
  <2> QED
    BY <2>4
<1>4. DOMAIN new = DOMAIN ports /\ new = [n \in DOMAIN new |-> new[n]]
  <2>1. DOMAIN without = DOMAIN ports
    OBVIOUS
  <2> HIDE DEF without
  <2>2. DOMAIN new = DOMAIN without
    OBVIOUS
  <2>3. new = [n \in DOMAIN without |-> new[n]]
    OBVIOUS
  <2> QED
    BY <2>1, <2>2, <2>3
<1> HIDE DEF new
<1>5. ASSUME NEW n \in DOMAIN ports
      PROVE  /\ Srcs(n) \in Seq(Nat) /\ Distinct(Srcs(n))
             /\ Dests(n) \in Seq(Nat) /\ Distinct(Dests(n))
             /\ \A m : m \in Elements(Dests(n)) <=> <<n, m>> \in all
             /\ \A m : m \in Elements(Srcs(n)) <=> <<m, n>> \in all
  <2>1. /\ ports[n].srcs \in Seq(Nat) /\ Distinct(ports[n].srcs)
        /\ ports[n].dests \in Seq(Nat) /\ Distinct(ports[n].dests)
        /\ \A m : m \in Elements(ports[n].dests) <=> <<n, m>> \in C
        /\ \A m : m \in Elements(ports[n].srcs) <=> <<m, n>> \in C
    BY <1>1 DEF Restored, LoadedPort
  <2>2. src \in Nat /\ dest \in Nat
    BY <1>1
  <2>3. /\ Dests(n) \in Seq(Nat) /\ Distinct(Dests(n))
        /\ \A m : m \in Elements(Dests(n)) <=> <<n, m>> \in all
    <3>1. CASE n = src
      <4> DEFINE array == ports[n].dests
                 longer == ArrayAppend(ArrayDelete(array, dest), dest)
      <4>1. /\ longer \in Seq(Nat) /\ Distinct(longer)
            /\ Elements(longer) = Elements(array) \cup {dest}
        BY <2>1, <2>2, ReconnectArrays
      <4>2. Dests(n) = longer
        BY <3>1
      <4> HIDE DEF longer, Dests
      <4> QED
        BY <2>1, <3>1, <4>1, <4>2
    <3>2. CASE n # src
      BY <2>1, <3>2
    <3> QED
      BY <3>1, <3>2
  <2>4. /\ Srcs(n) \in Seq(Nat) /\ Distinct(Srcs(n))
        /\ \A m : m \in Elements(Srcs(n)) <=> <<m, n>> \in all
    <3>1. CASE n = dest
      <4> DEFINE array == ports[n].srcs
                 longer == ArrayAppend(ArrayDelete(array, src), src)
      <4>1. /\ longer \in Seq(Nat) /\ Distinct(longer)
            /\ Elements(longer) = Elements(array) \cup {src}
        BY <2>1, <2>2, ReconnectArrays
      <4>2. Srcs(n) = longer
        BY <3>1
      <4> HIDE DEF longer, Srcs
      <4> QED
        BY <2>1, <3>1, <4>1, <4>2
    <3>2. CASE n # dest
      BY <2>1, <3>2
    <3> QED
      BY <3>1, <3>2
  <2> QED
    BY <2>3, <2>4
<1> HIDE DEF Srcs, Dests
<1>6. IsLoaded(new)
  <2>1. ASSUME NEW n \in DOMAIN ports PROVE new[n] \in LoadedPort
    <3>1. ports[n].label \in BOOLEAN /\ ports[n].type \in {"audio", "event", "unknown"}
      BY <1>1 DEF LoadedPort
    <3>2. Srcs(n) \in Seq(Nat) /\ Dests(n) \in Seq(Nat)
      BY <1>5
    <3> DEFINE port == [label |-> ports[n].label, type |-> ports[n].type,
                        srcs |-> Srcs(n), dests |-> Dests(n)]
    <3>3. port \in LoadedPort
      BY <3>1, <3>2 DEF LoadedPort
    <3>4. new[n] = port
      BY <1>3
    <3> QED
      BY <3>3, <3>4
  <2> QED
    BY <1>1, <1>4, <2>1 DEF IsLoaded
<1>7. D \subseteq DOMAIN new /\ all \subseteq D \X D /\ \A n \in D : new[n].type = T[n]
  BY <1>3, <1>4 DEF Restored
<1>8. ASSUME NEW n \in DOMAIN new
      PROVE  /\ new[n].label <=> n \in D
             /\ Distinct(new[n].srcs) /\ Distinct(new[n].dests)
             /\ \A m : m \in Elements(new[n].dests) <=> <<n, m>> \in all
             /\ \A m : m \in Elements(new[n].srcs) <=> <<m, n>> \in all
  <2>1. /\ new[n].label = ports[n].label
        /\ new[n].srcs = Srcs(n) /\ new[n].dests = Dests(n)
    BY <1>3, <1>4
  <2>2. ports[n].label <=> n \in D
    BY <1>4 DEF Restored
  <2> QED
    BY <1>4, <1>5, <2>1, <2>2
<1>9. Restored(new, T, D, all)
  BY <1>6, <1>7, <1>8 DEF Restored
<1> QED
  BY <1>2, <1>9

\* A name of a port that the file has reached connects, another one does not.
LEMMA NamedRestores ==
  ASSUME NEW ports, NEW T, NEW D, NEW C, Restored(ports, T, D, C),
         NEW n \in Nat, NEW src, NEW dest, {src, dest} \subseteq D \cup {n}, T[src] = T[dest]
  PROVE  Restored(Named(ports, n, src, dest), T, D, IF n \in D THEN C \cup {<<src, dest>>} ELSE C)
<1> DEFINE known == GetOrCreateBlank(ports, n)
<1>1. Restored(known, T, D, C) /\ n \in DOMAIN known
  BY BlankMade
<1>2. Named(ports, n, src, dest) = IF known[n].label THEN Reconnect(known, src, dest) ELSE known
  BY DEF Named
<1> HIDE DEF known
<1>3. known[n].label <=> n \in D
  BY <1>1 DEF Restored
<1>4. CASE n \in D
  <2>1. src \in D /\ dest \in D
    BY <1>4
  <2>2. Restored(Reconnect(known, src, dest), T, D, C \cup {<<src, dest>>})
    BY <1>1, <2>1, Reconnected
  <2> QED
    BY <1>2, <1>3, <1>4, <2>2
<1>5. CASE n \notin D
  BY <1>1, <1>2, <1>3, <1>5
<1> QED
  BY <1>4, <1>5

\* The connections that the first names of an element give, when D are the ports with a label.
Pairs(named, last, D) ==
  {<<named[n][2], named[n][3]>> : n \in {m \in 1..last : named[m][1] \in D}}

\* Every name is a connection of port me with the port that is named.
WellNamed(named, T, me) ==
  \A n \in 1..Len(named) :
    /\ named[n][1] \in Nat
    /\ {named[n][2], named[n][3]} \subseteq {named[n][1], me}
    /\ T[named[n][2]] = T[named[n][3]]

\* One more name is one more pair, or none.
LEMMA PairsNext ==
  ASSUME NEW named, NEW n \in Nat, n # 0, NEW D, NEW C
  PROVE  C \cup Pairs(named, n, D) =
           IF named[n][1] \in D
           THEN (C \cup Pairs(named, n - 1, D)) \cup {<<named[n][2], named[n][3]>>}
           ELSE C \cup Pairs(named, n - 1, D)
<1>1. 1..n = (1..(n - 1)) \cup {n}
  OBVIOUS
<1>2. {m \in 1..n : named[m][1] \in D} =
        {m \in 1..(n - 1) : named[m][1] \in D} \cup (IF named[n][1] \in D THEN {n} ELSE {})
  BY <1>1
<1> DEFINE before == {m \in 1..(n - 1) : named[m][1] \in D}
           upto == {m \in 1..n : named[m][1] \in D}
<1>3. Pairs(named, n, D) = {<<named[m][2], named[m][3]>> : m \in upto}
      /\ Pairs(named, n - 1, D) = {<<named[m][2], named[m][3]>> : m \in before}
  BY DEF Pairs
<1>4. upto = before \cup (IF named[n][1] \in D THEN {n} ELSE {})
  BY <1>2
<1> HIDE DEF before, upto
<1>5. Pairs(named, n, D) = Pairs(named, n - 1, D) \cup
        (IF named[n][1] \in D THEN {<<named[n][2], named[n][3]>>} ELSE {})
  BY <1>3, <1>4
<1> QED
  BY <1>5

\* All names of an element are read; those of ports with a label connect.
LEMMA NamesLoaded ==
  ASSUME NEW ports, NEW T, NEW D, NEW C, Restored(ports, T, D, C), NEW me \in D,
         NEW named, Len(named) \in Nat, WellNamed(named, T, me)
  PROVE  LET Loaded[n \in 0..Len(named)] ==
               IF n = 0 THEN ports ELSE Named(Loaded[n - 1], named[n][1], named[n][2], named[n][3])
         IN  Restored(Loaded[Len(named)], T, D, C \cup Pairs(named, Len(named), D))
<1> DEFINE N == Len(named)
           Good(known, n) == Restored(known, T, D, C \cup Pairs(named, n, D))
           S == UNION {{known \in [E -> LoadedPort] : \E c : Restored(known, T, D, c)} :
                        E \in SUBSET Nat}
           Next1(known, n) == Named(known, named[n][1], named[n][2], named[n][3])
           G == [p \in (1..N) \X S |-> Next1(p[2], p[1])]
           Rec(f) == f = [n \in 0..N |-> IF n = 0 THEN ports ELSE Next1(f[n - 1], n)]
           all == CHOOSE f : Rec(f)
<1>1. \A known : known \in S <=> \E c : Restored(known, T, D, c)
  <2>1. ASSUME NEW known, NEW c, Restored(known, T, D, c) PROVE known \in S
    <3>1. DOMAIN known \in SUBSET Nat /\ known \in [DOMAIN known -> LoadedPort]
      BY <2>1 DEF Restored, IsLoaded
    <3> QED
      BY <2>1, <3>1
  <2> QED
    BY <2>1
<1>2. N \in Nat
  OBVIOUS
<1>3. \A n \in 1..N : /\ named[n][1] \in Nat /\ n \in Nat /\ n # 0
                      /\ {named[n][2], named[n][3]} \subseteq D \cup {named[n][1]}
                      /\ T[named[n][2]] = T[named[n][3]]
  BY DEF WellNamed
<1> HIDE DEF S
<1>4. ASSUME NEW n \in 1..N, NEW known, NEW c, Restored(known, T, D, c)
      PROVE  Restored(Next1(known, n), T, D,
                      IF named[n][1] \in D THEN c \cup {<<named[n][2], named[n][3]>>} ELSE c)
  BY <1>3, <1>4, NamedRestores
<1>5. ports \in S
  BY <1>1
<1>6. \A n \in 1..N, known \in S : Next1(known, n) \in S
  BY <1>1, <1>4
<1> HIDE DEF N, Next1, Rec
<1>7. G \in [(1..N) \X S -> S] /\ \A n \in 1..N, known \in S : G[<<n, known>>] = Next1(known, n)
  BY <1>6
<1> HIDE DEF G
<1>8. PICK f \in [0..N -> S] : GoesOn(f, N, ports, G)
  BY <1>2, <1>5, <1>7, RecursionExists
<1>9. ASSUME NEW n \in 0..N
      PROVE  f[n] = IF n = 0 THEN ports ELSE Next1(f[n - 1], n)
  <2>1. CASE n = 0
    BY <1>8, <2>1 DEF GoesOn
  <2>2. CASE n # 0
    <3>1. n \in 1..N /\ n - 1 \in 0..N
      BY <1>2, <2>2
    <3> QED
      BY <1>7, <1>8, <2>2, <3>1 DEF GoesOn
  <2> QED
    BY <2>1, <2>2
<1>10. Rec(f)
  <2>1. f = [n \in 0..N |-> f[n]]
    OBVIOUS
  <2> QED
    BY <1>9, <2>1, Zenon DEF Rec
<1>11. Rec(all)
  BY <1>10
<1>12. all = CHOOSE g : Rec(g)
  OBVIOUS
<1> HIDE DEF all
<1>13. all[0] = ports /\ \A n \in 1..N : all[n] = Next1(all[n - 1], n)
  <2>1. \A n \in 0..N : all[n] = IF n = 0 THEN ports ELSE Next1(all[n - 1], n)
    BY <1>11, Zenon DEF Rec
  <2>2. \A n \in 1..N : n \in 0..N /\ n # 0
    BY <1>2
  <2>3. 0 \in 0..N
    BY <1>2
  <2> QED
    BY <2>1, <2>2, <2>3
<1>14. Good(all[0], 0)
  <2>1. Pairs(named, 0, D) = {}
    BY DEF Pairs
  <2> QED
    BY <1>13, <2>1
<1>15. ASSUME NEW n \in 1..N, Good(all[n - 1], n - 1) PROVE Good(all[n], n)
  <2> DEFINE c == C \cup Pairs(named, n - 1, D)
  <2>1. Restored(all[n - 1], T, D, c)
    BY <1>15
  <2>2. C \cup Pairs(named, n, D) = IF named[n][1] \in D THEN c \cup {<<named[n][2], named[n][3]>>} ELSE c
    BY <1>3, PairsNext
  <2> HIDE DEF c
  <2>3. Restored(Next1(all[n - 1], n), T, D,
                 IF named[n][1] \in D THEN c \cup {<<named[n][2], named[n][3]>>} ELSE c)
    BY <1>4, <2>1
  <2> QED
    BY <1>13, <2>2, <2>3
<1> DEFINE Bad == {n \in 0..N : ~Good(all[n], n)}
<1> HIDE DEF Good
<1>16. Bad \subseteq 0..N /\ 0 \notin Bad
  BY <1>14
<1>17. ASSUME NEW n \in 1..N, n \in Bad PROVE n - 1 \in Bad
  <2>1. n - 1 \in 0..N
    BY <1>2
  <2> QED
    BY <1>15, <1>17, <2>1
<1> HIDE DEF Bad
<1>18. \A n \in 0..N : n \notin Bad
  BY <1>2, <1>16, <1>17, NeverFails
<1>19. Good(all[N], N)
  BY <1>2, <1>18 DEF Bad
<1> QED
  BY <1>12, <1>19 DEF N, Good, Rec, Next1

\* A port that is reached gets its label, and its connections with those that have one.
LEMMA PortLoaded ==
  ASSUME NEW ports, NEW T, NEW D, NEW C, Restored(ports, T, D, C),
         NEW port, port.id \in Nat, ~(port.id <= LastStandard),
         port.type \in {"audio", "event"}, T[port.id] = port.type,
         Len(Connections(port)) \in Nat, WellNamed(Connections(port), T, port.id)
  PROVE  Restored(LoadPort(ports, port), T, D \cup {port.id},
                  C \cup Pairs(Connections(port), Len(Connections(port)), D \cup {port.id}))
<1> DEFINE me == port.id
           known == GetOrCreateBlank(ports, me)
           itself == [known EXCEPT ![me].label = TRUE, ![me].type = port.type]
           E == D \cup {me}
           named == Connections(port)
<1>1. Restored(known, T, D, C) /\ me \in DOMAIN known
  BY BlankMade
<1>2. Restored(itself, T, E, C)
  <2> HIDE DEF known
  <2>1. /\ DOMAIN known \subseteq Nat /\ \A n \in DOMAIN known : known[n] \in LoadedPort
        /\ me \in Nat
    BY <1>1 DEF Restored, IsLoaded
  <2>2. DOMAIN itself = DOMAIN known /\ itself = [n \in DOMAIN known |-> itself[n]]
    <3> DEFINE labelled == [known EXCEPT ![me].label = TRUE]
    <3>1. DOMAIN labelled = DOMAIN known
      OBVIOUS
    <3>2. itself = [labelled EXCEPT ![me].type = port.type]
      OBVIOUS
    <3> HIDE DEF labelled
    <3>3. DOMAIN itself = DOMAIN labelled
      BY <3>2
    <3>4. itself = [n \in DOMAIN labelled |-> itself[n]]
      BY <3>2
    <3> QED
      BY <3>1, <3>3, <3>4
  <2>3. ASSUME NEW n \in DOMAIN known
        PROVE  itself[n] = [label |-> IF n = me THEN TRUE ELSE known[n].label,
                            type |-> IF n = me THEN port.type ELSE known[n].type,
                            srcs |-> known[n].srcs, dests |-> known[n].dests]
    <3>1. known[n] = [label |-> known[n].label, type |-> known[n].type,
                      srcs |-> known[n].srcs, dests |-> known[n].dests]
      BY <2>1 DEF LoadedPort
    <3>2. CASE n # me
      <4>1. itself[n] = known[n]
        BY <3>2
      <4> HIDE DEF itself
      <4> QED
        BY <3>1, <3>2, <4>1
    <3>3. CASE n = me
      <4>1. itself[n] = [known[n] EXCEPT !.label = TRUE, !.type = port.type]
        BY <3>3
      <4> HIDE DEF itself
      <4> QED
        BY <3>1, <3>3, <4>1
    <3> QED
      BY <3>2, <3>3
  <2> HIDE DEF itself
  <2>9. ASSUME NEW n \in DOMAIN known
        PROVE  /\ itself[n].label = (IF n = me THEN TRUE ELSE known[n].label)
               /\ itself[n].type = (IF n = me THEN port.type ELSE known[n].type)
               /\ itself[n].srcs = known[n].srcs /\ itself[n].dests = known[n].dests
    <3> DEFINE label == IF n = me THEN TRUE ELSE known[n].label
               type == IF n = me THEN port.type ELSE known[n].type
    <3>1. itself[n] = [label |-> label, type |-> type,
                       srcs |-> known[n].srcs, dests |-> known[n].dests]
      BY <2>3
    <3> HIDE DEF label, type
    <3>2. /\ itself[n].label = label /\ itself[n].type = type
          /\ itself[n].srcs = known[n].srcs /\ itself[n].dests = known[n].dests
      BY <3>1
    <3> QED
      BY <3>2 DEF label, type
  <2>4. ASSUME NEW n \in DOMAIN known
        PROVE  /\ itself[n] \in LoadedPort
               /\ itself[n].label <=> n \in E
               /\ itself[n].srcs = known[n].srcs /\ itself[n].dests = known[n].dests
    <3>1. known[n].label \in BOOLEAN /\ known[n].srcs \in Seq(Nat) /\ known[n].dests \in Seq(Nat)
          /\ known[n].type \in {"audio", "event", "unknown"}
      BY <2>1 DEF LoadedPort
    <3>2. known[n].label <=> n \in D
      BY <1>1 DEF Restored
    <3>3. itself[n].label = (IF n = me THEN TRUE ELSE known[n].label)
          /\ itself[n].srcs = known[n].srcs /\ itself[n].dests = known[n].dests
      BY <2>9
    <3>4. itself[n].label <=> n \in E
      BY <3>2, <3>3
    <3>5. itself[n] \in LoadedPort
      <4> DEFINE label == IF n = me THEN TRUE ELSE known[n].label
                 type == IF n = me THEN port.type ELSE known[n].type
      <4>1. label \in BOOLEAN /\ type \in {"audio", "event", "unknown"}
        BY <3>1
      <4>2. itself[n] = [label |-> label, type |-> type,
                         srcs |-> known[n].srcs, dests |-> known[n].dests]
        BY <2>3
      <4> HIDE DEF label, type
      <4> QED
        BY <3>1, <4>1, <4>2 DEF LoadedPort
    <3> QED
      BY <3>3, <3>4, <3>5
  <2>5. IsLoaded(itself)
    <3>1. itself \in [DOMAIN known -> LoadedPort]
      BY <2>2, <2>4
    <3> QED
      BY <2>1, <2>2, <3>1 DEF IsLoaded
  <2>6. E \subseteq DOMAIN itself /\ C \subseteq E \X E
    BY <1>1, <2>2 DEF Restored
  <2>7. ASSUME NEW n \in E PROVE itself[n].type = T[n]
    <3>1. n \in DOMAIN known
      BY <1>1 DEF Restored
    <3>2. itself[n].type = (IF n = me THEN port.type ELSE known[n].type)
      BY <2>9, <3>1
    <3> QED
      BY <1>1, <3>2 DEF Restored
  <2>8. ASSUME NEW n \in DOMAIN itself
        PROVE  /\ itself[n].label <=> n \in E
               /\ Distinct(itself[n].srcs) /\ Distinct(itself[n].dests)
               /\ \A m : m \in Elements(itself[n].dests) <=> <<n, m>> \in C
               /\ \A m : m \in Elements(itself[n].srcs) <=> <<m, n>> \in C
    BY <1>1, <2>2, <2>4 DEF Restored
  <2> QED
    BY <2>5, <2>6, <2>7, <2>8 DEF Restored
<1> DEFINE after == LET Loaded[n \in 0..Len(named)] ==
                          IF n = 0 THEN itself
                          ELSE Named(Loaded[n - 1], named[n][1], named[n][2], named[n][3])
                    IN  Loaded[Len(named)]
<1>3. LoadPort(ports, port) = after
  BY DEF LoadPort
<1>4. me \in E /\ Len(named) \in Nat /\ WellNamed(named, T, me)
  OBVIOUS
<1> HIDE DEF itself, named, me, E
<1>5. Restored(after, T, E, C \cup Pairs(named, Len(named), E))
  BY <1>2, <1>4, NamesLoaded
<1> HIDE DEF after
<1> QED
  BY <1>3, <1>5 DEF E, named, me
-----------------------------------------------------------------------------
\* The registry holds each live port once.
RegistryInv == Elements(registry) = Live /\ Distinct(registry)

\* Freeing a port takes it from the registry.
LEMMA RegistryFree ==
  ASSUME IInv, RegistryInv, NEW p \in Live, NEW g, Free(p, g)
  PROVE  RegistryInv'
<1>1. /\ status \in [Ports -> {"new", "live", "freed"}] /\ registry \in Seq(Ports)
      /\ status' = [status EXCEPT ![p] = "freed"] /\ registry' = ArrayDelete(registry, p)
      /\ p \in Ports
  BY DEF IInv, TypeOK, Free, Live
<1>2. Live' = Live \ {p}
  BY <1>1 DEF Live
<1>3. Distinct(registry') /\ Elements(registry') = Elements(registry) \ {p}
  BY <1>1, DeleteRemoves DEF RegistryInv
<1> QED
  BY <1>2, <1>3 DEF RegistryInv

\* Every operation keeps the registry in step with the live ports.
LEMMA RegistryStep == IInv /\ RegistryInv /\ [Next]_vars => RegistryInv'
<1> SUFFICES ASSUME IInv, RegistryInv, [Next]_vars PROVE RegistryInv'
  OBVIOUS
<1>1. ASSUME NEW p \in Ports, PortNew(p) PROVE RegistryInv'
  <2>1. /\ status \in [Ports -> {"new", "live", "freed"}] /\ registry \in Seq(Ports)
        /\ status[p] = "new" /\ status' = [status EXCEPT ![p] = "live"]
        /\ registry' = ArrayAppend(registry, p)
    BY <1>1 DEF IInv, TypeOK, PortNew
  <2>2. Live' = Live \cup {p} /\ p \notin Live
    BY <2>1 DEF Live
  <2>3. Distinct(registry') /\ Elements(registry') = Elements(registry) \cup {p}
    BY <2>1, <2>2, AppendAdds, AppendDistinct DEF RegistryInv
  <2> QED
    BY <2>2, <2>3 DEF RegistryInv
<1>2. ASSUME UNCHANGED <<status, registry>> PROVE RegistryInv'
  <2>1. Live' = Live /\ registry' = registry
    BY <1>2 DEF Live
  <2> QED
    BY <2>1 DEF RegistryInv, Distinct, Elements
<1>3. ASSUME NEW p \in Ports, PortDisconnectAll(p) PROVE RegistryInv'
  BY <1>2, <1>3 DEF PortDisconnectAll
<1>4. ASSUME NEW p \in Ports, PortFree(p) PROVE RegistryInv'
  BY <1>4, RegistryFree DEF PortFree
<1>5. ASSUME NEW p \in Ports, CleanPort(p) PROVE RegistryInv'
  BY <1>5, RegistryFree DEF CleanPort
<1>6. ASSUME NEW src \in Ports, NEW dest \in Ports, PortConnect(src, dest) PROVE RegistryInv'
  BY <1>2, <1>6 DEF PortConnect
<1>7. ASSUME NEW src \in Ports, NEW dest \in Ports, PortDisconnect(src, dest) PROVE RegistryInv'
  BY <1>2, <1>7 DEF PortDisconnect
<1>8. ASSUME UNCHANGED vars PROVE RegistryInv'
  BY <1>2, <1>8 DEF vars
<1> QED
  BY <1>1, <1>3, <1>4, <1>5, <1>6, <1>7, <1>8 DEF Next

\* In every reachable state the registry holds each live port once.
LEMMA RegistryInvariance == Spec => []RegistryInv
<1>1. Init => RegistryInv
  BY DEF Init, RegistryInv, Live, Elements, Distinct
<1> QED
  BY <1>1, Invariance, RegistryStep, PTL DEF Spec
-----------------------------------------------------------------------------
\* One sequence after another.
LEMMA Concatenated ==
  ASSUME NEW S, NEW s \in Seq(S), NEW t \in Seq(S)
  PROVE  /\ Len(s \o t) = Len(s) + Len(t)
         /\ \A n \in 1..Len(s) : (s \o t)[n] = s[n]
         /\ \A n \in 1..Len(t) : (s \o t)[Len(s) + n] = t[n]
<1>1. Len(s \o t) = Len(s) + Len(t)
  OBVIOUS
<1>2. ASSUME NEW n \in 1..Len(s) PROVE (s \o t)[n] = s[n]
  OBVIOUS
<1>3. ASSUME NEW n \in 1..Len(t) PROVE (s \o t)[Len(s) + n] = t[n]
  OBVIOUS
<1> QED
  BY <1>1, <1>2, <1>3

\* The connections that the element of a port names, of those with the ports in D.
LEMMA ElementPairs ==
  ASSUME TypeOK, NEW p \in Ports, NEW D
  PROVE  LET named == Connections(WritePort(p))
         IN  /\ Len(named) \in Nat
             /\ \A n \in 1..Len(named) :
                  \/ \E q \in Elements(srcs[p]) : named[n] = <<id[q], id[q], id[p]>>
                  \/ \E q \in Elements(dests[p]) : named[n] = <<id[q], id[p], id[q]>>
             /\ \A c : c \in Pairs(named, Len(named), D) <=>
                  \/ \E q \in Elements(srcs[p]) : id[q] \in D /\ c = <<id[q], id[p]>>
                  \/ \E q \in Elements(dests[p]) : id[q] \in D /\ c = <<id[p], id[q]>>
<1> DEFINE port == WritePort(p)
           A == NamedSrcs(port)
           B == NamedDests(port)
           named == Connections(port)
           S == srcs[p]
           E == dests[p]
<1>1. S \in Seq(Ports) /\ E \in Seq(Ports) /\ \A q \in Ports : id[q] \in Nat
  BY DEF TypeOK
<1>2. A = [n \in 1..Len(S) |-> <<id[S[n]], id[S[n]], id[p]>>]
      /\ B = [n \in 1..Len(E) |-> <<id[E[n]], id[p], id[E[n]]>>]
  <2>1. port.srcs = Ids(S) /\ port.dests = Ids(E) /\ port.id = id[p]
    BY DEF WritePort
  <2>2. DOMAIN S = 1..Len(S) /\ DOMAIN E = 1..Len(E)
    BY <1>1
  <2> HIDE DEF port, S, E
  <2> QED
    BY <2>1, <2>2 DEF NamedSrcs, NamedDests, Ids
<1>3. named = A \o B
  BY DEF Connections
<1> HIDE DEF A, B, named, port
<1>4. /\ \A n \in DOMAIN S : S[n] \in Ports
      /\ \A n \in DOMAIN E : E[n] \in Ports
      /\ DOMAIN S = 1..Len(S) /\ DOMAIN E = 1..Len(E)
      /\ Len(S) \in Nat /\ Len(E) \in Nat
  BY <1>1
<1> HIDE DEF S, E
<1>5. /\ A \in Seq(Nat \X Nat \X Nat) /\ Len(A) = Len(S)
      /\ B \in Seq(Nat \X Nat \X Nat) /\ Len(B) = Len(E)
  BY <1>1, <1>2, <1>4
<1>6. /\ Len(named) = Len(S) + Len(E)
      /\ \A n \in 1..Len(S) : named[n] = A[n]
      /\ \A n \in 1..Len(E) : named[Len(S) + n] = B[n]
  <2>1. /\ Len(A \o B) = Len(A) + Len(B)
        /\ \A n \in 1..Len(A) : (A \o B)[n] = A[n]
        /\ \A n \in 1..Len(B) : (A \o B)[Len(A) + n] = B[n]
    <3>1. PICK T : A \in Seq(T) /\ B \in Seq(T)
      BY <1>5
    <3> QED
      BY <3>1, Concatenated
  <2> QED
    BY <1>3, <1>5, <2>1
<1>7. /\ \A n \in 1..Len(S) : named[n] = <<id[S[n]], id[S[n]], id[p]>>
      /\ \A n \in 1..Len(E) : named[Len(S) + n] = <<id[E[n]], id[p], id[E[n]]>>
  BY <1>2, <1>6
<1>8. \A n \in 1..Len(named) : n \in 1..Len(S) \/ \E m \in 1..Len(E) : n = Len(S) + m
  <2>1. \A n \in 1..Len(named) : n \in 1..Len(S) \/ (n - Len(S) \in 1..Len(E) /\ n = Len(S) + (n - Len(S)))
    BY <1>4, <1>6
  <2> QED
    BY <2>1
<1>9. \A q : /\ q \in Elements(S) <=> \E n \in 1..Len(S) : S[n] = q
             /\ q \in Elements(E) <=> \E n \in 1..Len(E) : E[n] = q
  BY <1>4 DEF Elements
<1>10. ASSUME NEW n \in 1..Len(named)
       PROVE  \/ \E q \in Elements(S) : named[n] = <<id[q], id[q], id[p]>>
              \/ \E q \in Elements(E) : named[n] = <<id[q], id[p], id[q]>>
  <2>1. CASE n \in 1..Len(S)
    BY <1>7, <1>9, <2>1
  <2>2. CASE \E m \in 1..Len(E) : n = Len(S) + m
    BY <1>7, <1>9, <2>2
  <2> QED
    BY <1>8, <2>1, <2>2
<1>11. ASSUME NEW c
       PROVE  c \in Pairs(named, Len(named), D) <=>
                \/ \E q \in Elements(S) : id[q] \in D /\ c = <<id[q], id[p]>>
                \/ \E q \in Elements(E) : id[q] \in D /\ c = <<id[p], id[q]>>
  <2>1. c \in Pairs(named, Len(named), D) <=>
          \E n \in 1..Len(named) : named[n][1] \in D /\ c = <<named[n][2], named[n][3]>>
    BY DEF Pairs
  <2>2. ASSUME NEW n \in 1..Len(named), named[n][1] \in D, c = <<named[n][2], named[n][3]>>
        PROVE  \/ \E q \in Elements(S) : id[q] \in D /\ c = <<id[q], id[p]>>
               \/ \E q \in Elements(E) : id[q] \in D /\ c = <<id[p], id[q]>>
    BY <1>10, <2>2
  <2>3. ASSUME NEW q \in Elements(S), id[q] \in D, c = <<id[q], id[p]>>
        PROVE  \E n \in 1..Len(named) : named[n][1] \in D /\ c = <<named[n][2], named[n][3]>>
    <3>1. PICK n \in 1..Len(S) : S[n] = q
      BY <1>9
    <3>2. n \in 1..Len(named)
      BY <1>4, <1>6
    <3>3. named[n] = <<id[q], id[q], id[p]>>
      BY <1>7, <3>1
    <3> QED
      BY <2>3, <3>2, <3>3
  <2>4. ASSUME NEW q \in Elements(E), id[q] \in D, c = <<id[p], id[q]>>
        PROVE  \E n \in 1..Len(named) : named[n][1] \in D /\ c = <<named[n][2], named[n][3]>>
    <3>1. PICK m \in 1..Len(E) : E[m] = q
      BY <1>9
    <3> DEFINE n == Len(S) + m
    <3>2. n \in 1..Len(named)
      BY <1>4, <1>6
    <3>3. named[n] = <<id[q], id[p], id[q]>>
      BY <1>7, <3>1
    <3> HIDE DEF n
    <3> QED
      BY <2>4, <3>2, <3>3
  <2> QED
    BY <2>1, <2>2, <2>3, <2>4
<1>12. Len(named) \in Nat
  BY <1>4, <1>6
<1> QED
  BY <1>10, <1>11, <1>12 DEF named, port, S, E

LiveIds == {id[p] : p \in Live}
TypeOfId == [n \in LiveIds |-> PortType[CHOOSE p \in Live : id[p] = n]]

\* The connections that the file restores, of those between the ports in D.
IsSaved(m, n) ==
  /\ m > LastStandard \/ n > LastStandard
  /\ \E p, q \in Live : id[p] = m /\ id[q] = n /\ q \in Elements(dests[p])
Back(D) == {c \in D \X D : IsSaved(c[1], c[2])}

\* The ports that have a label when last elements of the file have been read.
Reached(last) ==
  {id[p] : p \in {q \in Live : id[q] <= LastStandard \/ \E n \in 1..last : registry[n] = q}}

\* A live port is found by its id.
LEMMA IdTells ==
  ASSUME IInv, Writable, NEW p \in Live
  PROVE  /\ TypeOfId[id[p]] = PortType[p] /\ PortType[p] \in {"audio", "event"}
         /\ id[p] \in LiveIds /\ id[p] \in Nat /\ p \in Ports
<1>1. p \in Ports /\ id[p] \in Nat /\ PortType[p] \in {"audio", "event"}
  BY PortAssumption DEF Live, IInv, TypeOK
<1>2. id[p] \in LiveIds
  BY DEF LiveIds
<1>3. \A q \in Live : id[q] = id[p] => q = p
  BY DEF Writable
<1>4. (CHOOSE q \in Live : id[q] = id[p]) = p
  BY <1>3
<1>5. TypeOfId[id[p]] = PortType[CHOOSE q \in Live : id[q] = id[p]]
  BY <1>2 DEF TypeOfId
<1> QED
  BY <1>1, <1>2, <1>4, <1>5

\* The element of a port names its connections with the ports before it, and those connect.
LEMMA ElementConnects ==
  ASSUME IInv, Writable, NEW p \in Live, id[p] > LastStandard, NEW D \in SUBSET LiveIds
  PROVE  LET named == Connections(WritePort(p))
             E == D \cup {id[p]}
         IN  /\ Len(named) \in Nat /\ WellNamed(named, TypeOfId, id[p])
             /\ Back(D) \cup Pairs(named, Len(named), E) = Back(E)
<1> DEFINE named == Connections(WritePort(p))
           E == D \cup {id[p]}
<1>1. p \in Ports /\ TypeOK
  BY DEF Live, IInv
<1>2. /\ Len(named) \in Nat
      /\ \A n \in 1..Len(named) :
           \/ \E q \in Elements(srcs[p]) : named[n] = <<id[q], id[q], id[p]>>
           \/ \E q \in Elements(dests[p]) : named[n] = <<id[q], id[p], id[q]>>
      /\ \A c : c \in Pairs(named, Len(named), E) <=>
           \/ \E q \in Elements(srcs[p]) : id[q] \in E /\ c = <<id[q], id[p]>>
           \/ \E q \in Elements(dests[p]) : id[q] \in E /\ c = <<id[p], id[q]>>
  BY <1>1, ElementPairs
<1> HIDE DEF named
<1>3. ASSUME NEW q \in Elements(srcs[p]) \cup Elements(dests[p])
      PROVE  q \in Live /\ PortType[q] = PortType[p]
  BY DEF Writable, FreedIsUnreferenced, IInv, TypesMatch
<1>4. WellNamed(named, TypeOfId, id[p])
  <2>1. ASSUME NEW n \in 1..Len(named)
        PROVE  /\ named[n][1] \in Nat
               /\ {named[n][2], named[n][3]} \subseteq {named[n][1], id[p]}
               /\ TypeOfId[named[n][2]] = TypeOfId[named[n][3]]
    <3>1. PICK q \in Live : /\ PortType[q] = PortType[p]
                            /\ \/ named[n] = <<id[q], id[q], id[p]>>
                               \/ named[n] = <<id[q], id[p], id[q]>>
      BY <1>2, <1>3
    <3>2. id[q] \in Nat /\ TypeOfId[id[q]] = TypeOfId[id[p]]
      BY <3>1, IdTells
    <3> QED
      BY <3>1, <3>2
  <2> QED
    BY <2>1 DEF WellNamed
<1>5. \A q \in Live : q \in Elements(dests[p]) <=> p \in Elements(srcs[q])
  BY DEF IInv, Symmetric
<1>6. \A q \in Live : p \in Elements(dests[q]) <=> q \in Elements(srcs[p])
  BY DEF IInv, Symmetric
<1>7. \A q \in Live : id[q] = id[p] => q = p
  BY DEF Writable
<1>8. E \subseteq LiveIds
  BY DEF LiveIds
<1>9. ASSUME NEW c \in Pairs(named, Len(named), E) PROVE c \in Back(E)
  <2>1. CASE \E q \in Elements(srcs[p]) : id[q] \in E /\ c = <<id[q], id[p]>>
    <3>1. PICK q \in Elements(srcs[p]) : id[q] \in E /\ c = <<id[q], id[p]>>
      BY <2>1
    <3>2. q \in Live /\ p \in Elements(dests[q])
      BY <1>3, <1>6
    <3>3. IsSaved(id[q], id[p])
      BY <3>2 DEF IsSaved
    <3> QED
      BY <3>1, <3>3 DEF Back
  <2>2. CASE \E q \in Elements(dests[p]) : id[q] \in E /\ c = <<id[p], id[q]>>
    <3>1. PICK q \in Elements(dests[p]) : id[q] \in E /\ c = <<id[p], id[q]>>
      BY <2>2
    <3>2. q \in Live
      BY <1>3
    <3>3. IsSaved(id[p], id[q])
      BY <3>2 DEF IsSaved
    <3> QED
      BY <3>1, <3>3 DEF Back
  <2> QED
    BY <1>2, <1>9, <2>1, <2>2
<1>10. Back(D) \subseteq Back(E)
  BY DEF Back
<1>11. ASSUME NEW m \in E, NEW n \in E, IsSaved(m, n), <<m, n>> \notin Back(D)
       PROVE  <<m, n>> \in Pairs(named, Len(named), E)
  <2>1. m = id[p] \/ n = id[p]
    BY <1>11 DEF Back
  <2>2. PICK s, t \in Live : id[s] = m /\ id[t] = n /\ t \in Elements(dests[s])
    BY <1>11 DEF IsSaved
  <2>3. CASE m = id[p]
    <3>1. s = p
      BY <1>7, <2>2, <2>3
    <3> QED
      BY <1>2, <2>2, <2>3, <3>1
  <2>4. CASE n = id[p]
    <3>1. t = p /\ s \in Elements(srcs[p])
      BY <1>6, <1>7, <2>2, <2>4
    <3> QED
      BY <1>2, <2>2, <2>4, <3>1
  <2> QED
    BY <2>1, <2>3, <2>4
<1>12. \A c \in Back(E) : \E m, n \in E : c = <<m, n>> /\ IsSaved(m, n)
  BY DEF Back
<1>13. Back(E) \subseteq Back(D) \cup Pairs(named, Len(named), E)
  <2>1. ASSUME NEW c \in Back(E), c \notin Back(D) PROVE c \in Pairs(named, Len(named), E)
    <3>1. PICK m, n \in E : c = <<m, n>> /\ IsSaved(m, n)
      BY <1>12
    <3> HIDE DEF E
    <3> QED
      BY <1>11, <2>1, <3>1
  <2> HIDE DEF E
  <2> QED
    BY <2>1
<1>14. Back(D) \cup Pairs(named, Len(named), E) = Back(E)
  BY <1>9, <1>10, <1>13
<1> QED
  BY <1>2, <1>4, <1>14 DEF named

\* At first the standard ports have a label and no connection is back.
LEMMA StandardLoaded ==
  ASSUME IInv, Writable
  PROVE  Restored(Standard, TypeOfId, Reached(0), Back(Reached(0)))
<1> DEFINE standard == {p \in Live : id[p] <= LastStandard}
           S == {id[p] : p \in standard}
<1>1. Reached(0) = S
  BY DEF Reached
<1>2. ASSUME NEW n \in S
      PROVE  /\ Standard[n] = [label |-> TRUE, type |-> TypeOfId[n], srcs |-> <<>>, dests |-> <<>>]
             /\ n \in Nat /\ TypeOfId[n] \in {"audio", "event"} /\ n <= LastStandard
  <2>1. PICK p \in standard : n = id[p]
    OBVIOUS
  <2>2. p \in Live /\ id[p] <= LastStandard
    BY <2>1
  <2>3. TypeOfId[n] = PortType[p] /\ PortType[p] \in {"audio", "event"} /\ n \in Nat
    BY <2>1, <2>2, IdTells
  <2>4. (CHOOSE q \in standard : id[q] = n) = p
    <3>1. \A q \in standard : id[q] = n => q = p
      BY <2>1, <2>2 DEF Writable
    <3> QED
      BY <2>1, <3>1
  <2>5. Standard[n] = [Blank EXCEPT !.label = TRUE, !.type = PortType[CHOOSE q \in standard : id[q] = n]]
    BY DEF Standard
  <2> HIDE DEF standard
  <2>6. Standard[n] = [Blank EXCEPT !.label = TRUE, !.type = PortType[p]]
    BY <2>4, <2>5
  <2> QED
    BY <2>1, <2>2, <2>3, <2>6 DEF Blank
<1>3. DOMAIN Standard = S /\ Standard = [n \in S |-> Standard[n]]
  BY DEF Standard
<1>4. \A m, n \in S : ~IsSaved(m, n)
  <2>1. \A n \in S : n \in Nat /\ n <= LastStandard
    BY <1>2
  <2> HIDE DEF S
  <2> QED
    BY <2>1, LastStandardAssumption DEF IsSaved
<1> HIDE DEF S
<1>5. Back(S) = {}
  BY <1>4 DEF Back
<1>6. Elements(<<>>) = {} /\ Distinct(<<>>) /\ <<>> \in Seq(Nat)
  BY DEF Elements, Distinct
<1>7. ASSUME NEW n \in S
      PROVE  /\ Standard[n] \in LoadedPort /\ Standard[n].label = TRUE
             /\ Standard[n].type = TypeOfId[n]
             /\ Standard[n].srcs = <<>> /\ Standard[n].dests = <<>>
  <2>1. TypeOfId[n] \in {"audio", "event", "unknown"}
    BY <1>2
  <2> DEFINE type == TypeOfId[n]
  <2>2. Standard[n] = [label |-> TRUE, type |-> type, srcs |-> <<>>, dests |-> <<>>]
        /\ type \in {"audio", "event", "unknown"}
    BY <1>2, <2>1
  <2> HIDE DEF type
  <2>3. Standard[n] \in LoadedPort
    BY <1>6, <2>2 DEF LoadedPort
  <2>4. Standard[n].label = TRUE /\ Standard[n].type = type
        /\ Standard[n].srcs = <<>> /\ Standard[n].dests = <<>>
    BY <2>2
  <2> QED
    BY <2>3, <2>4 DEF type
<1>8. IsLoaded(Standard)
  <2>1. S \subseteq Nat
    BY <1>2
  <2>2. Standard \in [S -> LoadedPort]
    BY <1>3, <1>7
  <2> QED
    BY <1>3, <2>1, <2>2 DEF IsLoaded
<1>9. \A n, m : <<n, m>> \notin {}
  OBVIOUS
<1>10. Restored(Standard, TypeOfId, S, {})
  <2>1. ASSUME NEW n \in DOMAIN Standard
        PROVE  /\ Standard[n].label <=> n \in S
               /\ Distinct(Standard[n].srcs) /\ Distinct(Standard[n].dests)
               /\ \A m : m \in Elements(Standard[n].dests) <=> <<n, m>> \in {}
               /\ \A m : m \in Elements(Standard[n].srcs) <=> <<m, n>> \in {}
    BY <1>3, <1>6, <1>7
  <2> QED
    BY <1>3, <1>7, <1>8, <2>1 DEF Restored
<1> QED
  BY <1>1, <1>5, <1>10

\* The port that one element of the file is about.
LEMMA ElementPort ==
  ASSUME IInv, RegistryInv, Writable, NEW n \in 1..Len(registry)
  PROVE  LET p == registry[n]
         IN  /\ p \in Live /\ WritePorts[n] = WritePort(p)
             /\ WritePort(p).id = id[p] /\ WritePort(p).type = PortType[p]
             /\ TypeOfId[id[p]] = PortType[p] /\ PortType[p] \in {"audio", "event"}
             /\ id[p] \in Nat /\ (~(id[p] <= LastStandard) => id[p] > LastStandard)
<1>1. registry \in Seq(Ports) /\ registry[n] \in Live /\ DOMAIN registry = 1..Len(registry)
  BY DEF IInv, TypeOK, RegistryInv, Elements
<1>2. TypeOfId[id[registry[n]]] = PortType[registry[n]] /\ PortType[registry[n]] \in {"audio", "event"}
      /\ id[registry[n]] \in Nat
  BY <1>1, IdTells
<1>3. ~(id[registry[n]] <= LastStandard) => id[registry[n]] > LastStandard
  BY <1>2, LastStandardAssumption
<1> QED
  BY <1>1, <1>2, <1>3 DEF WritePorts, WritePort

\* Reading one element gives its port a label and restores its connections with the
\* ports that have one; the element of a standard port is passed over.
LEMMA ElementRead ==
  ASSUME IInv, RegistryInv, Writable, NEW n \in 1..Len(registry),
         NEW ports, NEW D, NEW C, Restored(ports, TypeOfId, D, C)
  PROVE  LET p == registry[n]
             named == Connections(WritePort(p))
             E == D \cup {id[p]}
         IN  IF id[p] <= LastStandard
             THEN Restored(LoadPort(ports, WritePorts[n]), TypeOfId, D, C)
             ELSE Restored(LoadPort(ports, WritePorts[n]), TypeOfId, E,
                           C \cup Pairs(named, Len(named), E))
<1> DEFINE p == registry[n]
           named == Connections(WritePort(p))
           E == D \cup {id[p]}
<1>1. /\ p \in Live /\ WritePorts[n] = WritePort(p)
      /\ WritePort(p).id = id[p] /\ WritePort(p).type = PortType[p]
      /\ TypeOfId[id[p]] = PortType[p] /\ PortType[p] \in {"audio", "event"}
      /\ id[p] \in Nat /\ (~(id[p] <= LastStandard) => id[p] > LastStandard)
  BY ElementPort
<1> HIDE DEF p
<1>2. CASE id[p] <= LastStandard
  <2>1. LoadPort(ports, WritePort(p)) = ports
    BY <1>1, <1>2 DEF LoadPort
  <2> QED
    BY <1>1, <1>2, <2>1 DEF p
<1>3. CASE ~(id[p] <= LastStandard)
  <2>1. Len(named) \in Nat /\ WellNamed(named, TypeOfId, id[p])
    <3>1. {} \in SUBSET LiveIds
      OBVIOUS
    <3> QED
      BY <1>1, <1>3, <3>1, ElementConnects
  <2> DEFINE port == WritePort(p)
             c == Connections(port)
  <2>2. port.id = id[p] /\ port.type = PortType[p] /\ c = named
    BY <1>1
  <2> HIDE DEF port, named, c
  <2>3. /\ port.id \in Nat /\ ~(port.id <= LastStandard)
        /\ port.type \in {"audio", "event"} /\ TypeOfId[port.id] = port.type
        /\ Len(c) \in Nat /\ WellNamed(c, TypeOfId, port.id)
    BY <1>1, <1>3, <2>1, <2>2
  <2>4. Restored(LoadPort(ports, port), TypeOfId, D \cup {port.id},
                 C \cup Pairs(c, Len(c), D \cup {port.id}))
    BY <2>3, PortLoaded DEF c
  <2>5. Restored(LoadPort(ports, port), TypeOfId, E, C \cup Pairs(named, Len(named), E))
    BY <2>2, <2>4
  <2> QED
    BY <1>1, <1>3, <2>5 DEF p, port, named
<1> QED
  BY <1>2, <1>3

\* With it the connections between the ports reached so far are back.
LEMMA ElementLoaded ==
  ASSUME IInv, RegistryInv, Writable, NEW n \in 1..Len(registry),
         NEW ports, Restored(ports, TypeOfId, Reached(n - 1), Back(Reached(n - 1)))
  PROVE  Restored(LoadPort(ports, WritePorts[n]), TypeOfId, Reached(n), Back(Reached(n)))
<1> DEFINE p == registry[n]
           D == Reached(n - 1)
           E == D \cup {id[p]}
           named == Connections(WritePort(p))
           after == LoadPort(ports, WritePorts[n])
<1>1. p \in Live /\ (~(id[p] <= LastStandard) => id[p] > LastStandard)
  BY ElementPort
<1>2. IF id[p] <= LastStandard
      THEN Restored(after, TypeOfId, D, Back(D))
      ELSE Restored(after, TypeOfId, E, Back(D) \cup Pairs(named, Len(named), E))
  <2> HIDE DEF D
  <2>1. Restored(ports, TypeOfId, D, Back(D))
    BY DEF D
  <2> QED
    BY <2>1, ElementRead
<1> HIDE DEF after, named
<1>3. Reached(n) = E /\ (id[p] <= LastStandard => E = D)
  <2>1. \A q : (\E k \in 1..n : registry[k] = q) <=> (\E k \in 1..(n - 1) : registry[k] = q) \/ q = p
    <3>1. Len(registry) \in Nat
      BY DEF IInv, TypeOK
    <3>2. \A k : k \in 1..n <=> k \in 1..(n - 1) \/ k = n
      BY <3>1
    <3> QED
      BY <3>2
  <2> HIDE DEF p
  <2>2. {q \in Live : id[q] <= LastStandard \/ \E k \in 1..n : registry[k] = q} =
          {q \in Live : id[q] <= LastStandard \/ \E k \in 1..(n - 1) : registry[k] = q} \cup {p}
    BY <1>1, <2>1
  <2>3. Reached(n) = Reached(n - 1) \cup {id[p]}
    BY <2>2 DEF Reached
  <2>4. id[p] <= LastStandard => id[p] \in Reached(n - 1)
    BY <1>1 DEF Reached
  <2> QED
    BY <2>3, <2>4
<1>4. id[p] > LastStandard => Back(D) \cup Pairs(named, Len(named), E) = Back(E)
  <2>1. D \in SUBSET LiveIds
    BY DEF Reached, LiveIds
  <2> HIDE DEF p, D
  <2> QED
    BY <1>1, <2>1, ElementConnects DEF named
<1> HIDE DEF p, D, E
<1>5. Restored(after, TypeOfId, E, Back(E))
  BY <1>1, <1>2, <1>3, <1>4
<1> QED
  BY <1>3, <1>5 DEF after

\* The whole file restores every connection of the ports that are not standard.
LEMMA FileLoaded ==
  ASSUME IInv, RegistryInv, Writable
  PROVE  Restored(LoadPorts, TypeOfId, LiveIds, Back(LiveIds))
<1> DEFINE N == Len(registry)
           Good(ports, n) == Restored(ports, TypeOfId, Reached(n), Back(Reached(n)))
           S == UNION {{ports \in [F -> LoadedPort] :
                          \E D \in SUBSET Nat : \E C : Restored(ports, TypeOfId, D, C)} :
                        F \in SUBSET Nat}
           Next1(ports, n) == LoadPort(ports, WritePorts[n])
           G == [p \in (1..N) \X S |-> Next1(p[2], p[1])]
           Rec(f) == f = [n \in 0..N |-> IF n = 0 THEN Standard ELSE Next1(f[n - 1], n)]
           all == CHOOSE f : Rec(f)
<1>1. \A ports : ports \in S <=> \E D \in SUBSET Nat : \E C : Restored(ports, TypeOfId, D, C)
  <2>1. ASSUME NEW ports, NEW D \in SUBSET Nat, NEW C, Restored(ports, TypeOfId, D, C)
        PROVE  ports \in S
    <3>1. DOMAIN ports \in SUBSET Nat /\ ports \in [DOMAIN ports -> LoadedPort]
      BY <2>1 DEF Restored, IsLoaded
    <3> QED
      BY <2>1, <3>1
  <2> QED
    BY <2>1
<1>2. N \in Nat /\ registry \in Seq(Ports) /\ DOMAIN registry = 1..N
  BY DEF IInv, TypeOK
<1> HIDE DEF S
<1>3. Good(Standard, 0)
  BY StandardLoaded
<1>4. Standard \in S
  <2>1. Reached(0) \in SUBSET Nat
    BY DEF Reached, IInv, TypeOK, Live
  <2> QED
    BY <1>1, <1>3, <2>1
<1>5. \A n \in 1..N, ports \in S : Next1(ports, n) \in S
  <2>1. ASSUME NEW n \in 1..N, NEW ports \in S PROVE Next1(ports, n) \in S
    <3>1. PICK D \in SUBSET Nat : \E C : Restored(ports, TypeOfId, D, C)
      BY <1>1
    <3>2. PICK C : Restored(ports, TypeOfId, D, C)
      BY <3>1
    <3>3. id[registry[n]] \in Nat
      BY ElementPort
    <3>4. \E E \in SUBSET Nat : \E F : Restored(Next1(ports, n), TypeOfId, E, F)
      <4> DEFINE E == D \cup {id[registry[n]]}
      <4>1. E \in SUBSET Nat
        BY <3>3
      <4> QED
        BY <3>2, <4>1, ElementRead
    <3> QED
      BY <1>1, <3>4
  <2> QED
    BY <2>1
<1>6. ASSUME NEW n \in 1..N, NEW ports, Good(ports, n - 1) PROVE Good(Next1(ports, n), n)
  BY <1>6, ElementLoaded
<1> HIDE DEF Next1, Rec, Good
<1>7. G \in [(1..N) \X S -> S] /\ \A n \in 1..N, ports \in S : G[<<n, ports>>] = Next1(ports, n)
  BY <1>5
<1> HIDE DEF G
<1>8. PICK f \in [0..N -> S] : GoesOn(f, N, Standard, G)
  <2> HIDE DEF N
  <2> QED
    BY <1>2, <1>4, <1>7, RecursionExists
<1>9. ASSUME NEW n \in 0..N
      PROVE  f[n] = IF n = 0 THEN Standard ELSE Next1(f[n - 1], n)
  <2>1. CASE n = 0
    BY <1>8, <2>1 DEF GoesOn
  <2>2. CASE n # 0
    <3>1. n \in 1..N /\ n - 1 \in 0..N
      BY <1>2, <2>2
    <3> QED
      BY <1>7, <1>8, <2>2, <3>1 DEF GoesOn
  <2> QED
    BY <2>1, <2>2
<1>10. Rec(f)
  <2>1. f = [n \in 0..N |-> f[n]]
    OBVIOUS
  <2> QED
    BY <1>9, <2>1, Zenon DEF Rec
<1>11. Rec(all)
  BY <1>10
<1>12. all = CHOOSE g : Rec(g)
  OBVIOUS
<1> HIDE DEF all
<1>13. all[0] = Standard /\ \A n \in 1..N : all[n] = Next1(all[n - 1], n)
  <2>1. \A n \in 0..N : all[n] = IF n = 0 THEN Standard ELSE Next1(all[n - 1], n)
    BY <1>11, Zenon DEF Rec
  <2>2. \A n \in 1..N : n \in 0..N /\ n # 0
    BY <1>2
  <2>3. 0 \in 0..N
    BY <1>2
  <2> QED
    BY <2>1, <2>2, <2>3
<1> DEFINE Bad == {n \in 0..N : ~Good(all[n], n)}
<1>16. Bad \subseteq 0..N /\ 0 \notin Bad
  BY <1>3, <1>13
<1>17. ASSUME NEW n \in 1..N, n \in Bad PROVE n - 1 \in Bad
  <2>1. n - 1 \in 0..N
    BY <1>2
  <2>2. ~Good(all[n], n) /\ all[n] = Next1(all[n - 1], n)
    BY <1>13, <1>17
  <2>3. ~Good(all[n - 1], n - 1)
    BY <1>6, <2>2
  <2> QED
    BY <2>1, <2>3
<1> HIDE DEF Bad
<1>18. \A n \in 0..N : n \notin Bad
  <2> HIDE DEF N
  <2> QED
    BY <1>2, <1>16, <1>17, NeverFails
<1>19. Good(all[N], N)
  BY <1>2, <1>18 DEF Bad
<1>20. Reached(N) = LiveIds
  <2>1. \A q \in Live : \E n \in 1..N : registry[n] = q
    BY <1>2 DEF RegistryInv, Elements
  <2> HIDE DEF N
  <2> QED
    BY <2>1 DEF Reached, LiveIds
<1>21. LoadPorts = all[N]
  <2>1. LoadPorts = (CHOOSE g : Rec(g))[N]
    BY DEF LoadPorts, Rec, Next1
  <2> QED
    BY <1>12, <2>1
<1> HIDE DEF N
<1> QED
  BY <1>19, <1>20, <1>21 DEF Good
-----------------------------------------------------------------------------
\* What the program has after it has loaded the ports file is what was saved: every
\* connection of a port that is not standard is back, once and at both ends, and no
\* other is (xml_write_ports, xml_load_ports).
THEOREM RestoresConnectionsCorrect == Spec => []RestoresConnections
<1>1. ASSUME IInv, RegistryInv, Writable,
             NEW p \in Live, NEW q \in Live, id[p] > LastStandard \/ id[q] > LastStandard
      PROVE  /\ id[q] \in Elements(LoadPorts[id[p]].dests) <=> q \in Elements(dests[p])
             /\ id[p] \in Elements(LoadPorts[id[q]].srcs) <=> p \in Elements(srcs[q])
             /\ Distinct(LoadPorts[id[p]].dests) /\ Distinct(LoadPorts[id[p]].srcs)
  <2> DEFINE loaded == LoadPorts
  <2>1. Restored(loaded, TypeOfId, LiveIds, Back(LiveIds))
    BY <1>1, FileLoaded
  <2> HIDE DEF loaded
  <2>2. id[p] \in LiveIds /\ id[q] \in LiveIds
    BY DEF LiveIds
  <2>3. id[p] \in DOMAIN loaded /\ id[q] \in DOMAIN loaded
    BY <2>1, <2>2 DEF Restored
  <2>4. /\ id[q] \in Elements(loaded[id[p]].dests) <=> <<id[p], id[q]>> \in Back(LiveIds)
        /\ id[p] \in Elements(loaded[id[q]].srcs) <=> <<id[p], id[q]>> \in Back(LiveIds)
        /\ Distinct(loaded[id[p]].dests) /\ Distinct(loaded[id[p]].srcs)
    BY <2>1, <2>3 DEF Restored
  <2>5. <<id[p], id[q]>> \in Back(LiveIds) <=> IsSaved(id[p], id[q])
    BY <2>2 DEF Back
  <2>6. IsSaved(id[p], id[q]) <=> q \in Elements(dests[p])
    <3>1. \A s, t \in Live : id[s] = id[p] /\ id[t] = id[q] => s = p /\ t = q
      BY <1>1 DEF Writable
    <3> QED
      BY <1>1, <3>1 DEF IsSaved
  <2>7. q \in Elements(dests[p]) <=> p \in Elements(srcs[q])
    BY <1>1 DEF IInv, Symmetric
  <2> QED
    BY <2>4, <2>5, <2>6, <2>7 DEF loaded
<1>2. IInv /\ RegistryInv => RestoresConnections
  BY <1>1 DEF RestoresConnections
<1> QED
  BY <1>2, Invariance, RegistryInvariance, PTL
=============================================================================

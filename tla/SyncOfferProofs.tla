-------------------------- MODULE SyncOfferProofs --------------------------
(***************************************************************************)
(* Proofs about SyncOffer, for any number of peers, files and versions and *)
(* offer lists of any length:                                              *)
(*                                                                         *)
(*   CollectorsHaveTimers   the types, a timer for each collector, and a   *)
(*                          count that stops at what it waits for          *)
(*   OnlyABatchHoldsUp      a task that holds the lock waits behind a batch*)
(*   NewestOffersWin        whoever is asked for a file had its newest     *)
(*                          version                                        *)
(*                                                                         *)
(* The invariant adds where the tasks are when the lock is held (Phases),  *)
(* and that the collector keeps what it was given (Fed).                   *)
(*                                                                         *)
(* The list of a peer goes through a fold over a set of places.  What that *)
(* fold yields is shown first, for any list (FoldOfInserts): the function  *)
(* that it chooses exists, and is what it should be on the first k places  *)
(* of the list for every k, as there is no smallest k for which it is not. *)
(***************************************************************************)
EXTENDS SyncOffer, FiniteSetTheorems, SequenceTheorems, WellFoundedInduction,
        TLAPS

(***************************************************************************)
(* Smallest and largest numbers.  The induction that follows is on them.   *)
(***************************************************************************)

LEMMA Smallest ==
  ASSUME NEW T \in SUBSET Nat, T # {}
  PROVE  \E n \in T : \A m \in T : n <= m
<1> DEFINE R == OpToRel(<, Nat)
<1>1. IsWellFoundedOn(R, Nat)
  BY NatLessThanWellFounded
<1>2. \A m, n \in Nat : m < n => <<m, n>> \in R
  BY SMT DEF OpToRel
<1> HIDE DEF R
<1>3. PICK n \in T : \A m \in T : <<m, n>> \notin R
  BY <1>1, WFMin, Zenon
<1>4. ASSUME NEW m \in T
      PROVE  n <= m
  <2>1. m \in Nat /\ n \in Nat
    OBVIOUS
  <2>2. ~(m < n)
    BY <2>1, <1>2, <1>3, Zenon
  <2> QED BY <2>1, <2>2
<1> QED BY <1>4, Zenon

LEMMA MinMax ==
  ASSUME NEW n \in Nat, NEW T \in SUBSET (1..n), T # {}
  PROVE  /\ Min(T) \in T /\ \A m \in T : Min(T) <= m
         /\ Max(T) \in T /\ \A m \in T : m <= Max(T)
<1>1. \E k \in T : \A m \in T : k =< m
  <2>1. T \in SUBSET Nat
    OBVIOUS
  <2> QED BY <2>1, Smallest, Zenon
<1>2. \E k \in T : \A m \in T : k >= m
  <2> DEFINE U == {n - k : k \in T}
  <2>1. U \in SUBSET Nat /\ U # {}
    <3>1. ASSUME NEW k \in T
          PROVE  n - k \in Nat
      <4>1. k \in 1..n
        OBVIOUS
      <4> QED BY <4>1
    <3>2. U # {}
      OBVIOUS
    <3> QED BY <3>1, <3>2
  <2>2. PICK u \in U : \A v \in U : u <= v
    BY <2>1, Smallest, Zenon
  <2>3. PICK k \in T : u = n - k
    OBVIOUS
  <2>4. ASSUME NEW m \in T
        PROVE  k >= m
    <3>1. n - m \in U
      OBVIOUS
    <3>2. n - k <= n - m
      BY <3>1, <2>2, <2>3
    <3> QED BY <3>2
  <2> QED BY <2>4
<1>3. Min(T) \in T /\ \A m \in T : Min(T) =< m
  BY <1>1, Zenon DEF Min
<1>4. Max(T) \in T /\ \A m \in T : Max(T) >= m
  BY <1>2, Zenon DEF Max
<1> QED BY <1>3, <1>4

(***************************************************************************)
(* A message of a peer does to a collector what its first offer does.      *)
(***************************************************************************)

LEMMA Lists ==
  ASSUME NEW l \in OfferList
  PROVE  l \in Seq(Offer)
<1>1. PICK k \in 0..Cardinality(File) : l \in [1..k -> Offer]
  BY DEF OfferList
<1>2. Cardinality(File) \in Nat
  BY FS_CardinalityType, SyncOfferAssumption
<1>3. k \in Nat
  BY <1>2
<1> QED BY <1>1, <1>3, SeqDef

LEMMA OfferType ==
  ASSUME NEW o \in Offer
  PROVE  o.file \in File /\ o.version \in Nat /\ o = [file |-> o.file, version |-> o.version]
<1>1. PICK f \in File : o \in [file : {f}, version : Versions[f]]
  BY DEF Offer
<1>2. Versions[f] \in SUBSET Nat
  BY SyncOfferAssumption
<1> QED BY <1>1, <1>2

(* The batch of a collector after an offer that is looked at.              *)
Kept(c, p, o) ==
  [c.best EXCEPT ![o.file] = IF @ # None /\ o.version < @.version THEN @
                             ELSE [peer |-> p, version |-> o.version]]

LEMMA KeptType ==
  ASSUME NEW b \in Batch, NEW c, c.best = b, NEW p \in Peer, NEW o \in Offer
  PROVE  /\ Kept(c, p, o) \in Batch
         /\ Kept(c, p, o)[o.file] # None
         /\ \A f \in File \ {o.file} : Kept(c, p, o)[f] = b[f]
         /\ \/ /\ Kept(c, p, o)[o.file] = b[o.file]
               /\ b[o.file] # None
               /\ o.version < b[o.file].version
            \/ Kept(c, p, o)[o.file] = [peer |-> p, version |-> o.version]
         /\ b[o.file] # None /\ Kept(c, p, o)[o.file] # b[o.file] =>
              b[o.file].version <= o.version
<1> DEFINE new == [peer |-> p, version |-> o.version]
<1>1. o.file \in File /\ o.version \in Nat
  BY OfferType
<1>2. new \in [peer : Peer, version : Nat] /\ new # None
  BY <1>1, NoneAssumption
<1>3. b \in [File -> [peer : Peer, version : Nat] \cup {None}]
  BY DEF Batch
<1>4. b[o.file] # None => b[o.file].version \in Nat
  BY <1>1, <1>3
<1>5. Kept(c, p, o) = [b EXCEPT ![o.file] =
         IF b[o.file] # None /\ o.version < b[o.file].version THEN b[o.file] ELSE new]
  BY DEF Kept
<1> HIDE DEF new
<1>6. Kept(c, p, o) \in Batch
  BY <1>1, <1>2, <1>3, <1>5 DEF Batch
<1>7. Kept(c, p, o)[o.file] =
        IF b[o.file] # None /\ o.version < b[o.file].version THEN b[o.file] ELSE new
  BY <1>1, <1>3, <1>5
<1>8. \A f \in File \ {o.file} : Kept(c, p, o)[f] = b[f]
  BY <1>3, <1>5
<1>9. b[o.file] # None /\ Kept(c, p, o)[o.file] # b[o.file] =>
        b[o.file].version <= o.version
  BY <1>1, <1>4, <1>7
<1>10. Kept(c, p, o)[o.file] # None
  BY <1>2, <1>7
<1>11. \/ /\ Kept(c, p, o)[o.file] = b[o.file]
           /\ b[o.file] # None
           /\ o.version < b[o.file].version
        \/ Kept(c, p, o)[o.file] = [peer |-> p, version |-> o.version]
  BY <1>7 DEF new
<1> QED BY <1>6, <1>8, <1>9, <1>10, <1>11

LEMMA InsertType ==
  ASSUME NEW c \in Collector, NEW p \in Peer, NEW o \in Offer
  PROVE  /\ Insert(c, p, o) \in Collector
         /\ p \in Insert(c, p, o).received
         /\ p \in c.received => Insert(c, p, o) = c
         /\ p \notin c.received =>
              /\ Insert(c, p, o).count = c.count + 1
              /\ Insert(c, p, o).except = c.except
              /\ Insert(c, p, o).received = c.received \cup {p}
              /\ Insert(c, p, o).best = Kept(c, p, o)
<1>1. CASE p \in c.received
  BY <1>1 DEF Insert
<1>2. CASE p \notin c.received
  <2>1. Insert(c, p, o) = [c EXCEPT !.count = c.count + 1,
                                    !.received = c.received \cup {p},
                                    !.best = Kept(c, p, o)]
    BY <1>2 DEF Insert, Kept, Collector
  <2>2. c.best \in Batch /\ c.count \in Nat /\ c.received \in SUBSET Peer
    BY DEF Collector
  <2>3. Kept(c, p, o) \in Batch
    BY <2>2, KeptType
  <2>4. Insert(c, p, o) \in Collector
    <3>1. c \in [count : Nat, except : Nat, best : Batch, received : SUBSET Peer]
      BY DEF Collector
    <3>2. c.count + 1 \in Nat /\ c.received \cup {p} \in SUBSET Peer
      BY <2>2
    <3> DEFINE k == Kept(c, p, o)
               n == c.count + 1
               r == c.received \cup {p}
    <3>3. n \in Nat /\ r \in SUBSET Peer /\ k \in Batch
      BY <3>2, <2>3
    <3>4. Insert(c, p, o) = [c EXCEPT !.count = n, !.received = r, !.best = k]
      BY <2>1
    <3> HIDE DEF k, n, r
    <3> QED BY <3>1, <3>3, <3>4 DEF Collector
  <2> QED BY <1>2, <2>1, <2>4 DEF Collector
<1> QED BY <1>1, <1>2

LEMMA FoldOfInserts ==
  ASSUME NEW c \in Collector, NEW p \in Peer, NEW l \in OfferList
  PROVE  InsertList(c, p, l) = IF l = <<>> THEN c ELSE Insert(c, p, l[1])
<1> DEFINE n == Len(l)
           Body(g, s) == IF s = {} THEN c
                         ELSE Insert(g[s \ {Max(s)}], p, l[Max(s)])
<1>1. l \in Seq(Offer) /\ n \in Nat /\ DOMAIN l = 1..n
  BY Lists, LenProperties
<1>2. PICK f : /\ InsertList(c, p, l) = f[DOMAIN l]
               /\ f = CHOOSE g : g = [s \in SUBSET DOMAIN l |-> Body(g, s)]
  BY DEF InsertList, FoldLeft, MapThenFoldSet
<1>3. \E g : g = [s \in SUBSET DOMAIN l |-> Body(g, s)]
  <2> DEFINE G == [s \in SUBSET DOMAIN l |->
                     IF s = {} THEN c ELSE Insert(c, p, l[Min(s)])]
  <2>1. ASSUME NEW s \in SUBSET DOMAIN l
        PROVE  G[s] = Body(G, s)
    <3>1. CASE s = {}
      BY <3>1
    <3>2. CASE s # {}
      <4> DEFINE t == s \ {Max(s)}
      <4>1. /\ Min(s) \in s /\ \A m \in s : Min(s) <= m
            /\ Max(s) \in s /\ \A m \in s : m <= Max(s)
        BY <1>1, <3>2, MinMax
      <4>2. l[Max(s)] \in Offer /\ l[Min(s)] \in Offer
        BY <1>1, <4>1, ElementOfSeq
      <4>3. t \in SUBSET DOMAIN l
        OBVIOUS
      <4>4. CASE t = {}
        <5>1. Min(s) = Max(s)
          BY <4>1, <4>4
        <5>2. G[s] = Insert(c, p, l[Max(s)]) /\ G[t] = c
          BY <3>2, <4>3, <4>4, <5>1
        <5> HIDE DEF G, t
        <5> QED BY <3>2, <5>2 DEF t
      <4>5. CASE t # {}
        <5>1. /\ Min(t) \in t /\ \A m \in t : Min(t) <= m
          BY <1>1, <4>3, <4>5, MinMax
        <5>2. Min(t) = Min(s)
          <6>1. Min(t) \in s /\ Min(s) <= Min(t)
            BY <4>1, <5>1
          <6>2. Min(s) \in Nat /\ Min(t) \in Nat /\ Max(s) \in Nat
            BY <1>1, <4>1, <5>1
          <6>3. Min(s) # Max(s)
            BY <4>1, <5>1, <6>1, <6>2
          <6>4. Min(t) <= Min(s)
            BY <4>1, <5>1, <6>3
          <6> QED BY <6>1, <6>2, <6>4
        <5>3. G[t] = Insert(c, p, l[Min(s)]) /\ G[s] = Insert(c, p, l[Min(s)])
          BY <3>2, <4>3, <4>5, <5>2
        <5>4. Insert(Insert(c, p, l[Min(s)]), p, l[Max(s)]) = Insert(c, p, l[Min(s)])
          BY <4>2, InsertType
        <5> HIDE DEF G, t
        <5> QED BY <3>2, <5>3, <5>4 DEF t
      <4> QED BY <4>4, <4>5
    <3> QED BY <3>1, <3>2
  <2>2. G = [s \in SUBSET DOMAIN l |-> G[s]]
    OBVIOUS
  <2> HIDE DEF G, Body
  <2>3. G = [s \in SUBSET DOMAIN l |-> Body(G, s)]
    BY <2>1, <2>2
  <2> QED BY <2>3
<1>4. f = [s \in SUBSET DOMAIN l |-> Body(f, s)]
  <2> HIDE DEF Body
  <2> QED BY <1>2, <1>3
<1> DEFINE value(k) == IF k = 0 THEN c ELSE Insert(c, p, l[1])
           wrong == {k \in 0..n : f[1..k] # value(k)}
<1>5. wrong = {}
  <2> SUFFICES ASSUME wrong # {} PROVE FALSE
    OBVIOUS
  <2>1. wrong \in SUBSET Nat
    BY <1>1
  <2>2. PICK k \in wrong : \A m \in wrong : k <= m
    BY <2>1, Smallest, Zenon
  <2>3. k \in 0..n /\ f[1..k] # value(k)
    OBVIOUS
  <2>4. 1..k \in SUBSET DOMAIN l
    BY <1>1, <2>3
  <2>5. f[1..k] = Body(f, 1..k)
    <3> HIDE DEF Body
    <3> QED BY <1>4, <2>4
  <2>6. CASE k = 0
    <3>1. 1..k = {}
      BY <2>6
    <3> QED BY <2>3, <2>5, <2>6, <3>1
  <2>7. CASE k # 0
    <3>1. k \in Nat /\ k \in 1..k /\ 1..k # {}
      <4>1. k \in Nat /\ k >= 1
        BY <1>1, <2>3, <2>7
      <4>2. k \in 1..k
        BY <4>1
      <4> QED BY <4>1, <4>2
    <3>2. /\ Max(1..k) \in 1..k
          /\ \A m \in 1..k : m <= Max(1..k)
      BY <3>1, MinMax
    <3>3. Max(1..k) = k
      BY <3>1, <3>2
    <3>4. (1..k) \ {k} = 1..(k-1)
      BY <3>1
    <3>5. f[1..k] = Insert(f[1..(k-1)], p, l[k])
      BY <2>5, <3>1, <3>3, <3>4
    <3>6. k-1 \in 0..n /\ ~(k <= k-1)
      BY <1>1, <2>3, <3>1
    <3>7. k-1 \notin wrong
      BY <2>2, <3>6, Zenon
    <3>8. f[1..(k-1)] = value(k-1)
      BY <3>6, <3>7
    <3>9. l[k] \in Offer /\ l[1] \in Offer
      <4>1. k \in 1..n /\ 1 \in 1..n
        BY <1>1, <2>3, <3>1
      <4> QED BY <1>1, <4>1, ElementOfSeq
    <3>10. Insert(value(k-1), p, l[k]) = value(k)
      <4>1. CASE k = 1
        BY <4>1
      <4>2. CASE k # 1
        <5>1. k-1 # 0
          BY <3>1, <4>2
        <5> QED BY <2>7, <3>9, <5>1, InsertType
      <4> QED BY <4>1, <4>2
    <3> HIDE DEF value
    <3> QED BY <2>3, <3>5, <3>8, <3>10
  <2> QED BY <2>6, <2>7
<1>6. n \in 0..n /\ n \notin wrong
  BY <1>1, <1>5
<1>7. f[1..n] = value(n)
  BY <1>6
<1>8. (l = <<>>) <=> (n = 0)
  BY <1>1, EmptySeq, LenProperties
<1> QED BY <1>1, <1>2, <1>7, <1>8

-----------------------------------------------------------------------------
(* The inductive invariant.                                                *)

(* A task waits for room exactly while it holds a batch, a message is there*)
(* while the main loop waits for the lock, and nobody has a collector while*)
(* the lock is held.                                                       *)
Phases ==
  /\ main = "send" <=> sending["main"] # None
  /\ timer = "send" <=> sending["timer"] # None
  /\ sending["main"] = None \/ sending["timer"] = None
  /\ main = "send" => channel # <<>>
  /\ main = "lock" => message # None
  /\ ~LockFree => collector = None

(* H is what a collector was given: whom it has received, and the offers   *)
(* that it keeps.                                                          *)
FedBy(c, H) ==
  /\ \A p \in Peer : p \in c.received <=> \E h \in H : h.peer = p
  /\ \A f \in File : c.best[f] # None =>
       \E h \in H : /\ h.first /\ h.peer = c.best[f].peer
                    /\ h.offer = [file |-> f, version |-> c.best[f].version]
  /\ \A h \in H : h.first =>
       /\ c.best[h.offer.file] # None
       /\ c.best[h.offer.file].version >= h.offer.version

(* The history is that of the present collector.                           *)
Fed ==
  /\ collector = None => heard = {}
  /\ collector # None => FedBy(collector, heard)

IInv == TypeOK /\ Phases /\ TimerHasCollector /\ NotOverdue /\ Fed

(* The collector after a message.                                          *)
After(c, m) == IF m.valid THEN InsertList(c, m.peer, m.list) ELSE c

LEMMA MessageType ==
  ASSUME NEW m \in Message
  PROVE  /\ m.peer \in Peer /\ m.valid \in BOOLEAN
         /\ m.list \in OfferList
         /\ m.list # <<>> => m.list[1] \in Offer /\ m.list[1] \in Range(m.list)
         /\ \A o \in Range(m.list) : o \in Offer
         /\ ~m.valid => m.list = <<>>
         /\ Len(m.list) = 1 => \A o \in Range(m.list) : o = m.list[1]
<1>1. <<>> \in OfferList
  <2>1. <<>> \in [1..0 -> Offer]
    <3>1. <<>> \in Seq(Offer) /\ Len(<<>>) = 0
      BY EmptySeq
    <3> QED BY <3>1, LenProperties
  <2>2. 0 \in 0..Cardinality(File)
    BY FS_CardinalityType, SyncOfferAssumption
  <2>3. DOMAIN <<>> = {}
    OBVIOUS
  <2> QED BY <2>1, <2>2, <2>3 DEF OfferList
<1>2. m.list \in OfferList
  BY <1>1 DEF Message
<1>3. m.list \in Seq(Offer) /\ DOMAIN m.list = 1..Len(m.list) /\ Len(m.list) \in Nat
  BY <1>2, Lists, LenProperties
<1>4. m.peer \in Peer /\ m.valid \in BOOLEAN /\ (~m.valid => m.list = <<>>)
  BY DEF Message
<1>5. ASSUME NEW o \in Range(m.list)
      PROVE  o \in Offer /\ \E i \in 1..Len(m.list) : o = m.list[i]
  <2>1. PICK i \in 1..Len(m.list) : o = m.list[i]
    BY <1>3 DEF Range
  <2> QED BY <1>3, <2>1, ElementOfSeq
<1>6. m.list # <<>> => m.list[1] \in Offer /\ m.list[1] \in Range(m.list)
  <2> HAVE m.list # <<>>
  <2>1. 1 \in 1..Len(m.list)
    <3>1. Len(m.list) # 0
      BY <1>3, EmptySeq
    <3> QED BY <1>3, <3>1
  <2> QED BY <1>3, <2>1, ElementOfSeq DEF Range
<1>7. Len(m.list) = 1 => \A o \in Range(m.list) : o = m.list[1]
  <2> SUFFICES ASSUME Len(m.list) = 1, NEW o \in Range(m.list)
               PROVE  o = m.list[1]
    OBVIOUS
  <2>1. PICK i \in 1..Len(m.list) : o = m.list[i]
    BY <1>5
  <2>2. i = 1
    BY <2>1
  <2> QED BY <2>1, <2>2
<1> QED BY <1>2, <1>4, <1>5, <1>6, <1>7

LEMMA HeardType ==
  ASSUME TypeOK, NEW h \in heard
  PROVE  /\ h.peer \in Peer /\ h.offer \in Offer /\ h.first \in BOOLEAN
         /\ h.offer.file \in File /\ h.offer.version \in Nat
<1>1. h \in {[peer |-> p, offer |-> o, first |-> b] :
               p \in Peer, o \in Offer, b \in BOOLEAN}
  BY DEF TypeOK
<1>2. PICK p \in Peer, o \in Offer, b \in BOOLEAN :
        h = [peer |-> p, offer |-> o, first |-> b]
  BY <1>1
<1>3. h.peer \in Peer /\ h.offer \in Offer
  BY <1>2
<1>4. h.first = b
  BY <1>2
<1>5. h.first \in BOOLEAN
  BY <1>4, Zenon
<1> QED BY <1>3, <1>5, OfferType

LEMMA HeardNew ==
  ASSUME NEW m \in Message, NEW h \in Heard(m)
  PROVE  /\ h.peer = m.peer /\ h.offer \in Range(m.list)
         /\ h.first <=> h.offer = m.list[1] /\ \A g \in heard : g.peer # m.peer
         /\ h \in {[peer |-> p, offer |-> o, first |-> b] :
                      p \in Peer, o \in Offer, b \in BOOLEAN}
<1> DEFINE first(o) == o = m.list[1] /\ \A g \in heard : g.peer # m.peer
<1>1. PICK o \in Range(m.list) : h = [peer |-> m.peer, offer |-> o, first |-> first(o)]
  BY DEF Heard
<1>2. o \in Offer /\ m.peer \in Peer
  BY MessageType
<1>3. first(o) \in BOOLEAN
  BY Zenon
<1>4. h.peer = m.peer /\ h.offer = o /\ h.first = first(o)
  <2> HIDE DEF first
  <2> QED BY <1>1
<1>5. h \in {[peer |-> p, offer |-> q, first |-> b] :
               p \in Peer, q \in Offer, b \in BOOLEAN}
  <2> HIDE DEF first
  <2> QED BY <1>1, <1>2, <1>3
<1>6. h.first <=> h.offer = m.list[1] /\ \A g \in heard : g.peer # m.peer
  BY <1>4
<1>7. h.peer = m.peer /\ h.offer \in Range(m.list)
  <2> HIDE DEF first
  <2> QED BY <1>4
<1> HIDE DEF first
<1> QED BY <1>5, <1>6, <1>7

(* What a message does to a collector, in terms of its first offer.        *)
LEMMA AfterType ==
  ASSUME NEW m \in Message, NEW c \in Collector
  PROVE  /\ After(c, m) \in Collector
         /\ \/ /\ After(c, m) = c
               /\ m.list = <<>> \/ m.peer \in c.received
            \/ /\ m.list # <<>> /\ m.peer \notin c.received
               /\ After(c, m).count = c.count + 1
               /\ After(c, m).except = c.except
               /\ After(c, m).received = c.received \cup {m.peer}
               /\ After(c, m).best = Kept(c, m.peer, m.list[1])
<1>1. m.peer \in Peer /\ m.list \in OfferList /\ (~m.valid => m.list = <<>>)
  BY MessageType
<1>2. m.valid => After(c, m) = IF m.list = <<>> THEN c ELSE Insert(c, m.peer, m.list[1])
  BY <1>1, FoldOfInserts DEF After
<1>3. CASE m.list = <<>>
  <2>1. After(c, m) = c
    BY <1>2, <1>3 DEF After
  <2> QED BY <1>3, <2>1
<1>4. CASE m.list # <<>>
  <2> DEFINE o == m.list[1]
  <2>1. o \in Offer
    BY <1>4, MessageType
  <2>2. After(c, m) = Insert(c, m.peer, o)
    BY <1>1, <1>2, <1>4
  <2> HIDE DEF o
  <2>3. /\ After(c, m) \in Collector
        /\ m.peer \in c.received => After(c, m) = c
        /\ m.peer \notin c.received =>
             /\ After(c, m).count = c.count + 1
             /\ After(c, m).except = c.except
             /\ After(c, m).received = c.received \cup {m.peer}
             /\ After(c, m).best = Kept(c, m.peer, o)
    BY <1>1, <2>1, <2>2, InsertType
  <2> QED BY <1>4, <2>3 DEF o
<1> QED BY <1>3, <1>4

LEMMA Feeding ==
  ASSUME TypeOK, NEW m \in Message, NEW c \in Collector, FedBy(c, heard)
  PROVE  FedBy(After(c, m), heard \cup Heard(m))
<1> DEFINE d == After(c, m)
           H == heard \cup Heard(m)
<1>1. d \in Collector /\ m.peer \in Peer
  BY AfterType, MessageType
<1>2. CASE d = c /\ (m.list = <<>> \/ m.peer \in c.received)
  <2>1. ASSUME NEW h \in Heard(m)
        PROVE  ~h.first /\ h.peer = m.peer /\ m.peer \in c.received
    <3>1. h.peer = m.peer /\ h.offer \in Range(m.list)
      BY HeardNew
    <3>2. m.list # <<>>
      <4>1. Range(<<>>) = {}
        BY DEF Range
      <4> QED BY <3>1, <4>1
    <3>3. \E g \in heard : g.peer = m.peer
      BY <1>1, <1>2, <3>2 DEF FedBy
    <3>4. ~h.first
      BY <3>3, HeardNew
    <3> QED BY <1>2, <3>1, <3>2, <3>4
  <2>2. \A p \in Peer : p \in c.received <=> \E h \in H : h.peer = p
    BY <2>1 DEF FedBy
  <2>3. \A f \in File : c.best[f] # None =>
          \E h \in H : /\ h.first /\ h.peer = c.best[f].peer
                       /\ h.offer = [file |-> f, version |-> c.best[f].version]
    BY DEF FedBy
  <2>4. \A h \in H : h.first =>
          /\ c.best[h.offer.file] # None
          /\ c.best[h.offer.file].version >= h.offer.version
    BY <2>1 DEF FedBy
  <2> HIDE DEF d, H
  <2>5. FedBy(d, H)
    BY <1>2, <2>2, <2>3, <2>4 DEF FedBy
  <2> QED BY <2>5 DEF d, H
<1>3. CASE /\ m.list # <<>> /\ m.peer \notin c.received
           /\ d.received = c.received \cup {m.peer}
           /\ d.best = Kept(c, m.peer, m.list[1])
  <2> DEFINE o == m.list[1]
             k == d.best
  <2>1. o \in Offer /\ o \in Range(m.list)
    BY <1>3, MessageType
  <2>2. PICK n \in Heard(m) : n.first /\ n.peer = m.peer /\ n.offer = o
    <3> DEFINE first == o = m.list[1] /\ \A h \in heard : h.peer # m.peer
               n == [peer |-> m.peer, offer |-> o, first |-> first]
    <3>1. n \in Heard(m)
      BY <2>1, Zenon DEF Heard
    <3>2. n.peer = m.peer /\ n.offer = o /\ n.first = first
      <4> HIDE DEF first, o
      <4> QED OBVIOUS
    <3>3. \A h \in heard : h.peer # m.peer
      BY <1>1, <1>3 DEF FedBy
    <3>4. first
      BY <3>3
    <3> HIDE DEF first, n
    <3> QED BY <3>1, <3>2, <3>4
  <2>3. o.file \in File /\ o.version \in Nat
        /\ o = [file |-> o.file, version |-> o.version]
    BY <2>1, OfferType
  <2>4. c.best \in Batch
    BY DEF Collector
  <2>5. /\ k \in Batch
        /\ k[o.file] # None
        /\ \A f \in File \ {o.file} : k[f] = c.best[f]
        /\ \/ /\ k[o.file] = c.best[o.file]
              /\ c.best[o.file] # None
              /\ o.version < c.best[o.file].version
           \/ k[o.file] = [peer |-> m.peer, version |-> o.version]
        /\ c.best[o.file] # None /\ k[o.file] # c.best[o.file] =>
             c.best[o.file].version <= o.version
    <3> HIDE DEF o, d
    <3>1. k = Kept(c, m.peer, o)
      BY <1>3 DEF o
    <3> HIDE DEF k
    <3> QED BY <1>1, <2>1, <2>4, <3>1, KeptType
  <2> HIDE DEF o, k, d
  <2>6. ASSUME NEW p \in Peer
        PROVE  p \in d.received <=> \E h \in H : h.peer = p
    <3>1. p \in c.received <=> \E h \in heard : h.peer = p
      BY DEF FedBy
    <3>2. (\E h \in Heard(m) : h.peer = p) <=> p = m.peer
      BY <2>2, HeardNew
    <3> QED BY <1>3, <3>1, <3>2
  <2>7. ASSUME NEW f \in File, k[f] # None
        PROVE  \E h \in H : /\ h.first /\ h.peer = k[f].peer
                            /\ h.offer = [file |-> f, version |-> k[f].version]
    <3>1. CASE k[f] = c.best[f]
      <4>1. PICK h \in heard : /\ h.first /\ h.peer = c.best[f].peer
                               /\ h.offer = [file |-> f, version |-> c.best[f].version]
        BY <2>7, <3>1 DEF FedBy
      <4> QED BY <3>1, <4>1
    <3>2. CASE k[f] # c.best[f]
      <4>1. f = o.file /\ k[f] = [peer |-> m.peer, version |-> o.version]
        BY <2>5, <3>2
      <4> QED BY <2>2, <2>3, <4>1
    <3> QED BY <3>1, <3>2
  <2>8. ASSUME NEW h \in H, h.first
        PROVE  /\ k[h.offer.file] # None
               /\ k[h.offer.file].version >= h.offer.version
    <3>1. CASE h \in heard
      <4>1. h.offer.file \in File /\ h.offer.version \in Nat
        BY <3>1, HeardType
      <4>2. /\ c.best[h.offer.file] # None
            /\ c.best[h.offer.file].version >= h.offer.version
        BY <2>8, <3>1 DEF FedBy
      <4>3. CASE k[h.offer.file] = c.best[h.offer.file]
        BY <4>2, <4>3
      <4>4. CASE k[h.offer.file] # c.best[h.offer.file]
        <5>1. h.offer.file = o.file
          BY <2>5, <4>1, <4>4
        <5>2. k[o.file] = [peer |-> m.peer, version |-> o.version]
              /\ c.best[o.file].version <= o.version
          BY <2>5, <4>2, <4>4, <5>1
        <5>3. c.best[o.file].version \in Nat
          BY <2>3, <2>4, <4>2, <5>1 DEF Batch
        <5>4. c.best[o.file].version >= h.offer.version
          BY <4>2, <5>1
        <5>5. o.version >= h.offer.version
          BY <2>3, <4>1, <5>2, <5>3, <5>4
        <5> QED BY <2>5, <5>1, <5>2, <5>5
      <4> QED BY <4>3, <4>4
    <3>2. CASE h \in Heard(m)
      <4>1. h.offer = o
        BY <2>8, <3>2, HeardNew DEF o
      <4>2. k[o.file].version >= o.version
        <5>1. CASE k[o.file] = [peer |-> m.peer, version |-> o.version]
          BY <2>3, <5>1
        <5>2. CASE /\ k[o.file] = c.best[o.file]
                   /\ c.best[o.file] # None
                   /\ o.version < c.best[o.file].version
          <6>1. c.best[o.file].version \in Nat
            BY <2>3, <2>4, <5>2 DEF Batch
          <6> QED BY <2>3, <5>2, <6>1
        <5> QED BY <2>5, <5>1, <5>2
      <4> QED BY <2>5, <4>1, <4>2
    <3> QED BY <3>1, <3>2
  <2> HIDE DEF H
  <2>9. FedBy(d, H)
    BY <2>6, <2>7, <2>8 DEF FedBy, k
  <2> QED BY <2>9 DEF d, H
<1> HIDE DEF d, H
<1> QED BY <1>2, <1>3, AfterType DEF d

(* Consuming a collector with the lock free.                               *)
LEMMA Consumption ==
  ASSUME TypeOK, LockFree, NEW w \in Task, NEW c \in Collector, Consume(w, c)
  PROVE  /\ channel' \in Seq(Batch) /\ Len(channel') <= Capacity
         /\ sending' \in [Task -> Batch \cup {None}]
         /\ \A v \in Task \ {w} : sending'[v] = None
         /\ Len(channel) < Capacity => sending'[w] = None
         /\ ~(Len(channel) < Capacity) =>
              sending'[w] # None /\ channel' = channel /\ channel # <<>>
         /\ collector' = None
<1>1. c.best \in Batch /\ c.best # None
  <2>1. c.best \in Batch
    BY DEF Collector
  <2> QED BY <2>1, NoneAssumption
<1>2. channel \in Seq(Batch) /\ Len(channel) \in Nat
      /\ sending \in [Task -> Batch \cup {None}]
  BY LenProperties DEF TypeOK
<1>3. \A v \in Task : sending[v] = None
  BY DEF LockFree
<1>4. CASE Len(channel) < Capacity
  <2>1. channel' = Append(channel, c.best) /\ sending' = sending
    BY <1>4 DEF Consume
  <2>2. channel' \in Seq(Batch) /\ Len(channel') = Len(channel) + 1
    BY <1>1, <1>2, <2>1, AppendProperties
  <2> QED BY <1>2, <1>3, <1>4, <2>1, <2>2 DEF Capacity, Consume
<1>5. CASE ~(Len(channel) < Capacity)
  <2>1. channel' = channel /\ sending' = [sending EXCEPT ![w] = c.best]
    BY <1>5 DEF Consume
  <2>2. channel # <<>>
    BY <1>2, <1>5, EmptySeq DEF Capacity
  <2>3. Len(channel') <= Capacity
    BY <2>1 DEF TypeOK
  <2>4. sending' \in [Task -> Batch \cup {None}] /\ sending'[w] = c.best
        /\ \A v \in Task \ {w} : sending'[v] = None
    <3> DEFINE b == c.best
    <3> HIDE DEF b
    <3>1. b \in Batch /\ sending' = [sending EXCEPT ![w] = b]
      BY <1>1, <2>1 DEF b
    <3> QED BY <1>2, <1>3, <3>1 DEF b
  <2> QED BY <1>1, <1>2, <1>5, <2>1, <2>2, <2>3, <2>4 DEF Consume
<1> QED BY <1>4, <1>5

LEMMA Fresh ==
  ASSUME TypeOK
  PROVE  /\ NewCollector \in Collector
         /\ FedBy(NewCollector, {})
         /\ NewCollector.count = 0
<1>1. Cardinality(known) \in Nat
  BY FS_Subset, FS_CardinalityType, SyncOfferAssumption DEF TypeOK
<1>2. [f \in File |-> None] \in Batch
  BY DEF Batch
<1>3. NewCollector \in Collector
  BY <1>1, <1>2 DEF NewCollector, Collector
<1> QED BY <1>3 DEF NewCollector, FedBy

LEMMA InitInv == Init => IInv
<1> SUFFICES ASSUME Init PROVE IInv
  OBVIOUS
<1>1. TypeOK
  <2>1. <<>> \in Seq(Batch) /\ Len(<<>>) = 0
    BY EmptySeq
  <2>2. offers \in 0..MaxOffers
    BY SyncOfferAssumption DEF Init
  <2>3. android \in BOOLEAN
    BY Zenon DEF Init
  <2> QED BY <2>1, <2>2, <2>3 DEF Init, TypeOK, Task, Capacity
<1>2. Phases
  BY DEF Init, Phases, Task, LockFree
<1> QED BY <1>1, <1>2 DEF Init, IInv, TimerHasCollector, NotOverdue, Fed

(* A batch leaves the channel.                                             *)
LEMMA BatchTaken ==
  ASSUME TypeOK, channel # <<>>
  PROVE  Tail(channel) \in Seq(Batch) /\ Len(Tail(channel)) <= Capacity
<1>1. channel \in Seq(Batch) /\ Len(channel) \in Nat /\ Len(channel) <= 1
  BY LenProperties DEF TypeOK, Capacity
<1>2. Tail(channel) \in Seq(Batch) /\ Len(Tail(channel)) = Len(channel) - 1
  BY <1>1, HeadTailProperties
<1> QED BY <1>1, <1>2 DEF Capacity

(* The handler of the main loop ends without its batch.                    *)
LEMMA Dropped ==
  ASSUME IInv, DropHandler, main = "select" \/ (android /\ Waiting),
         UNCHANGED <<android, known, collector, timer, offers, heard>>,
         channel' \in Seq(Batch), Len(channel') <= Capacity
  PROVE  IInv'
<1>1. TypeOK /\ Phases /\ TimerHasCollector /\ NotOverdue /\ Fed
  BY DEF IInv
<1>2. sending' \in [Task -> Batch \cup {None}]
      /\ sending'["main"] = None /\ sending'["timer"] = sending["timer"]
  BY <1>1 DEF DropHandler, TypeOK, Task
<1>3. main' = "select" /\ message' = None
  BY DEF DropHandler
<1>4. TypeOK'
  <2>1. android \in BOOLEAN
    BY <1>1 DEF TypeOK
  <2> QED BY <1>1, <1>2, <1>3, <2>1 DEF TypeOK
<1>5. Phases'
  <2>1. LockFree' \/ ~LockFree
    BY <1>2 DEF LockFree, Task
  <2> QED BY <1>1, <1>2, <1>3, <2>1 DEF Phases
<1>6. TimerHasCollector'
  <2>1. CASE main = "select"
    BY <1>1, <1>3, <2>1 DEF TimerHasCollector
  <2>2. CASE android
    BY <1>1, <2>2 DEF TimerHasCollector
  <2> QED BY <2>1, <2>2
<1>7. NotOverdue'
  BY <1>1 DEF NotOverdue
<1>8. Fed'
  BY <1>1 DEF Fed, FedBy
<1> QED BY <1>4, <1>5, <1>6, <1>7, <1>8 DEF IInv

LEMMA HandleOfferStep ==
  ASSUME IInv, HandleOffer
  PROVE  IInv'
<1>1. TypeOK /\ Phases /\ TimerHasCollector /\ NotOverdue /\ Fed
  BY DEF IInv
<1> DEFINE fresh == collector = None
           c0 == IF fresh THEN NewCollector ELSE collector
           c == After(c0, message)
           full == message.valid /\ IsReceived(c)
<1>2. main = "lock" /\ LockFree /\ message' = None
      /\ UNCHANGED <<android, known, offers>>
  BY DEF HandleOffer
<1>3. message \in Message
  BY <1>1, <1>2 DEF TypeOK, Phases
<1>4. c0 \in Collector /\ FedBy(c0, heard)
      /\ (c0.except = 0 \/ c0.count < c0.except)
  <2>1. CASE fresh
    <3>1. heard = {}
      BY <1>1, <2>1 DEF Fed
    <3>2. NewCollector.except \in Nat
      BY <1>1, Fresh DEF Collector
    <3>3. c0 = NewCollector
      BY <2>1
    <3> HIDE DEF c0
    <3>4. FedBy(c0, heard)
      BY <1>1, <3>1, <3>3, Fresh
    <3> QED BY <1>1, <3>2, <3>3, <3>4, Fresh
  <2>2. CASE ~fresh
    BY <1>1, <2>2 DEF TypeOK, Fed, NotOverdue
  <2> QED BY <2>1, <2>2
<1>5. c \in Collector /\ c # None
  <2> HIDE DEF c0
  <2>1. c \in Collector
    BY <1>3, <1>4, AfterType
  <2> QED BY <2>1, NoneAssumption
<1>6. FedBy(c, heard \cup Heard(message))
  <2> HIDE DEF c0
  <2> QED BY <1>1, <1>3, <1>4, Feeding
<1>7. ~full => c.except = 0 \/ c.count < c.except
  <2> HIDE DEF c0
  <2> SUFFICES ASSUME ~full PROVE c.except = 0 \/ c.count < c.except
    OBVIOUS
  <2>1. c0.count \in Nat /\ c0.except \in Nat
    BY <1>4 DEF Collector
  <2>2. CASE c = c0
    <3> HIDE DEF c
    <3> QED BY <1>4, <2>2
  <2>3. CASE c # c0
    <3>1. /\ message.list # <<>>
          /\ c.count = c0.count + 1 /\ c.except = c0.except
      BY <1>3, <1>4, <2>3, AfterType
    <3>2. message.valid
      BY <1>3, <3>1, MessageType
    <3>3. c.count # c.except
      BY <3>2 DEF IsReceived
    <3> HIDE DEF c
    <3> QED BY <1>4, <2>1, <3>1, <3>3
  <2> QED BY <2>2, <2>3
<1>8. /\ full => /\ Consume("main", c)
                 /\ main' = IF Len(channel) < Capacity THEN "select" ELSE "send"
                 /\ timer' = IF Len(channel) < Capacity THEN "off" ELSE StartTimer(fresh)
                 /\ heard' = {}
      /\ ~full => /\ collector' = c
                  /\ main' = "select"
                  /\ timer' = StartTimer(fresh)
                  /\ heard' = heard \cup Heard(message)
                  /\ UNCHANGED <<sending, channel>>
  BY DEF HandleOffer, After
<1>9. timer \in {"off", "sleep", "lock"} /\ StartTimer(fresh) \in {"off", "sleep", "lock"}
  <2>1. timer # "send"
    BY <1>1, <1>2 DEF Phases, LockFree, Task
  <2> QED BY <1>1, <2>1 DEF TypeOK, StartTimer
<1> HIDE DEF c0, c, fresh, full
<1>10. android \in BOOLEAN
  BY <1>1 DEF TypeOK
<1>11. CASE full
  <2>1. /\ channel' \in Seq(Batch) /\ Len(channel') <= Capacity
        /\ sending' \in [Task -> Batch \cup {None}]
        /\ sending'["timer"] = None
        /\ Len(channel) < Capacity => sending'["main"] = None
        /\ ~(Len(channel) < Capacity) => sending'["main"] # None /\ channel' # <<>>
        /\ collector' = None
    BY <1>1, <1>2, <1>5, <1>8, <1>11, Consumption DEF Task
  <2>2. main' \in {"select", "send"} /\ timer' \in {"off", "sleep", "lock"}
        /\ heard' = {}
    BY <1>8, <1>9, <1>11
  <2>3. TypeOK'
    BY <1>1, <1>2, <1>10, <2>1, <2>2 DEF TypeOK
  <2>4. Phases'
    BY <1>8, <1>11, <2>1, <2>2 DEF Phases
  <2>5. TimerHasCollector'
    BY <1>8, <1>11, <2>1 DEF TimerHasCollector
  <2>6. NotOverdue' /\ Fed'
    BY <2>1, <2>2 DEF NotOverdue, Fed
  <2> QED BY <2>3, <2>4, <2>5, <2>6 DEF IInv
<1>12. CASE ~full
  <2>1. /\ collector' = c /\ main' = "select" /\ timer' = StartTimer(fresh)
        /\ heard' = heard \cup Heard(message)
        /\ sending' = sending /\ channel' = channel
    BY <1>8, <1>12
  <2>2. TypeOK'
    <3>1. Heard(message) \subseteq {[peer |-> p, offer |-> o, first |-> b] :
                                      p \in Peer, o \in Offer, b \in BOOLEAN}
      BY <1>3, HeardNew
    <3>2. heard' \subseteq {[peer |-> p, offer |-> o, first |-> b] :
                              p \in Peer, o \in Offer, b \in BOOLEAN}
      <4>1. heard \subseteq {[peer |-> p, offer |-> o, first |-> b] :
                              p \in Peer, o \in Offer, b \in BOOLEAN}
        BY <1>1 DEF TypeOK
      <4> QED BY <2>1, <3>1, <4>1
    <3> QED BY <1>1, <1>2, <1>5, <1>9, <1>10, <2>1, <3>2 DEF TypeOK
  <2>3. Phases'
    <3>1. LockFree'
      BY <1>2, <2>1 DEF LockFree
    <3>2. timer' # "send" /\ sending'["timer"] = None /\ sending'["main"] = None
      BY <1>2, <1>9, <2>1 DEF LockFree, Task
    <3> QED BY <2>1, <3>1, <3>2 DEF Phases
  <2>4. TimerHasCollector'
    <3>1. timer' \in {"sleep", "lock"}
      BY <1>1, <2>1 DEF StartTimer, fresh, TimerHasCollector
    <3> QED BY <1>5, <2>1, <3>1 DEF TimerHasCollector
  <2>5. NotOverdue'
    BY <1>7, <1>12, <2>1 DEF NotOverdue
  <2>6. Fed'
    BY <1>5, <1>6, <2>1 DEF Fed, FedBy
  <2> QED BY <2>2, <2>3, <2>4, <2>5, <2>6 DEF IInv
<1> QED BY <1>11, <1>12

LEMMA TimerConsumesStep ==
  ASSUME IInv, TimerConsumes
  PROVE  IInv'
<1>1. TypeOK /\ Phases /\ TimerHasCollector /\ NotOverdue /\ Fed
  BY DEF IInv
<1>2. /\ timer = "lock" /\ LockFree /\ heard' = {}
      /\ android' = android /\ known' = known /\ main' = main
      /\ message' = message /\ offers' = offers
  BY DEF TimerConsumes
<1>3. android \in BOOLEAN
  BY <1>1 DEF TypeOK
<1>4. sending["main"] = None /\ main # "send"
  BY <1>1, <1>2 DEF LockFree, Task, Phases
<1>5. CASE collector = None
  <2>1. /\ timer' = "off" /\ collector' = None
        /\ sending' = sending /\ channel' = channel
    BY <1>5 DEF TimerConsumes
  <2>2. TypeOK'
    BY <1>1, <1>2, <1>3, <2>1 DEF TypeOK
  <2>3. Phases'
    <3>1. sending["timer"] = None
      BY <1>2 DEF LockFree, Task
    <3> QED BY <1>1, <1>2, <1>4, <2>1, <3>1 DEF Phases
  <2> QED BY <1>2, <2>1, <2>2, <2>3 DEF IInv, TimerHasCollector, NotOverdue, Fed
<1>6. CASE collector # None
  <2>1. collector \in Collector
    BY <1>1, <1>6 DEF TypeOK
  <2>2. /\ Consume("timer", collector)
        /\ timer' = IF Len(channel) < Capacity THEN "off" ELSE "send"
    BY <1>6 DEF TimerConsumes
  <2>3. /\ channel' \in Seq(Batch) /\ Len(channel') <= Capacity
        /\ sending' \in [Task -> Batch \cup {None}]
        /\ sending'["main"] = None
        /\ Len(channel) < Capacity => sending'["timer"] = None
        /\ ~(Len(channel) < Capacity) => sending'["timer"] # None
        /\ collector' = None
    BY <1>1, <1>2, <2>1, <2>2, Consumption DEF Task
  <2>4. timer' \in {"off", "send"}
    BY <2>2
  <2>5. TypeOK'
    BY <1>1, <1>2, <1>3, <2>3, <2>4 DEF TypeOK
  <2>6. Phases'
    BY <1>1, <1>2, <1>4, <2>2, <2>3 DEF Phases
  <2>7. TimerHasCollector'
    BY <2>3, <2>4 DEF TimerHasCollector
  <2> QED BY <1>2, <2>3, <2>5, <2>6, <2>7 DEF IInv, NotOverdue, Fed
<1> QED BY <1>5, <1>6

LEMMA SendBatchStep ==
  ASSUME IInv, NEW w \in Task, SendBatch(w)
  PROVE  IInv'
<1>1. TypeOK /\ Phases /\ TimerHasCollector /\ NotOverdue /\ Fed
  BY DEF IInv
<1>2. /\ sending[w] # None /\ Len(channel) < Capacity
      /\ channel' = Append(channel, sending[w])
      /\ sending' = [sending EXCEPT ![w] = None]
      /\ timer' = "off" /\ main' = IF w = "main" THEN "select" ELSE main
      /\ android' = android /\ known' = known /\ collector' = collector
      /\ message' = message /\ offers' = offers /\ heard' = heard
  BY DEF SendBatch
<1>3. android \in BOOLEAN
  BY <1>1 DEF TypeOK
<1>4. collector = None
  BY <1>1, <1>2 DEF Phases, LockFree
<1>5. sending'["main"] = None /\ sending'["timer"] = None
  BY <1>1, <1>2 DEF Phases, TypeOK, Task
<1>6. main' # "send" /\ (main' = "lock" => main = "lock")
  BY <1>1, <1>2 DEF Phases, Task
<1>7. TypeOK'
  <2>1. channel \in Seq(Batch) /\ Len(channel) \in Nat /\ sending[w] \in Batch
    BY <1>1, <1>2, LenProperties DEF TypeOK
  <2>2. channel' \in Seq(Batch) /\ Len(channel') = Len(channel) + 1
    BY <1>2, <2>1, AppendProperties
  <2>3. Len(channel') <= Capacity
    BY <1>2, <2>1, <2>2 DEF Capacity
  <2>4. sending' \in [Task -> Batch \cup {None}]
    BY <1>1, <1>2 DEF TypeOK
  <2>5. main' \in {"select", "lock", "send"}
    BY <1>1, <1>2 DEF TypeOK
  <2> QED BY <1>1, <1>2, <1>3, <2>2, <2>3, <2>4, <2>5 DEF TypeOK
<1>8. Phases'
  BY <1>1, <1>2, <1>4, <1>5, <1>6 DEF Phases
<1> QED BY <1>2, <1>1, <1>4, <1>7, <1>8 DEF IInv, TimerHasCollector, NotOverdue, Fed

LEMMA Invariance == IInv /\ [Next]_vars => IInv'
<1> SUFFICES ASSUME IInv, [Next]_vars PROVE IInv'
  OBVIOUS
<1>1. TypeOK /\ Phases /\ TimerHasCollector /\ NotOverdue /\ Fed
  BY DEF IInv
<1>2. android \in BOOLEAN
  BY <1>1 DEF TypeOK
<1>3. ASSUME NEW p \in Peer, PeerAdded(p) \/ PeerRemoved(p)
      PROVE  IInv'
  <2>1. /\ known' \subseteq Peer
        /\ UNCHANGED <<android, collector, main, message, timer, sending, channel,
                       offers, heard>>
    BY <1>1, <1>3 DEF PeerAdded, PeerRemoved, TableStep, TypeOK
  <2>2. TypeOK'
    BY <1>1, <1>2, <2>1 DEF TypeOK
  <2>3. Phases' /\ TimerHasCollector' /\ NotOverdue'
    BY <1>1, <2>1 DEF Phases, LockFree, TimerHasCollector, NotOverdue
  <2> QED BY <1>1, <2>1, <2>2, <2>3 DEF IInv, Fed, FedBy
<1>4. ASSUME NEW m \in Message, ReceiveOffer(m)
      PROVE  IInv'
  <2>1. /\ main = "select" /\ main' = "lock" /\ message' = m
        /\ offers < MaxOffers /\ offers' = offers + 1
        /\ UNCHANGED <<android, known, collector, timer, sending, channel, heard>>
    BY <1>4 DEF ReceiveOffer
  <2>2. m # None
    BY NoneAssumption
  <2>3. TypeOK'
    <3>1. offers' \in 0..MaxOffers
      BY <1>1, <2>1, SyncOfferAssumption DEF TypeOK
    <3> QED BY <1>1, <1>2, <2>1, <3>1 DEF TypeOK
  <2>4. Phases' /\ TimerHasCollector' /\ NotOverdue'
    BY <1>1, <2>1, <2>2 DEF Phases, LockFree, TimerHasCollector, NotOverdue
  <2> QED BY <1>1, <2>1, <2>3, <2>4 DEF IInv, Fed, FedBy
<1>5. CASE TimerWakes
  <2>1. /\ timer = "sleep" /\ timer' = "lock"
        /\ UNCHANGED <<android, known, collector, main, message, sending, channel,
                       offers, heard>>
    BY <1>5 DEF TimerWakes
  <2>2. TypeOK'
    BY <1>1, <1>2, <2>1 DEF TypeOK
  <2>3. Phases' /\ TimerHasCollector' /\ NotOverdue'
    BY <1>1, <2>1 DEF Phases, LockFree, TimerHasCollector, NotOverdue
  <2> QED BY <1>1, <2>1, <2>2, <2>3 DEF IInv, Fed, FedBy
<1>6. CASE HandleBatch
  <2>1. Tail(channel) \in Seq(Batch) /\ Len(Tail(channel)) <= Capacity
        /\ channel' = Tail(channel)
    BY <1>1, <1>6, BatchTaken DEF HandleBatch
  <2> QED BY <1>6, <2>1, Dropped DEF HandleBatch
<1>7. CASE ClientEventWins
  <2>1. channel' = channel /\ channel \in Seq(Batch) /\ Len(channel) <= Capacity
    BY <1>1, <1>7 DEF ClientEventWins, TypeOK
  <2> QED BY <1>7, <2>1, Dropped DEF ClientEventWins
<1>8. CASE UNCHANGED vars
  <2>1. UNCHANGED <<android, known, collector, main, message, timer, sending, channel,
                    offers, heard>>
    BY <1>8 DEF vars
  <2>2. TypeOK'
    BY <1>1, <1>2, <2>1 DEF TypeOK
  <2>3. Phases' /\ TimerHasCollector' /\ NotOverdue'
    BY <1>1, <2>1 DEF Phases, LockFree, TimerHasCollector, NotOverdue
  <2> QED BY <1>1, <2>1, <2>2, <2>3 DEF IInv, Fed, FedBy
<1> QED BY <1>3, <1>4, <1>5, <1>6, <1>7, <1>8, HandleOfferStep,
           TimerConsumesStep, SendBatchStep DEF Next

-----------------------------------------------------------------------------
(* The theorems.                                                           *)

(* Every collector has a timer of its own that finds it, and its count does*)
(* not jump over the number of offers it waits for, for any number of peers*)
(* and files and offer lists of any length (SyncOfferCollector::insert,    *)
(* handle_gossipsub).                                                      *)
THEOREM CollectorsHaveTimers == Spec => []OfferInv
<1>1. IInv => OfferInv
  BY DEF IInv, OfferInv
<1> QED BY <1>1, InitInv, Invariance, PTL DEF Spec

(* The lock is held across an await only by a task that waits behind a     *)
(* batch nobody has read yet, and by one task at a time                    *)
(* (SyncOfferCollector::consume, handle_sync_offers).                      *)
THEOREM OnlyABatchHoldsUp == Spec => []StuckOnlyBehindBatch
<1>1. IInv => StuckOnlyBehindBatch
  <2> SUFFICES ASSUME IInv PROVE StuckOnlyBehindBatch
    OBVIOUS
  <2>1. Phases
    BY DEF IInv
  <2>2. ~LockFree => main = "send" \/ timer = "send"
    BY <2>1 DEF Phases, LockFree, Task
  <2> QED BY <2>1, <2>2 DEF StuckOnlyBehindBatch, Phases, Task
<1> QED BY <1>1, InitInv, Invariance, PTL DEF Spec

(* Whoever is turned to for a file has offered the version that is kept as *)
(* the first of its offers, and no peer had a newer one for the first of   *)
(* its own, however long their lists are and in whatever order they come   *)
(* (SyncOfferCollector::insert).                                           *)
THEOREM NewestOffersWin == Spec => []NewestIsKept
<1>1. IInv => NewestIsKept
  <2> SUFFICES ASSUME IInv, collector # None, NEW h \in heard, h.first
               PROVE  LET kept == collector.best[h.offer.file] IN
                      /\ kept # None
                      /\ kept.version >= h.offer.version
                      /\ \E g \in heard : g.first /\ g.peer = kept.peer /\ g.offer =
                           [file |-> h.offer.file, version |-> kept.version]
    BY DEF NewestIsKept
  <2>1. TypeOK /\ FedBy(collector, heard)
    BY DEF IInv, Fed
  <2>2. h.offer.file \in File
    BY <2>1, HeardType
  <2> QED BY <2>1, <2>2 DEF FedBy
<1> QED BY <1>1, InitInv, Invariance, PTL DEF Spec

=============================================================================

--------------------------- MODULE PeerViewProofs ---------------------------
(***************************************************************************)
(* Proofs about PeerView, for any peers, clients and room for events:      *)
(*                                                                         *)
(*   ListsAreExplained     what a client shows is the table, but for what  *)
(*                         nobody has told it                              *)
(*   BlockedIsNeverKept    the types, and no list shows Blocked for long   *)
(*                                                                         *)
(* The invariant adds that the last event on its way to a client is a list *)
(* that could be sent now (LastIsList), and that a client the daemon does  *)
(* not know has nothing to ask for but that list (Strangers).              *)
(***************************************************************************)
EXTENDS PeerView, SequenceTheorems, TLAPS

-----------------------------------------------------------------------------
(* The inductive invariant.                                                *)

(* Nothing in the table of the daemon is Blocked, nor in a list it sends.  *)
Unblocked == {e \in Entry : e.state # "Blocked"}
Sound == [Peer -> Unblocked \cup {Absent}]
Sent == ({"PeerList"} \X Sound) \cup ({"InComingVerify"} \X Peer)
          \cup ({"VerifyResult"} \X Peer \X BOOLEAN)

Types ==
  /\ table \in Sound
  /\ attached \subseteq Client
  /\ events \in [Client -> Seq(Sent)]
  /\ asks \in [Client -> Seq(Ask)]
  /\ \A c \in Client : Len(events[c]) <= Room /\ Len(asks[c]) <= Room
  /\ view \in [Client -> Table]
  /\ prompt \in [Client -> Peer \cup {Nobody}]
  /\ steps \in 0..MaxSteps
  /\ quiet \subseteq Peer

(* A client the daemon does not know is told nothing: it shows nothing, so *)
(* that it can ask for the list only.                                      *)
Stranger(c) ==
  /\ events[c] = <<>>
  /\ view[c] = Unknown
  /\ prompt[c] = Nobody
  /\ \A i \in DOMAIN asks[c] : asks[c][i] = <<"RequestPeerList">>

Strangers == \A c \in Client \ attached : Stranger(c)

(* T tells what the table holds, but for what changed without telling.     *)
Tells(T) == \A p \in Peer : T[p] = table[p] \/ p \in quiet

(* Behind everything else the table comes.                                 *)
LastIsList ==
  \A c \in Client : events[c] # <<>> =>
    \E T \in Sound : /\ events[c][Len(events[c])] = <<"PeerList", T>>
                     /\ Tells(T)

IInv == Types /\ Strangers /\ LastIsList /\ BlockedIsPassing /\ ViewExplained

-----------------------------------------------------------------------------
(* What requests, events and entries there are.                            *)

LEMMA AskForms ==
  ASSUME NEW ask \in Ask
  PROVE  \/ ask = <<"RequestPeerList">>
         \/ \E p \in Peer : ask = <<"RequestVerify", p>> \/ ask = <<"DisconnectPeer", p>>
         \/ \E p \in Peer, yes \in BOOLEAN : ask = <<"VerifyConfirm", p, yes>>
BY DEF Ask

LEMMA SentForms ==
  ASSUME NEW e \in Sent
  PROVE  \/ \E T \in Sound : e = <<"PeerList", T>>
         \/ \E p \in Peer : e = <<"InComingVerify", p>>
         \/ \E p \in Peer, accept \in BOOLEAN : e = <<"VerifyResult", p, accept>>
BY DEF Sent

LEMMA Entries ==
  /\ NewPeer \in Unblocked
  /\ [NewPeer EXCEPT !.named = TRUE] \in Unblocked
  /\ [NewPeer EXCEPT !.state = "Verified"] \in Unblocked
BY DEF NewPeer, Unblocked, Entry

LEMMA EntryChanges ==
  ASSUME NEW e \in Entry
  PROVE  /\ [e EXCEPT !.state = "Verified"] \in Unblocked
         /\ [e EXCEPT !.state = "Blocked"] \in Entry
         /\ [e EXCEPT !.named = TRUE] \in Entry
         /\ e \in Unblocked => [e EXCEPT !.named = TRUE] \in Unblocked
BY DEF Unblocked, Entry

LEMMA SoundIsTable == Sound \subseteq Table
BY DEF Sound, Table, Unblocked

(* s with es and a list behind it.                                         *)
LEMMA Behind ==
  ASSUME NEW s \in Seq(Sent), NEW es \in Seq(Sent), NEW T \in Sound
  PROVE  LET t == s \o es \o << <<"PeerList", T>> >> IN
         /\ t \in Seq(Sent) /\ t # <<>>
         /\ Len(t) = Len(s) + Len(es) + 1
         /\ t[Len(t)] = <<"PeerList", T>>
<1> DEFINE x == <<"PeerList", T>>
           u == s \o es
           t == Append(u, x)
<1>1. x \in Sent
  BY DEF Sent
<1>2. u \in Seq(Sent) /\ Len(u) = Len(s) + Len(es)
  BY ConcatProperties
<1> HIDE DEF x, u
<1>3. u \o <<x>> = t
  BY <1>1, <1>2, AppendIsConcat
<1>4. /\ t \in Seq(Sent) /\ Len(t) = Len(u) + 1 /\ t[Len(t)] = x /\ t # <<>>
  <2>1. t \in Seq(Sent) /\ Len(t) = Len(u) + 1 /\ t[Len(u) + 1] = x
    BY <1>1, <1>2, AppendProperties
  <2>2. Len(u) \in Nat
    BY <1>2, LenProperties
  <2>3. t # <<>>
    BY <2>1, <2>2, EmptySeq
  <2> QED BY <2>1, <2>3
<1> HIDE DEF t
<1> QED BY <1>2, <1>3, <1>4 DEF u, x

(* There is room for es and a list behind it on the way to each of A.      *)
RoomFor(A, es) == \A c \in A : Len(events[c]) + Len(es) + 1 <= Room

LEMMA Telling ==
  ASSUME Types, NEW A \in SUBSET Client, NEW es \in Seq(Sent), table' \in Sound,
         RoomFor(A, es), TellThenSendPeers(A, es)
  PROVE  /\ events' \in [Client -> Seq(Sent)]
         /\ \A c \in Client : Len(events'[c]) <= Room
         /\ \A c \in A : events'[c] # <<>> /\
              events'[c][Len(events'[c])] = <<"PeerList", table'>>
         /\ \A c \in Client \ A : events'[c] = events[c]
         /\ quiet' = {}
<1>1. events \in [Client -> Seq(Sent)] /\ \A c \in Client : Len(events[c]) <= Room
  BY DEF Types
<1>2. events' = [c \in Client |-> IF c \in A
                   THEN events[c] \o es \o << <<"PeerList", table'>> >> ELSE events[c]]
      /\ quiet' = {}
  BY DEF TellThenSendPeers
<1>3. ASSUME NEW c \in A
      PROVE  /\ events'[c] \in Seq(Sent) /\ Len(events'[c]) <= Room
             /\ events'[c] # <<>>
             /\ events'[c][Len(events'[c])] = <<"PeerList", table'>>
  <2>1. events[c] \in Seq(Sent) /\ c \in Client
    BY <1>1
  <2>2. events'[c] = events[c] \o es \o << <<"PeerList", table'>> >>
    BY <1>2, <2>1
  <2>3. Len(events[c]) + Len(es) + 1 <= Room
    BY DEF RoomFor
  <2> QED BY <2>1, <2>2, <2>3, Behind
<1>4. ASSUME NEW c \in Client \ A
      PROVE  events'[c] = events[c]
  BY <1>2
<1>5. events' \in [Client -> Seq(Sent)]
  <2>1. DOMAIN events' = Client /\ events' = [c \in Client |-> events'[c]]
    BY <1>2
  <2>2. \A c \in Client : events'[c] \in Seq(Sent)
    BY <1>1, <1>3, <1>4
  <2> QED BY <2>1, <2>2
<1> QED BY <1>1, <1>2, <1>3, <1>4, <1>5

-----------------------------------------------------------------------------
(* The steps of the daemon.                                                *)

(* Every client the daemon knows is told.                                  *)
LEMMA ToldPreserves ==
  ASSUME IInv, table' \in Sound, steps' \in 0..MaxSteps,
         NEW A \in SUBSET Client, attached \subseteq A, attached' = A,
         asks' \in [Client -> Seq(Ask)],
         \A c \in Client : Len(asks'[c]) <= Room,
         \A c \in Client \ A : asks'[c] = asks[c],
         UNCHANGED <<view, prompt>>,
         NEW es \in Seq(Sent), RoomFor(A, es), TellThenSendPeers(A, es)
  PROVE  IInv'
<1>1. Types /\ Strangers /\ LastIsList /\ BlockedIsPassing /\ ViewExplained
  BY DEF IInv
<1>2. /\ events' \in [Client -> Seq(Sent)]
      /\ \A c \in Client : Len(events'[c]) <= Room
      /\ \A c \in attached' : events'[c] # <<>> /\
           events'[c][Len(events'[c])] = <<"PeerList", table'>>
      /\ \A c \in Client \ attached' : events'[c] = events[c]
      /\ quiet' = {}
  BY <1>1, Telling
<1>3. Types'
  BY <1>1, <1>2 DEF Types
<1>4. ASSUME NEW c \in Client \ attached'
      PROVE  Stranger(c)'
  <2>1. Stranger(c)
    BY <1>1 DEF Strangers
  <2> QED BY <1>2, <2>1 DEF Stranger
<1>5. Strangers'
  BY <1>4 DEF Strangers
<1>6. LastIsList'
  <2> SUFFICES ASSUME NEW c \in Client, events'[c] # <<>>
               PROVE  \E T \in Sound : /\ events'[c][Len(events'[c])] = <<"PeerList", T>>
                                       /\ Tells(T)'
    BY DEF LastIsList
  <2>1. c \in attached'
    BY <1>4 DEF Stranger
  <2> QED BY <1>2, <2>1 DEF Tells
<1>7. BlockedIsPassing'
  <2> SUFFICES ASSUME NEW c \in Client, events'[c] = <<>>, NEW p \in Peer,
                      view[c][p] # Absent
               PROVE  view[c][p].state # "Blocked"
    BY DEF BlockedIsPassing
  <2>1. c \in Client \ attached'
    BY <1>2
  <2>2. events[c] = <<>>
    BY <1>2, <2>1
  <2> QED BY <1>1, <2>2 DEF BlockedIsPassing
<1>8. ViewExplained'
  BY <1>2 DEF ViewExplained
<1> QED BY <1>3, <1>5, <1>6, <1>7, <1>8 DEF IInv

(* What the handlers make of a table of unblocked entries.                 *)
LEMMA Tables ==
  ASSUME table \in Sound
  PROVE  /\ \A S \in SUBSET Peer : AddPeers(S) => table' \in Sound
         /\ \A S \in SUBSET Peer : RemovePeers(S) => table' \in Sound
         /\ \A p \in Peer, e \in Unblocked : [table EXCEPT ![p] = e] \in Sound
         /\ \A p \in Peer : table[p] # Absent =>
              [table EXCEPT ![p].named = TRUE] \in Sound
         /\ \A p \in Peer, accept \in BOOLEAN : Answered(p, accept) => table' \in Sound
<1>1. \A S \in SUBSET Peer : AddPeers(S) => table' \in Sound
  BY Entries DEF AddPeers, Sound
<1>2. \A S \in SUBSET Peer : RemovePeers(S) => table' \in Sound
  BY DEF RemovePeers, Sound
<1>3. \A p \in Peer, e \in Unblocked : [table EXCEPT ![p] = e] \in Sound
  BY DEF Sound
<1>4. ASSUME NEW p \in Peer, table[p] # Absent
      PROVE  [table EXCEPT ![p].named = TRUE] \in Sound
  <2> DEFINE new == [table[p] EXCEPT !.named = TRUE]
  <2>1. table[p] \in Unblocked /\ table[p] \in Entry
    BY <1>4 DEF Sound, Unblocked
  <2>2. new \in Unblocked
    BY <2>1, EntryChanges
  <2>3. [table EXCEPT ![p].named = TRUE] = [table EXCEPT ![p] = new]
    OBVIOUS
  <2> HIDE DEF new
  <2> QED BY <1>3, <2>2, <2>3
<1>5. ASSUME NEW p \in Peer, NEW accept \in BOOLEAN, Answered(p, accept)
      PROVE  table' \in Sound
  <2>1. CASE table[p] = Absent
    BY <1>5, <2>1 DEF Answered
  <2>2. CASE table[p] # Absent
    <3> DEFINE named == [table[p] EXCEPT !.named = TRUE]
               new == [named EXCEPT !.state = IF accept THEN "Verified" ELSE @]
    <3>1. table[p] \in Unblocked /\ table[p] \in Entry
      BY <2>2 DEF Sound, Unblocked
    <3>2. named \in Unblocked /\ named \in Entry
      BY <3>1, EntryChanges
    <3>3. new \in Unblocked
      <4> HIDE DEF named
      <4>1. CASE accept
        <5>1. new = [named EXCEPT !.state = "Verified"]
          BY <4>1
        <5> QED BY <3>2, <5>1, EntryChanges
      <4>2. CASE ~accept
        <5>1. new = named
          BY <3>2, <4>2 DEF Entry
        <5> QED BY <3>2, <5>1
      <4> QED BY <4>1, <4>2
    <3>4. table' = [table EXCEPT ![p] = new]
      <4>1. table' = [table EXCEPT ![p].named = TRUE,
                        ![p].state = IF accept THEN "Verified" ELSE @]
        BY <1>5, <2>2 DEF Answered
      <4> QED BY <4>1 DEF Sound
    <3> HIDE DEF new
    <3> QED BY <1>3, <3>3, <3>4
  <2> QED BY <2>1, <2>2
<1> QED BY <1>1, <1>2, <1>3, <1>4, <1>5

(* A handler that tells the clients it knows, and changes nothing else of  *)
(* theirs.                                                                 *)
LEMMA TellingStep ==
  ASSUME IInv, NEW es \in Seq(Sent), NEW n \in Nat, n = Len(es) + 1, Step(n),
         table' \in Sound, TellThenSendPeers(attached, es),
         UNCHANGED <<attached, asks, view, prompt>>
  PROVE  IInv'
<1>1. Types
  BY DEF IInv
<1>2. steps' \in 0..MaxSteps
  BY <1>1, PeerViewAssumption DEF Step, Types
<1>3. \A c \in attached : Len(events[c]) + Len(es) + 1 <= Room
  <2> SUFFICES ASSUME NEW c \in attached
               PROVE  Len(events[c]) + Len(es) + 1 <= Room
    OBVIOUS
  <2>1. events[c] \in Seq(Sent) /\ Len(events[c]) + n <= Room
    BY <1>1 DEF Types, Step
  <2>2. Len(events[c]) \in Nat /\ Len(es) \in Nat /\ Room \in Nat
    BY <2>1, LenProperties, PeerViewAssumption
  <2> DEFINE a == Len(events[c])
             b == Len(es)
  <2>3. a \in Nat /\ b \in Nat /\ Room \in Nat /\ n = b + 1 /\ a + n <= Room
    BY <2>1, <2>2
  <2>4. a + b + 1 <= Room
    <3> HIDE DEF a, b
    <3> QED BY <2>3
  <2> QED BY <2>4, Zenon
<1>6. RoomFor(attached', es)
  BY <1>3 DEF RoomFor
<1>4. RoomFor(attached, es)
  BY <1>3 DEF RoomFor
<1>5. /\ asks' \in [Client -> Seq(Ask)]
      /\ \A c \in Client : Len(asks'[c]) <= Room
      /\ attached \subseteq Client
  BY <1>1 DEF Types
<1>7. PICK A \in SUBSET Client : A = attached
  BY <1>5
<1> QED BY <1>2, <1>4, <1>5, <1>6, <1>7, ToldPreserves

LEMMA SmallTales ==
  ASSUME NEW e \in Sent
  PROVE  /\ <<>> \in Seq(Sent) /\ 1 = Len(<<>>) + 1
         /\ <<e>> \in Seq(Sent) /\ 2 = Len(<<e>>) + 1
OBVIOUS

LEMMA PeerSteps ==
  ASSUME IInv,
         \/ \E S \in SUBSET Peer \ {{}} : Discovered(S) \/ Expired(S)
         \/ \E p \in Peer :
              \/ GossipsubNotSupported(p)
              \/ ReceiveHostname(p)
              \/ ReceiveRequest(p)
              \/ \E accept \in BOOLEAN : ReceiveResponse(p, accept)
  PROVE  IInv'
<1>1. Types /\ table \in Sound
  BY DEF IInv, Types
<1>2. <<>> \in Seq(Sent) /\ 1 = Len(<<>>) + 1
  BY EmptySeq
<1>3. ASSUME NEW S \in SUBSET Peer, Discovered(S) \/ Expired(S)
      PROVE  IInv'
  <2>1. table' \in Sound
    BY <1>1, <1>3, Tables DEF Discovered, Expired
  <2> QED BY <1>2, <1>3, <2>1, TellingStep DEF Discovered, Expired
<1>4. ASSUME NEW p \in Peer, GossipsubNotSupported(p)
      PROVE  IInv'
  <2>1. table' \in Sound
    BY <1>1, <1>4, Tables DEF GossipsubNotSupported
  <2> QED BY <1>2, <1>4, <2>1, TellingStep DEF GossipsubNotSupported
<1>5. ASSUME NEW p \in Peer, ReceiveHostname(p)
      PROVE  IInv'
  <2>1. CASE table[p] # Absent
    <3>1. table' \in Sound
      BY <1>1, <1>5, <2>1, Tables DEF ReceiveHostname
    <3> QED BY <1>2, <1>5, <2>1, <3>1, TellingStep DEF ReceiveHostname
  <2>2. CASE table[p] = Absent
    <3>1. UNCHANGED <<table, attached, events, asks, view, prompt, quiet>>
      BY <1>5, <2>2 DEF ReceiveHostname
    <3>2. steps' \in 0..MaxSteps
      BY <1>1, <1>5, PeerViewAssumption DEF ReceiveHostname, Step, Types
    <3> QED BY <3>1, <3>2, ZenonT(30) DEF IInv, Types, Strangers, Stranger, LastIsList, Tells,
                              BlockedIsPassing, ViewExplained
  <2> QED BY <2>1, <2>2
<1>6. ASSUME NEW p \in Peer, ReceiveRequest(p)
      PROVE  IInv'
  <2> DEFINE es == << <<"InComingVerify", p>> >>
  <2>1. table' \in Sound
    BY <1>1, <1>6, Tables, Entries DEF ReceiveRequest
  <2>2. es \in Seq(Sent) /\ 2 = Len(es) + 1
    <3>1. <<"InComingVerify", p>> \in Sent
      BY DEF Sent
    <3> QED BY <3>1, SmallTales
  <2>3. TellThenSendPeers(attached, es) /\ Step(2)
        /\ UNCHANGED <<attached, asks, view, prompt>>
    BY <1>6 DEF ReceiveRequest
  <2> HIDE DEF es
  <2> QED BY <2>1, <2>2, <2>3, TellingStep
<1>7. ASSUME NEW p \in Peer, NEW accept \in BOOLEAN, ReceiveResponse(p, accept)
      PROVE  IInv'
  <2> DEFINE es == << <<"VerifyResult", p, accept>> >>
  <2>1. table' \in Sound
    BY <1>1, <1>7, Tables DEF ReceiveResponse
  <2>2. es \in Seq(Sent) /\ 2 = Len(es) + 1
    <3>1. <<"VerifyResult", p, accept>> \in Sent
      BY DEF Sent
    <3> QED BY <3>1, SmallTales
  <2>3. TellThenSendPeers(attached, es) /\ Step(2)
        /\ UNCHANGED <<attached, asks, view, prompt>>
    BY <1>7 DEF ReceiveResponse
  <2> HIDE DEF es
  <2> QED BY <2>1, <2>2, <2>3, TellingStep
<1> QED BY <1>3, <1>4, <1>5, <1>6, <1>7

(* A request is taken from those of its client.                            *)
LEMMA AskTaken ==
  ASSUME Types, NEW c \in Client, asks[c] # <<>>,
         asks' = [asks EXCEPT ![c] = Tail(@)]
  PROVE  /\ asks' \in [Client -> Seq(Ask)]
         /\ \A d \in Client : Len(asks'[d]) <= Room
         /\ \A d \in Client \ {c} : asks'[d] = asks[d]
         /\ Head(asks[c]) \in Ask /\ Head(asks[c]) = asks[c][1] /\ 1 \in DOMAIN asks[c]
         /\ \A i \in DOMAIN asks[c] :
              asks[c][i] = Head(asks[c]) \/ \E j \in DOMAIN asks'[c] : asks'[c][j] = asks[c][i]
<1>1. asks \in [Client -> Seq(Ask)] /\ \A d \in Client : Len(asks[d]) <= Room
  BY DEF Types
<1>2. asks[c] \in Seq(Ask) /\ asks'[c] = Tail(asks[c])
  BY <1>1
<1> DEFINE s == asks[c]
<1>3. s \in Seq(Ask) /\ s # <<>> /\ Len(s) <= Room /\ Len(s) \in Nat
      /\ DOMAIN s = 1..Len(s)
  BY <1>1, <1>2, LenProperties
<1>4. /\ Tail(s) \in Seq(Ask) /\ Len(Tail(s)) = Len(s) - 1
      /\ Head(s) \in Ask /\ Head(s) = s[1]
      /\ \A i \in 1..Len(Tail(s)) : Tail(s)[i] = s[i + 1]
  <2> HIDE DEF s
  <2> QED BY <1>3, HeadTailProperties
<1>5. Len(s) # 0
  <2> HIDE DEF s
  <2> QED BY <1>3, EmptySeq
<1> HIDE DEF s
<1>6. 1 \in DOMAIN s /\ Len(Tail(s)) <= Room /\ DOMAIN Tail(s) = 1..(Len(s) - 1)
  <2>1. DOMAIN Tail(s) = 1..Len(Tail(s))
    BY <1>4, LenProperties
  <2> QED BY <1>3, <1>4, <1>5, <2>1, PeerViewAssumption
<1>7. ASSUME NEW i \in DOMAIN s
      PROVE  s[i] = Head(s) \/ \E j \in DOMAIN Tail(s) : Tail(s)[j] = s[i]
  <2>1. i \in 1..Len(s) /\ i \in Nat
    BY <1>3
  <2>2. CASE i = 1
    BY <1>4, <2>2
  <2>3. CASE i # 1
    <3>1. i - 1 \in 1..(Len(s) - 1) /\ (i - 1) + 1 = i
      BY <1>3, <2>1, <2>3
    <3>2. i - 1 \in DOMAIN Tail(s) /\ Tail(s)[i - 1] = s[i]
      BY <1>4, <1>6, <3>1
    <3> QED BY <3>2
  <2> QED BY <2>2, <2>3
<1>8. asks' \in [Client -> Seq(Ask)] /\ \A d \in Client \ {c} : asks'[d] = asks[d]
  BY <1>1, <1>4 DEF s
<1>9. ASSUME NEW d \in Client
      PROVE  Len(asks'[d]) <= Room
  BY <1>1, <1>2, <1>6, <1>8 DEF s
<1> QED BY <1>2, <1>4, <1>6, <1>7, <1>8, <1>9 DEF s

(* Nobody is told: what changes in the table is noted as quiet.            *)
LEMMA UntoldPreserves ==
  ASSUME IInv, NEW c \in attached, asks[c] # <<>>, steps' \in 0..MaxSteps,
         asks' = [asks EXCEPT ![c] = Tail(@)],
         table' \in Sound, quiet \subseteq quiet', quiet' \subseteq Peer,
         \A p \in Peer : table'[p] = table[p] \/ p \in quiet',
         \A p \in Peer : Head(asks[c]) = <<"VerifyConfirm", p, TRUE>> => p \in quiet',
         UNCHANGED <<attached, events, view, prompt>>
  PROVE  IInv'
<1>1. Types /\ Strangers /\ LastIsList /\ BlockedIsPassing /\ ViewExplained
      /\ c \in Client
  BY DEF IInv, Types
<1>2. /\ asks' \in [Client -> Seq(Ask)]
      /\ \A d \in Client : Len(asks'[d]) <= Room
      /\ \A d \in Client \ {c} : asks'[d] = asks[d]
      /\ \A i \in DOMAIN asks[c] :
           asks[c][i] = Head(asks[c]) \/ \E j \in DOMAIN asks'[c] : asks'[c][j] = asks[c][i]
  BY <1>1, AskTaken
<1>3. Types'
  BY <1>1, <1>2 DEF Types
<1>4. Strangers'
  BY <1>1, <1>2 DEF Strangers, Stranger
<1>5. LastIsList'
  <2> SUFFICES ASSUME NEW d \in Client, events[d] # <<>>
               PROVE  \E T \in Sound : /\ events[d][Len(events[d])] = <<"PeerList", T>>
                                       /\ Tells(T)'
    BY DEF LastIsList
  <2>1. PICK T \in Sound : /\ events[d][Len(events[d])] = <<"PeerList", T>>
                           /\ Tells(T)
    BY <1>1 DEF LastIsList
  <2>2. Tells(T)'
    BY <2>1 DEF Tells
  <2> QED BY <2>1, <2>2
<1>6. BlockedIsPassing'
  BY <1>1 DEF BlockedIsPassing
<1>7. ViewExplained'
  <2> SUFFICES ASSUME NEW d \in attached, events[d] = <<>>, NEW p \in Peer
               PROVE  \/ view[d][p] = table'[p]
                      \/ p \in quiet'
                      \/ \E i \in DOMAIN asks'[d] : asks'[d][i] = <<"VerifyConfirm", p, TRUE>>
    BY DEF ViewExplained
  <2>1. \/ view[d][p] = table[p]
        \/ p \in quiet
        \/ \E i \in DOMAIN asks[d] : asks[d][i] = <<"VerifyConfirm", p, TRUE>>
    BY <1>1 DEF ViewExplained
  <2>2. ASSUME NEW i \in DOMAIN asks[d], asks[d][i] = <<"VerifyConfirm", p, TRUE>>
        PROVE  p \in quiet' \/
                 \E j \in DOMAIN asks'[d] : asks'[d][j] = <<"VerifyConfirm", p, TRUE>>
    <3>1. CASE d = c
      <4>1. CASE asks[c][i] = Head(asks[c])
        BY <2>2, <3>1, <4>1
      <4>2. CASE \E j \in DOMAIN asks'[c] : asks'[c][j] = asks[c][i]
        BY <2>2, <3>1, <4>2
      <4>3. i \in DOMAIN asks[c]
        BY <3>1
      <4> QED BY <1>2, <4>1, <4>2, <4>3
    <3>2. CASE d # c
      <4>1. asks'[d] = asks[d]
        BY <1>1, <1>2, <3>2 DEF Types
      <4> QED BY <2>2, <4>1
    <3> QED BY <3>1, <3>2
  <2> QED BY <2>1, <2>2
<1> QED BY <1>3, <1>4, <1>5, <1>6, <1>7 DEF IInv

LEMMA HandleAskStep ==
  ASSUME IInv, NEW c \in Client, HandleAsk(c)
  PROVE  IInv'
<1>1. Types /\ Strangers /\ table \in Sound /\ quiet \subseteq Peer
      /\ attached \subseteq Client
  BY DEF IInv, Types
<1> DEFINE ask == Head(asks[c])
<1>2. /\ Step(1) /\ asks[c] # <<>> /\ asks' = [asks EXCEPT ![c] = Tail(@)]
      /\ attached' = attached \cup {c}
      /\ UNCHANGED <<view, prompt>>
  BY DEF HandleAsk
<1>3. /\ asks' \in [Client -> Seq(Ask)]
      /\ \A d \in Client : Len(asks'[d]) <= Room
      /\ \A d \in Client \ {c} : asks'[d] = asks[d]
      /\ ask \in Ask /\ ask = asks[c][1] /\ 1 \in DOMAIN asks[c]
  BY <1>1, <1>2, AskTaken
<1>4. steps' \in 0..MaxSteps
  BY <1>1, <1>2, PeerViewAssumption DEF Step, Types
<1>5. c \notin attached => Stranger(c)
  BY <1>1 DEF Strangers
<1>6. ask # <<"RequestPeerList">> => c \in attached
  BY <1>3, <1>5 DEF Stranger
<1>7. \/ /\ ask[1] = "RequestPeerList"
         /\ UNCHANGED table
         /\ TellThenSendPeers(attached', <<>>)
      \/ /\ ask[1] = "RequestVerify"
         /\ UNCHANGED <<table, events, quiet>>
      \/ /\ ask[1] = "DisconnectPeer"
         /\ RemovePeers({ask[2]})
         /\ quiet' = quiet \cup {ask[2]}
         /\ UNCHANGED events
      \/ /\ ask[1] = "VerifyConfirm"
         /\ IF ask[3]
              THEN /\ table' = [table EXCEPT
                                  ![ask[2]] = [NewPeer EXCEPT !.state = "Verified"]]
                   /\ quiet' = quiet \cup {ask[2]}
              ELSE UNCHANGED <<table, quiet>>
         /\ UNCHANGED events
  BY DEF HandleAsk
<1> HIDE DEF ask
<1>8. CASE ask = <<"RequestPeerList">>
  <2>1. table' = table /\ TellThenSendPeers(attached', <<>>)
    BY <1>7, <1>8
  <2>2. <<>> \in Seq(Sent) /\ Len(<<>>) = 0
    BY EmptySeq
  <2>3. ASSUME NEW d \in attached'
        PROVE  Len(events[d]) + Len(<<>>) + 1 <= Room
    <3>1. CASE d \in attached
      <4>1. events[d] \in Seq(Sent) /\ Len(events[d]) + 1 <= Room
        BY <1>1, <1>2, <3>1 DEF Step, Types
      <4>2. Len(events[d]) \in Nat
        BY <4>1, LenProperties
      <4> QED BY <2>2, <4>1, <4>2
    <3>2. CASE d \notin attached
      <4>1. events[d] = <<>>
        BY <1>2, <1>5, <3>2 DEF Stranger
      <4> QED BY <2>2, <4>1, PeerViewAssumption
    <3> QED BY <3>1, <3>2
  <2>4. PICK A \in SUBSET Client : A = attached \cup {c}
    BY <1>1
  <2>5. PICK es \in Seq(Sent) : es = <<>>
    BY <2>2
  <2>6. TellThenSendPeers(A, es) /\ RoomFor(A, es)
    BY <1>2, <2>1, <2>3, <2>4, <2>5 DEF RoomFor
  <2> QED BY <1>1, <1>2, <1>3, <1>4, <2>1, <2>4, <2>6, ToldPreserves
<1>9. CASE ask # <<"RequestPeerList">>
  <2>1. c \in attached /\ attached' = attached
    BY <1>2, <1>6, <1>9
  <2>2. CASE \E p \in Peer : ask = <<"RequestVerify", p>>
    <3>1. UNCHANGED <<table, events, quiet>>
      BY <1>7, <2>2
    <3>2. \A q \in Peer : ask # <<"VerifyConfirm", q, TRUE>>
      BY <2>2
    <3> QED BY <1>1, <1>2, <1>4, <2>1, <3>1, <3>2, UntoldPreserves DEF ask
  <2>3. CASE \E p \in Peer : ask = <<"DisconnectPeer", p>>
    <3>1. PICK p \in Peer : ask = <<"DisconnectPeer", p>>
      BY <2>3
    <3>2. RemovePeers({p}) /\ quiet' = quiet \cup {p} /\ events' = events
      BY <1>7, <3>1
    <3>3. table' \in Sound
      BY <1>1, <3>2, Tables
    <3>4. \A q \in Peer : table'[q] = table[q] \/ q \in quiet'
      BY <3>2 DEF RemovePeers
    <3>5. \A q \in Peer : ask # <<"VerifyConfirm", q, TRUE>>
      BY <3>1
    <3> QED BY <1>1, <1>2, <1>4, <2>1, <3>2, <3>3, <3>4, <3>5, UntoldPreserves DEF ask
  <2>4. ASSUME NEW p \in Peer, NEW yes \in BOOLEAN, ask = <<"VerifyConfirm", p, yes>>
        PROVE  IInv'
    <3>1. /\ IF yes THEN /\ table' = [table EXCEPT
                                        ![p] = [NewPeer EXCEPT !.state = "Verified"]]
                         /\ quiet' = quiet \cup {p}
                    ELSE UNCHANGED <<table, quiet>>
          /\ UNCHANGED events
      BY <1>7, <2>4
    <3>2. CASE yes
      <4>1. table' = [table EXCEPT ![p] = [NewPeer EXCEPT !.state = "Verified"]]
            /\ quiet' = quiet \cup {p} /\ events' = events
        BY <3>1, <3>2
      <4>2. table' \in Sound
        BY <1>1, <4>1, Tables, Entries
      <4>3. \A q \in Peer : table'[q] = table[q] \/ q \in quiet'
        BY <1>1, <4>1 DEF Sound
      <4>4. \A q \in Peer : ask = <<"VerifyConfirm", q, TRUE>> => q \in quiet'
        BY <2>4, <4>1
      <4> QED BY <1>1, <1>2, <1>4, <2>1, <4>1, <4>2, <4>3, <4>4, UntoldPreserves DEF ask
    <3>3. CASE ~yes
      <4>1. UNCHANGED <<table, quiet, events>>
        BY <3>1, <3>3
      <4>2. \A q \in Peer : ask # <<"VerifyConfirm", q, TRUE>>
        BY <2>4, <3>3
      <4> QED BY <1>1, <1>2, <1>4, <2>1, <4>1, <4>2, UntoldPreserves DEF ask
    <3> QED BY <3>2, <3>3
  <2> QED BY <1>3, <1>9, <2>2, <2>3, <2>4, AskForms
<1> QED BY <1>8, <1>9

-----------------------------------------------------------------------------
(* The steps of a client.                                                  *)

(* A request goes off.                                                     *)
LEMMA AskSent ==
  ASSUME Types, NEW c \in Client, NEW ask \in Ask, Send(c, ask)
  PROVE  /\ asks' \in [Client -> Seq(Ask)]
         /\ \A d \in Client : Len(asks'[d]) <= Room
         /\ \A d \in Client \ {c} : asks'[d] = asks[d]
         /\ asks'[c] = Append(asks[c], ask)
         /\ \A i \in DOMAIN asks[c] : i \in DOMAIN asks'[c] /\ asks'[c][i] = asks[c][i]
         /\ \E i \in DOMAIN asks'[c] : asks'[c][i] = ask
         /\ \A i \in DOMAIN asks'[c] : asks'[c][i] = ask \/
              (i \in DOMAIN asks[c] /\ asks'[c][i] = asks[c][i])
<1>1. asks \in [Client -> Seq(Ask)] /\ (\A d \in Client : Len(asks[d]) <= Room)
      /\ Len(asks[c]) < Room
  BY DEF Types, Send
<1>2. asks' = [asks EXCEPT ![c] = Append(asks[c], ask)]
  BY DEF Send
<1> DEFINE s == asks[c]
           t == Append(s, ask)
<1>3. s \in Seq(Ask)
  BY <1>1
<1>4. /\ t \in Seq(Ask) /\ Len(t) = Len(s) + 1 /\ t[Len(s) + 1] = ask
      /\ \A i \in 1..Len(s) : t[i] = s[i]
  <2> HIDE DEF s
  <2> QED BY <1>3, AppendProperties
<1>5. asks' \in [Client -> Seq(Ask)] /\ asks'[c] = t
      /\ \A d \in Client \ {c} : asks'[d] = asks[d]
  <2>1. asks' = [asks EXCEPT ![c] = t]
    BY <1>2
  <2> HIDE DEF s, t
  <2> QED BY <1>1, <1>4, <2>1
<1>6. Len(t) <= Room
  <2>1. Len(s) < Room
    BY <1>1
  <2> HIDE DEF s, t
  <2> QED BY <1>3, <1>4, <2>1, LenProperties, PeerViewAssumption
<1>7. DOMAIN s = 1..Len(s) /\ DOMAIN t = 1..(Len(s) + 1) /\ Len(s) \in Nat
  <2> HIDE DEF s, t
  <2> QED BY <1>3, <1>4, LenProperties
<1>8. /\ \A i \in DOMAIN s : i \in DOMAIN t /\ t[i] = s[i]
      /\ \E i \in DOMAIN t : t[i] = ask
      /\ \A i \in DOMAIN t : t[i] = ask \/ (i \in DOMAIN s /\ t[i] = s[i])
  <2> HIDE DEF s, t
  <2> QED BY <1>4, <1>7
<1>9. \A d \in Client : Len(asks'[d]) <= Room
  <2> HIDE DEF s, t
  <2> QED BY <1>1, <1>5, <1>6
<1>10. t = Append(asks[c], ask) /\ s = asks[c]
  OBVIOUS
<1> HIDE DEF s, t
<1> QED BY <1>5, <1>8, <1>9, <1>10

(* A client asks for something, and may mark what it says yes to.          *)
LEMMA AskingPreserves ==
  ASSUME IInv, NEW c \in Client, NEW ask \in Ask, Send(c, ask),
         c \in attached \/ (ask = <<"RequestPeerList">> /\ UNCHANGED <<view, prompt>>),
         prompt' = prompt \/ prompt' = [prompt EXCEPT ![c] = Nobody],
         \/ view' = view
         \/ \E p \in Peer : /\ ask = <<"VerifyConfirm", p, TRUE>>
                            /\ view[c][p] # Absent
                            /\ view' = [view EXCEPT ![c][p].state = "Verified"],
         UNCHANGED <<table, attached, events, steps, quiet>>
  PROVE  IInv'
<1>1. Types /\ Strangers /\ LastIsList /\ BlockedIsPassing /\ ViewExplained
  BY DEF IInv
<1>2. /\ asks' \in [Client -> Seq(Ask)]
      /\ \A d \in Client : Len(asks'[d]) <= Room
      /\ \A d \in Client \ {c} : asks'[d] = asks[d]
      /\ \A i \in DOMAIN asks[c] : i \in DOMAIN asks'[c] /\ asks'[c][i] = asks[c][i]
      /\ \E i \in DOMAIN asks'[c] : asks'[c][i] = ask
      /\ \A i \in DOMAIN asks'[c] : asks'[c][i] = ask \/
           (i \in DOMAIN asks[c] /\ asks'[c][i] = asks[c][i])
  BY <1>1, AskSent
<1>3. /\ view' \in [Client -> Table]
      /\ \A d \in Client \ {c} : view'[d] = view[d]
      /\ \A p \in Peer : view'[c][p] = view[c][p] \/
           (view'[c][p].state # "Blocked" /\ ask = <<"VerifyConfirm", p, TRUE>>)
  <2>1. CASE view' = view
    BY <1>1, <2>1 DEF Types
  <2>2. ASSUME NEW p \in Peer, ask = <<"VerifyConfirm", p, TRUE>>, view[c][p] # Absent,
               view' = [view EXCEPT ![c][p].state = "Verified"]
        PROVE  /\ view' \in [Client -> Table]
               /\ \A d \in Client \ {c} : view'[d] = view[d]
               /\ \A q \in Peer : view'[c][q] = view[c][q] \/
                    (view'[c][q].state # "Blocked" /\ ask = <<"VerifyConfirm", q, TRUE>>)
    <3> DEFINE old == view[c]
               entry == [old[p] EXCEPT !.state = "Verified"]
               new == [old EXCEPT ![p] = entry]
    <3>1. view \in [Client -> Table] /\ old \in Table
      BY <1>1 DEF Types
    <3>2. old[p] \in Entry
      BY <2>2, <3>1 DEF Table
    <3>3. entry \in Entry /\ entry.state # "Blocked"
      <4> HIDE DEF old
      <4> QED BY <3>2, EntryChanges DEF Unblocked
    <3>4. new \in Table /\ new[p] = entry /\ \A q \in Peer \ {p} : new[q] = old[q]
      <4> HIDE DEF old, entry
      <4> QED BY <3>1, <3>3 DEF Table
    <3>5. view' = [view EXCEPT ![c] = new]
      BY <2>2, <3>1
    <3>6. old = view[c]
      OBVIOUS
    <3> HIDE DEF old, entry, new
    <3>7. view'[c] = new
      BY <3>1, <3>5
    <3> QED BY <2>2, <3>1, <3>3, <3>4, <3>5, <3>6, <3>7
  <2> QED BY <2>1, <2>2
<1>4. prompt' \in [Client -> Peer \cup {Nobody}]
      /\ \A d \in Client \ {c} : prompt'[d] = prompt[d]
  BY <1>1 DEF Types
<1>5. Types'
  BY <1>1, <1>2, <1>3, <1>4 DEF Types
<1>6. ASSUME NEW d \in Client \ attached
      PROVE  Stranger(d)'
  <2>1. Stranger(d)
    BY <1>1, <1>6 DEF Strangers
  <2>2. CASE d = c
    BY <1>2, <2>1, <2>2 DEF Stranger
  <2>3. CASE d # c
    BY <1>2, <1>3, <1>4, <2>1, <2>3 DEF Stranger
  <2> QED BY <2>2, <2>3
<1>7. Strangers'
  BY <1>6 DEF Strangers
<1>8. LastIsList'
  BY <1>1 DEF LastIsList, Tells
<1>9. BlockedIsPassing'
  <2> SUFFICES ASSUME NEW d \in Client, events[d] = <<>>, NEW p \in Peer,
                      view'[d][p] # Absent
               PROVE  view'[d][p].state # "Blocked"
    BY DEF BlockedIsPassing
  <2>1. view[d][p] # Absent => view[d][p].state # "Blocked"
    BY <1>1 DEF BlockedIsPassing
  <2> QED BY <1>3, <2>1
<1>10. ViewExplained'
  <2> SUFFICES ASSUME NEW d \in attached, events[d] = <<>>, NEW p \in Peer
               PROVE  \/ view'[d][p] = table[p]
                      \/ p \in quiet
                      \/ \E i \in DOMAIN asks'[d] : asks'[d][i] = <<"VerifyConfirm", p, TRUE>>
    BY DEF ViewExplained
  <2>1. d \in Client
    BY <1>1 DEF Types
  <2>2. \/ view[d][p] = table[p]
        \/ p \in quiet
        \/ \E i \in DOMAIN asks[d] : asks[d][i] = <<"VerifyConfirm", p, TRUE>>
    BY <1>1 DEF ViewExplained
  <2>3. CASE d = c
    <3>1. (\E i \in DOMAIN asks[d] : asks[d][i] = <<"VerifyConfirm", p, TRUE>>) =>
            \E i \in DOMAIN asks'[d] : asks'[d][i] = <<"VerifyConfirm", p, TRUE>>
      BY <1>2, <2>3
    <3> QED BY <1>2, <1>3, <2>2, <2>3, <3>1
  <2>4. CASE d # c
    <3>1. asks'[d] = asks[d] /\ view'[d] = view[d]
      BY <1>2, <1>3, <2>1, <2>4
    <3> QED BY <2>2, <3>1
  <2> QED BY <2>3, <2>4
<1> QED BY <1>5, <1>7, <1>8, <1>9, <1>10 DEF IInv

LEMMA AskingSteps ==
  ASSUME IInv, NEW c \in Client,
         \/ Refresh(c)
         \/ \E p \in Peer : Pick(c, p)
         \/ \E yes \in BOOLEAN : Confirm(c, yes)
  PROVE  IInv'
<1>1. Types /\ Strangers
  BY DEF IInv
<1>2. CASE Refresh(c)
  <2>1. <<"RequestPeerList">> \in Ask
    BY DEF Ask
  <2> QED BY <1>2, <2>1, AskingPreserves DEF Refresh
<1>3. ASSUME NEW p \in Peer, Pick(c, p)
      PROVE  IInv'
  <2>1. PICK kind \in {"RequestVerify", "DisconnectPeer"} : Send(c, <<kind, p>>)
    BY <1>3 DEF Pick
  <2>2. <<kind, p>> \in Ask
    BY DEF Ask
  <2>3. c \in attached
    BY <1>1, <1>3 DEF Pick, Strangers, Stranger, Unknown
  <2> QED BY <1>3, <2>1, <2>2, <2>3, AskingPreserves DEF Pick
<1>4. ASSUME NEW yes \in BOOLEAN, Confirm(c, yes)
      PROVE  IInv'
  <2> DEFINE p == prompt[c]
             ask == <<"VerifyConfirm", p, yes>>
  <2>1. /\ p # Nobody /\ Send(c, ask)
        /\ view' = IF yes /\ view[c][p] # Absent
                     THEN [view EXCEPT ![c][p].state = "Verified"] ELSE view
        /\ prompt' = [prompt EXCEPT ![c] = Nobody]
        /\ UNCHANGED <<table, attached, events, steps, quiet>>
    BY <1>4 DEF Confirm
  <2>2. p \in Peer
    BY <1>1, <2>1 DEF Types
  <2>3. c \in attached
    BY <1>1, <2>1 DEF Strangers, Stranger
  <2> HIDE DEF p
  <2>4. ask \in Ask
    BY <2>2 DEF Ask
  <2>5. \/ view' = view
        \/ \E q \in Peer : /\ ask = <<"VerifyConfirm", q, TRUE>>
                           /\ view[c][q] # Absent
                           /\ view' = [view EXCEPT ![c][q].state = "Verified"]
    <3>1. CASE yes /\ view[c][p] # Absent
      <4>1. view' = [view EXCEPT ![c][p].state = "Verified"]
        BY <2>1, <3>1
      <4>2. ask = <<"VerifyConfirm", p, TRUE>>
        BY <3>1
      <4> QED BY <2>2, <3>1, <4>1, <4>2
    <3>2. CASE ~(yes /\ view[c][p] # Absent)
      BY <2>1, <3>2
    <3> QED BY <3>1, <3>2
  <2> HIDE DEF ask
  <2> QED BY <2>1, <2>3, <2>4, <2>5, AskingPreserves
<1> QED BY <1>2, <1>3, <1>4

(* The next event of a client.                                             *)
LEMMA EventTaken ==
  ASSUME Types, NEW c \in Client, events[c] # <<>>,
         events' = [events EXCEPT ![c] = Tail(@)]
  PROVE  /\ events' \in [Client -> Seq(Sent)]
         /\ \A d \in Client : Len(events'[d]) <= Room
         /\ \A d \in Client \ {c} : events'[d] = events[d]
         /\ Head(events[c]) \in Sent
         /\ events'[c] # <<>> =>
              events'[c][Len(events'[c])] = events[c][Len(events[c])]
         /\ events'[c] = <<>> => Head(events[c]) = events[c][Len(events[c])]
<1>1. events \in [Client -> Seq(Sent)] /\ \A d \in Client : Len(events[d]) <= Room
  BY DEF Types
<1> DEFINE s == events[c]
           t == Tail(s)
<1>2. s \in Seq(Sent) /\ s # <<>> /\ Len(s) <= Room
  BY <1>1
<1>3. /\ t \in Seq(Sent) /\ Len(t) = Len(s) - 1
      /\ Head(s) \in Sent /\ Head(s) = s[1]
      /\ \A i \in 1..Len(t) : t[i] = s[i + 1]
  <2> HIDE DEF s
  <2> QED BY <1>2, HeadTailProperties
<1>4. Len(s) \in Nat /\ Len(s) # 0 /\ Len(t) \in Nat
  <2> HIDE DEF s, t
  <2> QED BY <1>2, <1>3, LenProperties, EmptySeq
<1>5. Len(t) <= Room
  <2> HIDE DEF s, t
  <2> QED BY <1>2, <1>3, <1>4, PeerViewAssumption
<1>6. t # <<>> => t[Len(t)] = s[Len(s)]
  <2> HIDE DEF s, t
  <2>1. t # <<>> => Len(t) # 0
    BY <1>3, EmptySeq
  <2>2. Len(t) # 0 => Len(t) \in 1..Len(t) /\ Len(t) + 1 = Len(s)
    BY <1>3, <1>4
  <2> QED BY <1>3, <2>1, <2>2
<1>7. t = <<>> => Head(s) = s[Len(s)]
  <2> HIDE DEF s, t
  <2>1. t = <<>> => Len(t) = 0
    BY EmptySeq
  <2>2. Len(t) = 0 => Len(s) = 1
    BY <1>3, <1>4
  <2> QED BY <1>3, <2>1, <2>2
<1>8. events' = [events EXCEPT ![c] = t] /\ s = events[c]
  OBVIOUS
<1> HIDE DEF s, t
<1>9. events' \in [Client -> Seq(Sent)] /\ events'[c] = t
      /\ \A d \in Client \ {c} : events'[d] = events[d]
  BY <1>1, <1>3, <1>8
<1>10. \A d \in Client : Len(events'[d]) <= Room
  BY <1>1, <1>5, <1>9
<1> QED BY <1>3, <1>6, <1>7, <1>8, <1>9, <1>10

LEMMA ShowStep ==
  ASSUME IInv, NEW c \in Client, Show(c)
  PROVE  IInv'
<1>1. Types /\ Strangers /\ LastIsList /\ BlockedIsPassing /\ ViewExplained
  BY DEF IInv
<1> DEFINE event == Head(events[c])
<1>2. /\ events[c] # <<>> /\ events' = [events EXCEPT ![c] = Tail(@)]
      /\ UNCHANGED <<table, attached, asks, steps, quiet>>
  BY DEF Show
<1>3. /\ events' \in [Client -> Seq(Sent)]
      /\ \A d \in Client : Len(events'[d]) <= Room
      /\ \A d \in Client \ {c} : events'[d] = events[d]
      /\ event \in Sent
      /\ events'[c] # <<>> =>
           events'[c][Len(events'[c])] = events[c][Len(events[c])]
      /\ events'[c] = <<>> => event = events[c][Len(events[c])]
  BY <1>1, <1>2, EventTaken
<1>4. \/ /\ event[1] = "PeerList"
         /\ view' = [view EXCEPT ![c] = event[2]]
         /\ UNCHANGED prompt
      \/ /\ event[1] = "InComingVerify"
         /\ prompt' = [prompt EXCEPT ![c] = event[2]]
         /\ UNCHANGED view
      \/ /\ event[1] = "VerifyResult"
         /\ view' = IF view[c][event[2]] = Absent THEN view
                    ELSE [view EXCEPT ![c][event[2]].state =
                            IF event[3] THEN "Verified" ELSE "Blocked"]
         /\ UNCHANGED prompt
  BY DEF Show
<1> HIDE DEF event
<1>5. c \in attached
  BY <1>1, <1>2 DEF Strangers, Stranger
<1>6. /\ view' \in [Client -> Table] /\ prompt' \in [Client -> Peer \cup {Nobody}]
      /\ \A d \in Client \ {c} : view'[d] = view[d] /\ prompt'[d] = prompt[d]
      /\ \A T \in Sound : event = <<"PeerList", T>> => view'[c] = T
  <2>1. view \in [Client -> Table] /\ prompt \in [Client -> Peer \cup {Nobody}]
    BY <1>1 DEF Types
  <2>2. ASSUME NEW T \in Sound, event = <<"PeerList", T>>
        PROVE  /\ view' \in [Client -> Table] /\ prompt' \in [Client -> Peer \cup {Nobody}]
               /\ \A d \in Client \ {c} : view'[d] = view[d] /\ prompt'[d] = prompt[d]
               /\ \A U \in Sound : event = <<"PeerList", U>> => view'[c] = U
    <3>1. view' = [view EXCEPT ![c] = T] /\ prompt' = prompt
      BY <1>4, <2>2
    <3>2. T \in Table
      BY SoundIsTable
    <3>3. \A U \in Sound : event = <<"PeerList", U>> => U = T
      BY <2>2
    <3> QED BY <2>1, <3>1, <3>2, <3>3
  <2>3. ASSUME NEW p \in Peer, event = <<"InComingVerify", p>>
        PROVE  /\ view' \in [Client -> Table] /\ prompt' \in [Client -> Peer \cup {Nobody}]
               /\ \A d \in Client \ {c} : view'[d] = view[d] /\ prompt'[d] = prompt[d]
               /\ \A U \in Sound : event # <<"PeerList", U>>
    <3>1. view' = view /\ prompt' = [prompt EXCEPT ![c] = p]
      BY <1>4, <2>3
    <3> QED BY <2>1, <2>3, <3>1
  <2>4. ASSUME NEW p \in Peer, NEW accept \in BOOLEAN,
               event = <<"VerifyResult", p, accept>>
        PROVE  /\ view' \in [Client -> Table] /\ prompt' \in [Client -> Peer \cup {Nobody}]
               /\ \A d \in Client \ {c} : view'[d] = view[d] /\ prompt'[d] = prompt[d]
               /\ \A U \in Sound : event # <<"PeerList", U>>
    <3> DEFINE old == view[c]
               mark == IF accept THEN "Verified" ELSE "Blocked"
               entry == [old[p] EXCEPT !.state = mark]
               new == [old EXCEPT ![p] = entry]
    <3>1. /\ prompt' = prompt
          /\ view' = IF old[p] = Absent THEN view ELSE [view EXCEPT ![c][p].state = mark]
      BY <1>4, <2>4
    <3>2. old \in Table
      BY <2>1
    <3>3. mark = "Verified" \/ mark = "Blocked"
      OBVIOUS
    <3>4. old[p] # Absent => entry \in Entry
      <4> HIDE DEF old, mark
      <4> SUFFICES ASSUME old[p] # Absent PROVE entry \in Entry
        OBVIOUS
      <4>1. old[p] \in Entry
        BY <3>2 DEF Table
      <4> QED BY <3>3, <4>1, EntryChanges DEF Unblocked
    <3>5. old[p] # Absent => new \in Table
      <4> HIDE DEF old, entry
      <4> QED BY <3>2, <3>4 DEF Table
    <3>6. view' = view \/ (old[p] # Absent /\ view' = [view EXCEPT ![c] = new])
      <4> HIDE DEF mark
      <4> QED BY <2>1, <3>1
    <3> HIDE DEF old, new
    <3> QED BY <2>1, <2>4, <3>1, <3>5, <3>6
  <2> QED BY <1>3, <2>2, <2>3, <2>4, SentForms
<1>7. Types'
  BY <1>1, <1>2, <1>3, <1>6 DEF Types
<1>8. Strangers'
  <2> SUFFICES ASSUME NEW d \in Client \ attached PROVE Stranger(d)'
    BY <1>2 DEF Strangers
  <2>1. Stranger(d) /\ d # c
    BY <1>1, <1>5 DEF Strangers
  <2> QED BY <1>2, <1>3, <1>6, <2>1 DEF Stranger
<1>9. LastIsList'
  <2> SUFFICES ASSUME NEW d \in Client, events'[d] # <<>>
               PROVE  \E T \in Sound : /\ events'[d][Len(events'[d])] = <<"PeerList", T>>
                                       /\ Tells(T)'
    BY DEF LastIsList
  <2>1. events[d] # <<>> /\ events'[d][Len(events'[d])] = events[d][Len(events[d])]
    BY <1>2, <1>3
  <2>2. PICK T \in Sound : /\ events[d][Len(events[d])] = <<"PeerList", T>>
                           /\ Tells(T)
    BY <1>1, <2>1 DEF LastIsList
  <2>3. Tells(T)'
    BY <1>2, <2>2 DEF Tells
  <2> QED BY <2>1, <2>2, <2>3
<1>10. events'[c] = <<>> => view'[c] \in Sound /\ Tells(view'[c])
  <2> HAVE events'[c] = <<>>
  <2>1. PICK T \in Sound : event = <<"PeerList", T>> /\ Tells(T)
    BY <1>1, <1>2, <1>3 DEF LastIsList
  <2>2. view'[c] = T
    BY <1>6, <2>1
  <2> QED BY <2>1, <2>2 DEF Tells
<1>11. BlockedIsPassing'
  <2> SUFFICES ASSUME NEW d \in Client, events'[d] = <<>>, NEW p \in Peer,
                      view'[d][p] # Absent
               PROVE  view'[d][p].state # "Blocked"
    BY DEF BlockedIsPassing
  <2>1. CASE d = c
    BY <1>10, <2>1 DEF Sound, Unblocked
  <2>2. CASE d # c
    <3>1. view'[d] = view[d] /\ events[d] = <<>>
      BY <1>3, <1>6, <2>2
    <3> QED BY <1>1, <3>1 DEF BlockedIsPassing
  <2> QED BY <2>1, <2>2
<1>12. ViewExplained'
  <2> SUFFICES ASSUME NEW d \in attached, events'[d] = <<>>, NEW p \in Peer
               PROVE  \/ view'[d][p] = table[p]
                      \/ p \in quiet
                      \/ \E i \in DOMAIN asks[d] : asks[d][i] = <<"VerifyConfirm", p, TRUE>>
    BY <1>2 DEF ViewExplained
  <2>1. CASE d = c
    BY <1>10, <2>1 DEF Tells
  <2>2. CASE d # c
    <3>1. d \in Client
      BY <1>1 DEF Types
    <3>2. view'[d] = view[d] /\ events[d] = <<>>
      BY <1>3, <1>6, <2>2, <3>1
    <3> QED BY <1>1, <3>2 DEF ViewExplained
  <2> QED BY <2>1, <2>2
<1> QED BY <1>7, <1>8, <1>9, <1>11, <1>12 DEF IInv

-----------------------------------------------------------------------------
LEMMA InitInv == Init => IInv
<1> SUFFICES ASSUME Init PROVE IInv
  OBVIOUS
<1>1. <<>> \in Seq(Sent) /\ <<>> \in Seq(Ask) /\ Len(<<>>) = 0 /\ DOMAIN <<>> = {}
  OBVIOUS
<1>2. Unknown \in Sound /\ Unknown \in Table
  BY DEF Unknown, Sound, Table
<1>3. Types
  BY <1>1, <1>2, PeerViewAssumption DEF Init, Types
<1>4. Strangers
  BY <1>1 DEF Init, Strangers, Stranger
<1>5. LastIsList /\ ViewExplained
  BY DEF Init, LastIsList, ViewExplained
<1>6. BlockedIsPassing
  BY DEF Init, BlockedIsPassing, Unknown
<1> QED BY <1>3, <1>4, <1>5, <1>6 DEF IInv

LEMMA Invariance == Spec => []IInv
<1>1. IInv /\ [Next]_vars => IInv'
  <2> SUFFICES ASSUME IInv, [Next]_vars PROVE IInv'
    OBVIOUS
  <2>1. CASE UNCHANGED vars
    BY <2>1, ZenonT(30) DEF vars, IInv, Types, Strangers, Stranger, LastIsList, Tells,
                BlockedIsPassing, ViewExplained
  <2>2. CASE \/ \E S \in SUBSET Peer \ {{}} : Discovered(S) \/ Expired(S)
             \/ \E p \in Peer :
                  \/ GossipsubNotSupported(p)
                  \/ ReceiveHostname(p)
                  \/ ReceiveRequest(p)
                  \/ \E accept \in BOOLEAN : ReceiveResponse(p, accept)
    BY <2>2, PeerSteps
  <2>3. ASSUME NEW c \in Client, HandleAsk(c)
        PROVE  IInv'
    BY <2>3, HandleAskStep
  <2>4. ASSUME NEW c \in Client,
               \/ Refresh(c)
               \/ \E p \in Peer : Pick(c, p)
               \/ \E yes \in BOOLEAN : Confirm(c, yes)
        PROVE  IInv'
    BY <2>4, AskingSteps
  <2>5. ASSUME NEW c \in Client, Show(c)
        PROVE  IInv'
    BY <2>5, ShowStep
  <2> QED BY <2>1, <2>2, <2>3, <2>4, <2>5 DEF Next
<1> QED BY <1>1, InitInv, PTL DEF Spec

-----------------------------------------------------------------------------
(* A client that has seen all its events shows the table of the daemon, but*)
(* for what a client said of a peer without anyone being told (send_peers, *)
(* handle_client_event), for any peers and clients and any room.           *)
THEOREM ListsAreExplained == Spec => []ViewExplained
<1>1. IInv => ViewExplained
  BY DEF IInv
<1> QED
  BY <1>1, Invariance, PTL

(* The types; a refusal shows as Blocked only until the list behind it is  *)
(* shown (App::handle_deamon).                                             *)
THEOREM BlockedIsNeverKept == Spec => []ViewInv
<1>1. IInv => TypeOK
  <2> SUFFICES ASSUME IInv PROVE TypeOK
    OBVIOUS
  <2>1. Types
    BY DEF IInv
  <2>2. table \in Table /\ \A p \in Peer : table[p] # Absent => table[p].state # "Blocked"
    BY <2>1, SoundIsTable DEF Types, Sound, Unblocked
  <2>3. ASSUME NEW c \in Client
        PROVE  /\ \A i \in DOMAIN events[c] : events[c][i] \in Event
               /\ \A i \in DOMAIN asks[c] : asks[c][i] \in Ask
    <3>1. events[c] \in Seq(Sent) /\ asks[c] \in Seq(Ask)
      BY <2>1 DEF Types
    <3>2. Sent \subseteq Event
      BY SoundIsTable DEF Sent, Event
    <3> QED BY <3>1, <3>2, ElementOfSeq, LenProperties
  <2> QED BY <2>1, <2>2, <2>3 DEF TypeOK, Types
<1>2. IInv => ViewInv
  BY <1>1 DEF IInv, ViewInv
<1> QED
  BY <1>2, Invariance, PTL

=============================================================================

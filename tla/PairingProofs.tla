--------------------------- MODULE PairingProofs ---------------------------
(***************************************************************************)
(* What holds of Pairing for any nodes, clients, addresses and requests    *)
(* and any number of restarts: its types, that verified peers were         *)
(* accepted by one of the two users, that every Accept on its way was      *)
(* meant, what the explicit peers and the prompts may lack, and that       *)
(* pairing implements Consent.                                             *)
(***************************************************************************)
EXTENDS Pairing, TLAPS

(* The peers of a set of records are nodes.                                *)
LEMMA PeersOfNodes ==
  ASSUME NEW n \in Node, NEW S \in SUBSET ((Node \ {n}) \X Addr)
  PROVE  PeersOf(S) \subseteq Node
  BY DEF PeersOf

(* Adding or removing peers keeps the types of the table.                  *)
LEMMA AddPeersType ==
  ASSUME TypeOK, NEW n \in Node, NEW M \in SUBSET Node,
         NEW state \in PeerState, AddPeers(n, M, state)
  PROVE  /\ peers' \in [Node -> [Node -> PeerState]]
         /\ explicit' \in [Node -> SUBSET Node]
  BY DEF TypeOK, AddPeers

LEMMA RemovePeersType ==
  ASSUME TypeOK, NEW n \in Node, NEW M \in SUBSET Node, RemovePeers(n, M)
  PROVE  /\ peers' \in [Node -> [Node -> PeerState]]
         /\ explicit' \in [Node -> SUBSET Node]
  BY DEF TypeOK, RemovePeers, PeerState

(* What moving a request to another phase leaves.                          *)
LEMMA SetPhase ==
  ASSUME NEW rec \in RequestState, NEW p \in Phase
  PROVE  /\ [rec EXCEPT !.phase = p] \in RequestState
         /\ [rec EXCEPT !.phase = p].from = rec.from
         /\ [rec EXCEPT !.phase = p].to = rec.to
         /\ [rec EXCEPT !.phase = p].phase = p
  BY DEF RequestState

(* What changing whether its sender waits leaves.                          *)
LEMMA SetWaiting ==
  ASSUME NEW rec \in RequestState, NEW w \in BOOLEAN
  PROVE  /\ [rec EXCEPT !.waiting = w] \in RequestState
         /\ [rec EXCEPT !.waiting = w].from = rec.from
         /\ [rec EXCEPT !.waiting = w].to = rec.to
         /\ [rec EXCEPT !.waiting = w].phase = rec.phase
  BY DEF RequestState

(* Each of these steps moves one request and leaves the others alone.      *)
MovesTo(r, p) ==
  /\ req' \in [Request -> RequestState]
  /\ \A q \in Request \ {r} : req'[q] = req[q]
  /\ req'[r].from = req[r].from
  /\ req'[r].to = req[r].to
  /\ req'[r].phase = p

(* A step that replaces one request by a record with the same two ends.    *)
LEMMA Moved ==
  ASSUME TypeOK, NEW r \in Request, NEW rec \in RequestState, NEW p \in Phase,
         rec.from = req[r].from, rec.to = req[r].to, rec.phase = p,
         req' = [req EXCEPT ![r] = rec]
  PROVE  MovesTo(r, p)
<1>1. req \in [Request -> RequestState]
  BY DEF TypeOK
<1>2. req'[r] = rec /\ \A q \in Request \ {r} : req'[q] = req[q]
  BY <1>1
<1>3. req' \in [Request -> RequestState]
  BY <1>1
<1> QED
  BY <1>2, <1>3 DEF MovesTo

LEMMA AnswerMoves ==
  ASSUME TypeOK, NEW n \in Node, NEW m \in Node,
         NEW answer \in {"accept", "deny"}, AnswerChannel(n, m, answer)
  PROVE  LET r == channels[n][m] IN
         /\ channels' \in [Node -> [Node -> Request \cup {NoRequest}]]
         /\ channels' = [channels EXCEPT ![n][m] = NoRequest]
         /\ \/ r \in Request /\ req[r].phase = "held" /\ MovesTo(r, answer)
            \/ ~(r \in Request /\ req[r].phase = "held") /\ req' = req
<1> DEFINE r == channels[n][m]
<1>1. /\ channels' \in [Node -> [Node -> Request \cup {NoRequest}]]
      /\ channels' = [channels EXCEPT ![n][m] = NoRequest]
  BY DEF TypeOK, AnswerChannel
<1>2. CASE r # NoRequest /\ req[r].phase = "held"
  <2>1. r \in Request /\ req[r] \in RequestState
    BY <1>2 DEF TypeOK
  <2>2. req' = [req EXCEPT ![r] = [req[r] EXCEPT !.phase = answer]]
    BY <1>2 DEF AnswerChannel
  <2>3. answer \in Phase
    BY DEF Phase
  <2> HIDE DEF r
  <2> DEFINE rec == [req[r] EXCEPT !.phase = answer]
  <2>4. /\ rec \in RequestState
        /\ rec.from = req[r].from /\ rec.to = req[r].to /\ rec.phase = answer
    BY <2>1, <2>3, SetPhase
  <2>5. req' = [req EXCEPT ![r] = rec]
    BY <2>2
  <2> HIDE DEF rec
  <2>7. MovesTo(r, answer)
    BY <2>1, <2>3, <2>4, <2>5, Moved
  <2> QED
    BY <1>1, <1>2, <2>1, <2>7 DEF r
<1>3. CASE ~(r # NoRequest /\ req[r].phase = "held")
  BY <1>1, <1>3, PairingAssumption DEF TypeOK, AnswerChannel
<1> QED
  BY <1>2, <1>3

LEMMA ResponseMoves ==
  ASSUME TypeOK, NEW r \in Request, ReceiveResponse(r)
  PROVE  MovesTo(r, "done")
<1>1. req' = [req EXCEPT ![r] =
                [[req[r] EXCEPT !.phase = "done"] EXCEPT !.waiting = FALSE]]
  BY DEF ReceiveResponse, TypeOK
<1>2. /\ req[r] \in RequestState
      /\ "done" \in Phase
  BY DEF TypeOK, Phase
<1> DEFINE rec == [req[r] EXCEPT !.phase = "done"]
<1>3. /\ rec \in RequestState
      /\ rec.from = req[r].from /\ rec.to = req[r].to /\ rec.phase = "done"
  BY <1>2, SetPhase, SetWaiting
<1> HIDE DEF rec
<1>4. /\ [rec EXCEPT !.waiting = FALSE] \in RequestState
      /\ [rec EXCEPT !.waiting = FALSE].from = rec.from
      /\ [rec EXCEPT !.waiting = FALSE].to = rec.to
      /\ [rec EXCEPT !.waiting = FALSE].phase = rec.phase
  BY <1>2, <1>3, SetPhase, SetWaiting
<1>5. req' = [req EXCEPT ![r] = [rec EXCEPT !.waiting = FALSE]]
  BY <1>1 DEF rec
<1> DEFINE new == [rec EXCEPT !.waiting = FALSE]
<1>6. /\ new \in RequestState
      /\ new.from = req[r].from /\ new.to = req[r].to /\ new.phase = "done"
  BY <1>3, <1>4
<1>7. req' = [req EXCEPT ![r] = new]
  BY <1>5
<1> HIDE DEF new
<1> QED
  BY <1>2, <1>6, <1>7, Moved

LEMMA OutboundFailureMoves ==
  ASSUME TypeOK, NEW r \in Request, OutboundFailure(r)
  PROVE  MovesTo(r, req[r].phase)
<1>1. req' = [req EXCEPT ![r] = [req[r] EXCEPT !.waiting = FALSE]]
  BY DEF OutboundFailure
<1>2. req[r] \in RequestState /\ req[r].phase \in Phase
  BY DEF TypeOK, RequestState
<1> DEFINE rec == [req[r] EXCEPT !.waiting = FALSE]
<1>3. /\ rec \in RequestState
      /\ rec.from = req[r].from /\ rec.to = req[r].to
      /\ rec.phase = req[r].phase
  BY <1>2, SetWaiting
<1>4. req' = [req EXCEPT ![r] = rec]
  BY <1>1
<1> HIDE DEF rec
<1> QED
  BY <1>2, <1>3, <1>4, Moved

LEMMA InboundFailureMoves ==
  ASSUME TypeOK, NEW r \in Request, InboundFailure(r)
  PROVE  MovesTo(r, "lost")
<1>1. req' = [req EXCEPT ![r] = [req[r] EXCEPT !.phase = "lost"]]
  BY DEF InboundFailure
<1>2. req[r] \in RequestState /\ "lost" \in Phase
  BY DEF TypeOK, Phase
<1> DEFINE rec == [req[r] EXCEPT !.phase = "lost"]
<1>3. /\ rec \in RequestState
      /\ rec.from = req[r].from /\ rec.to = req[r].to /\ rec.phase = "lost"
  BY <1>2, SetPhase
<1>4. req' = [req EXCEPT ![r] = rec]
  BY <1>1
<1> HIDE DEF rec
<1> QED
  BY <1>2, <1>3, <1>4, Moved

(* A request that arrives is held, and the one whose channel was kept for  *)
(* the same peer is lost.                                                  *)
LEMMA ReceiveMoves ==
  ASSUME TypeOK, NEW r \in Request, ReceiveRequest(r),
         NEW q \in Request
  PROVE  LET old == channels[req[r].to][req[r].from] IN
         /\ req'[q] \in RequestState
         /\ req'[q].from = req[q].from
         /\ req'[q].to = req[q].to
         /\ q = r => req'[q].phase = "held"
         /\ q # r /\ q = old => req'[q].phase = "lost"
         /\ q # r /\ q # old => req'[q].phase = req[q].phase
<1> DEFINE old == channels[req[r].to][req[r].from]
<1>1. /\ req[q] \in RequestState
      /\ "held" \in Phase /\ "lost" \in Phase
  BY DEF TypeOK, Phase
<1>2. req'[q] = IF q = r THEN [req[q] EXCEPT !.phase = "held"]
                ELSE IF q = old THEN [req[q] EXCEPT !.phase = "lost"]
                ELSE req[q]
  BY DEF ReceiveRequest
<1> HIDE DEF old
<1>4. /\ req'[q] \in RequestState
      /\ req'[q].from = req[q].from
      /\ req'[q].to = req[q].to
      /\ q = r => req'[q].phase = "held"
      /\ q # r /\ q = old => req'[q].phase = "lost"
      /\ q # r /\ q # old => req'[q].phase = req[q].phase
  BY <1>1, <1>2, SetPhase, SetWaiting
<1> QED
  BY <1>4 DEF old

(* A restart ends the waits of its node's requests, and loses the channels *)
(* it held.                                                                *)
LEMMA RestartMoves ==
  ASSUME TypeOK, NEW n \in Node, Restart(n), NEW q \in Request
  PROVE  /\ req'[q] \in RequestState
         /\ req'[q].from = req[q].from
         /\ req'[q].to = req[q].to
         /\ req'[q].phase = IF req[q].phase = "held" /\ req[q].to = n
                              THEN "lost" ELSE req[q].phase
<1> DEFINE w == req[q].waiting /\ req[q].from # n
           p == IF req[q].phase = "held" /\ req[q].to = n
                  THEN "lost" ELSE req[q].phase
           rec == [req[q] EXCEPT !.waiting = w]
<1>1. /\ req[q] \in RequestState
      /\ w \in BOOLEAN
      /\ p \in Phase
  BY DEF TypeOK, RequestState, Phase
<1>3. req'[q] = [rec EXCEPT !.phase = p]
  BY DEF Restart, LoseMemory
<1> HIDE DEF w, p
<1>4. /\ rec \in RequestState
      /\ rec.from = req[q].from /\ rec.to = req[q].to
  BY <1>1, SetPhase, SetWaiting
<1> HIDE DEF rec
<1>5. /\ req'[q] \in RequestState
      /\ req'[q].from = req[q].from
      /\ req'[q].to = req[q].to
      /\ req'[q].phase = p
  BY <1>1, <1>3, <1>4, SetPhase, SetWaiting
<1> QED
  BY <1>5 DEF p

-----------------------------------------------------------------------------
(* A request that was sent has two ends.                                   *)
Ends == \A r \in Request :
  req[r].phase # "free" => req[r].from \in Node /\ req[r].to \in Node

LEMMA InitTypeOK == Init => TypeOK /\ Ends
<1> SUFFICES ASSUME Init PROVE TypeOK /\ Ends
  OBVIOUS
<1>1. /\ peers \in [Node -> [Node -> PeerState]]
      /\ stored \in [Node -> [Node -> PeerState]]
  BY DEF Init, EmptyRow, PeerState
<1>2. /\ channels \in [Node -> [Node -> Request \cup {NoRequest}]]
      /\ prompt \in [Node -> [Client -> Node \cup {Nobody}]]
      /\ answers \in [Node -> [Client -> Seq(VerifyConfirm)]]
  BY DEF Init
<1>3. /\ req \in [Request -> RequestState]
      /\ Ends
  BY DEF Init, Phase, Ends, RequestState
<1>4. /\ explicit \in [Node -> SUBSET Node]
      /\ accepted \in [Node -> SUBSET Node]
      /\ records \in [Node -> SUBSET (Node \X Addr)]
      /\ restarts \in [Node -> 0..MaxRestarts]
  BY PairingAssumption DEF Init
<1> QED
  BY <1>1, <1>2, <1>3, <1>4 DEF TypeOK

(* No step leaves the types.                                               *)
LEMMA TypeOKStep == TypeOK /\ Ends /\ [Next]_vars => TypeOK'
<1> SUFFICES ASSUME TypeOK, Ends, [Next]_vars PROVE TypeOK'
  OBVIOUS
<1>1. ASSUME NEW n \in Node, NEW S \in SUBSET ((Node \ {n}) \X Addr),
             Discovered(n, S)
      PROVE  TypeOK'
  <2>1. /\ peers' \in [Node -> [Node -> PeerState]]
        /\ explicit' \in [Node -> SUBSET Node]
    BY <1>1, PeersOfNodes, AddPeersType DEF Discovered, PeerState
  <2>2. records' \in [Node -> SUBSET (Node \X Addr)]
    BY <1>1 DEF Discovered, TypeOK
  <2> QED
    BY <1>1, <2>1, <2>2 DEF Discovered, TypeOK, clients, history
<1>2. ASSUME NEW n \in Node, NEW S \in SUBSET ((Node \ {n}) \X Addr),
             Expired(n, S)
      PROVE  TypeOK'
  <2>1. /\ peers' \in [Node -> [Node -> PeerState]]
        /\ explicit' \in [Node -> SUBSET Node]
    BY <1>2, PeersOfNodes, RemovePeersType DEF Expired
  <2>2. records' \in [Node -> SUBSET (Node \X Addr)]
    BY <1>2 DEF Expired, TypeOK
  <2> QED
    BY <1>2, <2>1, <2>2 DEF Expired, TypeOK, clients, history
<1>3. ASSUME NEW n \in Node, NEW m \in Node, NEW r \in Request,
             RequestVerify(n, m, r)
      PROVE  TypeOK'
  <2>1. req' \in [Request -> RequestState]
    BY <1>3 DEF RequestVerify, TypeOK, Phase, RequestState
  <2> QED
    BY <1>3, <2>1 DEF RequestVerify, TypeOK, table, clients, history
<1>4. ASSUME NEW n \in Node, NEW m \in Node, DisconnectPeer(n, m)
      PROVE  TypeOK'
  <2>1. /\ peers' \in [Node -> [Node -> PeerState]]
        /\ explicit' \in [Node -> SUBSET Node]
    BY <1>4, RemovePeersType DEF DisconnectPeer
  <2> QED
    BY <1>4, <2>1 DEF DisconnectPeer, TypeOK, clients, history
<1>5. ASSUME NEW n \in Node, NEW c \in Client, NEW result \in BOOLEAN,
             Answer(n, c, result)
      PROVE  TypeOK'
  <2> DEFINE m == prompt[n][c]
             a == [peer |-> m, result |-> result]
  <2>1. m \in Node
    BY <1>5 DEF Answer, TypeOK
  <2>2. prompt' \in [Node -> [Client -> Node \cup {Nobody}]]
    BY <1>5 DEF Answer, TypeOK
  <2>3. a \in VerifyConfirm
    BY <2>1 DEF VerifyConfirm
  <2>4. answers' \in [Node -> [Client -> Seq(VerifyConfirm)]]
    <3>1. Append(answers[n][c], a) \in Seq(VerifyConfirm)
      BY <2>3 DEF TypeOK
    <3> HIDE DEF a
    <3> QED
      BY <1>5, <3>1 DEF Answer, TypeOK, a
  <2>5. accepted' \in [Node -> SUBSET Node]
    BY <1>5, <2>1 DEF Answer, TypeOK
  <2> QED
    BY <1>5, <2>2, <2>4, <2>5 DEF Answer, TypeOK, table
<1>6. ASSUME NEW n \in Node, NEW c \in Client, HandleConfirm(n, c)
      PROVE  TypeOK'
  <2> DEFINE m == Head(answers[n][c]).peer
  <2>1. Head(answers[n][c]) \in VerifyConfirm
    BY <1>6 DEF HandleConfirm, TypeOK
  <2>2. m \in Node
    BY <2>1 DEF VerifyConfirm
  <2>3. answers' \in [Node -> [Client -> Seq(VerifyConfirm)]]
    <3>1. Tail(answers[n][c]) \in Seq(VerifyConfirm)
      BY <1>6 DEF HandleConfirm, TypeOK
    <3> QED
      BY <1>6, <3>1 DEF HandleConfirm, TypeOK
  <2>4. /\ channels' \in [Node -> [Node -> Request \cup {NoRequest}]]
        /\ req' \in [Request -> RequestState]
    BY <1>6, <2>2, AnswerMoves DEF HandleConfirm, MovesTo, TypeOK
  <2>5. /\ peers' \in [Node -> [Node -> PeerState]]
        /\ explicit' \in [Node -> SUBSET Node]
    <3>1. CASE AddPeers(n, {m}, "Verified")
      BY <2>2, <3>1, AddPeersType DEF PeerState
    <3>2. CASE UNCHANGED table
      BY <3>2 DEF table, TypeOK
    <3> QED
      BY <1>6, <3>1, <3>2 DEF HandleConfirm
  <2> QED
    BY <1>6, <2>3, <2>4, <2>5 DEF HandleConfirm, TypeOK, history
<1>7. ASSUME NEW n \in Node, Restart(n)
      PROVE  TypeOK'
  <2>1. restarts' \in [Node -> 0..MaxRestarts]
    <3>1. restarts[n] \in 0..MaxRestarts /\ restarts[n] < MaxRestarts
      BY <1>7 DEF Restart, LoseMemory, TypeOK
    <3>2. restarts[n] + 1 \in 0..MaxRestarts
      BY <3>1, PairingAssumption
    <3> QED
      BY <1>7, <3>2 DEF Restart, LoseMemory, TypeOK
  <2>2. /\ peers' \in [Node -> [Node -> PeerState]]
        /\ explicit' \in [Node -> SUBSET Node]
        /\ records' \in [Node -> SUBSET (Node \X Addr)]
    BY <1>7 DEF Restart, LoseMemory, TypeOK
  <2>3. /\ channels' \in [Node -> [Node -> Request \cup {NoRequest}]]
        /\ prompt' \in [Node -> [Client -> Node \cup {Nobody}]]
    BY <1>7 DEF Restart, LoseMemory, TypeOK
  <2>4. answers' \in [Node -> [Client -> Seq(VerifyConfirm)]]
    <3> DEFINE none == [c \in Client |-> <<>>]
    <3>1. none \in [Client -> Seq(VerifyConfirm)]
      OBVIOUS
    <3>2. answers' = [answers EXCEPT ![n] = none]
      BY <1>7 DEF Restart, LoseMemory
    <3> HIDE DEF none
    <3> QED
      BY <3>1, <3>2 DEF TypeOK
  <2>5. req' \in [Request -> RequestState]
    <3>1. req' = [q \in Request |-> req'[q]]
      BY <1>7 DEF Restart, LoseMemory
    <3>2. \A q \in Request : req'[q] \in RequestState
      BY <1>7, RestartMoves
    <3> QED
      BY <3>1, <3>2
  <2> QED
    BY <1>7, <2>1, <2>2, <2>3, <2>4, <2>5 DEF Restart, LoseMemory, TypeOK
<1>8. ASSUME NEW r \in Request, ReceiveRequest(r)
      PROVE  TypeOK'
  <2> DEFINE n == req[r].to
             m == req[r].from
             old == channels[n][m]
  <2>1. n \in Node /\ m \in Node
    BY <1>8 DEF ReceiveRequest, Ends
  <2>2. /\ peers' \in [Node -> [Node -> PeerState]]
        /\ explicit' \in [Node -> SUBSET Node]
    BY <1>8, <2>1, AddPeersType DEF ReceiveRequest, PeerState
  <2>3. /\ channels' \in [Node -> [Node -> Request \cup {NoRequest}]]
        /\ prompt' \in [Node -> [Client -> Node \cup {Nobody}]]
    BY <1>8, <2>1 DEF ReceiveRequest, TypeOK
  <2>4. req' \in [Request -> RequestState]
    <3>1. req' = [q \in Request |-> req'[q]]
      BY <1>8 DEF ReceiveRequest
    <3>2. \A q \in Request : req'[q] \in RequestState
      BY <1>8, ReceiveMoves
    <3> QED
      BY <3>1, <3>2
  <2> QED
    BY <1>8, <2>2, <2>3, <2>4 DEF ReceiveRequest, TypeOK, history
<1>9. ASSUME NEW r \in Request, ReceiveResponse(r)
      PROVE  TypeOK'
  <2> DEFINE n == req[r].from
             m == req[r].to
  <2>1. n \in Node /\ m \in Node
    BY <1>9 DEF ReceiveResponse, Ends
  <2>2. /\ peers' \in [Node -> [Node -> PeerState]]
        /\ explicit' \in [Node -> SUBSET Node]
    BY <1>9, <2>1 DEF ReceiveResponse, TypeOK, PeerState
  <2>3. stored' \in [Node -> [Node -> PeerState]]
    <3>1. peers'[n] \in [Node -> PeerState]
      BY <2>1, <2>2
    <3>2. \/ stored' = [stored EXCEPT ![n] = peers'[n]]
          \/ UNCHANGED stored
      BY <1>9 DEF ReceiveResponse
    <3> QED
      BY <3>1, <3>2 DEF TypeOK
  <2>4. req' \in [Request -> RequestState]
    BY <1>9, ResponseMoves DEF MovesTo
  <2> QED
    BY <1>9, <2>2, <2>3, <2>4 DEF ReceiveResponse, TypeOK, clients, history
<1>10. ASSUME NEW r \in Request, OutboundFailure(r)
       PROVE  TypeOK'
  <2>1. req' \in [Request -> RequestState]
    BY <1>10, OutboundFailureMoves DEF MovesTo
  <2> QED
    BY <1>10, <2>1 DEF OutboundFailure, TypeOK, table, clients, history
<1>11. ASSUME NEW r \in Request, InboundFailure(r)
       PROVE  TypeOK'
  <2>1. req' \in [Request -> RequestState]
    BY <1>11, InboundFailureMoves DEF MovesTo
  <2> QED
    BY <1>11, <2>1 DEF InboundFailure, TypeOK, table, clients, history
<1>12. CASE UNCHANGED vars
  BY <1>12 DEF vars, TypeOK, table, clients, history
<1> QED
  BY <1>1, <1>2, <1>3, <1>4, <1>5, <1>6, <1>7, <1>8, <1>9, <1>10, <1>11,
     <1>12 DEF Next

-----------------------------------------------------------------------------
(* What the channel invariant needs of a step: where a channel or a        *)
(* request may change.                                                     *)
Slots == Ends /\ ChannelSlots

LEMMA InitSlots == Init => Slots
  BY InitTypeOK DEF Slots, Init, ChannelSlots

ChannelType == \A a, b \in Node : channels[a][b] \in Request \cup {NoRequest}

(* A step that touches no channel, and moves one request from a phase in   *)
(* which no channel is kept, or loses one that is held, keeps Slots.       *)
LEMMA MoveKeepsSlots ==
  ASSUME ChannelType, Slots, NEW r \in Request, NEW p, MovesTo(r, p),
         UNCHANGED channels,
         \/ p = req[r].phase
         \/ req[r].phase \in {"accept", "deny"} /\ p = "done"
         \/ req[r].phase = "held" /\ p = "lost"
  PROVE  Slots'
<1>1. ChannelType /\ Ends /\ ChannelSlots
  BY DEF Slots
<1>2. /\ \A q \in Request : req'[q].from = req[q].from /\ req'[q].to = req[q].to
      /\ \A q \in Request \ {r} : req'[q].phase = req[q].phase
      /\ req'[r].phase = p
      /\ channels' = channels
  BY DEF MovesTo
<1>3. Ends'
  BY <1>1, <1>2 DEF Ends
<1>4. ASSUME NEW a \in Node, NEW b \in Node, channels'[a][b] # NoRequest
      PROVE  LET x == channels'[a][b] IN
             /\ req'[x].to = a /\ req'[x].from = b
             /\ req'[x].phase \in {"held", "lost"}
  BY <1>1, <1>2, <1>4 DEF ChannelSlots, ChannelType
<1>5. ASSUME NEW q \in Request, req'[q].phase = "held"
      PROVE  channels'[req'[q].to][req'[q].from] = q
  BY <1>1, <1>2, <1>5 DEF ChannelSlots
<1> QED
  BY <1>3, <1>4, <1>5 DEF ChannelSlots, Slots

(* No step puts a channel in a wrong slot, loses track of one that is      *)
(* held, or gives a request but one end.                                   *)
LEMMA SlotsStep == TypeOK /\ Slots /\ [Next]_vars => Slots'
<1> SUFFICES ASSUME TypeOK, Slots, [Next]_vars PROVE Slots'
  OBVIOUS
<1>1. /\ Ends /\ ChannelSlots
      /\ \A a, b \in Node : channels[a][b] \in Request \cup {NoRequest}
      /\ NoRequest \notin Request
      /\ ChannelType
  BY PairingAssumption DEF Slots, TypeOK, ChannelType
<1>2. CASE UNCHANGED <<req, channels>>
  BY <1>1, <1>2 DEF Ends, ChannelSlots, Slots
<1>3. ASSUME NEW n \in Node, NEW m \in Node, NEW r \in Request,
             RequestVerify(n, m, r)
      PROVE  Slots'
  <2>1. /\ req[r].phase = "free"
        /\ channels' = channels
        /\ req'[r].from = n /\ req'[r].to = m /\ req'[r].phase = "sent"
        /\ \A q \in Request \ {r} : req'[q] = req[q]
    BY <1>3 DEF RequestVerify, TypeOK
  <2>ends. Ends'
    BY <1>1, <2>1 DEF Ends
  <2>slot. ASSUME NEW a \in Node, NEW b \in Node, channels'[a][b] # NoRequest
         PROVE  LET x == channels'[a][b] IN
                /\ req'[x].to = a /\ req'[x].from = b
                /\ req'[x].phase \in {"held", "lost"}
    BY <1>1, <2>1, <2>slot DEF ChannelSlots
  <2>held. ASSUME NEW q \in Request, req'[q].phase = "held"
         PROVE  channels'[req'[q].to][req'[q].from] = q
    BY <1>1, <2>1, <2>held DEF ChannelSlots, Ends
  <2> QED
    BY <2>ends, <2>slot, <2>held DEF ChannelSlots, Slots
<1>4. ASSUME NEW n \in Node, NEW c \in Client, HandleConfirm(n, c)
      PROVE  Slots'
  <2> DEFINE m == Head(answers[n][c]).peer
             r == channels[n][m]
  <2>1. m \in Node
    <3>1. Head(answers[n][c]) \in VerifyConfirm
      BY <1>4 DEF HandleConfirm, TypeOK
    <3> QED
      BY <3>1 DEF VerifyConfirm
  <2>2. PICK answer \in {"accept", "deny"} : AnswerChannel(n, m, answer)
    BY <1>4 DEF HandleConfirm
  <2> HIDE DEF m
  <2>3. /\ channels' = [channels EXCEPT ![n][m] = NoRequest]
        /\ \/ r \in Request /\ req[r].phase = "held" /\ MovesTo(r, answer)
           \/ ~(r \in Request /\ req[r].phase = "held") /\ req' = req
    BY <2>1, <2>2, AnswerMoves, SMTT(30)
  <2>4. /\ \A a, b \in Node : channels'[a][b] =
              IF a = n /\ b = m THEN NoRequest ELSE channels[a][b]
        /\ n \in Node /\ m \in Node
    BY <2>1, <2>3 DEF TypeOK
  <2>5. CASE r \in Request /\ req[r].phase = "held" /\ MovesTo(r, answer)
    <3>1. /\ \A q \in Request : req'[q].from = req[q].from /\ req'[q].to = req[q].to
          /\ \A q \in Request : q # r => req'[q].phase = req[q].phase
          /\ req'[r].phase \in {"accept", "deny"}
          /\ r \in Request /\ req[r].phase = "held"
      BY <2>5 DEF MovesTo
    <3>2. \A q \in Request : req'[q].phase = "free" => req[q].phase = "free"
      BY <3>1
    <3>ends. Ends'
      BY <1>1, <2>4, <3>1, <3>2 DEF Ends
    <3>slot. ASSUME NEW a \in Node, NEW b \in Node, channels'[a][b] # NoRequest
           PROVE  LET x == channels'[a][b] IN
                  /\ req'[x].to = a /\ req'[x].from = b
                  /\ req'[x].phase \in {"held", "lost"}
      BY <1>1, <2>4, <3>1, <3>2, <3>slot DEF ChannelSlots
    <3>held. ASSUME NEW q \in Request, req'[q].phase = "held"
           PROVE  channels'[req'[q].to][req'[q].from] = q
      BY <1>1, <2>4, <3>1, <3>2, <3>held DEF ChannelSlots, Ends
    <3> QED
      BY <3>ends, <3>slot, <3>held DEF ChannelSlots, Slots
  <2>6. CASE ~(r \in Request /\ req[r].phase = "held") /\ req' = req
    <3>1. req' = req /\ ~(r \in Request /\ req[r].phase = "held")
      BY <2>6
    <3>ends. Ends'
      BY <1>1, <2>4, <3>1 DEF Ends
    <3>slot. ASSUME NEW a \in Node, NEW b \in Node, channels'[a][b] # NoRequest
           PROVE  LET x == channels'[a][b] IN
                  /\ req'[x].to = a /\ req'[x].from = b
                  /\ req'[x].phase \in {"held", "lost"}
      BY <1>1, <2>4, <3>1, <3>slot DEF ChannelSlots
    <3>held. ASSUME NEW q \in Request, req'[q].phase = "held"
           PROVE  channels'[req'[q].to][req'[q].from] = q
      BY <1>1, <2>4, <3>1, <3>held DEF ChannelSlots, Ends
    <3> QED
      BY <3>ends, <3>slot, <3>held DEF ChannelSlots, Slots
  <2> QED
    BY <2>3, <2>5, <2>6
<1>5. ASSUME NEW n \in Node, Restart(n)
      PROVE  Slots'
  <2>1. \A a, b \in Node :
          channels'[a][b] = IF a = n THEN NoRequest ELSE channels[a][b]
    BY <1>5 DEF Restart, LoseMemory, TypeOK
  <2>2. \A q \in Request :
          /\ req'[q].from = req[q].from
          /\ req'[q].to = req[q].to
          /\ req'[q].phase = IF req[q].phase = "held" /\ req[q].to = n
                               THEN "lost" ELSE req[q].phase
    BY <1>5, RestartMoves
  <2>ends. Ends'
    BY <1>1, <2>1, <2>2 DEF Ends
  <2>slot. ASSUME NEW a \in Node, NEW b \in Node, channels'[a][b] # NoRequest
         PROVE  LET x == channels'[a][b] IN
                /\ req'[x].to = a /\ req'[x].from = b
                /\ req'[x].phase \in {"held", "lost"}
    BY <1>1, <2>1, <2>2, <2>slot DEF ChannelSlots
  <2>held. ASSUME NEW q \in Request, req'[q].phase = "held"
         PROVE  channels'[req'[q].to][req'[q].from] = q
    BY <1>1, <2>1, <2>2, <2>held DEF ChannelSlots, Ends
  <2> QED
    BY <2>ends, <2>slot, <2>held DEF ChannelSlots, Slots
<1>6. ASSUME NEW r \in Request, ReceiveRequest(r)
      PROVE  Slots'
  <2> DEFINE n == req[r].to
             m == req[r].from
             old == channels[n][m]
  <2>1. n \in Node /\ m \in Node /\ req[r].phase = "sent"
    BY <1>1, <1>6 DEF ReceiveRequest, Ends
  <2>2. \A a, b \in Node : channels'[a][b] =
          IF a = n /\ b = m THEN r ELSE channels[a][b]
    BY <1>6, <2>1 DEF ReceiveRequest, TypeOK
  <2>3. \A q \in Request :
          /\ req'[q].from = req[q].from
          /\ req'[q].to = req[q].to
          /\ q = r => req'[q].phase = "held"
          /\ q # r /\ q = old => req'[q].phase = "lost"
          /\ q # r /\ q # old => req'[q].phase = req[q].phase
    BY <1>6, ReceiveMoves
  <2>4. old # NoRequest => /\ old \in Request
                           /\ req[old].phase \in {"held", "lost"}
                           /\ req[old].to = n /\ req[old].from = m
    BY <1>1, <2>1 DEF ChannelSlots
  <2>5. old = channels[n][m]
    OBVIOUS
  <2> HIDE DEF old
  <2>ends. Ends'
    BY <1>1, <2>1, <2>2, <2>3, <2>4 DEF Ends
  <2>slot. ASSUME NEW a \in Node, NEW b \in Node, channels'[a][b] # NoRequest
         PROVE  LET x == channels'[a][b] IN
                /\ req'[x].to = a /\ req'[x].from = b
                /\ req'[x].phase \in {"held", "lost"}
    BY <1>1, <2>1, <2>2, <2>3, <2>4, <2>slot DEF ChannelSlots
  <2>held. ASSUME NEW q \in Request, req'[q].phase = "held"
         PROVE  channels'[req'[q].to][req'[q].from] = q
    BY <1>1, <2>1, <2>2, <2>3, <2>5, <2>held DEF ChannelSlots, Ends
  <2> QED
    BY <2>ends, <2>slot, <2>held DEF ChannelSlots, Slots
<1>7. ASSUME NEW r \in Request, ReceiveResponse(r)
      PROVE  Slots'
  BY <1>1, <1>7, MoveKeepsSlots, ResponseMoves DEF ReceiveResponse
<1>8. ASSUME NEW r \in Request, OutboundFailure(r)
      PROVE  Slots'
  BY <1>1, <1>8, MoveKeepsSlots, OutboundFailureMoves DEF OutboundFailure
<1>9. ASSUME NEW r \in Request, InboundFailure(r)
      PROVE  Slots'
  BY <1>1, <1>9, MoveKeepsSlots, InboundFailureMoves DEF InboundFailure
<1> QED
  BY <1>2, <1>3, <1>4, <1>5, <1>6, <1>7, <1>8, <1>9
  DEF Next, vars, Discovered, Expired, DisconnectPeer, Answer

(* Every variable keeps its type.                                          *)
THEOREM TypeCorrect == Spec => []TypeOK
<1>1. Init => TypeOK /\ Slots
  BY InitTypeOK, InitSlots
<1>2. (TypeOK /\ Slots) /\ [Next]_vars => (TypeOK /\ Slots)'
  BY TypeOKStep, SlotsStep DEF Slots
<1> QED
  BY <1>1, <1>2, PTL DEF Spec

(* No request that waits for its answer gets out of reach of the answer.   *)
THEOREM ChannelsInTheirSlots == Spec => []ChannelSlots
<1>1. Init => TypeOK /\ Slots
  BY InitTypeOK, InitSlots
<1>2. (TypeOK /\ Slots) /\ [Next]_vars => (TypeOK /\ Slots)'
  BY TypeOKStep, SlotsStep DEF Slots
<1>3. Slots => ChannelSlots
  BY DEF Slots
<1> QED
  BY <1>1, <1>2, <1>3, PTL DEF Spec

-----------------------------------------------------------------------------
(* Every "yes" on its way to the daemon was given by the daemon's user.    *)
AnswersMeant ==
  \A n \in Node, c \in Client : \A i \in 1..Len(answers[n][c]) :
    answers[n][c][i].result => answers[n][c][i].peer \in accepted[n]

(* VerifiedByConsent is not inductive: a peer becomes verified by a "yes"  *)
(* or an Accept that were under way, so those must be meant too.           *)
ConsentInv == VerifiedByConsent /\ AcceptIsMeant /\ AnswersMeant

LEMMA InitConsent == Init => ConsentInv
  BY DEF Init, EmptyRow, ConsentInv, VerifiedByConsent, AcceptIsMeant,
         AnswersMeant

(* Consents are never withdrawn from the history: what was grounded stays. *)
LEMMA ConsentKept ==
  ASSUME Ends, ConsentInv,
         \A n \in Node : accepted[n] \subseteq accepted'[n],
         \A n, m \in Node : peers'[n][m] = "Verified" =>
           \/ peers[n][m] = "Verified"
           \/ stored[n][m] = "Verified"
           \/ m \in accepted'[n] \/ n \in accepted'[m],
         \A n, m \in Node : stored'[n][m] = "Verified" =>
           \/ peers'[n][m] = "Verified"
           \/ stored[n][m] = "Verified",
         \A r \in Request : req'[r].phase = "accept" =>
           \/ /\ req[r].phase = "accept"
              /\ req'[r].from = req[r].from /\ req'[r].to = req[r].to
           \/ req'[r].from \in accepted'[req'[r].to],
         AnswersMeant'
  PROVE  ConsentInv'
<1>1. /\ \A n, m \in Node :
            peers[n][m] = "Verified" \/ stored[n][m] = "Verified" =>
              m \in accepted[n] \/ n \in accepted[m]
      /\ \A r \in Request : req[r].phase = "accept" =>
            /\ req[r].from \in accepted[req[r].to]
            /\ req[r].to \in Node
  BY DEF ConsentInv, VerifiedByConsent, Grounded, AcceptIsMeant, Ends
<1>2. VerifiedByConsent'
  BY <1>1 DEF VerifiedByConsent, Grounded
<1>3. AcceptIsMeant'
  BY <1>1 DEF AcceptIsMeant
<1> QED
  BY <1>2, <1>3 DEF ConsentInv

LEMMA ConsentStep == TypeOK /\ Slots /\ ConsentInv /\ [Next]_vars => ConsentInv'
<1> SUFFICES ASSUME TypeOK, Slots, ConsentInv, [Next]_vars PROVE ConsentInv'
  OBVIOUS
<1>1. /\ Ends /\ ChannelSlots
      /\ VerifiedByConsent /\ AcceptIsMeant /\ AnswersMeant
  BY DEF Slots, ConsentInv
<1>2. CASE UNCHANGED vars
  BY <1>1, <1>2, ConsentKept DEF vars, table, clients, history, AnswersMeant
<1>3. ASSUME NEW n \in Node, NEW S \in SUBSET ((Node \ {n}) \X Addr),
             Discovered(n, S)
      PROVE  ConsentInv'
  <2>1. /\ UNCHANGED <<answers, stored, req, accepted>>
        /\ \A a, b \in Node : peers'[a][b] = "Verified" => peers[a][b] = "Verified"
    BY <1>3 DEF Discovered, AddPeers, clients, history, TypeOK
  <2> QED
    BY <1>1, <2>1, ConsentKept DEF AnswersMeant
<1>4. ASSUME NEW n \in Node, NEW M \in SUBSET Node, RemovePeers(n, M),
             UNCHANGED <<answers, stored, req, accepted>>
      PROVE  ConsentInv'
  <2>1. \A a, b \in Node : peers'[a][b] = "Verified" => peers[a][b] = "Verified"
    BY <1>4 DEF RemovePeers, TypeOK
  <2> QED
    BY <1>1, <1>4, <2>1, ConsentKept DEF AnswersMeant
<1>5. ASSUME NEW n \in Node, NEW S \in SUBSET ((Node \ {n}) \X Addr),
             Expired(n, S)
      PROVE  ConsentInv'
  BY <1>4, <1>5, PeersOfNodes DEF Expired, clients, history
<1>6. ASSUME NEW n \in Node, NEW m \in Node, DisconnectPeer(n, m)
      PROVE  ConsentInv'
  BY <1>4, <1>6 DEF DisconnectPeer, clients, history
<1>7. ASSUME NEW n \in Node, NEW m \in Node, NEW r \in Request,
             RequestVerify(n, m, r)
      PROVE  ConsentInv'
  <2>1. /\ UNCHANGED <<answers, stored, peers, accepted>>
        /\ req'[r].phase = "sent"
        /\ \A q \in Request \ {r} : req'[q] = req[q]
    BY <1>7 DEF RequestVerify, table, clients, history, TypeOK
  <2> QED
    BY <1>1, <2>1, ConsentKept DEF AnswersMeant
<1>8. ASSUME NEW n \in Node, NEW c \in Client, NEW result \in BOOLEAN,
             Answer(n, c, result)
      PROVE  ConsentInv'
  <2> DEFINE m == prompt[n][c]
             a == [peer |-> m, result |-> result]
  <2>1. /\ UNCHANGED <<peers, stored, req>>
        /\ \A x \in Node : accepted[x] \subseteq accepted'[x]
        /\ result => m \in accepted'[n]
    BY <1>8 DEF Answer, table, TypeOK
  <2>2. AnswersMeant'
    <3> SUFFICES ASSUME NEW x \in Node, NEW d \in Client,
                        NEW i \in 1..Len(answers'[x][d]),
                        answers'[x][d][i].result
                 PROVE  answers'[x][d][i].peer \in accepted'[x]
      BY DEF AnswersMeant
    <3>1. CASE x = n /\ d = c
      <4>1. /\ answers[n][c] \in Seq(VerifyConfirm)
            /\ answers'[x][d] = Append(answers[n][c], a)
        BY <1>8, <3>1 DEF Answer, TypeOK
      <4>2. /\ i \in 1..(Len(answers[n][c]) + 1)
            /\ i # Len(answers[n][c]) + 1 =>
                 /\ i \in 1..Len(answers[n][c])
                 /\ answers'[x][d][i] = answers[n][c][i]
            /\ i = Len(answers[n][c]) + 1 => answers'[x][d][i] = a
        <5> HIDE DEF a
        <5> QED
          BY <4>1
      <4> QED
        BY <1>1, <2>1, <3>1, <4>2, SMTT(30) DEF AnswersMeant
    <3>2. CASE ~(x = n /\ d = c)
      <4>1. answers'[x][d] = answers[x][d]
        BY <1>8, <3>2 DEF Answer, TypeOK
      <4> QED
        BY <1>1, <2>1, <4>1 DEF AnswersMeant
    <3> QED
      BY <3>1, <3>2
  <2> QED
    BY <1>1, <2>1, <2>2, ConsentKept
<1>9. ASSUME NEW n \in Node, NEW c \in Client, HandleConfirm(n, c)
      PROVE  ConsentInv'
  <2> DEFINE confirm == Head(answers[n][c])
             m == confirm.peer
             r == channels[n][m]
  <2>1. /\ answers[n][c] \in Seq(VerifyConfirm)
        /\ answers[n][c] # <<>>
        /\ UNCHANGED <<stored, accepted>>
        /\ answers' = [answers EXCEPT ![n][c] = Tail(answers[n][c])]
    BY <1>9 DEF HandleConfirm, TypeOK, history
  <2>2. /\ confirm \in VerifyConfirm
        /\ confirm.result => m \in accepted[n]
    BY <1>1, <2>1 DEF AnswersMeant
  <2>3. m \in Node
    BY <2>2 DEF VerifyConfirm
  <2>4. AnswersMeant'
    <3> SUFFICES ASSUME NEW x \in Node, NEW d \in Client,
                        NEW i \in 1..Len(answers'[x][d]),
                        answers'[x][d][i].result
                 PROVE  answers'[x][d][i].peer \in accepted'[x]
      BY DEF AnswersMeant
    <3>1. CASE x = n /\ d = c
      <4>1. answers'[x][d] = Tail(answers[n][c])
        BY <2>1, <3>1 DEF TypeOK
      <4>2. /\ i + 1 \in 1..Len(answers[n][c])
            /\ answers'[x][d][i] = answers[n][c][i + 1]
        <5> DEFINE s == answers[n][c]
        <5>1. s \in Seq(VerifyConfirm) /\ s # <<>> /\ i \in 1..Len(Tail(s))
          BY <2>1, <4>1
        <5> HIDE DEF s
        <5>2. Len(Tail(s)) = Len(s) - 1 /\ Len(s) \in Nat
          BY <5>1
        <5>3. i + 1 \in 1..Len(s) /\ Tail(s)[i] = s[i + 1]
          BY <5>1, <5>2
        <5> QED
          BY <4>1, <5>3 DEF s
      <4> QED
        BY <1>1, <2>1, <3>1, <4>2 DEF AnswersMeant
    <3>2. CASE ~(x = n /\ d = c)
      <4>1. answers'[x][d] = answers[x][d]
        BY <2>1, <3>2 DEF TypeOK
      <4> QED
        BY <1>1, <2>1, <4>1 DEF AnswersMeant
    <3> QED
      BY <3>1, <3>2
  <2> HIDE DEF m
  <2>5. CASE confirm.result /\ AddPeers(n, {m}, "Verified")
                            /\ AnswerChannel(n, m, "accept")
    <3>1. \A a, b \in Node : peers'[a][b] = "Verified" =>
            \/ peers[a][b] = "Verified"
            \/ a = n /\ b = m
      BY <2>5 DEF AddPeers, TypeOK
    <3>2. \/ /\ r \in Request /\ req[r].phase = "held"
             /\ MovesTo(r, "accept")
          \/ req' = req
      BY <2>3, <2>5, AnswerMoves
    <3>3. r \in Request => req[r].from = m /\ req[r].to = n
      BY <1>1, <2>3, PairingAssumption DEF ChannelSlots
    <3>4. \A q \in Request : req'[q].phase = "accept" =>
            \/ req'[q] = req[q]
            \/ req'[q].from = m /\ req'[q].to = n
      BY <3>2, <3>3 DEF MovesTo
    <3> QED
      BY <1>1, <2>1, <2>2, <2>4, <2>5, <3>1, <3>4, ConsentKept
  <2>6. CASE AnswerChannel(n, m, "deny") /\ UNCHANGED table
    <3>1. \/ r \in Request /\ MovesTo(r, "deny")
          \/ req' = req
      BY <2>3, <2>6, AnswerMoves
    <3>2. \A q \in Request : req'[q].phase = "accept" => req'[q] = req[q]
      BY <3>1 DEF MovesTo
    <3> QED
      BY <1>1, <2>1, <2>4, <2>6, <3>2, ConsentKept DEF table
  <2> QED
    BY <1>9, <2>5, <2>6 DEF HandleConfirm, m
<1>10. ASSUME NEW n \in Node, Restart(n)
       PROVE  ConsentInv'
  <2>1. /\ UNCHANGED <<stored, accepted>>
        /\ \A a, b \in Node : peers'[a][b] = "Verified" =>
             peers[a][b] = "Verified" \/ stored[a][b] = "Verified"
    BY <1>10 DEF Restart, LoseMemory, TypeOK
  <2>2. AnswersMeant'
    <3> DEFINE none == [c \in Client |-> <<>>]
    <3>1. \A x \in Node : answers'[x] = IF x = n THEN none ELSE answers[x]
      BY <1>10 DEF Restart, LoseMemory, TypeOK
    <3>2. \A c \in Client : Len(none[c]) = 0
      OBVIOUS
    <3> HIDE DEF none
    <3> QED
      BY <1>1, <2>1, <3>1, <3>2 DEF AnswersMeant
  <2>3. \A q \in Request : req'[q].phase = "accept" =>
          /\ req[q].phase = "accept"
          /\ req'[q].from = req[q].from /\ req'[q].to = req[q].to
    BY <1>10, RestartMoves
  <2> QED
    BY <1>1, <2>1, <2>2, <2>3, ConsentKept
<1>11. ASSUME NEW r \in Request, ReceiveRequest(r)
       PROVE  ConsentInv'
  <2>1. req[r].to \in Node
    BY <1>1, <1>11 DEF ReceiveRequest, Ends
  <2>2. /\ UNCHANGED <<answers, stored, accepted>>
        /\ \A a, b \in Node : peers'[a][b] = "Verified" => peers[a][b] = "Verified"
    BY <1>11, <2>1 DEF ReceiveRequest, AddPeers, history, TypeOK
  <2>3. \A q \in Request : req'[q].phase = "accept" =>
          /\ req[q].phase = "accept"
          /\ req'[q].from = req[q].from /\ req'[q].to = req[q].to
    BY <1>11, ReceiveMoves
  <2> QED
    BY <1>1, <2>2, <2>3, ConsentKept DEF AnswersMeant
<1>12. ASSUME NEW r \in Request, ReceiveResponse(r)
       PROVE  ConsentInv'
  <2> DEFINE n == req[r].from
             m == req[r].to
  <2>1. n \in Node /\ m \in Node
    BY <1>1, <1>12 DEF ReceiveResponse, Ends
  <2>2. /\ UNCHANGED <<answers, accepted>>
        /\ \A a, b \in Node : peers'[a][b] = "Verified" =>
             \/ peers[a][b] = "Verified"
             \/ a = n /\ b = m /\ req[r].phase = "accept"
    BY <1>12, <2>1 DEF ReceiveResponse, clients, history, TypeOK
  <2>3. \A a, b \in Node : stored'[a][b] = "Verified" =>
          peers'[a][b] = "Verified" \/ stored[a][b] = "Verified"
    BY <1>12, <2>1 DEF ReceiveResponse, TypeOK
  <2>4. req[r].phase = "accept" => n \in accepted'[m]
    BY <1>1, <2>2 DEF AcceptIsMeant
  <2>5. \A q \in Request : req'[q].phase = "accept" => req'[q] = req[q]
    BY <1>12, ResponseMoves DEF MovesTo
  <2> QED
    BY <1>1, <2>1, <2>2, <2>3, <2>4, <2>5, ConsentKept DEF AnswersMeant
<1>13. ASSUME NEW r \in Request, NEW p \in {req[r].phase, "lost"},
              MovesTo(r, p), UNCHANGED <<peers, answers, stored, accepted>>
       PROVE  ConsentInv'
  <2>1. \A q \in Request : req'[q].phase = "accept" =>
          /\ req[q].phase = "accept"
          /\ req'[q].from = req[q].from /\ req'[q].to = req[q].to
    BY <1>13 DEF MovesTo
  <2> QED
    BY <1>1, <1>13, <2>1, ConsentKept DEF AnswersMeant
<1>14. ASSUME NEW r \in Request, OutboundFailure(r) \/ InboundFailure(r)
       PROVE  ConsentInv'
  BY <1>13, <1>14, OutboundFailureMoves, InboundFailureMoves
  DEF OutboundFailure, InboundFailure, table, clients, history
<1> QED
  BY <1>2, <1>3, <1>5, <1>6, <1>7, <1>8, <1>9, <1>10, <1>11, <1>12, <1>14
  DEF Next

(* What all steps preserve.                                                *)
PInv == TypeOK /\ Slots /\ ConsentInv /\ ExplicitFollowsTable /\ PromptAnswerable

(* Where a peer may become explicit without an entry, or the reverse.      *)
LEMMA ExplicitKept ==
  ASSUME ExplicitFollowsTable, NEW n \in Node,
         \A a \in Node : /\ accepted[a] \subseteq accepted'[a]
                         /\ restarts[a] > 0 => restarts'[a] > 0,
         \A a \in Node \ {n} : peers'[a] = peers[a] /\ explicit'[a] = explicit[a],
         \A b \in Node :
           \/ restarts'[n] > 0 /\ b \notin explicit'[n]
           \/ b \in explicit'[n] /\ n \in accepted'[b]
           \/ b \in explicit'[n] /\ peers'[n][b] # "Unknown"
           \/ b \notin explicit'[n] /\ peers'[n][b] = "Unknown"
           \/ /\ b \in explicit'[n] <=> b \in explicit[n]
              /\ peers'[n][b] = "Unknown" <=> peers[n][b] = "Unknown"
  PROVE  ExplicitFollowsTable'
  BY DEF ExplicitFollowsTable, Known

LEMMA ExplicitStep ==
  TypeOK /\ Slots /\ ConsentInv /\ ExplicitFollowsTable /\ [Next]_vars
    => ExplicitFollowsTable'
<1> SUFFICES ASSUME TypeOK, Slots, ConsentInv, ExplicitFollowsTable, [Next]_vars
             PROVE  ExplicitFollowsTable'
  OBVIOUS
<1>1. CASE UNCHANGED <<table, accepted, restarts>>
  BY <1>1 DEF table, ExplicitFollowsTable, Known
<1>2. ASSUME NEW n \in Node, NEW M \in SUBSET Node,
             NEW state \in PeerState \ {"Unknown"}, AddPeers(n, M, state),
             UNCHANGED <<accepted, restarts>>
      PROVE  ExplicitFollowsTable'
  <2>1. /\ \A a \in Node \ {n} : peers'[a] = peers[a] /\ explicit'[a] = explicit[a]
        /\ \A b \in M : b \in explicit'[n] /\ peers'[n][b] # "Unknown"
        /\ \A b \in Node \ M : /\ b \in explicit'[n] <=> b \in explicit[n]
                               /\ peers'[n][b] = peers[n][b]
    BY <1>2 DEF AddPeers, TypeOK
  <2> QED
    BY <1>2, <2>1, ExplicitKept
<1>3. ASSUME NEW n \in Node, NEW M \in SUBSET Node, RemovePeers(n, M),
             UNCHANGED <<accepted, restarts>>
      PROVE  ExplicitFollowsTable'
  <2>1. /\ \A a \in Node \ {n} : peers'[a] = peers[a] /\ explicit'[a] = explicit[a]
        /\ \A b \in M : b \notin explicit'[n] /\ peers'[n][b] = "Unknown"
        /\ \A b \in Node \ M : /\ b \in explicit'[n] <=> b \in explicit[n]
                               /\ peers'[n][b] = peers[n][b]
    BY <1>3 DEF RemovePeers, TypeOK
  <2> QED
    BY <1>3, <2>1, ExplicitKept
<1>4. ASSUME NEW n \in Node, NEW S \in SUBSET ((Node \ {n}) \X Addr),
             Discovered(n, S) \/ Expired(n, S)
      PROVE  ExplicitFollowsTable'
  BY <1>2, <1>3, <1>4, PeersOfNodes DEF Discovered, Expired, PeerState, history
<1>5. ASSUME NEW n \in Node, NEW m \in Node, DisconnectPeer(n, m)
      PROVE  ExplicitFollowsTable'
  BY <1>3, <1>5 DEF DisconnectPeer, history
<1>6. ASSUME NEW n \in Node, NEW c \in Client, NEW result \in BOOLEAN,
             Answer(n, c, result)
      PROVE  ExplicitFollowsTable'
  <2>1. /\ UNCHANGED <<peers, explicit, restarts>>
        /\ \A a \in Node : accepted[a] \subseteq accepted'[a]
    BY <1>6 DEF Answer, table, TypeOK
  <2> QED
    BY <2>1, ExplicitKept
<1>7. ASSUME NEW n \in Node, NEW c \in Client, HandleConfirm(n, c)
      PROVE  ExplicitFollowsTable'
  <2> DEFINE m == Head(answers[n][c]).peer
  <2>1. m \in Node
    <3>1. answers[n][c] \in Seq(VerifyConfirm) /\ answers[n][c] # <<>>
      BY <1>7 DEF HandleConfirm, TypeOK
    <3>2. Head(answers[n][c]) \in VerifyConfirm
      BY <3>1
    <3> QED
      BY <3>2 DEF VerifyConfirm
  <2>2. /\ UNCHANGED <<accepted, restarts>>
        /\ AddPeers(n, {m}, "Verified") \/ UNCHANGED table
    BY <1>7 DEF HandleConfirm, history
  <2> HIDE DEF m
  <2> QED
    BY <1>1, <1>2, <2>1, <2>2 DEF PeerState
<1>8. ASSUME NEW n \in Node, Restart(n)
      PROVE  ExplicitFollowsTable'
  <2>1. /\ UNCHANGED accepted
        /\ restarts' = [restarts EXCEPT ![n] = restarts[n] + 1]
        /\ explicit' = [explicit EXCEPT ![n] = {}]
        /\ peers' = [peers EXCEPT ![n] = stored[n]]
    BY <1>8 DEF Restart, LoseMemory
  <2>2. /\ restarts \in [Node -> 0..MaxRestarts]
        /\ explicit \in [Node -> SUBSET Node]
        /\ peers \in [Node -> [Node -> PeerState]]
    BY DEF TypeOK
  <2>3. restarts[n] \in Nat
    BY <2>2, PairingAssumption
  <2>4. /\ restarts'[n] > 0 /\ explicit'[n] = {}
        /\ \A a \in Node \ {n} : /\ restarts'[a] = restarts[a]
                                 /\ peers'[a] = peers[a]
                                 /\ explicit'[a] = explicit[a]
    BY <2>1, <2>2, <2>3
  <2> QED
    BY <2>1, <2>4, ExplicitKept
<1>9. ASSUME NEW r \in Request, ReceiveRequest(r)
      PROVE  ExplicitFollowsTable'
  <2>1. req[r].to \in Node /\ req[r].from \in Node
    BY <1>9 DEF ReceiveRequest, Slots, Ends
  <2> QED
    BY <1>2, <1>9, <2>1 DEF ReceiveRequest, PeerState, history
<1>10. ASSUME NEW r \in Request, ReceiveResponse(r)
       PROVE  ExplicitFollowsTable'
  <2> DEFINE n == req[r].from
             m == req[r].to
  <2>1. n \in Node /\ m \in Node
    BY <1>10 DEF ReceiveResponse, Slots, Ends
  <2>2. CASE req[r].phase = "accept"
    <3>1. n \in accepted[m]
      BY <2>2 DEF ConsentInv, AcceptIsMeant
    <3>2. /\ UNCHANGED <<accepted, restarts>>
          /\ explicit' = [explicit EXCEPT ![n] = @ \cup {m}]
          /\ \/ peers' = [peers EXCEPT ![n][m] = "Verified"] /\ m \in Known(n)
             \/ peers' = peers
      BY <1>10, <2>2 DEF ReceiveResponse, history
    <3>3. /\ \A a \in Node \ {n} : peers'[a] = peers[a] /\ explicit'[a] = explicit[a]
          /\ m \in explicit'[n]
          /\ \A b \in Node \ {m} : /\ b \in explicit'[n] <=> b \in explicit[n]
                                   /\ peers'[n][b] = peers[n][b]
      BY <2>1, <3>2 DEF TypeOK
    <3> QED
      BY <2>1, <3>1, <3>2, <3>3, ExplicitKept
  <2>3. CASE req[r].phase # "accept"
    BY <1>1, <1>10, <2>3 DEF ReceiveResponse, table, history
  <2> QED
    BY <2>2, <2>3
<1> QED
  BY <1>1, <1>4, <1>5, <1>6, <1>7, <1>8, <1>9, <1>10
  DEF Next, vars, RequestVerify, OutboundFailure, InboundFailure, history

-----------------------------------------------------------------------------
(* A request that can no longer be answered, and how it may have ended.    *)
Settled(r) == req[r].phase \in {"accept", "deny", "done", "lost"}

(* What the prompts need of a step: settled requests stay settled, a new   *)
(* prompt has a channel, and so has an old one unless its request is       *)
(* settled.                                                                *)
LEMMA PromptKept ==
  ASSUME PromptAnswerable,
         \A q \in Request : Settled(q) =>
           Settled(q)' /\ req'[q].from = req[q].from /\ req'[q].to = req[q].to,
         \A a \in Node, c \in Client :
           \/ prompt'[a][c] \in {prompt[a][c], Nobody}
           \/ channels'[a][prompt'[a][c]] # NoRequest,
         \A a, b \in Node :
           \/ channels'[a][b] = NoRequest => channels[a][b] = NoRequest
           \/ \A c \in Client : prompt'[a][c] = Nobody
           \/ \E q \in Request : /\ Settled(q)'
                                 /\ req'[q].from = b /\ req'[q].to = a,
         \A a \in Node, c \in Client : prompt'[a][c] \in Node \cup {Nobody}
  PROVE  PromptAnswerable'
<1> SUFFICES ASSUME NEW a \in Node, NEW c \in Client, prompt'[a][c] # Nobody,
                    channels'[a][prompt'[a][c]] = NoRequest
             PROVE  \E r \in Request : /\ req'[r].from = prompt'[a][c]
                                       /\ req'[r].to = a /\ Settled(r)'
  BY DEF PromptAnswerable, Settled
<1>1. prompt'[a][c] \in Node /\ prompt'[a][c] = prompt[a][c]
  OBVIOUS
<1>2. CASE channels[a][prompt[a][c]] = NoRequest
  <2>1. PICK r \in Request : /\ req[r].from = prompt[a][c]
                             /\ req[r].to = a /\ Settled(r)
    BY <1>1, <1>2 DEF PromptAnswerable, Settled
  <2> QED
    BY <1>1, <2>1
<1> QED
  BY <1>1, <1>2

LEMMA PromptStep ==
  TypeOK /\ TypeOK' /\ Slots /\ PromptAnswerable /\ [Next]_vars
    => PromptAnswerable'
<1> SUFFICES ASSUME TypeOK, TypeOK', Slots, PromptAnswerable, [Next]_vars
             PROVE  PromptAnswerable'
  OBVIOUS
<1>1. \A a \in Node, c \in Client : prompt'[a][c] \in Node \cup {Nobody}
  BY DEF TypeOK
<1>2. CASE UNCHANGED <<prompt, channels, req>>
  BY <1>2 DEF PromptAnswerable
<1>3. ASSUME NEW n \in Node, NEW m \in Node, NEW r \in Request,
             RequestVerify(n, m, r)
      PROVE  PromptAnswerable'
  <2>1. /\ UNCHANGED <<prompt, channels>>
        /\ ~Settled(r)
        /\ \A q \in Request \ {r} : req'[q] = req[q]
    BY <1>3 DEF RequestVerify, clients, TypeOK, Settled
  <2> QED
    BY <1>1, <2>1, PromptKept DEF Settled
<1>4. ASSUME NEW n \in Node, NEW c \in Client, NEW result \in BOOLEAN,
             Answer(n, c, result)
      PROVE  PromptAnswerable'
  <2>1. /\ UNCHANGED <<channels, req>>
        /\ \A a \in Node, d \in Client : prompt'[a][d] \in {prompt[a][d], Nobody}
    BY <1>4 DEF Answer, TypeOK
  <2> QED
    BY <1>1, <2>1, PromptKept DEF Settled
<1>5. ASSUME NEW n \in Node, NEW c \in Client, HandleConfirm(n, c)
      PROVE  PromptAnswerable'
  <2> DEFINE m == Head(answers[n][c]).peer
             r == channels[n][m]
  <2>1. m \in Node
    <3>1. answers[n][c] \in Seq(VerifyConfirm) /\ answers[n][c] # <<>>
      BY <1>5 DEF HandleConfirm, TypeOK
    <3>2. Head(answers[n][c]) \in VerifyConfirm
      BY <3>1
    <3> QED
      BY <3>2 DEF VerifyConfirm
  <2>2. PICK answer \in {"accept", "deny"} : AnswerChannel(n, m, answer)
    BY <1>5 DEF HandleConfirm
  <2>3. UNCHANGED prompt
    BY <1>5 DEF HandleConfirm
  <2> HIDE DEF m
  <2>4. /\ channels' = [channels EXCEPT ![n][m] = NoRequest]
        /\ \/ r \in Request /\ req[r].phase = "held" /\ MovesTo(r, answer)
           \/ ~(r \in Request /\ req[r].phase = "held") /\ req' = req
    BY <2>1, <2>2, AnswerMoves
  <2>5. \A a, b \in Node : channels'[a][b] =
          IF a = n /\ b = m THEN NoRequest ELSE channels[a][b]
    BY <2>1, <2>4 DEF TypeOK
  <2>6. r # NoRequest => /\ r \in Request /\ req[r].to = n /\ req[r].from = m
                         /\ req[r].phase \in {"held", "lost"}
    BY <2>1 DEF Slots, ChannelSlots, TypeOK
  <2>7. r # NoRequest => /\ req'[r].phase \in {"accept", "deny", "lost"}
                         /\ req'[r].to = n /\ req'[r].from = m
    BY <2>4, <2>6 DEF MovesTo
  <2>8. \A q \in Request : Settled(q) =>
          Settled(q)' /\ req'[q].from = req[q].from /\ req'[q].to = req[q].to
    BY <2>4 DEF MovesTo, Settled
  <2>9. r = channels[n][m]
    OBVIOUS
  <2> HIDE DEF r
  <2>10. r # NoRequest => \E q \in Request : /\ Settled(q)'
                                             /\ req'[q].from = m /\ req'[q].to = n
    BY <2>6, <2>7 DEF Settled
  <2> QED
    BY <1>1, <2>3, <2>5, <2>8, <2>9, <2>10, PromptKept
<1>6. ASSUME NEW n \in Node, Restart(n)
      PROVE  PromptAnswerable'
  <2>1. /\ prompt' = [prompt EXCEPT ![n] = [c \in Client |-> Nobody]]
        /\ channels' = [channels EXCEPT ![n] = [m \in Node |-> NoRequest]]
    BY <1>6 DEF Restart, LoseMemory
  <2>2. /\ \A a \in Node \ {n} : /\ prompt'[a] = prompt[a]
                                 /\ channels'[a] = channels[a]
        /\ \A c \in Client : prompt'[n][c] = Nobody
    BY <2>1 DEF TypeOK
  <2>3. \A q \in Request : Settled(q) =>
          Settled(q)' /\ req'[q].from = req[q].from /\ req'[q].to = req[q].to
    BY <1>6, RestartMoves DEF Settled
  <2> QED
    BY <1>1, <2>2, <2>3, PromptKept
<1>7. ASSUME NEW r \in Request, ReceiveRequest(r)
      PROVE  PromptAnswerable'
  <2> DEFINE n == req[r].to
             m == req[r].from
  <2>1. n \in Node /\ m \in Node /\ ~Settled(r)
    BY <1>7 DEF ReceiveRequest, Slots, Ends, Settled
  <2>2. /\ \A a, b \in Node : channels'[a][b] =
             IF a = n /\ b = m THEN r ELSE channels[a][b]
        /\ \A a \in Node, c \in Client : prompt'[a][c] =
             IF a = n THEN m ELSE prompt[a][c]
    BY <1>7, <2>1 DEF ReceiveRequest, TypeOK
  <2>3. \A q \in Request : Settled(q) =>
          Settled(q)' /\ req'[q].from = req[q].from /\ req'[q].to = req[q].to
    BY <1>7, <2>1, ReceiveMoves DEF Settled
  <2> QED
    BY <1>1, <2>1, <2>2, <2>3, PromptKept, PairingAssumption
<1>8. ASSUME NEW r \in Request, NEW p \in Phase, MovesTo(r, p),
             Settled(r) => p \in {"accept", "deny", "done", "lost"},
             UNCHANGED <<prompt, channels>>
      PROVE  PromptAnswerable'
  <2>1. \A q \in Request : Settled(q) =>
          Settled(q)' /\ req'[q].from = req[q].from /\ req'[q].to = req[q].to
    BY <1>8 DEF MovesTo, Settled
  <2> QED
    BY <1>1, <1>8, <2>1, PromptKept
<1>9. ASSUME NEW r \in Request, OutboundFailure(r)
      PROVE  PromptAnswerable'
  <2>1. req[r].phase \in Phase
    BY DEF TypeOK, RequestState
  <2> QED
    BY <1>8, <1>9, <2>1, OutboundFailureMoves DEF OutboundFailure, clients, Settled
<1>10. ASSUME NEW r \in Request, InboundFailure(r) \/ ReceiveResponse(r)
       PROVE  PromptAnswerable'
  BY <1>8, <1>10, InboundFailureMoves, ResponseMoves
  DEF InboundFailure, ReceiveResponse, clients, Phase
<1> QED
  BY <1>2, <1>3, <1>4, <1>5, <1>6, <1>7, <1>9, <1>10
  DEF Next, vars, clients, Discovered, Expired, DisconnectPeer

-----------------------------------------------------------------------------
LEMMA PInvariance == Spec => []PInv
<1>1. Init => PInv
  <2>1. Init => ExplicitFollowsTable /\ PromptAnswerable
    BY DEF Init, EmptyRow, ExplicitFollowsTable, Known, PromptAnswerable
  <2> QED
    BY <2>1, InitTypeOK, InitSlots, InitConsent DEF PInv
<1>2. PInv /\ [Next]_vars => PInv'
  BY TypeOKStep, SlotsStep, ConsentStep, ExplicitStep, PromptStep DEF PInv, Slots
<1> QED
  BY <1>1, <1>2, PTL DEF Spec

(* Nobody is verified, in memory or in the secret store, whom neither of   *)
(* the two users accepted.                                                 *)
THEOREM PairingNeedsConsent == Spec => []VerifiedByConsent
<1>1. PInv => VerifiedByConsent
  BY DEF PInv, ConsentInv
<1> QED
  BY <1>1, PInvariance, PTL

(* An Accept on its way to a peer was sent for a yes to that very peer.    *)
THEOREM AcceptsAreMeant == Spec => []AcceptIsMeant
<1>1. PInv => AcceptIsMeant
  BY DEF PInv, ConsentInv
<1> QED
  BY <1>1, PInvariance, PTL

(* The table and the explicit peers of gossipsub differ only by an Accept  *)
(* that came late and by what was loaded after a restart.                  *)
THEOREM ExplicitPeersExplained == Spec => []ExplicitFollowsTable
<1>1. PInv => ExplicitFollowsTable
  BY DEF PInv
<1> QED
  BY <1>1, PInvariance, PTL

(* A prompt has a channel to answer on, or a request it may be about has   *)
(* been answered or has failed.                                            *)
THEOREM PromptsAreAnswerable == Spec => []PromptAnswerable
<1>1. PInv => PromptAnswerable
  BY DEF PInv
<1> QED
  BY <1>1, PInvariance, PTL

-----------------------------------------------------------------------------
(* Every step of Pairing is a consent, a grounded gain of trust, a loss of *)
(* trust, a recall of trust that is grounded, or changes none of these.    *)
LEMMA RefinementStep ==
  TypeOK /\ Slots /\ ConsentInv /\ [Next]_vars
    => [Abstract!Next]_(Abstract!vars)
<1> SUFFICES ASSUME TypeOK, Slots, ConsentInv, [Next]_vars
             PROVE  [Abstract!Next]_(Abstract!vars)
  OBVIOUS
<1> DEFINE trust == [x \in Node |-> {m \in Node : peers[x][m] = "Verified"}]
<1>1. /\ Ends /\ ChannelSlots
      /\ VerifiedByConsent /\ AcceptIsMeant /\ AnswersMeant
  BY DEF Slots, ConsentInv
<1>2. ASSUME UNCHANGED <<peers, accepted>>
      PROVE  UNCHANGED Abstract!vars
  BY <1>2 DEF Abstract!vars
<1>3. ASSUME NEW n \in Node, NEW M \in SUBSET Node, UNCHANGED accepted,
             \A a, b \in Node : peers'[a][b] = "Verified" <=>
               peers[a][b] = "Verified" /\ ~(a = n /\ b \in M)
      PROVE  Abstract!Next
  <2>1. \A x \in Node : trust'[x] = IF x = n THEN trust[x] \ M ELSE trust[x]
    BY <1>3
  <2>2. trust' = [trust EXCEPT ![n] = @ \ M]
    BY <2>1
  <2>3. Abstract!Forget(n, M)
    BY <1>3, <2>2 DEF Abstract!Forget
  <2> QED
    BY <2>3 DEF Abstract!Next
<1>4. ASSUME NEW n \in Node, NEW m \in Node, UNCHANGED accepted,
             m \in accepted[n] \/ n \in accepted[m],
             peers' = [peers EXCEPT ![n][m] = "Verified"]
      PROVE  Abstract!Next
  <2>1. \A a, b \in Node : peers'[a][b] = "Verified" <=>
          peers[a][b] = "Verified" \/ (a = n /\ b = m)
    BY <1>4 DEF TypeOK
  <2>2. \A x \in Node :
          trust'[x] = IF x = n THEN trust[x] \cup {m} ELSE trust[x]
    BY <2>1
  <2>3. trust' = [trust EXCEPT ![n] = @ \cup {m}]
    BY <2>2
  <2>4. Abstract!Trust(n, m)
    BY <1>4, <2>3 DEF Abstract!Trust, Abstract!Grounded
  <2> QED
    BY <2>4 DEF Abstract!Next
<1>5. ASSUME NEW n \in Node, NEW M \in SUBSET Node,
             RemovePeers(n, M) \/ AddPeers(n, M, "WaitingVerification"),
             UNCHANGED accepted
      PROVE  Abstract!Next
  <2>1. \A a, b \in Node : peers'[a][b] = "Verified" <=>
          peers[a][b] = "Verified" /\ ~(a = n /\ b \in M)
    BY <1>5 DEF RemovePeers, AddPeers, TypeOK
  <2> QED
    BY <1>3, <1>5, <2>1
<1>6. ASSUME NEW n \in Node, NEW S \in SUBSET ((Node \ {n}) \X Addr),
             Discovered(n, S) \/ Expired(n, S)
      PROVE  Abstract!Next
  BY <1>5, <1>6, PeersOfNodes DEF Discovered, Expired, history
<1>7. ASSUME NEW n \in Node, NEW m \in Node, DisconnectPeer(n, m)
      PROVE  Abstract!Next
  BY <1>5, <1>7 DEF DisconnectPeer, history
<1>8. ASSUME NEW n \in Node, NEW c \in Client, NEW result \in BOOLEAN,
             Answer(n, c, result)
      PROVE  [Abstract!Next]_(Abstract!vars)
  <2>1. CASE result
    <3>1. prompt[n][c] \in Node
      BY <1>8 DEF Answer, TypeOK
    <3>2. Abstract!Agree(n, prompt[n][c])
      BY <1>8, <2>1 DEF Answer, table, Abstract!Agree
    <3> QED
      BY <3>1, <3>2 DEF Abstract!Next
  <2>2. CASE ~result
    BY <1>2, <1>8, <2>2 DEF Answer, table
  <2> QED
    BY <2>1, <2>2
<1>9. ASSUME NEW n \in Node, NEW c \in Client, HandleConfirm(n, c)
      PROVE  [Abstract!Next]_(Abstract!vars)
  <2> DEFINE confirm == Head(answers[n][c])
             m == confirm.peer
  <2>1. /\ answers[n][c] \in Seq(VerifyConfirm)
        /\ answers[n][c] # <<>>
        /\ UNCHANGED accepted
    BY <1>9 DEF HandleConfirm, TypeOK, history
  <2>2. /\ confirm \in VerifyConfirm
        /\ confirm.result => m \in accepted[n]
    BY <1>1, <2>1 DEF AnswersMeant
  <2>3. m \in Node
    BY <2>2 DEF VerifyConfirm
  <2> HIDE DEF m
  <2>4. CASE confirm.result /\ AddPeers(n, {m}, "Verified")
    <3>1. peers' = [peers EXCEPT ![n][m] = "Verified"]
      BY <2>3, <2>4 DEF AddPeers, TypeOK
    <3> QED
      BY <1>4, <2>1, <2>2, <2>3, <2>4, <3>1 DEF m
  <2>5. CASE UNCHANGED table
    BY <1>2, <2>1, <2>5 DEF table
  <2> QED
    BY <1>9, <2>4, <2>5 DEF HandleConfirm, m
<1>10. ASSUME NEW n \in Node, Restart(n)
       PROVE  Abstract!Next
  <2> PICK M \in SUBSET Node : M = {m \in Node : stored[n][m] = "Verified"}
    OBVIOUS
  <2>1. UNCHANGED accepted
    BY <1>10 DEF Restart, LoseMemory
  <2>2. trust' = [trust EXCEPT ![n] = M]
    BY <1>10 DEF Restart, TypeOK
  <2>3. M \subseteq Abstract!Grounded(accepted, n)
    BY <1>1 DEF VerifiedByConsent, Grounded, Abstract!Grounded
  <2>4. Abstract!Recall(n, M)
    BY <2>1, <2>2, <2>3 DEF Abstract!Recall
  <2> QED
    BY <2>4 DEF Abstract!Next
<1>11. ASSUME NEW r \in Request, ReceiveRequest(r)
       PROVE  Abstract!Next
  <2>1. req[r].to \in Node /\ req[r].from \in Node
    BY <1>1, <1>11 DEF ReceiveRequest, Ends
  <2> QED
    BY <1>5, <1>11, <2>1 DEF ReceiveRequest, history
<1>12. ASSUME NEW r \in Request, ReceiveResponse(r)
       PROVE  [Abstract!Next]_(Abstract!vars)
  <2> DEFINE n == req[r].from
             m == req[r].to
  <2>1. n \in Node /\ m \in Node
    BY <1>1, <1>12 DEF ReceiveResponse, Ends
  <2>2. UNCHANGED accepted
    BY <1>12 DEF ReceiveResponse, history
  <2>3. CASE req[r].phase = "accept" /\ m \in Known(n)
    <3>1. n \in accepted[m]
      BY <1>1, <2>3 DEF AcceptIsMeant
    <3>2. peers' = [peers EXCEPT ![n][m] = "Verified"]
      BY <1>12, <2>3 DEF ReceiveResponse
    <3> QED
      BY <1>4, <2>1, <2>2, <3>1, <3>2
  <2>4. CASE ~(req[r].phase = "accept" /\ m \in Known(n))
    BY <1>2, <1>12, <2>2, <2>4 DEF ReceiveResponse
  <2> QED
    BY <2>3, <2>4
<1>13. CASE \/ \E n \in Node, m \in Node, r \in Request : RequestVerify(n, m, r)
            \/ \E r \in Request : OutboundFailure(r) \/ InboundFailure(r)
            \/ UNCHANGED vars
  BY <1>2, <1>13
  DEF RequestVerify, OutboundFailure, InboundFailure, vars, table, history
<1> QED
  BY <1>6, <1>7, <1>8, <1>9, <1>10, <1>11, <1>12, <1>13 DEF Next

(* Pairing implements Consent: its verified peers are trusted on the       *)
(* ground of the consents its users gave, and of nothing else.             *)
THEOREM PairingImplementsConsent == Spec => ImplementsConsent
<1>1. Init => Abstract!Init
  BY DEF Init, Abstract!Init, EmptyRow
<1>2. PInv /\ [Next]_vars => [Abstract!Next]_(Abstract!vars)
  BY RefinementStep DEF PInv
<1> QED
  BY <1>1, <1>2, PInvariance, PTL DEF Spec, ImplementsConsent, Abstract!Spec

=============================================================================

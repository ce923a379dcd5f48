----------------------------- MODULE IPCProofs -----------------------------
(***************************************************************************)
(* What holds of IPC for any number of clients, requests and events, and   *)
(* for queues of any length: the types and bounds of the queues, that a    *)
(* client is sent every event in order and the answers to its requests,    *)
(* and that the daemon stuck with a client remains so.  And what holds of  *)
(* Framing for any number of frames of any sizes: that the receiver hands  *)
(* on what was sent in order, none of it twice, and fails for a reason.       *)
(***************************************************************************)
EXTENDS IPC, Framing, SequenceTheorems, WellFoundedInduction, TLAPS

(* The daemon writes to the clients of id_map only, the present event to   *)
(* those that it has still to reach.                                       *)
Written ==
  /\ pending \subseteq id_map
  /\ pending # {} => event > 0
  /\ \A c \in Client : got[c] # <<>> => c \in id_map

IInv == TypeOK /\ Written /\ NoGap /\ AskerIsAnswered

-----------------------------------------------------------------------------
(* What the queues hold.                                                   *)
LEMMA AppendTypes ==
  ASSUME NEW S, NEW q \in Seq(S), NEW x \in S
  PROVE  /\ Append(q, x) \in Seq(S)
         /\ Len(Append(q, x)) = Len(q) + 1
         /\ DOMAIN Append(q, x) = 1..Len(q) + 1
         /\ \A i \in 1..Len(q) : Append(q, x)[i] = q[i]
         /\ Append(q, x)[Len(q) + 1] = x
         /\ Append(q, x) # <<>>
BY AppendProperties

LEMMA TailTypes ==
  ASSUME NEW S, NEW q \in Seq(S), q # <<>>
  PROVE  Head(q) \in S /\ Tail(q) \in Seq(S) /\ Len(Tail(q)) = Len(q) - 1
BY HeadTailProperties

(* A socket with one frame more, or one less.                              *)
LEMMA SocketTypes ==
  ASSUME NEW wires \in [Client -> Seq({Whole, Half})], NEW c \in Client, NEW later,
         \A d \in Client : Len(wires[d]) <= Wire,
         \/ later = wires
         \/ /\ Len(wires[c]) < Wire
            /\ \E frame \in {Whole, Half} :
                 later = [wires EXCEPT ![c] = Append(wires[c], frame)]
         \/ wires[c] # <<>> /\ later = [wires EXCEPT ![c] = Tail(wires[c])]
  PROVE  /\ later \in [Client -> Seq({Whole, Half})]
         /\ \A d \in Client : Len(later[d]) <= Wire
<1>1. Wire \in Nat
  BY IPCAssumption
<1>2. wires[c] \in Seq({Whole, Half}) /\ Len(wires[c]) \in Nat
  OBVIOUS
<1>3. CASE later = wires
  BY <1>3
<1>4. ASSUME NEW frame \in {Whole, Half}, Len(wires[c]) < Wire,
             later = [wires EXCEPT ![c] = Append(wires[c], frame)]
      PROVE  /\ later \in [Client -> Seq({Whole, Half})]
             /\ \A d \in Client : Len(later[d]) <= Wire
  <2>1. /\ Append(wires[c], frame) \in Seq({Whole, Half})
        /\ Len(Append(wires[c], frame)) <= Wire
    BY <1>1, <1>2, <1>4, AppendTypes
  <2> QED
    BY <1>4, <2>1
<1>5. CASE wires[c] # <<>> /\ later = [wires EXCEPT ![c] = Tail(wires[c])]
  <2>1. /\ Tail(wires[c]) \in Seq({Whole, Half})
        /\ Len(Tail(wires[c])) = Len(wires[c]) - 1
    BY <1>2, <1>5, TailTypes
  <2>2. Len(Tail(wires[c])) <= Wire
    BY <1>1, <1>2, <2>1
  <2> QED
    BY <1>5, <2>1, <2>2
<1> QED
  BY <1>3, <1>4, <1>5

LEMMA ReaderTypes ==
  ASSUME reader \in [{"daemon", "client"} -> [Client -> ReaderState]],
         NEW side \in {"daemon", "client"}, NEW c \in Client,
         \/ reader' = reader
         \/ \E s \in ReaderState : reader' = [reader EXCEPT ![side][c] = s]
  PROVE  reader' \in [{"daemon", "client"} -> [Client -> ReaderState]]
<1>1. CASE reader' = reader
  BY <1>1
<1>2. ASSUME NEW s \in ReaderState, reader' = [reader EXCEPT ![side][c] = s]
      PROVE  reader' \in [{"daemon", "client"} -> [Client -> ReaderState]]
  <2>1. [reader[side] EXCEPT ![c] = s] \in [Client -> ReaderState]
    OBVIOUS
  <2>2. reader' = [reader EXCEPT ![side] = [reader[side] EXCEPT ![c] = s]]
    BY <1>2
  <2> QED
    BY <2>1, <2>2
<1> QED
  BY <1>1, <1>2

-----------------------------------------------------------------------------
(* The types, step by step.                                                *)
LEMMA InitInv == Init => IInv
<1> SUFFICES ASSUME Init PROVE IInv
  OBVIOUS
<1> USE IPCAssumption
<1>1. /\ client = [c \in Client |-> "idle"]
      /\ asked = [c \in Client |-> 0] /\ outbox = [c \in Client |-> 0]
      /\ toDaemon = [c \in Client |-> <<>>] /\ toClient = [c \in Client |-> <<>>]
      /\ inbox = <<>>
      /\ reader = [side \in {"daemon", "client"} |-> [c \in Client |-> "frame"]]
      /\ id_map = {} /\ pending = {} /\ event = 0 /\ drops = 0
      /\ got = [c \in Client |-> <<>>] /\ answer = [c \in Client |-> 0]
  BY DEF Init
<1>2. <<>> \in Seq({Whole, Half}) /\ <<>> \in Seq(Client) /\ <<>> \in Seq(1..MaxEvents)
  OBVIOUS
<1>3. TypeOK
  BY <1>1, <1>2 DEF TypeOK, ClientState, ReaderState
<1>4. Written
  BY <1>1 DEF Written
<1>5. NoGap /\ AskerIsAnswered
  BY <1>1 DEF NoGap, AskerIsAnswered
<1> QED
  BY <1>3, <1>4, <1>5 DEF IInv

LEMMA TypeStep ==
  ASSUME TypeOK, pending # {} => event > 0, [Next]_vars
  PROVE  TypeOK'
<1>1. CASE UNCHANGED vars
  BY <1>1 DEF vars, queues, history, TypeOK
<1> DEFINE Sockets == [Client -> Seq({Whole, Half})]
           Readers == [{"daemon", "client"} -> [Client -> ReaderState]]
<1>2. /\ toDaemon \in Sockets /\ toClient \in Sockets /\ reader \in Readers
      /\ \A c \in Client : Len(toDaemon[c]) <= Wire
      /\ \A c \in Client : Len(toClient[c]) <= Wire
  BY DEF TypeOK
<1>3. /\ inbox \in Seq(Client) /\ Len(inbox) <= Inbox
      /\ outbox \in [Client -> 0..Outbox]
  BY DEF TypeOK
<1>4. /\ event \in 0..MaxEvents /\ drops \in 0..MaxDrops
      /\ got \in [Client -> Seq(1..MaxEvents)] /\ answer \in [Client -> 0..MaxEvents]
  BY DEF TypeOK
<1>5. client \in [Client -> ClientState] /\ asked \in [Client -> Nat]
  BY DEF TypeOK
<1>6. /\ Inbox \in Nat /\ Outbox \in Nat /\ Wire \in Nat
      /\ MaxEvents \in Nat /\ MaxDrops \in Nat
  BY IPCAssumption
<1>7. ASSUME NEW c \in Client, Ask(c)
      PROVE  TypeOK'
  <2>1. client' \in [Client -> ClientState] /\ asked' \in [Client -> Nat]
    BY <1>5, <1>7 DEF Ask, ClientState
  <2> QED
    BY <1>7, <2>1 DEF Ask, queues, history, TypeOK
<1>8. ASSUME NEW c \in Client, Send(c)
      PROVE  TypeOK'
  <2>1. toDaemon' \in Sockets /\ \A d \in Client : Len(toDaemon'[d]) <= Wire
    BY <1>2, <1>8, SocketTypes DEF Send
  <2>2. drops' \in 0..MaxDrops /\ client' \in [Client -> ClientState]
    BY <1>4, <1>5, <1>6, <1>8 DEF Send, ClientState
  <2> QED
    BY <1>8, <2>1, <2>2 DEF Send, history, TypeOK
<1>9. ASSUME NEW c \in Client, Deliver(c)
      PROVE  TypeOK'
  <2>1. ReadFrame("client", c, toClient)
    BY <1>9 DEF Deliver
  <2>2. reader' \in Readers
    BY <1>2, <2>1, ReaderTypes DEF ReadFrame, ReaderState
  <2>3. toClient' \in Sockets /\ \A d \in Client : Len(toClient'[d]) <= Wire
    BY <1>2, <2>1, SocketTypes DEF ReadFrame
  <2>4. outbox' \in [Client -> 0..Outbox]
    BY <1>3, <1>6, <1>9 DEF Deliver
  <2> QED
    BY <1>9, <2>2, <2>3, <2>4 DEF Deliver, history, TypeOK
<1>10. ASSUME NEW c \in Client, Recv(c)
       PROVE  TypeOK'
  <2>1. outbox' \in [Client -> 0..Outbox]
    BY <1>3, <1>6, <1>10 DEF Recv
  <2> QED
    BY <1>10, <2>1 DEF Recv, history, TypeOK
<1>11. ASSUME NEW c \in Client, Quit(c)
       PROVE  TypeOK'
  <2>1. /\ client' \in [Client -> ClientState] /\ asked' \in [Client -> Nat]
        /\ outbox' \in [Client -> 0..Outbox] /\ answer' \in [Client -> 0..MaxEvents]
    BY <1>3, <1>4, <1>5, <1>6, <1>11 DEF Quit, ClientState
  <2>2. toClient' \in Sockets
    BY <1>2, <1>11 DEF Quit
  <2>3. \A d \in Client : Len(toClient'[d]) <= Wire
    BY <1>2, <1>6, <1>11 DEF Quit
  <2>4. got' \in [Client -> Seq(1..MaxEvents)]
    BY <1>4, <1>11 DEF Quit
  <2>5. reader' \in Readers
    BY <1>2, <1>11, ReaderTypes DEF Quit, ReaderState
  <2> QED
    BY <1>11, <2>1, <2>2, <2>3, <2>4, <2>5 DEF Quit, TypeOK
<1>12. ASSUME NEW c \in Client, Accept(c)
       PROVE  TypeOK'
  <2>1. ReadFrame("daemon", c, toDaemon)
    BY <1>12 DEF Accept
  <2>2. reader' \in Readers
    BY <1>2, <2>1, ReaderTypes DEF ReadFrame, ReaderState
  <2>3. toDaemon' \in Sockets /\ \A d \in Client : Len(toDaemon'[d]) <= Wire
    BY <1>2, <2>1, SocketTypes DEF ReadFrame
  <2>4. inbox' \in Seq(Client) /\ Len(inbox') <= Inbox
    <3>1. /\ Append(inbox, c) \in Seq(Client)
          /\ Len(Append(inbox, c)) = Len(inbox) + 1
          /\ Len(inbox) \in Nat
      BY <1>3, AppendTypes
    <3>2. \/ inbox' = inbox
          \/ Len(inbox) < Inbox /\ inbox' = Append(inbox, c)
      BY <1>12 DEF Accept
    <3>3. CASE inbox' = inbox
      BY <1>3, <3>3
    <3>4. CASE Len(inbox) < Inbox /\ inbox' = Append(inbox, c)
      BY <1>6, <3>1, <3>4
    <3> QED
      BY <3>2, <3>3, <3>4
  <2> QED
    BY <1>12, <2>2, <2>3, <2>4 DEF Accept, history, TypeOK
<1>13. ASSUME NEW c \in Client, Reach(c)
       PROVE  TypeOK'
  <2>1. toClient' \in Sockets /\ \A d \in Client : Len(toClient'[d]) <= Wire
    <3>1. /\ Len(toClient[c]) < Wire
          /\ \E frame \in {Whole, Half} :
               toClient' = [toClient EXCEPT ![c] = Append(toClient[c], frame)]
      BY <1>13 DEF Reach
    <3> QED
      BY <1>2, <3>1, SocketTypes
  <2>2. got' \in [Client -> Seq(1..MaxEvents)]
    <3>1. event \in 1..MaxEvents
      BY <1>4, <1>6, <1>13 DEF Reach
    <3>2. Append(got[c], event) \in Seq(1..MaxEvents)
      BY <1>4, <3>1, AppendTypes
    <3> QED
      BY <1>4, <1>13, <3>2 DEF Reach
  <2> QED
    BY <1>13, <2>1, <2>2 DEF Reach, TypeOK
<1>14. ASSUME NEW c \in Client, Lose(c)
       PROVE  TypeOK'
  <2>1. toClient' \in Sockets /\ \A d \in Client : Len(toClient'[d]) <= Wire
    <3>1. \/ toClient' = toClient
          \/ /\ Len(toClient[c]) < Wire
             /\ toClient' = [toClient EXCEPT ![c] = Append(toClient[c], Half)]
      BY <1>14 DEF Lose
    <3> QED
      BY <1>2, <3>1, SocketTypes
  <2>2. /\ got' \in [Client -> Seq(1..MaxEvents)] /\ answer' \in [Client -> 0..MaxEvents]
        /\ drops' \in 0..MaxDrops
    BY <1>4, <1>6, <1>14 DEF Lose
  <2> QED
    BY <1>14, <2>1, <2>2 DEF Lose, TypeOK
<1>15. ASSUME NEW answered \in BOOLEAN, Handle(answered)
       PROVE  TypeOK'
  <2>1. /\ Head(inbox) \in Client /\ inbox' \in Seq(Client)
        /\ Len(inbox') <= Inbox
    <3>1. inbox # <<>> /\ inbox' = Tail(inbox)
      BY <1>15 DEF Handle
    <3>2. /\ Head(inbox) \in Client /\ Tail(inbox) \in Seq(Client)
          /\ Len(Tail(inbox)) = Len(inbox) - 1 /\ Len(inbox) \in Nat
      BY <1>3, <3>1, TailTypes
    <3> QED
      BY <1>3, <1>6, <3>1, <3>2
  <2>2. id_map' = id_map \cup {Head(inbox)} /\ id_map \subseteq Client
    BY <1>15 DEF Handle, TypeOK
  <2>3. \/ UNCHANGED <<event, pending, answer>>
        \/ /\ event < MaxEvents /\ event' = event + 1 /\ pending' = id_map'
           /\ answer' = [answer EXCEPT ![Head(inbox)] = event + 1]
    BY <1>15 DEF Handle, Broadcast
  <2>4. event' \in 0..MaxEvents
    BY <1>4, <1>6, <2>3
  <2>5. answer' \in [Client -> 0..MaxEvents]
    BY <1>4, <1>6, <2>3, SMTT(30)
  <2>6. pending' \subseteq Client
    BY <2>1, <2>2, <2>3 DEF TypeOK
  <2> QED
    BY <1>15, <2>1, <2>2, <2>4, <2>5, <2>6 DEF Handle, TypeOK
<1>16. CASE NetworkEvent
  <2>1. event' \in 0..MaxEvents /\ pending' \subseteq Client
    BY <1>4, <1>6, <1>16 DEF NetworkEvent, Broadcast, TypeOK
  <2> QED
    BY <1>16, <2>1 DEF NetworkEvent, queues, history, TypeOK
<1> QED
  BY <1>1, <1>7, <1>8, <1>9, <1>10, <1>11, <1>12, <1>13, <1>14, <1>15, <1>16 DEF Next

-----------------------------------------------------------------------------
(* What is written to the clients.                                         *)

(* The last event written to c, and those before it.                       *)
Due(c) == IF c \in pending THEN event - 1 ELSE event

Ordered(c) ==
  got[c] # <<>> =>
    /\ \A i \in DOMAIN got[c] : got[c][i] = got[c][1] + i - 1
    /\ got[c][Len(got[c])] = Due(c)

Answered(c) ==
  answer[c] # 0 =>
    \/ answer[c] = event /\ c \in pending
    \/ \E i \in DOMAIN got[c] : got[c][i] = answer[c]

LEMMA ByClient ==
  /\ NoGap <=> \A c \in Client : Ordered(c)
  /\ AskerIsAnswered <=> \A c \in Client : Answered(c)
BY DEF NoGap, Ordered, Due, AskerIsAnswered, Answered

(* A broadcast begins when the one before it has ended, so that it finds   *)
(* every client with the event before.                                     *)
LEMMA BroadcastStep ==
  ASSUME TypeOK, TypeOK', Written, NoGap, AskerIsAnswered,
         NEW ids, Broadcast(ids), pending = {}, id_map \subseteq ids,
         id_map' = ids, got' = got,
         \/ answer' = answer
         \/ \E c \in ids : answer' = [answer EXCEPT ![c] = event + 1]
  PROVE  Written' /\ NoGap' /\ AskerIsAnswered'
<1>1. event \in Nat /\ event' = event + 1 /\ pending' = ids
  BY IPCAssumption DEF Broadcast, TypeOK
<1>2. Written'
  BY <1>1 DEF Written
<1>3. ASSUME NEW c \in Client
      PROVE  Ordered(c)' /\ Answered(c)'
  <2>1. Ordered(c) /\ Answered(c)
    BY ByClient
  <2>2. got[c] # <<>> => Due(c) = event /\ Due(c)' = event
    BY <1>1 DEF Due, Written
  <2>3. Ordered(c)'
    BY <2>1, <2>2 DEF Ordered
  <2>4. answer'[c] = answer[c] \/ (answer'[c] = event' /\ c \in pending')
    <3>1. answer \in [Client -> 0..MaxEvents]
      BY DEF TypeOK
    <3>2. CASE answer' = answer
      BY <3>2
    <3>3. ASSUME NEW d \in ids, answer' = [answer EXCEPT ![d] = event + 1]
          PROVE  answer'[c] = answer[c] \/ (answer'[c] = event' /\ c \in pending')
      BY <1>1, <3>1, <3>3
    <3> QED
      BY <3>2, <3>3
  <2>5. Answered(c)'
    BY <2>1, <2>4 DEF Answered
  <2> QED
    BY <2>3, <2>5
<1>4. NoGap' /\ AskerIsAnswered'
  BY <1>3 DEF NoGap, Ordered, Due, AskerIsAnswered, Answered
<1> QED
  BY <1>2, <1>4

(* An event that is written to c follows the one before it.                *)
LEMMA ReachStep ==
  ASSUME TypeOK, Written, NoGap, AskerIsAnswered, NEW c \in Client, Reach(c)
  PROVE  Written' /\ NoGap' /\ AskerIsAnswered'
<1>1. /\ c \in pending /\ pending' = pending \ {c}
      /\ got' = [got EXCEPT ![c] = Append(got[c], event)]
      /\ UNCHANGED <<id_map, event, answer>>
  BY DEF Reach
<1>2. /\ event \in Nat /\ event \in 1..MaxEvents
      /\ got \in [Client -> Seq(1..MaxEvents)]
  BY <1>1, IPCAssumption DEF TypeOK, Written
<1>3. Written'
  BY <1>1, <1>2 DEF Written
<1> DEFINE old == got[c]
           new == Append(got[c], event)
<1>4. /\ old \in Seq(1..MaxEvents) /\ Len(old) \in Nat
      /\ Len(new) = Len(old) + 1 /\ new # <<>>
      /\ DOMAIN new = 1..Len(old) + 1 /\ DOMAIN old = 1..Len(old)
      /\ \A i \in 1..Len(old) : new[i] = old[i]
      /\ new[Len(old) + 1] = event
  BY <1>2, AppendTypes
<1>5. /\ got'[c] = new
      /\ \A d \in Client : d # c => got'[d] = got[d]
  BY <1>1, <1>2
<1>6. ASSUME NEW i \in DOMAIN new
      PROVE  new[i] = new[1] + i - 1
  <2>1. CASE old = <<>>
    <3>1. Len(old) = 0
      BY <2>1
    <3> QED
      BY <1>2, <1>4, <3>1
  <2>2. CASE old # <<>>
    <3>1. Len(old) > 0
      BY <1>4, <2>2
    <3>2. old[Len(old)] = event - 1 /\ \A j \in 1..Len(old) : old[j] = old[1] + j - 1
      BY <1>1, <1>4, <2>2, ByClient DEF Ordered, Due
    <3>3. old[1] \in Nat /\ new[1] = old[1]
      <4>1. 1 \in 1..Len(old)
        BY <1>4, <3>1
      <4>2. old[1] \in 1..MaxEvents
        BY <1>4, <4>1, ElementOfSeq
      <4> QED
        BY <1>4, <4>1, <4>2
    <3>4. event - 1 = old[1] + Len(old) - 1
      BY <1>4, <3>1, <3>2
    <3>5. CASE i \in 1..Len(old)
      BY <1>4, <3>2, <3>3, <3>5
    <3>6. CASE i = Len(old) + 1
      BY <1>2, <1>4, <3>3, <3>4, <3>6
    <3> QED
      BY <1>4, <3>5, <3>6
  <2> QED
    BY <2>1, <2>2
<1>7. Due(c)' = event
  BY <1>1 DEF Due
<1> HIDE DEF old, new
<1>8. Ordered(c)'
  BY <1>4, <1>5, <1>6, <1>7 DEF Ordered
<1>9. Answered(c)'
  <2>1. CASE answer[c] = event
    <3>1. Len(old) + 1 \in DOMAIN new
      BY <1>4
    <3> QED
      BY <1>1, <1>4, <1>5, <2>1, <3>1 DEF Answered
  <2>2. CASE answer[c] # event /\ answer[c] # 0
    <3>1. PICK i \in DOMAIN old : old[i] = answer[c]
      BY <2>2, ByClient DEF Answered, old
    <3> QED
      BY <1>1, <1>4, <1>5, <3>1 DEF Answered
  <2>3. CASE answer[c] = 0
    BY <1>1, <2>3 DEF Answered
  <2> QED
    BY <2>1, <2>2, <2>3
<1>10. ASSUME NEW d \in Client, d # c
       PROVE  Ordered(d)' /\ Answered(d)'
  BY <1>1, <1>5, <1>10, ByClient DEF Ordered, Due, Answered
<1>11. NoGap' /\ AskerIsAnswered'
  BY <1>8, <1>9, <1>10 DEF NoGap, Ordered, Due, AskerIsAnswered, Answered
<1> QED
  BY <1>3, <1>11

(* Nothing more is claimed of a client that a write to failed, or that is  *)
(* gone, until it asks again.                                              *)
LEMMA ForgetStep ==
  ASSUME TypeOK, Written, NoGap, AskerIsAnswered, NEW c \in Client,
         got' = [got EXCEPT ![c] = <<>>], answer' = [answer EXCEPT ![c] = 0],
         \/ UNCHANGED <<pending, id_map>>
         \/ pending' = pending \ {c} /\ id_map' = id_map \ {c},
         event' = event
  PROVE  Written' /\ NoGap' /\ AskerIsAnswered'
<1>1. /\ got'[c] = <<>> /\ answer'[c] = 0
      /\ \A d \in Client : d # c => got'[d] = got[d] /\ answer'[d] = answer[d]
  BY DEF TypeOK
<1>2. Written'
  BY <1>1 DEF Written
<1>3. Ordered(c)' /\ Answered(c)'
  BY <1>1 DEF Ordered, Answered
<1>4. ASSUME NEW d \in Client, d # c
      PROVE  Ordered(d)' /\ Answered(d)'
  BY <1>1, <1>4, ByClient DEF Ordered, Due, Answered
<1>5. NoGap' /\ AskerIsAnswered'
  BY <1>3, <1>4, ZenonT(30) DEF NoGap, Ordered, Due, AskerIsAnswered, Answered
<1> QED
  BY <1>2, <1>5

LEMMA WriteStep ==
  ASSUME IInv, TypeOK', [Next]_vars
  PROVE  Written' /\ NoGap' /\ AskerIsAnswered'
<1> USE DEF IInv
<1>1. ASSUME UNCHANGED <<id_map, pending, event, history>>
      PROVE  Written' /\ NoGap' /\ AskerIsAnswered'
  BY <1>1 DEF history, Written, NoGap, AskerIsAnswered
<1>2. CASE \/ UNCHANGED vars
           \/ \E c \in Client : Ask(c) \/ Send(c) \/ Deliver(c) \/ Recv(c) \/ Accept(c)
  BY <1>1, <1>2 DEF vars, Ask, Send, Deliver, Recv, Accept
<1>3. ASSUME NEW c \in Client, Quit(c)
      PROVE  Written' /\ NoGap' /\ AskerIsAnswered'
  BY <1>3, ForgetStep DEF Quit
<1>4. ASSUME NEW c \in Client, Reach(c)
      PROVE  Written' /\ NoGap' /\ AskerIsAnswered'
  BY <1>4, ReachStep
<1>5. ASSUME NEW c \in Client, Lose(c)
      PROVE  Written' /\ NoGap' /\ AskerIsAnswered'
  BY <1>5, ForgetStep DEF Lose
<1>6. ASSUME NEW answered \in BOOLEAN, Handle(answered)
      PROVE  Written' /\ NoGap' /\ AskerIsAnswered'
  <2>1. /\ pending = {} /\ got' = got
        /\ id_map' = id_map \cup {Head(inbox)}
    BY <1>6 DEF Handle
  <2>2. CASE /\ Broadcast(id_map')
             /\ answer' = [answer EXCEPT ![Head(inbox)] = event + 1]
    <3>1. \E c \in id_map' : answer' = [answer EXCEPT ![c] = event + 1]
      BY <2>1, <2>2
    <3> QED
      BY <2>1, <2>2, <3>1, BroadcastStep
  <2>3. CASE UNCHANGED <<event, pending, answer>>
    <3>1. Written'
      BY <2>1, <2>3 DEF Written
    <3>2. NoGap' /\ AskerIsAnswered'
      BY <2>1, <2>3 DEF NoGap, AskerIsAnswered
    <3> QED
      BY <3>1, <3>2
  <2> QED
    BY <1>6, <2>2, <2>3 DEF Handle
<1>7. CASE NetworkEvent
  <2>1. /\ pending = {} /\ Broadcast(id_map) /\ id_map' = id_map
        /\ got' = got /\ answer' = answer
    BY <1>7 DEF NetworkEvent, history
  <2> QED
    BY <2>1, BroadcastStep
<1> QED
  BY <1>2, <1>3, <1>4, <1>5, <1>6, <1>7 DEF Next

LEMMA Invariance == Spec => []IInv
<1>1. IInv /\ [Next]_vars => IInv'
  BY TypeStep, WriteStep DEF IInv, Written
<1> QED
  BY InitInv, <1>1, PTL DEF Spec

-----------------------------------------------------------------------------
(* The types; no queue holds more than it has room for; no event is left   *)
(* out of those that a client is sent.                                     *)
THEOREM EventsAreInOrder == Spec => []QueueInv
<1>1. IInv => QueueInv
  BY DEF IInv, QueueInv
<1> QED
  BY <1>1, Invariance, PTL

(* Who asks is sent the answer, with its first request too.                *)
THEOREM AskersAreAnswered == Spec => []AskerIsAnswered
<1>1. IInv => AskerIsAnswered
  BY DEF IInv
<1> QED
  BY <1>1, Invariance, PTL

-----------------------------------------------------------------------------
(* A client that the daemon is stuck with.                                 *)
LEMMA StuckFrame ==
  ASSUME NEW c \in Client, Stuck(c), c \in pending', c \in id_map',
         toClient'[c] = toClient[c],
         reader'["client"][c] = reader["client"][c],
         \/ reader["client"][c] = "ended"
         \/ /\ client'[c] = client[c] /\ outbox'[c] = outbox[c]
            /\ toDaemon'[c] = toDaemon[c] /\ inbox' = inbox
            /\ reader'["daemon"][c] = reader["daemon"][c]
  PROVE  Stuck(c)'
<1>1. ~Closed(c)'
  BY DEF Closed
<1>2. c \in pending /\ Len(toClient[c]) = Wire
  BY DEF Stuck
<1>3. CASE reader["client"][c] = "ended"
  BY <1>2, <1>3 DEF Stuck
<1>4. CASE /\ client'[c] = client[c] /\ outbox'[c] = outbox[c]
           /\ toDaemon'[c] = toDaemon[c] /\ inbox' = inbox
           /\ reader'["daemon"][c] = reader["daemon"][c]
  BY <1>1, <1>4 DEF Stuck, Decodes, Unheard
<1> QED
  BY <1>3, <1>4

(* Nothing resolves that but the end of the client, or giving up a write.  *)
THEOREM StuckForEver == Spec => [][StuckStays]_vars
<1>1. ASSUME IInv, [Next]_vars
      PROVE  StuckStays
  <2> SUFFICES ASSUME NEW c \in Client, Stuck(c), client'[c] # "gone", drops' = drops
               PROVE  Stuck(c)'
    BY DEF StuckStays
  <2>1. /\ c \in pending /\ c \in id_map /\ ~Closed(c)
        /\ Len(toClient[c]) = Wire
    BY <1>1 DEF IInv, Written, Stuck, Closed
  <2>2. \/ reader["client"][c] = "ended"
        \/ /\ outbox[c] = Outbox /\ Decodes("client", c, toClient)
           /\ client[c] = "asking" /\ Len(toDaemon[c]) = Wire
           /\ \/ Len(inbox) = Inbox /\ Decodes("daemon", c, toDaemon)
              \/ reader["daemon"][c] = "ended"
    BY DEF Stuck, Unheard
  <2>3. /\ client \in [Client -> ClientState] /\ outbox \in [Client -> 0..Outbox]
        /\ toDaemon \in [Client -> Seq({Whole, Half})]
        /\ toClient \in [Client -> Seq({Whole, Half})]
        /\ reader \in [{"daemon", "client"} -> [Client -> ReaderState]]
        /\ drops \in Nat
    <3>1. drops \in 0..MaxDrops /\ MaxDrops \in Nat
      BY <1>1, IPCAssumption DEF IInv, TypeOK
    <3>2. drops \in Nat
      BY <3>1
    <3> QED
      BY <1>1, <3>2 DEF IInv, TypeOK
  <2>4. CASE UNCHANGED vars
    BY <2>1, <2>4, StuckFrame DEF vars, queues
  <2>5. ASSUME NEW d \in Client, Ask(d)
        PROVE  Stuck(c)'
    <3>1. /\ UNCHANGED <<toDaemon, inbox, toClient, outbox, reader, id_map, pending>>
          /\ client[d] = "idle" /\ client' = [client EXCEPT ![d] = "asking"]
      BY <2>5 DEF Ask, queues
    <3>2. reader["client"][c] = "ended" \/ client'[c] = client[c]
      BY <2>2, <2>3, <3>1
    <3> QED
      BY <2>1, <3>1, <3>2, StuckFrame
  <2>6. ASSUME NEW d \in Client, Send(d)
        PROVE  Stuck(c)'
    <3>1. /\ UNCHANGED <<inbox, toClient, outbox, reader, id_map, pending>>
          /\ client' = [client EXCEPT ![d] = "idle"]
          /\ \/ Len(toDaemon[d]) < Wire
                /\ \E q : toDaemon' = [toDaemon EXCEPT ![d] = q]
             \/ Closed(d) /\ toDaemon' = toDaemon
      BY <2>3, <2>6 DEF Send
    <3>2. \/ reader["client"][c] = "ended"
          \/ c # d /\ client'[c] = client[c] /\ toDaemon'[c] = toDaemon[c]
      BY <2>1, <2>2, <2>3, <3>1, IPCAssumption
    <3> QED
      BY <2>1, <3>1, <3>2, StuckFrame
  <2>7. ASSUME NEW d \in Client, Deliver(d)
        PROVE  Stuck(c)'
    <3>1. /\ UNCHANGED <<client, toDaemon, inbox, id_map, pending>>
          /\ ReadFrame("client", d, toClient)
          /\ Decodes("client", d, toClient) => outbox[d] < Outbox
          /\ outbox' = outbox \/ outbox' = [outbox EXCEPT ![d] = @ + 1]
      BY <2>7 DEF Deliver
    <3>2. d # c
      BY <2>2, <3>1, IPCAssumption DEF ReadFrame
    <3>3. toClient'[c] = toClient[c]
      BY <2>3, <3>1, <3>2 DEF ReadFrame
    <3>4. /\ reader'["client"][c] = reader["client"][c]
          /\ reader'["daemon"][c] = reader["daemon"][c]
      <4>1. \/ reader' = reader
            \/ \E s : reader' = [reader EXCEPT !["client"][d] = s]
        BY <3>1 DEF ReadFrame
      <4> QED
        BY <2>3, <3>2, <4>1
    <3>5. outbox'[c] = outbox[c]
      BY <2>3, <3>1, <3>2
    <3> QED
      BY <2>1, <3>1, <3>3, <3>4, <3>5, StuckFrame
  <2>8. ASSUME NEW d \in Client, Recv(d)
        PROVE  Stuck(c)'
    <3>1. /\ UNCHANGED <<client, toDaemon, inbox, toClient, reader, id_map, pending>>
          /\ client[d] = "idle" /\ outbox' = [outbox EXCEPT ![d] = @ - 1]
      BY <2>8 DEF Recv
    <3>2. reader["client"][c] = "ended" \/ outbox'[c] = outbox[c]
      BY <2>2, <2>3, <3>1
    <3> QED
      BY <2>1, <3>1, <3>2, StuckFrame
  <2>9. ASSUME NEW d \in Client, Quit(d)
        PROVE  Stuck(c)'
    <3>1. /\ UNCHANGED <<toDaemon, inbox, id_map, pending>>
          /\ client' = [client EXCEPT ![d] = "gone"]
          /\ toClient' = [toClient EXCEPT ![d] = <<>>]
          /\ outbox' = [outbox EXCEPT ![d] = 0]
          /\ reader' = [reader EXCEPT !["client"][d] = "ended"]
      BY <2>9 DEF Quit
    <3>2. d # c
      BY <2>3, <3>1
    <3> QED
      BY <2>1, <2>3, <3>1, <3>2, StuckFrame
  <2>10. ASSUME NEW d \in Client, Accept(d)
         PROVE  Stuck(c)'
    <3>1. /\ UNCHANGED <<client, toClient, outbox, id_map, pending>>
          /\ ReadFrame("daemon", d, toDaemon)
          /\ IF Decodes("daemon", d, toDaemon) THEN Len(inbox) < Inbox
             ELSE inbox' = inbox
      BY <2>10 DEF Accept
    <3>2. reader'["client"][c] = reader["client"][c]
      BY <2>3, <3>1 DEF ReadFrame
    <3>3. CASE reader["client"][c] = "ended"
      BY <2>1, <3>1, <3>2, <3>3, StuckFrame
    <3>4. CASE reader["client"][c] # "ended"
      <4>1. Len(toDaemon[c]) = Wire
        BY <2>2, <3>4
      <4>2. d # c
        BY <2>2, <3>1, <3>4, IPCAssumption DEF ReadFrame
      <4>3. toDaemon'[c] = toDaemon[c] /\ reader'["daemon"][c] = reader["daemon"][c]
        BY <2>3, <3>1, <4>2 DEF ReadFrame
      <4>4. CASE inbox' = inbox
        BY <2>1, <3>1, <3>2, <4>3, <4>4, StuckFrame
      <4>5. CASE reader["daemon"][c] = "ended"
        BY <2>1, <2>2, <3>1, <3>2, <3>4, <4>3, <4>5
        DEF Stuck, Unheard, Closed, Decodes
      <4>6. CASE Len(inbox) = Inbox
        BY <3>1, <4>4, <4>6, IPCAssumption
      <4> QED
        BY <2>2, <3>4, <4>5, <4>6
    <3> QED
      BY <3>3, <3>4
  <2>11. ASSUME NEW d \in Client, Reach(d)
         PROVE  Stuck(c)'
    <3>1. /\ UNCHANGED <<client, toDaemon, inbox, outbox, reader, id_map>>
          /\ Len(toClient[d]) < Wire /\ pending' = pending \ {d}
          /\ \E q : toClient' = [toClient EXCEPT ![d] = q]
      BY <2>11 DEF Reach
    <3>2. d # c
      BY <2>1, <3>1, IPCAssumption
    <3> QED
      BY <2>1, <2>3, <3>1, <3>2, StuckFrame
  <2>12. ASSUME NEW d \in Client, Lose(d)
         PROVE  Stuck(c)'
    <3>1. /\ UNCHANGED <<client, asked, toDaemon, inbox, toClient, outbox, reader>>
          /\ client[d] = "gone"
          /\ pending' = pending \ {d} /\ id_map' = id_map \ {d}
      BY <2>3, <2>12 DEF Lose, queues
    <3>2. d # c
      BY <3>1
    <3> QED
      BY <2>1, <3>1, <3>2, StuckFrame
  <2>13. ASSUME \/ NetworkEvent
                \/ \E answered \in BOOLEAN : Handle(answered)
         PROVE  FALSE
    BY <2>1, <2>13 DEF NetworkEvent, Handle
  <2> QED
    BY <1>1, <2>4, <2>5, <2>6, <2>7, <2>8, <2>9, <2>10, <2>11, <2>12, <2>13 DEF Next
<1> QED
  BY <1>1, Invariance, PTL DEF Spec

-----------------------------------------------------------------------------
(* Framing: the bytes of one direction of a socket, for any messages,      *)
(* sizes and capacities.                                                   *)

(* The bytes on their way, from the part of a body put together so far to  *)
(* those that are still to be written.                                     *)
Stream == buf \o (read_buf \o (socket \o rest))

(* The byte that follows in the frames, as they were sent.                 *)
After(b) ==
  IF b[2] < HeaderSize + BodySize[b[1]] THEN <<b[1], b[2] + 1>>
  ELSE <<b[1] + 1, 1>>

(* The order of the bytes, whatever is missing between them.               *)
Before(b, c) == b[1] < c[1] \/ (b[1] = c[1] /\ b[2] < c[2])

Sorted(s) == \A i, j \in 1..Len(s) : i < j => Before(s[i], s[j])
Chained(s) == \A i \in 1..(Len(s) - 1) : s[i + 1] = After(s[i])

(* What is left to write is the end of the frame the writer is at.         *)
EndOfFrame ==
  /\ rest = <<>> <=> next = Messages + 1
  /\ \A i \in 1..Len(rest) :
       rest[i] = <<next, HeaderSize + BodySize[next] - Len(rest) + i>>

(* Bytes may be missing, but none comes too late.                          *)
FramesOrdered ==
  /\ Sorted(Stream)
  /\ \A j \in 1..Len(Stream) : Stream[j][1] <= next
  /\ \A i \in 1..Len(received), j \in 1..Len(Stream) : received[i] < Stream[j][1]
  /\ \A i, j \in 1..Len(received) :
       i < j /\ received[j] # Forged => received[i] < received[j]
  /\ \A i \in 1..Len(received) : received[i] <= next

(* Without a frame given up and without an unlucky read, the reader is     *)
(* always right about where a frame begins.                                *)
Aligned ==
  failures = 0 /\ ~cut =>
    /\ stream_reader \in {"read", "use"}
    /\ \A i \in 1..Len(received) : received[i] = i
    /\ Chained(Stream)
    /\ buf = <<>> /\ Stream # <<>> => Stream[1] = <<Len(received) + 1, 1>>
    /\ buf # <<>> => /\ buf[1] = <<Len(received) + 1, HeaderSize + 1>>
                     /\ size = BodySize[Len(received) + 1]

(* What was read is used up before more is read.                           *)
UsedUp == stream_reader = "read" => read_buf = <<>>

FramingIInv == FramingTypes /\ EndOfFrame /\ FramesOrdered /\ UsedUp /\ Aligned

-----------------------------------------------------------------------------
(* Every nonempty set of numbers has a smallest one.                       *)
LEMMA Smallest ==
  ASSUME NEW T \in SUBSET Nat, T # {}
  PROVE  \E n \in T : \A m \in T : n <= m
<1> DEFINE R == OpToRel(<, Nat)
<1>1. IsWellFoundedOn(R, Nat)
  BY NatLessThanWellFounded
<1>2. \A m, n \in Nat : m < n => <<m, n>> \in R
  BY SMT DEF OpToRel
<1> HIDE DEF R
<1>3. PICK n \in T : \A m \in T : <<m, n>> \notin R
  BY <1>1, WFMin, Zenon
<1>4. ASSUME NEW m \in T
      PROVE  n <= m
  <2>1. m \in Nat /\ n \in Nat
    OBVIOUS
  <2>2. ~(m < n)
    BY <2>1, <1>2, <1>3, Zenon
  <2> QED BY <2>1, <2>2
<1> QED BY <1>4, Zenon

(* Bytes, frames, and their parts.                                         *)
LEMMA BytesAre ==
  ASSUME NEW b
  PROVE  b \in Byte <=> \E m \in 1..Messages :
                          \E i \in 1..(HeaderSize + BodySize[m]) : b = <<m, i>>
BY DEF Byte

LEMMA ByteParts ==
  ASSUME NEW b \in Byte
  PROVE  /\ b[1] \in 1..Messages
         /\ b[2] \in 1..(HeaderSize + BodySize[b[1]])
         /\ b = <<b[1], b[2]>>
BY BytesAre

LEMMA BodySizes ==
  ASSUME NEW m \in 1..Messages
  PROVE  BodySize[m] \in Nat \ {0}
BY FramingAssumption

LEMMA FrameBytes ==
  ASSUME NEW m \in 1..Messages
  PROVE  /\ Frame(m) \in Seq(Byte)
         /\ Len(Frame(m)) = HeaderSize + BodySize[m]
         /\ \A i \in 1..(HeaderSize + BodySize[m]) : Frame(m)[i] = <<m, i>>
<1>1. HeaderSize + BodySize[m] \in Nat
  BY BodySizes, FramingAssumption
<1>2. \A i \in 1..(HeaderSize + BodySize[m]) : <<m, i>> \in Byte
  BY BytesAre
<1>3. Frame(m) \in [1..(HeaderSize + BodySize[m]) -> Byte]
  BY <1>2 DEF Frame
<1> QED BY <1>1, <1>3, SeqDef DEF Frame

LEMMA FrameParts ==
  ASSUME NEW m \in 1..Messages
  PROVE  /\ Header(m) \in Seq(Byte)
         /\ Len(Header(m)) = HeaderSize
         /\ \A i \in 1..HeaderSize : Header(m)[i] = <<m, i>>
         /\ Body(m) \in Seq(Byte)
         /\ Len(Body(m)) = BodySize[m]
         /\ \A i \in 1..BodySize[m] : Body(m)[i] = <<m, HeaderSize + i>>
<1> DEFINE f == Frame(m)
           b == BodySize[m]
<1>1. b \in Nat \ {0} /\ HeaderSize \in Nat \ {0}
  BY BodySizes, FramingAssumption
<1>2. /\ f \in Seq(Byte) /\ Len(f) = HeaderSize + b
      /\ \A i \in 1..(HeaderSize + b) : f[i] \in Byte /\ f[i] = <<m, i>>
  BY FrameBytes, ElementOfSeq
<1>3. Header(m) = SubSeq(f, 1, HeaderSize) /\ Body(m) = SubSeq(f, HeaderSize + 1, HeaderSize + b)
  BY DEF Header, Body
<1> HIDE DEF f, b
<1>4. /\ SubSeq(f, 1, HeaderSize) \in Seq(Byte)
      /\ Len(SubSeq(f, 1, HeaderSize)) = HeaderSize
      /\ \A i \in 1..HeaderSize : SubSeq(f, 1, HeaderSize)[i] = f[i]
  BY <1>1, <1>2, SubSeqProperties
<1>5. /\ SubSeq(f, HeaderSize + 1, HeaderSize + b) \in Seq(Byte)
      /\ Len(SubSeq(f, HeaderSize + 1, HeaderSize + b)) = b
      /\ \A i \in 1..b : SubSeq(f, HeaderSize + 1, HeaderSize + b)[i] = f[HeaderSize + i]
  BY <1>1, <1>2, SubSeqProperties
<1>6. \A i \in 1..HeaderSize : f[i] = <<m, i>>
  BY <1>1, <1>2
<1>7. \A i \in 1..b : f[HeaderSize + i] = <<m, HeaderSize + i>>
  BY <1>1, <1>2
<1> QED BY <1>3, <1>4, <1>5, <1>6, <1>7 DEF b

(* What is left of a sequence without its first n elements.                *)
Drop(s, n) == SubSeq(s, n + 1, Len(s))

LEMMA Split ==
  ASSUME NEW s \in Seq(Byte), NEW n \in 0..Len(s)
  PROVE  /\ SubSeq(s, 1, n) \in Seq(Byte) /\ Len(SubSeq(s, 1, n)) = n
         /\ \A i \in 1..n : SubSeq(s, 1, n)[i] = s[i]
         /\ Drop(s, n) \in Seq(Byte) /\ Len(Drop(s, n)) = Len(s) - n
         /\ \A i \in 1..(Len(s) - n) : Drop(s, n)[i] = s[n + i]
         /\ s = SubSeq(s, 1, n) \o Drop(s, n)
<1> DEFINE l == Len(s)
           a == SubSeq(s, 1, n)
           d == SubSeq(s, n + 1, l)
<1>1. l \in Nat /\ n \in 0..l /\ \A i \in 1..l : s[i] \in Byte
  BY LenProperties, ElementOfSeq
<1>2. a \in Seq(Byte) /\ Len(a) = n /\ \A i \in 1..n : a[i] = s[i]
  <2> HIDE DEF l
  <2>1. \A i \in 1..n : s[i] \in Byte
    BY <1>1
  <2> QED BY <1>1, <2>1, SubSeqProperties
<1>3. d \in Seq(Byte) /\ Len(d) = l - n /\ \A i \in 1..(l - n) : d[i] = s[n + i]
  <2> HIDE DEF l
  <2>1. \A i \in (n + 1)..l : s[i] \in Byte
    BY <1>1
  <2>2. /\ SubSeq(s, n + 1, l) \in Seq(Byte)
        /\ Len(SubSeq(s, n + 1, l)) = IF n + 1 <= l THEN l - (n + 1) + 1 ELSE 0
        /\ \A i \in 1..(l - (n + 1) + 1) : SubSeq(s, n + 1, l)[i] = s[n + 1 + i - 1]
    <3>1. n + 1 \in Int /\ l \in Int
      BY <1>1
    <3> QED BY <2>1, <3>1, SubSeqProperties
  <2>3. /\ l - (n + 1) + 1 = l - n
        /\ \A i \in Nat : n + 1 + i - 1 = n + i
        /\ ~(n + 1 <= l) => l - n = 0
    BY <1>1
  <2>4. \A i \in 1..(l - n) : i \in Nat
    BY <1>1
  <2> QED BY <2>2, <2>3, <2>4
<1>4. /\ a \o d \in Seq(Byte) /\ Len(a \o d) = n + (l - n)
      /\ \A i \in 1..(n + (l - n)) : (a \o d)[i] = IF i <= n THEN a[i] ELSE d[i - n]
  <2> HIDE DEF a, d, l
  <2>1. /\ a \o d \in Seq(Byte) /\ Len(a \o d) = Len(a) + Len(d)
        /\ \A i \in 1..(Len(a) + Len(d)) :
             (a \o d)[i] = IF i <= Len(a) THEN a[i] ELSE d[i - Len(a)]
    BY <1>2, <1>3, ConcatProperties
  <2> QED BY <1>2, <1>3, <2>1
<1>5. \A i \in 1..l : (a \o d)[i] = s[i]
  <2> HIDE DEF a, d, l
  <2> QED BY <1>1, <1>2, <1>3, <1>4
<1>6. s = a \o d
  <2>1. Len(a \o d) = l
    <3> HIDE DEF a, d, l
    <3> QED BY <1>1, <1>4
  <2> HIDE DEF a, d
  <2> QED BY <1>1, <1>4, <1>5, <2>1, SeqEqual
<1> QED BY <1>2, <1>3, <1>6, Zenon DEF Drop

LEMMA DropPrefix ==
  ASSUME NEW s \in Seq(Byte), NEW t \in Seq(Byte)
  PROVE  Drop(s \o t, Len(s)) = t
<1> DEFINE c == s \o t
           n == Len(s)
           k == Len(t)
<1>1. n \in Nat /\ k \in Nat
  BY LenProperties
<1>2. /\ c \in Seq(Byte) /\ Len(c) = n + k
      /\ \A i \in 1..(n + k) : c[i] = IF i <= n THEN s[i] ELSE t[i - n]
  BY ConcatProperties
<1>3. n \in 0..Len(c)
  <2> HIDE DEF c, n, k
  <2> QED BY <1>1, <1>2
<1>4. /\ Drop(c, n) \in Seq(Byte) /\ Len(Drop(c, n)) = Len(c) - n
      /\ \A i \in 1..(Len(c) - n) : Drop(c, n)[i] = c[n + i]
  <2> HIDE DEF c, n, k
  <2> QED BY <1>2, <1>3, Split
<1>5. Len(c) - n = k
  <2> HIDE DEF c, n, k
  <2> QED BY <1>1, <1>2
<1>6. \A i \in 1..k : c[n + i] = t[i]
  <2> HIDE DEF c, n, k
  <2> QED BY <1>1, <1>2
<1>7. Len(Drop(c, n)) = Len(t) /\ \A i \in 1..Len(Drop(c, n)) : Drop(c, n)[i] = t[i]
  <2> HIDE DEF c, n
  <2> QED BY <1>4, <1>5, <1>6
<1> QED
  <2> HIDE DEF c, n, k
  <2>1. Drop(c, n) = t
    BY <1>4, <1>7, SeqEqual, Zenon
  <2> QED BY <2>1 DEF c, n

LEMMA DropOfConcat ==
  ASSUME NEW s \in Seq(Byte), NEW t \in Seq(Byte), NEW n \in 0..Len(s)
  PROVE  Drop(s \o t, n) = Drop(s, n) \o t
<1> DEFINE a == SubSeq(s, 1, n)
           d == Drop(s, n)
<1>1. a \in Seq(Byte) /\ Len(a) = n /\ d \in Seq(Byte) /\ s = a \o d
  BY Split
<1>2. s \o t = a \o (d \o t) /\ d \o t \in Seq(Byte)
  <2> HIDE DEF a, d
  <2>1. (a \o d) \o t = a \o (d \o t)
    BY <1>1, ConcatAssociative, SMTT(30)
  <2>2. d \o t \in Seq(Byte)
    BY <1>1, ConcatProperties
  <2> QED BY <1>1, <2>1, <2>2
<1> QED
  <2> HIDE DEF a, d
  <2>1. Drop(a \o (d \o t), n) = d \o t
    BY <1>1, <1>2, DropPrefix
  <2> QED BY <1>2, <2>1 DEF d

(* The order of the bytes and of the frames is kept by what is left, and   *)
(* by what is put behind.                                                  *)
LEMMA SortedParts ==
  ASSUME NEW s \in Seq(Byte), NEW n \in 0..Len(s), Sorted(s)
  PROVE  Sorted(SubSeq(s, 1, n)) /\ Sorted(Drop(s, n))
<1>1. Len(s) \in Nat /\ n \in Nat
  BY LenProperties
<1>2. Sorted(SubSeq(s, 1, n))
  BY <1>1, Split, SMT DEF Sorted
<1>3. ASSUME NEW i \in 1..(Len(s) - n), NEW j \in 1..(Len(s) - n), i < j
      PROVE  Before(Drop(s, n)[i], Drop(s, n)[j])
  <2>1. n + i \in 1..Len(s) /\ n + j \in 1..Len(s) /\ n + i < n + j
    BY <1>1, <1>3
  <2>2. Before(s[n + i], s[n + j])
    BY <2>1, Zenon DEF Sorted
  <2>3. Drop(s, n)[i] = s[n + i] /\ Drop(s, n)[j] = s[n + j]
    BY Split
  <2> QED BY <2>2, <2>3, Zenon
<1>4. Len(Drop(s, n)) = Len(s) - n
  BY Split
<1> QED BY <1>2, <1>3, <1>4, Zenon DEF Sorted

LEMMA SortedConcat ==
  ASSUME NEW s \in Seq(Byte), NEW t \in Seq(Byte), Sorted(s), Sorted(t),
         \A i \in 1..Len(s), j \in 1..Len(t) : Before(s[i], t[j])
  PROVE  Sorted(s \o t)
<1> DEFINE n == Len(s)
           k == Len(t)
           c == s \o t
<1>1. n \in Nat /\ k \in Nat
  BY LenProperties
<1>2. /\ Len(c) = n + k
      /\ \A i \in 1..(n + k) : c[i] = IF i <= n THEN s[i] ELSE t[i - n]
  BY ConcatProperties
<1>3. ASSUME NEW i \in 1..(n + k), NEW j \in 1..(n + k), i < j
      PROVE  Before(c[i], c[j])
  <2> HIDE DEF c
  <2>1. CASE j <= n
    <3>1. i \in 1..n /\ j \in 1..n /\ c[i] = s[i] /\ c[j] = s[j]
      <4> HIDE DEF n, k
      <4> QED BY <1>1, <1>2, <1>3, <2>1
    <3> QED BY <3>1, <1>3, Zenon DEF Sorted
  <2>2. CASE i <= n /\ ~(j <= n)
    <3>1. i \in 1..n /\ j - n \in 1..k /\ c[i] = s[i] /\ c[j] = t[j - n]
      <4> HIDE DEF n, k
      <4> QED BY <1>1, <1>2, <1>3, <2>2
    <3> QED BY <3>1, Zenon
  <2>3. CASE ~(i <= n)
    <3>1. /\ i - n \in 1..k /\ j - n \in 1..k /\ i - n < j - n
          /\ c[i] = t[i - n] /\ c[j] = t[j - n]
      <4> HIDE DEF n, k
      <4> QED BY <1>1, <1>2, <1>3, <2>3
    <3> QED BY <3>1, Zenon DEF Sorted
  <2> QED BY <2>1, <2>2, <2>3
<1> QED
  <2> HIDE DEF c, n, k
  <2>1. Sorted(c)
    BY <1>2, <1>3, Zenon DEF Sorted
  <2> QED BY <2>1 DEF c

LEMMA ChainedDrop ==
  ASSUME NEW s \in Seq(Byte), NEW n \in 0..Len(s), Chained(s)
  PROVE  Chained(Drop(s, n))
<1>1. Len(s) \in Nat /\ n \in Nat
  BY LenProperties
<1>2. Len(Drop(s, n)) = Len(s) - n
  BY Split
<1>3. ASSUME NEW i \in 1..(Len(s) - n - 1)
      PROVE  Drop(s, n)[i + 1] = After(Drop(s, n)[i])
  <2>1. /\ n + i \in 1..(Len(s) - 1) /\ n + i + 1 = n + (i + 1)
        /\ i \in 1..(Len(s) - n) /\ i + 1 \in 1..(Len(s) - n)
    BY <1>1, <1>3
  <2>2. s[n + i + 1] = After(s[n + i])
    BY <2>1, Zenon DEF Chained
  <2>3. Drop(s, n)[i] = s[n + i] /\ Drop(s, n)[i + 1] = s[n + (i + 1)]
    BY <2>1, Split, Zenon
  <2> QED BY <2>1, <2>2, <2>3, Zenon
<1>4. Len(Drop(s, n)) - 1 = Len(s) - n - 1
  BY <1>2
<1> QED BY <1>3, <1>4, Zenon DEF Chained

LEMMA ChainedConcat ==
  ASSUME NEW s \in Seq(Byte), NEW t \in Seq(Byte), Chained(s), Chained(t),
         s # <<>>, t # <<>>, t[1] = After(s[Len(s)])
  PROVE  Chained(s \o t)
<1> DEFINE n == Len(s)
           k == Len(t)
           c == s \o t
<1>1. n \in Nat \ {0} /\ k \in Nat \ {0}
  BY LenProperties, EmptySeq
<1>2. /\ Len(c) = n + k
      /\ \A i \in 1..(n + k) : c[i] = IF i <= n THEN s[i] ELSE t[i - n]
  BY ConcatProperties
<1>3. ASSUME NEW i \in 1..(n + k - 1)
      PROVE  c[i + 1] = After(c[i])
  <2> HIDE DEF c
  <2>1. CASE i < n
    <3>1. i \in 1..(n - 1) /\ c[i] = s[i] /\ c[i + 1] = s[i + 1]
      <4> HIDE DEF n, k
      <4> QED BY <1>1, <1>2, <1>3, <2>1
    <3> QED BY <3>1, Zenon DEF Chained
  <2>2. CASE i = n
    <3>1. c[i] = s[n] /\ c[i + 1] = t[1]
      <4> HIDE DEF n, k
      <4> QED BY <1>1, <1>2, <1>3, <2>2
    <3> QED BY <3>1, Zenon
  <2>3. CASE i > n
    <3>1. /\ i - n \in 1..(k - 1) /\ c[i] = t[i - n] /\ c[i + 1] = t[i - n + 1]
      <4> HIDE DEF n, k
      <4>1. i + 1 - n = i - n + 1
        BY <1>1, <1>3
      <4> QED BY <1>1, <1>2, <1>3, <2>3, <4>1
    <3> QED BY <3>1, Zenon DEF Chained
  <2>4. i < n \/ i = n \/ i > n
    <3> HIDE DEF n, k
    <3> QED BY <1>1
  <2> QED BY <2>1, <2>2, <2>3, <2>4
<1> QED
  <2> HIDE DEF c, n, k
  <2>1. Len(c) - 1 = n + k - 1
    BY <1>1, <1>2
  <2>2. Chained(c)
    BY <1>3, <2>1, Zenon DEF Chained
  <2> QED BY <2>2 DEF c

(* A frame, and how far it is certain what comes behind one of its bytes:  *)
(* by the first place where it would be otherwise.                         *)
LEMMA FramesInOrder ==
  ASSUME NEW m \in 1..Messages
  PROVE  Sorted(Frame(m)) /\ Chained(Frame(m))
<1> DEFINE b == HeaderSize + BodySize[m]
<1>1. b \in Nat /\ Len(Frame(m)) = b /\ \A i \in 1..b : Frame(m)[i] = <<m, i>>
  BY FrameBytes, BodySizes, FramingAssumption
<1>2. Sorted(Frame(m))
  <2> HIDE DEF b
  <2> QED BY <1>1 DEF Sorted, Before
<1>3. \A i \in 1..(b - 1) : After(<<m, i>>) = <<m, i + 1>>
  <2>1. \A i \in 1..(b - 1) : i < b
    <3> HIDE DEF b
    <3> QED BY <1>1
  <2> QED BY <2>1 DEF After
<1>4. \A i \in 1..(b - 1) : Frame(m)[i + 1] = <<m, i + 1>> /\ Frame(m)[i] = <<m, i>>
  <2> HIDE DEF b
  <2> QED BY <1>1
<1>5. Chained(Frame(m))
  <2> HIDE DEF b
  <2> QED BY <1>1, <1>3, <1>4 DEF Chained
<1> QED BY <1>2, <1>5

LEMMA WithinFrame ==
  ASSUME NEW s \in Seq(Byte), Chained(s), NEW n \in 1..Len(s),
         NEW m \in 1..Messages, NEW a \in Nat, s[1] = <<m, a>>,
         a + n - 1 <= HeaderSize + BodySize[m]
  PROVE  \A i \in 1..n : s[i] = <<m, a + i - 1>>
<1> DEFINE b == HeaderSize + BodySize[m]
           T == {i \in 1..n : s[i] # <<m, a + i - 1>>}
<1>0. b \in Nat /\ Len(s) \in Nat /\ n \in Nat
  BY BodySizes, FramingAssumption, LenProperties
<1> SUFFICES ASSUME T # {} PROVE FALSE
  OBVIOUS
<1>1. T \in SUBSET Nat
  BY <1>0
<1>2. PICK k \in T : \A i \in T : k <= i
  BY <1>1, Smallest, Zenon
<1>3. k \in 1..n /\ s[k] # <<m, a + k - 1>>
  OBVIOUS
<1>4. k # 1
  BY <1>3
<1>5. k - 1 \in 1..n /\ k - 1 \in 1..(Len(s) - 1) /\ k - 1 + 1 = k
  BY <1>0, <1>3, <1>4
<1>6. k - 1 \notin T
  <2> HIDE DEF T
  <2> QED BY <1>2, <1>3
<1>7. s[k - 1] = <<m, a + (k - 1) - 1>>
  BY <1>5, <1>6, Zenon
<1>8. s[k] = After(s[k - 1])
  BY <1>5, Zenon DEF Chained
<1>9. a + (k - 1) - 1 < b /\ a + (k - 1) - 1 + 1 = a + k - 1
  <2>1. a + n - 1 <= b
    OBVIOUS
  <2> HIDE DEF b
  <2> QED BY <1>0, <1>3, <2>1
<1>10. After(<<m, a + (k - 1) - 1>>) = <<m, a + k - 1>>
  BY <1>9 DEF After
<1> QED BY <1>3, <1>7, <1>8, <1>10

-----------------------------------------------------------------------------
LEMMA Concats ==
  ASSUME NEW a \in Seq(Byte), NEW b \in Seq(Byte), NEW c \in Seq(Byte),
         NEW d \in Seq(Byte)
  PROVE  /\ a \o (b \o c) \in Seq(Byte)
         /\ a \o (b \o (c \o d)) \in Seq(Byte)
         /\ a \o (b \o (c \o d)) = (a \o (b \o c)) \o d
<1>1. b \o c \in Seq(Byte) /\ c \o d \in Seq(Byte)
  BY ConcatProperties
<1>2. b \o (c \o d) \in Seq(Byte) /\ (b \o c) \o d \in Seq(Byte) /\ a \o (b \o c) \in Seq(Byte)
  BY <1>1, ConcatProperties
<1>3. a \o (b \o (c \o d)) \in Seq(Byte)
  BY <1>2, ConcatProperties
<1>4. b \o (c \o d) = (b \o c) \o d
  BY ConcatAssociative, SMTT(30)
<1>5. a \o ((b \o c) \o d) = (a \o (b \o c)) \o d
  BY <1>1, ConcatAssociative, SMTT(30)
<1> QED BY <1>2, <1>3, <1>4, <1>5

Associates(a, b, c) == (a \o b) \o c = a \o (b \o c)

LEMMA Associative ==
  ASSUME NEW a \in Seq(Byte), NEW b \in Seq(Byte), NEW c \in Seq(Byte)
  PROVE  Associates(a, b, c)
BY ConcatAssociative DEF Associates

LEMMA FramingInitInvariant == FramingInit => FramingIInv
<1> SUFFICES ASSUME FramingInit
             PROVE  FramingIInv
  OBVIOUS
<1>1. /\ next = 1 /\ socket = <<>> /\ read_buf = <<>> /\ buf = <<>> /\ size = 0
      /\ stream_reader = "read" /\ received = <<>> /\ failures = 0 /\ cut = FALSE
      /\ rest = IF Messages = 0 THEN <<>> ELSE Frame(1)
  BY DEF FramingInit
<1>2. rest \in Seq(Byte)
  BY <1>1, FrameBytes, EmptySeq, FramingAssumption
<1>3. Stream = rest
  BY <1>1, <1>2, ConcatEmptySeq, Zenon DEF Stream
<1>4. Messages # 0 => 1 \in 1..Messages /\ rest = Frame(1)
  BY <1>1, FramingAssumption
<1>5. Messages = 0 => rest = <<>> /\ Len(rest) = 0
  BY <1>1
<1>6. FramingTypes
  <2>1. HeaderSize \in Nat /\ SocketSize \in Nat /\ ReadSize \in Nat /\ MaxFailures \in Nat
        /\ Messages \in Nat
    BY FramingAssumption
  <2>2. next \in 1..(Messages + 1) /\ failures \in 0..MaxFailures /\ size \in Sizes
    BY <1>1, <2>1 DEF Sizes
  <2>3. socket \in Seq(Byte) /\ read_buf \in Seq(Byte) /\ buf \in Seq(Byte)
        /\ received \in Seq(Forged..Messages)
        /\ Len(socket) = 0 /\ Len(read_buf) = 0
    BY <1>1, EmptySeq
  <2>4. cut \in BOOLEAN /\ stream_reader \in {"read", "use", "failed", "panicked"}
    BY <1>1
  <2>5. Len(socket) <= SocketSize /\ Len(read_buf) <= ReadSize
    BY <2>1, <2>3
  <2>6. buf # <<>> => Len(buf) < size
    BY <1>1
  <2> QED BY <1>2, <2>2, <2>3, <2>4, <2>5, <2>6, Zenon DEF FramingTypes
<1>7. EndOfFrame
  <2>1. CASE Messages = 0
    BY <2>1, <1>1, <1>5 DEF EndOfFrame
  <2>2. CASE Messages # 0
    <3>1. /\ rest = Frame(1) /\ 1 \in 1..Messages
          /\ Len(rest) = HeaderSize + BodySize[1] /\ BodySize[1] \in Nat \ {0}
          /\ HeaderSize \in Nat
          /\ \A i \in 1..(HeaderSize + BodySize[1]) : rest[i] = <<1, i>>
      BY <2>2, <1>4, FrameBytes, BodySizes, FramingAssumption
    <3>2. rest # <<>>
      BY <3>1
    <3>3. \A i \in 1..Len(rest) : rest[i] = <<next, HeaderSize + BodySize[next] - Len(rest) + i>>
      BY <3>1, <1>1
    <3> QED BY <3>2, <3>3, <2>2, <1>1, FramingAssumption DEF EndOfFrame
  <2> QED BY <2>1, <2>2
<1>8. Sorted(rest) /\ Chained(rest)
  <2>1. CASE Messages = 0
    BY <2>1, <1>5 DEF Sorted, Chained
  <2>2. CASE Messages # 0
    BY <2>2, <1>4, FramesInOrder
  <2> QED BY <2>1, <2>2
<1>9. \A j \in 1..Len(rest) : rest[j][1] = 1
  <2>1. CASE Messages = 0
    BY <2>1, <1>5
  <2>2. CASE Messages # 0
    BY <2>2, <1>4, FrameBytes
  <2> QED BY <2>1, <2>2
<1>10. FramesOrdered
  <2>1. Len(received) = 0
    BY <1>1
  <2> QED BY <1>1, <1>3, <1>8, <1>9, <2>1 DEF FramesOrdered
<1>11. Aligned
  <2>1. rest # <<>> => rest[1] = <<1, 1>>
    <3> SUFFICES ASSUME rest # <<>>
                 PROVE  rest[1] = <<1, 1>>
      OBVIOUS
    <3>1. Messages # 0
      BY <1>5
    <3>2. 1 \in 1..(HeaderSize + BodySize[1])
      BY <3>1, <1>4, BodySizes, FramingAssumption
    <3> QED BY <3>1, <3>2, <1>4, FrameBytes
  <2>2. Len(received) = 0
    BY <1>1
  <2> QED BY <1>1, <1>3, <1>8, <2>1, <2>2 DEF Aligned
<1> QED BY <1>1, <1>6, <1>7, <1>10, <1>11 DEF FramingIInv, UsedUp

-----------------------------------------------------------------------------
(* The writer.                                                             *)

(* The next frame is put behind what is still on its way.                  *)
LEMMA NextFrameBehind ==
  ASSUME FramingTypes, NEW A \in Seq(Byte), Sorted(A), next \in 1..Messages,
         \A j \in 1..Len(A) : A[j][1] <= next, NextFrame
  PROVE  /\ rest' \in Seq(Byte) /\ EndOfFrame' /\ next' = next + 1
         /\ A \o rest' \in Seq(Byte)
         /\ Sorted(A \o rest')
         /\ \A j \in 1..Len(A \o rest') :
              \/ j \in 1..Len(A) /\ (A \o rest')[j] = A[j]
              \/ (A \o rest')[j][1] = next + 1
         /\ rest' # <<>> => rest'[1] = <<next + 1, 1>>
         /\ Chained(rest')
<1>1. next' = next + 1 /\ rest' = IF next < Messages THEN Frame(next + 1) ELSE <<>>
  BY DEF NextFrame
<1>2. Messages \in Nat /\ HeaderSize \in Nat \ {0} /\ next \in Nat
  BY FramingAssumption
<1>3. CASE ~(next < Messages)
  <2>1. rest' = <<>> /\ next + 1 = Messages + 1 /\ Len(rest') = 0
    BY <1>1, <1>2, <1>3
  <2>2. A \o rest' = A
    BY <2>1, ConcatEmptySeq
  <2>3. EndOfFrame'
    BY <1>1, <2>1 DEF EndOfFrame
  <2>4. Chained(rest')
    BY <2>1 DEF Chained
  <2>5. rest' \in Seq(Byte)
    BY <2>1, EmptySeq
  <2> QED BY <1>1, <2>1, <2>2, <2>3, <2>4, <2>5
<1>4. CASE next < Messages
  <2> DEFINE m == next + 1
             f == Frame(m)
             b == BodySize[m]
  <2>1. m \in 1..Messages /\ m \in Nat
    BY <1>2, <1>4
  <2>2. rest' = f /\ next' = m
    BY <1>1, <1>4
  <2>3. /\ f \in Seq(Byte) /\ Len(f) = HeaderSize + b
        /\ \A i \in 1..(HeaderSize + b) : f[i] = <<m, i>>
        /\ Sorted(f) /\ Chained(f)
        /\ b \in Nat \ {0}
    <3> HIDE DEF m
    <3> QED BY <2>1, FrameBytes, FramesInOrder, BodySizes
  <2>4. f # <<>> /\ f[1] = <<m, 1>>
    <3>1. 1 \in 1..(HeaderSize + b)
      <4> HIDE DEF b
      <4> QED BY <2>3, <1>2
    <3> HIDE DEF f, b, m
    <3> QED BY <2>3, <3>1
  <2>5. EndOfFrame'
    <3>1. \A i \in 1..Len(f) : f[i] = <<m, HeaderSize + b - Len(f) + i>>
      <4> HIDE DEF f, b, m
      <4> QED BY <2>3, <1>2
    <3>2. m # Messages + 1
      BY <2>1, <1>2
    <3> HIDE DEF f
    <3>3. (rest = <<>> <=> next = Messages + 1)'
      <4> HIDE DEF m
      <4> QED BY <2>2, <2>4, <3>2
    <3>4. (\A i \in 1..Len(rest) :
            rest[i] = <<next, HeaderSize + BodySize[next] - Len(rest) + i>>)'
      BY <2>2, <3>1, Zenon
    <3> QED BY <3>3, <3>4, Zenon DEF EndOfFrame
  <2>6. \A j \in 1..Len(f) : f[j][1] = m
    <3> HIDE DEF f, b, m
    <3> QED BY <2>3
  <2>7. \A i \in 1..Len(A), j \in 1..Len(f) : Before(A[i], f[j])
    <3>1. \A i \in 1..Len(A) : A[i] \in Byte
      BY ElementOfSeq
    <3>2. \A i \in 1..Len(A) : A[i][1] < m
      BY <3>1, ByteParts, <1>2
    <3> HIDE DEF f, m
    <3> QED BY <2>6, <3>2, Zenon DEF Before
  <2>8. Sorted(A \o f) /\ A \o f \in Seq(Byte)
    <3> HIDE DEF f
    <3> QED BY <2>3, <2>7, SortedConcat, ConcatProperties
  <2>9. \A j \in 1..Len(A \o f) :
          \/ j \in 1..Len(A) /\ (A \o f)[j] = A[j]
          \/ (A \o f)[j][1] = m
    <3> HIDE DEF f, m
    <3>1. /\ Len(A \o f) = Len(A) + Len(f)
          /\ \A j \in 1..(Len(A) + Len(f)) : (A \o f)[j] = IF j <= Len(A) THEN A[j] ELSE f[j - Len(A)]
      BY <2>3, ConcatProperties
    <3>2. Len(A) \in Nat /\ Len(f) \in Nat
      BY <2>3, LenProperties
    <3> SUFFICES ASSUME NEW j \in 1..Len(A \o f), ~(j <= Len(A))
                 PROVE  (A \o f)[j][1] = m
      BY <3>1, <3>2
    <3>3. j - Len(A) \in 1..Len(f) /\ (A \o f)[j] = f[j - Len(A)]
      BY <3>1, <3>2
    <3> QED BY <3>3, <2>6
  <2> HIDE DEF f
  <2> QED BY <2>2, <2>3, <2>4, <2>5, <2>8, <2>9
<1> QED BY <1>3, <1>4

(* Nothing on its way comes too late, when a frame is put behind it.       *)
LEMMA OrderedBehind ==
  ASSUME FramingTypes, FramesOrdered, NEW A \in Seq(Byte), Sorted(A), next \in 1..Messages,
         \A j \in 1..Len(A) : A[j][1] <= next,
         \A i \in 1..Len(received), j \in 1..Len(A) : received[i] < A[j][1],
         NextFrame, received' = received, Stream' = A \o rest'
  PROVE  FramesOrdered'
<1>1. /\ next' = next + 1 /\ Sorted(A \o rest')
      /\ \A j \in 1..Len(A \o rest') :
           \/ j \in 1..Len(A) /\ (A \o rest')[j] = A[j]
           \/ (A \o rest')[j][1] = next + 1
  BY NextFrameBehind, Zenon
<1>2. /\ next \in Nat
      /\ \A i \in 1..Len(received) : received[i] \in Nat /\ received[i] <= next
  <2>1. received \in Seq(Forged..Messages)
    BY Zenon DEF FramingTypes
  <2>2. \A i \in 1..Len(received) : received[i] \in Forged..Messages
    BY <2>1, ElementOfSeq
  <2>3. \A i \in 1..Len(received) : received[i] <= next
    BY Zenon DEF FramesOrdered
  <2>4. Messages \in Nat
    BY FramingAssumption
  <2> QED BY <2>2, <2>3, <2>4 DEF Forged
<1>3. \A j \in 1..Len(A) : A[j][1] \in Nat
  BY ElementOfSeq, ByteParts
<1>4. (\A j \in 1..Len(Stream) : Stream[j][1] <= next)'
  BY <1>1, <1>2, <1>3
<1>5. (\A i \in 1..Len(received), j \in 1..Len(Stream) : received[i] < Stream[j][1])'
  <2> SUFFICES ASSUME NEW i \in 1..Len(received), NEW j \in 1..Len(A \o rest')
               PROVE  received[i] < (A \o rest')[j][1]
    OBVIOUS
  <2>1. CASE j \in 1..Len(A) /\ (A \o rest')[j] = A[j]
    BY <2>1, Zenon
  <2>2. CASE (A \o rest')[j][1] = next + 1
    BY <2>2, <1>2
  <2> QED BY <1>1, <2>1, <2>2, Zenon
<1>6. (\A i, j \in 1..Len(received) :
         i < j /\ received[j] # Forged => received[i] < received[j])'
  BY Zenon DEF FramesOrdered
<1>7. (\A i \in 1..Len(received) : received[i] <= next)'
  BY <1>1, <1>2
<1> QED BY <1>1, <1>4, <1>5, <1>6, <1>7, Zenon DEF FramesOrdered

LEMMA FramingFacts ==
  ASSUME FramingTypes
  PROVE  /\ next \in 1..(Messages + 1) /\ next \in Nat
         /\ rest \in Seq(Byte) /\ socket \in Seq(Byte)
         /\ read_buf \in Seq(Byte) /\ buf \in Seq(Byte) /\ Stream \in Seq(Byte)
         /\ Len(rest) \in Nat /\ Len(socket) \in Nat /\ Len(read_buf) \in Nat
         /\ Len(buf) \in Nat
         /\ Messages \in Nat /\ HeaderSize \in Nat \ {0} /\ SocketSize \in Nat
         /\ ReadSize \in Nat /\ MaxFailures \in Nat
<1>1. /\ next \in 1..(Messages + 1)
      /\ rest \in Seq(Byte) /\ socket \in Seq(Byte)
      /\ read_buf \in Seq(Byte) /\ buf \in Seq(Byte)
  BY Zenon DEF FramingTypes
<1>2. Stream \in Seq(Byte)
  BY <1>1, Concats, Zenon DEF Stream
<1>3. /\ Len(rest) \in Nat /\ Len(socket) \in Nat /\ Len(read_buf) \in Nat
      /\ Len(buf) \in Nat
  BY <1>1, LenProperties
<1> QED BY <1>1, <1>2, <1>3, FramingAssumption

(* While the writer has something to write, it is the end of its frame, at *)
(* the end of the stream.                                                  *)
LEMMA EndOfStream ==
  ASSUME FramingTypes, EndOfFrame, rest # <<>>
  PROVE  /\ next \in 1..Messages
         /\ Stream # <<>> /\ Len(Stream) \in Nat \ {0}
         /\ After(Stream[Len(Stream)]) = <<next + 1, 1>>
<1> DEFINE A == buf \o (read_buf \o socket)
           S == A \o rest
<1>1. next \in 1..Messages
  BY FramingFacts DEF EndOfFrame
<1>2. A \in Seq(Byte) /\ rest \in Seq(Byte) /\ Stream = S
  <2>1. /\ rest \in Seq(Byte) /\ socket \in Seq(Byte)
        /\ read_buf \in Seq(Byte) /\ buf \in Seq(Byte)
    BY FramingFacts
  <2>2. buf \o (read_buf \o socket) \in Seq(Byte)
    BY <2>1, Concats, Zenon
  <2>3. buf \o (read_buf \o (socket \o rest)) = (buf \o (read_buf \o socket)) \o rest
    <3>1. read_buf \o socket \in Seq(Byte)
      BY <2>1, ConcatProperties
    <3>2. read_buf \o (socket \o rest) = (read_buf \o socket) \o rest
      <4>1. Associates(read_buf, socket, rest)
        BY <2>1, Associative, Zenon
      <4> QED BY <4>1 DEF Associates
    <3>3. buf \o ((read_buf \o socket) \o rest) = (buf \o (read_buf \o socket)) \o rest
      <4>1. Associates(buf, (read_buf \o socket), rest)
        BY <2>1, <3>1, Associative, Zenon
      <4> QED BY <4>1 DEF Associates
    <3> QED BY <3>2, <3>3, Zenon
  <2> QED BY <2>1, <2>2, <2>3 DEF Stream
<1>3. Len(rest) \in Nat \ {0} /\ Len(A) \in Nat
  BY <1>2, EmptySeq, LenProperties
<1>4. /\ S \in Seq(Byte) /\ Len(S) = Len(A) + Len(rest)
      /\ \A i \in 1..(Len(A) + Len(rest)) : S[i] = IF i <= Len(A) THEN A[i] ELSE rest[i - Len(A)]
  <2> HIDE DEF A
  <2> QED BY <1>2, ConcatProperties
<1>5. Len(S) \in Nat \ {0} /\ S[Len(S)] = rest[Len(rest)]
  <2> HIDE DEF A, S
  <2> QED BY <1>3, <1>4
<1>6. rest[Len(rest)] = <<next, HeaderSize + BodySize[next]>>
  <2>1. BodySize[next] \in Nat /\ HeaderSize \in Nat
    BY <1>1, BodySizes, FramingAssumption
  <2>2. rest[Len(rest)] = <<next, HeaderSize + BodySize[next] - Len(rest) + Len(rest)>>
    BY <1>3 DEF EndOfFrame
  <2> DEFINE b == BodySize[next]
             l == Len(rest)
  <2>3. HeaderSize + b - l + l = HeaderSize + b
    <3> HIDE DEF b, l
    <3> QED BY <1>3, <2>1 DEF b, l
  <2> QED BY <2>2, <2>3
<1>7. After(<<next, HeaderSize + BodySize[next]>>) = <<next + 1, 1>>
  <2>1. ~(HeaderSize + BodySize[next] < HeaderSize + BodySize[next])
    BY <1>1, BodySizes, FramingAssumption
  <2> QED BY <2>1 DEF After
<1>8. S # <<>>
  <2> HIDE DEF A, S
  <2> QED BY <1>5
<1> QED
  <2> HIDE DEF S
  <2> QED BY <1>1, <1>2, <1>5, <1>6, <1>7, <1>8, Zenon

(* Nothing the properties are about depends on who holds the bytes.        *)
LEMMA SameStream ==
  ASSUME Stream' = Stream, received' = received, next' = next
  PROVE  /\ FramesOrdered => FramesOrdered'
         /\ /\ Aligned /\ failures' = failures /\ cut' = cut
            /\ stream_reader' = stream_reader /\ buf' = buf /\ size' = size
            => Aligned'
<1>1. FramesOrdered => FramesOrdered'
  BY Zenon DEF FramesOrdered
<1>2. ASSUME Aligned, failures' = failures, cut' = cut,
             stream_reader' = stream_reader, buf' = buf, size' = size
      PROVE  Aligned'
  BY <1>2, Zenon DEF Aligned
<1> QED BY <1>1, <1>2

LEMMA WriteKeeps ==
  ASSUME FramingIInv, NEW n \in 1..SocketSize, Write(n)
  PROVE  FramingIInv'
<1>0. FramingTypes /\ EndOfFrame /\ FramesOrdered /\ UsedUp /\ Aligned
  BY DEF FramingIInv
<1> USE <1>0
<1>1. /\ n <= Len(rest) /\ Len(socket) + n <= SocketSize
      /\ socket' = socket \o SubSeq(rest, 1, n)
      /\ IF n = Len(rest) THEN NextFrame
         ELSE rest' = SubSeq(rest, n + 1, Len(rest)) /\ UNCHANGED next
      /\ read_buf' = read_buf /\ buf' = buf /\ size' = size
      /\ stream_reader' = stream_reader /\ received' = received
      /\ failures' = failures /\ cut' = cut
  BY DEF Write
<1>2. n \in 0..Len(rest) /\ Len(rest) # 0 /\ rest # <<>> /\ n \in Nat
  BY <1>1, FramingFacts
<1>3. /\ next \in 1..Messages /\ Stream # <<>> /\ Stream \in Seq(Byte)
      /\ Len(Stream) \in Nat \ {0}
      /\ After(Stream[Len(Stream)]) = <<next + 1, 1>>
  BY <1>2, EndOfStream, FramingFacts
<1> DEFINE p == SubSeq(rest, 1, n)
           q == Drop(rest, n)
<1>4. /\ p \in Seq(Byte) /\ Len(p) = n /\ q \in Seq(Byte) /\ rest = p \o q
      /\ Len(q) = Len(rest) - n /\ \A i \in 1..(Len(rest) - n) : q[i] = rest[n + i]
  BY <1>2, FramingFacts, Split
<1>5. socket' = socket \o p
  BY <1>1
<1> HIDE DEF p
<1>6. /\ socket' \in Seq(Byte) /\ Len(socket') = Len(socket) + n
  BY <1>4, <1>5, FramingFacts, ConcatProperties
<1>7. rest' \in Seq(Byte) /\ EndOfFrame' /\ next' \in 1..(Messages + 1) /\ FramesOrdered' /\ Aligned'
  <2>1. CASE n # Len(rest)
    <3>1. rest' = q /\ next' = next
      BY <2>1, <1>1 DEF Drop
    <3> HIDE DEF q
    <3>2. socket' \o rest' = socket \o rest
      <4>1. socket \in Seq(Byte)
        BY FramingFacts
      <4>2. (socket \o p) \o q = socket \o (p \o q)
        <5>1. Associates(socket, p, q)
          BY <4>1, <1>4, Associative, Zenon
        <5> QED BY <5>1 DEF Associates
      <4> QED BY <4>2, <3>1, <1>4, <1>5
    <3>3. Stream' = Stream
      BY <3>2, <1>1, Zenon DEF Stream
    <3>4. q # <<>>
      BY <1>2, <1>4, <2>1, FramingFacts, EmptySeq, SMTT(30)
    <3>5. EndOfFrame'
      <4>1. BodySize[next] \in Nat /\ HeaderSize \in Nat
        BY <1>3, BodySizes, FramingAssumption
      <4> DEFINE b == BodySize[next]
                 l == Len(rest)
      <4>2. \A i \in 1..(l - n) : q[i] = <<next, HeaderSize + b - (l - n) + i>>
        <5> SUFFICES ASSUME NEW i \in 1..(l - n)
                     PROVE  q[i] = <<next, HeaderSize + b - (l - n) + i>>
          OBVIOUS
        <5>1. l \in Nat /\ n \in 1..l /\ b \in Nat
          BY <4>1, <1>2, FramingFacts
        <5>2. n + i \in 1..l /\ HeaderSize + b - l + (n + i) = HeaderSize + b - (l - n) + i
          <6> HIDE DEF l, b
          <6> QED BY <4>1, <5>1
        <5>3. q[i] = rest[n + i]
          BY <1>4
        <5>4. rest[n + i] = <<next, HeaderSize + b - l + (n + i)>>
          BY <5>2, Zenon DEF EndOfFrame
        <5> QED BY <5>2, <5>3, <5>4
      <4>3. (\A i \in 1..Len(rest) :
               rest[i] = <<next, HeaderSize + BodySize[next] - Len(rest) + i>>)'
        BY <3>1, <4>2, <1>4
      <4>4. (rest = <<>> <=> next = Messages + 1)'
        BY <3>1, <3>4, <1>3, FramingFacts
      <4> QED BY <4>3, <4>4 DEF EndOfFrame
    <3>6. next' \in 1..(Messages + 1)
      BY <3>1, FramingFacts
    <3> QED BY <3>1, <3>3, <3>5, <3>6, <1>1, <1>4, SameStream
  <2>2. CASE n = Len(rest)
    <3>1. NextFrame
      BY <2>2, <1>1
    <3>2. p = rest
      BY <2>2, FramingFacts, SubSeqFull DEF p
    <3>3. Sorted(Stream) /\ \A j \in 1..Len(Stream) : Stream[j][1] <= next
      BY Zenon DEF FramesOrdered
    <3>4. /\ rest' \in Seq(Byte) /\ EndOfFrame' /\ next' = next + 1
          /\ rest' # <<>> => rest'[1] = <<next + 1, 1>>
          /\ Chained(rest')
          /\ Stream \o rest' \in Seq(Byte)
      BY <3>1, <3>3, <1>3, NextFrameBehind, Zenon
    <3>5. Stream' = Stream \o rest'
      <4>1. socket \o rest \in Seq(Byte)
        BY FramingFacts, ConcatProperties
      <4>2. buf \o (read_buf \o ((socket \o rest) \o rest')) = (buf \o (read_buf \o (socket \o rest))) \o rest'
        <5>1. /\ rest \in Seq(Byte) /\ socket \in Seq(Byte)
              /\ read_buf \in Seq(Byte) /\ buf \in Seq(Byte)
          BY FramingFacts
        <5> DEFINE r == socket \o rest
        <5>2. r \in Seq(Byte)
          BY <4>1
        <5> HIDE DEF r
        <5>0. rest' \in Seq(Byte)
          BY <3>4
        <5>3. read_buf \o r \in Seq(Byte)
          BY <5>1, <5>2, ConcatProperties
        <5>4. read_buf \o (r \o rest') = (read_buf \o r) \o rest'
          <6>1. Associates(read_buf, r, rest')
            BY <5>0, <5>1, <5>2, Associative, Zenon
          <6> QED BY <6>1 DEF Associates
        <5>5. buf \o ((read_buf \o r) \o rest') = (buf \o (read_buf \o r)) \o rest'
          <6>1. Associates(buf, (read_buf \o r), rest')
            BY <5>0, <5>1, <5>3, Associative, Zenon
          <6> QED BY <6>1 DEF Associates
        <5> QED BY <5>4, <5>5, Zenon DEF r
      <4> QED BY <4>2, <3>2, <1>1, <1>5, Zenon DEF Stream
    <3>6. \A i \in 1..Len(received), j \in 1..Len(Stream) : received[i] < Stream[j][1]
      BY Zenon DEF FramesOrdered
    <3>7. FramesOrdered'
      BY <3>1, <3>3, <3>5, <3>6, <1>1, <1>3, OrderedBehind, Zenon
    <3>8. Aligned'
      <4> SUFFICES ASSUME failures = 0, ~cut
                   PROVE  /\ Chained(Stream \o rest')
                          /\ buf = <<>> => (Stream \o rest')[1] = <<Len(received) + 1, 1>>
        BY <3>5, <1>1, Zenon DEF Aligned
      <4>1. Chained(Stream) /\ (buf = <<>> => Stream[1] = <<Len(received) + 1, 1>>)
        BY <1>3, Zenon DEF Aligned
      <4>2. CASE rest' = <<>>
        BY <4>1, <4>2, <1>3, ConcatEmptySeq
      <4>3. CASE rest' # <<>>
        <5>1. Chained(Stream \o rest')
          BY <4>1, <4>3, <3>4, <1>3, ChainedConcat
        <5>2. (Stream \o rest')[1] = Stream[1]
          BY <3>4, <1>3, ConcatProperties, LenProperties
        <5> QED BY <5>1, <5>2, <4>1
      <4> QED BY <4>2, <4>3
    <3>9. next' \in 1..(Messages + 1)
      BY <3>4, <1>3, FramingFacts
    <3> QED BY <3>4, <3>7, <3>8, <3>9
  <2> QED BY <2>1, <2>2
<1>8. FramingTypes'
  BY <1>1, <1>6, <1>7 DEF FramingTypes
<1>9. UsedUp'
  BY <1>1 DEF UsedUp
<1> QED BY <1>7, <1>8, <1>9 DEF FramingIInv

LEMMA GiveUpKeeps ==
  ASSUME FramingIInv, GiveUp
  PROVE  FramingIInv'
<1>0. FramingTypes /\ EndOfFrame /\ FramesOrdered /\ UsedUp
  BY DEF FramingIInv
<1> USE <1>0
<1>1. /\ rest # <<>> /\ failures < MaxFailures /\ failures' = failures + 1 /\ NextFrame
      /\ socket' = socket /\ read_buf' = read_buf /\ buf' = buf /\ size' = size
      /\ stream_reader' = stream_reader /\ received' = received /\ cut' = cut
  BY DEF GiveUp
<1>2. next \in 1..Messages
  BY <1>1, EndOfStream
<1> DEFINE A == buf \o (read_buf \o socket)
<1>3. A \in Seq(Byte) /\ Stream = A \o rest /\ rest \in Seq(Byte)
  <2>1. /\ rest \in Seq(Byte) /\ socket \in Seq(Byte)
        /\ read_buf \in Seq(Byte) /\ buf \in Seq(Byte)
    BY FramingFacts
  <2>2. buf \o (read_buf \o socket) \in Seq(Byte)
    BY <2>1, Concats, Zenon
  <2>3. buf \o (read_buf \o (socket \o rest)) = (buf \o (read_buf \o socket)) \o rest
    <3>1. read_buf \o socket \in Seq(Byte)
      BY <2>1, ConcatProperties
    <3>2. read_buf \o (socket \o rest) = (read_buf \o socket) \o rest
      <4>1. Associates(read_buf, socket, rest)
        BY <2>1, Associative, Zenon
      <4> QED BY <4>1 DEF Associates
    <3>3. buf \o ((read_buf \o socket) \o rest) = (buf \o (read_buf \o socket)) \o rest
      <4>1. Associates(buf, (read_buf \o socket), rest)
        BY <2>1, <3>1, Associative, Zenon
      <4> QED BY <4>1 DEF Associates
    <3> QED BY <3>2, <3>3, Zenon
  <2> QED BY <2>1, <2>2, <2>3 DEF Stream
<1>4. Stream' = A \o rest'
  <2>1. rest' \in Seq(Byte)
    <3>1. CASE next < Messages
      <4>1. next + 1 \in 1..Messages
        BY <3>1, <1>2, FramingFacts
      <4> QED BY <4>1, <3>1, <1>1, FrameBytes DEF NextFrame
    <3>2. CASE ~(next < Messages)
      BY <3>2, <1>1, EmptySeq DEF NextFrame
    <3> QED BY <3>1, <3>2
  <2>2. /\ rest \in Seq(Byte) /\ socket \in Seq(Byte)
        /\ read_buf \in Seq(Byte) /\ buf \in Seq(Byte)
    BY FramingFacts
  <2>3. buf \o (read_buf \o (socket \o rest')) = (buf \o (read_buf \o socket)) \o rest'
    <3>1. read_buf \o socket \in Seq(Byte)
      BY <2>1, <2>2, ConcatProperties
    <3>2. read_buf \o (socket \o rest') = (read_buf \o socket) \o rest'
      <4>1. Associates(read_buf, socket, rest')
        BY <2>1, <2>2, Associative, Zenon
      <4> QED BY <4>1 DEF Associates
    <3>3. buf \o ((read_buf \o socket) \o rest') = (buf \o (read_buf \o socket)) \o rest'
      <4>1. Associates(buf, (read_buf \o socket), rest')
        BY <2>1, <2>2, <3>1, Associative, Zenon
      <4> QED BY <4>1 DEF Associates
    <3> QED BY <3>2, <3>3, Zenon
  <2> QED BY <2>3, <1>1 DEF Stream
<1> HIDE DEF A
<1>5. /\ Len(A) \in Nat /\ Len(A) \in 0..Len(Stream)
      /\ \A i \in 1..Len(A) : Stream[i] = A[i] /\ i \in 1..Len(Stream)
  <2>1. Len(A) \in Nat /\ Len(rest) \in Nat
    BY <1>3, LenProperties
  <2>2. /\ Len(Stream) = Len(A) + Len(rest)
        /\ \A i \in 1..(Len(A) + Len(rest)) : Stream[i] = IF i <= Len(A) THEN A[i] ELSE rest[i - Len(A)]
    BY <1>3, ConcatProperties
  <2> QED BY <2>1, <2>2
<1>6. /\ Sorted(Stream)
      /\ \A j \in 1..Len(Stream) : Stream[j][1] <= next
      /\ \A i \in 1..Len(received), j \in 1..Len(Stream) : received[i] < Stream[j][1]
  BY Zenon DEF FramesOrdered
<1>7. /\ Sorted(A)
      /\ \A j \in 1..Len(A) : A[j][1] <= next
      /\ \A i \in 1..Len(received), j \in 1..Len(A) : received[i] < A[j][1]
  <2>1. Sorted(A)
    <3>1. \A i, j \in 1..Len(A) : i < j => Before(Stream[i], Stream[j])
      BY <1>5, <1>6, Zenon DEF Sorted
    <3> QED BY <3>1, <1>5, Zenon DEF Sorted
  <2> QED BY <2>1, <1>5, <1>6, Zenon
<1>8. FramesOrdered'
  BY <1>1, <1>2, <1>3, <1>4, <1>7, OrderedBehind, Zenon
<1>9. /\ rest' \in Seq(Byte) /\ EndOfFrame' /\ next' = next + 1
  BY <1>1, <1>2, <1>3, <1>7, NextFrameBehind, Zenon
<1>10. next' \in 1..(Messages + 1) /\ failures' \in 0..MaxFailures /\ failures' # 0
  <2>1. failures \in 0..MaxFailures
    BY Zenon DEF FramingTypes
  <2> QED BY <2>1, <1>1, <1>2, <1>9, FramingFacts
<1>11. FramingTypes'
  BY <1>1, <1>9, <1>10 DEF FramingTypes
<1>12. Aligned' /\ UsedUp'
  BY <1>1, <1>10 DEF Aligned, UsedUp
<1> QED BY <1>8, <1>9, <1>11, <1>12 DEF FramingIInv

-----------------------------------------------------------------------------
(* The reader.                                                             *)

LEMMA ReadKeeps ==
  ASSUME FramingIInv, Read
  PROVE  FramingIInv'
<1>0. FramingTypes /\ EndOfFrame /\ FramesOrdered /\ UsedUp /\ Aligned
  BY DEF FramingIInv
<1> DEFINE n == IF Len(socket) < ReadSize THEN Len(socket) ELSE ReadSize
           p == SubSeq(socket, 1, n)
           q == Drop(socket, n)
<1>1. /\ stream_reader = "read" /\ n > 0
      /\ read_buf' = p /\ socket' = q
      /\ stream_reader' = IF n < HeaderSize THEN "failed" ELSE "use"
      /\ cut' = (cut \/ n < HeaderSize)
      /\ next' = next /\ rest' = rest /\ buf' = buf /\ size' = size
      /\ received' = received /\ failures' = failures
  BY DEF Read, Drop
<1>2. /\ socket \in Seq(Byte) /\ rest \in Seq(Byte) /\ Len(socket) \in Nat /\ ReadSize \in Nat
      /\ Len(socket) <= SocketSize /\ SocketSize \in Nat /\ cut \in BOOLEAN
  BY <1>0, FramingFacts DEF FramingTypes
<1>3. n \in 0..Len(socket) /\ n <= ReadSize
  BY <1>2
<1>4. /\ p \in Seq(Byte) /\ Len(p) = n /\ q \in Seq(Byte) /\ Len(q) = Len(socket) - n
      /\ socket = p \o q
  BY <1>2, <1>3, Split
<1> HIDE DEF n, p, q
<1>5. read_buf = <<>>
  BY <1>0, <1>1 DEF UsedUp
<1>6. Stream' = Stream
  <2>1. p \o (q \o rest) = (p \o q) \o rest
    <3>1. Associates(p, q, rest)
      BY <1>2, <1>4, Associative, Zenon
    <3> QED BY <3>1 DEF Associates
  <2>2. read_buf \o (socket \o rest) = socket \o rest
    <3>1. socket \o rest \in Seq(Byte)
      BY <1>2, ConcatProperties
    <3> QED BY <3>1, <1>5, ConcatEmptySeq
  <2> QED BY <2>1, <2>2, <1>1, <1>4, Zenon DEF Stream
<1>7. FramesOrdered'
  BY <1>0, <1>1, <1>6, SameStream
<1>8. Aligned'
  <2>1. CASE n < HeaderSize
    BY <2>1, <1>1 DEF Aligned
  <2>2. CASE ~(n < HeaderSize)
    <3>1. cut' = cut /\ stream_reader' = "use"
      BY <2>2, <1>1, <1>2
    <3> QED BY <3>1, <1>0, <1>1, <1>6, Zenon DEF Aligned
  <2> QED BY <2>1, <2>2
<1>9. UsedUp'
  BY <1>1 DEF UsedUp
<1>10. EndOfFrame'
  BY <1>0, <1>1 DEF EndOfFrame
<1>11. FramingTypes'
  <2>1. Len(socket') <= SocketSize /\ Len(read_buf') <= ReadSize
    BY <1>1, <1>2, <1>3, <1>4
  <2>2. stream_reader' \in {"read", "use", "failed", "panicked"} /\ cut' \in BOOLEAN
    BY <1>1, <1>2
  <2> QED BY <1>0, <1>1, <1>4, <2>1, <2>2, Zenon DEF FramingTypes, Sizes
<1> QED BY <1>7, <1>8, <1>9, <1>10, <1>11 DEF FramingIInv

LEMMA CutHeaderKeeps ==
  ASSUME FramingIInv, CutHeader
  PROVE  FramingIInv'
<1>0. FramingTypes /\ EndOfFrame /\ FramesOrdered /\ UsedUp /\ Aligned
  BY DEF FramingIInv
<1>1. /\ stream_reader' = "panicked" /\ cut' = TRUE /\ socket' = socket
      /\ read_buf' = read_buf /\ next' = next /\ rest' = rest /\ buf' = buf
      /\ size' = size /\ received' = received /\ failures' = failures
  BY DEF CutHeader
<1>2. Stream' = Stream
  BY <1>1, Zenon DEF Stream
<1>3. FramesOrdered'
  BY <1>0, <1>1, <1>2, SameStream
<1>4. Aligned' /\ UsedUp' /\ EndOfFrame'
  BY <1>0, <1>1 DEF Aligned, UsedUp, EndOfFrame
<1>5. FramingTypes'
  BY <1>0, <1>1 DEF FramingTypes, Sizes
<1> QED BY <1>3, <1>4, <1>5 DEF FramingIInv

(* What stays of the stream stays in order.                                *)
InTime(S) ==
  /\ Sorted(S)
  /\ \A j \in 1..Len(S) : S[j][1] <= next
  /\ \A i \in 1..Len(received), j \in 1..Len(S) : received[i] < S[j][1]

LEMMA InTimeDrop ==
  ASSUME NEW S \in Seq(Byte), NEW k \in 0..Len(S), InTime(S)
  PROVE  InTime(Drop(S, k))
<1>1. Len(S) \in Nat /\ k \in Nat
  BY LenProperties
<1>2. Sorted(Drop(S, k))
  BY SortedParts, Zenon DEF InTime
<1>3. Len(Drop(S, k)) = Len(S) - k /\ \A j \in 1..(Len(S) - k) : Drop(S, k)[j] = S[k + j]
  BY Split
<1>4. \A j \in 1..(Len(S) - k) : k + j \in 1..Len(S)
  BY <1>1
<1>5. \A j \in 1..Len(Drop(S, k)) : Drop(S, k)[j][1] <= next
  BY <1>3, <1>4, Zenon DEF InTime
<1>6. \A i \in 1..Len(received), j \in 1..Len(Drop(S, k)) : received[i] < Drop(S, k)[j][1]
  BY <1>3, <1>4, Zenon DEF InTime
<1> QED BY <1>2, <1>5, <1>6, Zenon DEF InTime

(* A size that is read where a frame begins is the size of its body.       *)
LEMMA HeaderRead ==
  ASSUME NEW k \in Nat, NEW S \in Seq(Byte), Chained(S),
         NEW r \in Seq(Byte), NEW X \in Seq(Byte), S = r \o X,
         Len(r) >= HeaderSize, S[1] = <<k + 1, 1>>,
         NEW s \in SizesOf(SubSeq(r, 1, HeaderSize))
  PROVE  /\ k + 1 \in 1..Messages
         /\ s = BodySize[k + 1]
         /\ Len(S) > HeaderSize => S[HeaderSize + 1] = <<k + 1, HeaderSize + 1>>
<1> DEFINE m == k + 1
           H == HeaderSize
           hd == SubSeq(r, 1, H)
<1>1. H \in Nat \ {0} /\ Len(r) \in Nat /\ Len(X) \in Nat /\ H \in 0..Len(r)
  BY LenProperties, FramingAssumption
<1>2. /\ Len(S) = Len(r) + Len(X)
      /\ \A i \in 1..(Len(r) + Len(X)) : S[i] = IF i <= Len(r) THEN r[i] ELSE X[i - Len(r)]
  BY ConcatProperties
<1>3. 1 \in 1..Len(S) /\ H \in 1..Len(S)
  <2> HIDE DEF H
  <2> QED BY <1>1, <1>2
<1>4. m \in 1..Messages
  <2>1. S[1] \in Byte
    BY <1>3, ElementOfSeq
  <2>2. S[1][1] = m
    OBVIOUS
  <2> HIDE DEF m
  <2> QED BY <2>1, <2>2, ByteParts
<1> DEFINE b == BodySize[m]
<1>5. b \in Nat \ {0}
  <2> HIDE DEF m
  <2> QED BY <1>4, BodySizes
<1>6. \A i \in 1..H : S[i] = <<m, i>>
  <2>1. 1 + H - 1 <= H + b /\ 1 \in Nat
    <3> HIDE DEF H, b
    <3> QED BY <1>1, <1>5
  <2>2. \A i \in 1..H : S[i] = <<m, 1 + i - 1>>
    <3> HIDE DEF m
    <3> QED BY <1>3, <1>4, <2>1, WithinFrame DEF m
  <2>3. \A i \in 1..H : 1 + i - 1 = i
    <3> HIDE DEF H
    <3> QED BY <1>1
  <2> HIDE DEF m, H
  <2> QED BY <2>2, <2>3
<1>7. hd = Header(m)
  <2>1. /\ hd \in Seq(Byte) /\ Len(hd) = H /\ \A i \in 1..H : hd[i] = r[i]
    BY <1>1, Split
  <2>2. \A i \in 1..H : r[i] = S[i]
    <3> HIDE DEF H
    <3> QED BY <1>1, <1>2
  <2>3. /\ Header(m) \in Seq(Byte) /\ Len(Header(m)) = H
        /\ \A i \in 1..H : Header(m)[i] = <<m, i>>
    <3> HIDE DEF m
    <3> QED BY <1>4, FrameParts
  <2> HIDE DEF hd, m, H
  <2>4. \A i \in 1..Len(hd) : hd[i] = Header(m)[i]
    BY <2>1, <2>2, <2>3, <1>6
  <2> QED BY <2>1, <2>3, <2>4, SeqEqual
<1>8. \A l \in 1..Messages : hd = Header(l) => l = m
  <2> SUFFICES ASSUME NEW l \in 1..Messages, Header(l) = Header(m)
               PROVE  l = m
    BY <1>7
  <2> HIDE DEF m
  <2>1. 1 \in 1..HeaderSize
    <3> HIDE DEF H
    <3> QED BY <1>1 DEF H
  <2>2. Header(l)[1] = <<l, 1>> /\ Header(m)[1] = <<m, 1>>
    BY <1>4, <2>1, FrameParts
  <2> QED BY <2>2
<1>9. s = b
  <2>1. \E l \in 1..Messages : hd = Header(l)
    <3> HIDE DEF hd, m
    <3> QED BY <1>4, <1>7
  <2>2. s \in {BodySize[l] : l \in {j \in 1..Messages : hd = Header(j)}}
    BY <2>1 DEF SizesOf
  <2> HIDE DEF hd, m
  <2> QED BY <2>2, <1>8 DEF b
<1>10. ASSUME Len(S) > H
       PROVE  S[H + 1] = <<m, H + 1>>
  <2>1. H + 1 \in 1..Len(S) /\ 1 + (H + 1) - 1 <= H + b /\ H + 1 \in 1..(H + 1)
        /\ 1 + (H + 1) - 1 = H + 1 /\ 1 \in Nat
    <3> HIDE DEF H, b
    <3> QED BY <1>1, <1>3, <1>5, <1>10
  <2>2. \A i \in 1..(H + 1) : S[i] = <<m, 1 + i - 1>>
    <3> HIDE DEF m
    <3> QED BY <1>4, <2>1, WithinFrame DEF m
  <2> HIDE DEF m, H
  <2> QED BY <2>1, <2>2
<1> QED
  <2> HIDE DEF m
  <2>1. /\ m \in 1..Messages
        /\ s = BodySize[m]
        /\ Len(S) > HeaderSize => S[HeaderSize + 1] = <<m, HeaderSize + 1>>
    BY <1>4, <1>9, <1>10
  <2> QED BY <2>1 DEF m

(* A body that begins where one begins and has its size is that body, and  *)
(* a frame begins behind it.                                               *)
LEMMA BodyRead ==
  ASSUME NEW P \in Seq(Byte), Chained(P), NEW m \in 1..Messages,
         P[1] = <<m, HeaderSize + 1>>, NEW body \in Seq(Byte), NEW Y \in Seq(Byte),
         P = body \o Y, Len(body) = BodySize[m]
  PROVE  body = Body(m) /\ (Y # <<>> => Y[1] = <<m + 1, 1>>)
<1> DEFINE H == HeaderSize
           b == BodySize[m]
<1>1. H \in Nat \ {0} /\ b \in Nat \ {0} /\ Len(Y) \in Nat /\ Len(body) = b
  BY BodySizes, FramingAssumption, LenProperties
<1>2. /\ Len(P) = b + Len(Y)
      /\ \A i \in 1..(b + Len(Y)) : P[i] = IF i <= b THEN body[i] ELSE Y[i - b]
  <2>1. /\ Len(P) = Len(body) + Len(Y)
        /\ \A i \in 1..(Len(body) + Len(Y)) : P[i] = IF i <= Len(body) THEN body[i] ELSE Y[i - Len(body)]
    BY ConcatProperties
  <2> HIDE DEF b
  <2> QED BY <2>1, <1>1
<1>3. \A i \in 1..b : P[i] = <<m, H + i>>
  <2>1. b \in 1..Len(P) /\ H + 1 + b - 1 <= H + b /\ H + 1 \in Nat
    <3> HIDE DEF H, b
    <3> QED BY <1>1, <1>2
  <2>2. \A i \in 1..b : P[i] = <<m, H + 1 + i - 1>>
    BY <2>1, WithinFrame
  <2>3. \A i \in 1..b : H + 1 + i - 1 = H + i
    <3> HIDE DEF H, b
    <3> QED BY <1>1
  <2> HIDE DEF H, b
  <2> QED BY <2>2, <2>3
<1>4. body = Body(m)
  <2>1. /\ Body(m) \in Seq(Byte) /\ Len(Body(m)) = b
        /\ \A i \in 1..b : Body(m)[i] = <<m, H + i>>
    BY FrameParts
  <2> HIDE DEF H, b
  <2>3. \A i \in 1..b : P[i] = body[i]
    BY <1>1, <1>2
  <2>2. \A i \in 1..Len(body) : body[i] = Body(m)[i]
    BY <1>1, <1>3, <2>1, <2>3
  <2> QED BY <1>1, <2>1, <2>2, SeqEqual
<1>5. ASSUME Y # <<>>
      PROVE  Y[1] = <<m + 1, 1>>
  <2>1. Len(Y) \in Nat \ {0}
    BY <1>5, EmptySeq
  <2> HIDE DEF H, b
  <2>2. b \in 1..(Len(P) - 1) /\ P[b + 1] = Y[1]
    BY <2>1, <1>1, <1>2
  <2>3. P[b + 1] = After(P[b])
    BY <2>2, Zenon DEF Chained
  <2>4. P[b] = <<m, H + b>>
    BY <1>1, <1>3
  <2>5. ~(H + b < H + b)
    BY <1>1
  <2>6. After(<<m, H + b>>) = <<m + 1, 1>>
    BY <2>5 DEF After, H, b
  <2> QED BY <2>2, <2>3, <2>4, <2>6
<1> QED BY <1>4, <1>5

(* Whatever is behind a body, and behind what follows it, belongs to later *)
(* messages.                                                               *)
LEMMA BehindBody ==
  ASSUME NEW P \in Seq(Byte), Sorted(P), NEW m \in 1..Messages,
         NEW body \in Seq(Byte), BeginWith(body, Body(m)),
         NEW Y \in Seq(Byte), P = body \o Y
  PROVE  \A j \in 1..Len(Y) : m < Y[j][1]
<1> DEFINE H == HeaderSize
           b == BodySize[m]
           c == Len(body)
<1>1. H \in Nat \ {0} /\ b \in Nat \ {0} /\ Len(Y) \in Nat /\ c \in Nat
  BY BodySizes, FramingAssumption, LenProperties
<1>2. c >= b /\ \A i \in 1..b : body[i] = <<m, H + i>>
  <2>1. Len(Body(m)) = b /\ \A i \in 1..b : Body(m)[i] = <<m, H + i>>
    BY FrameParts
  <2>2. Len(Body(m)) <= c /\ \A i \in 1..Len(Body(m)) : body[i] = Body(m)[i]
    BY Zenon DEF BeginWith
  <2> HIDE DEF H, b, c
  <2> QED BY <1>1, <2>1, <2>2
<1> SUFFICES ASSUME NEW j \in 1..Len(Y)
             PROVE  m < Y[j][1]
  OBVIOUS
<1>3. /\ Len(P) = c + Len(Y)
      /\ \A i \in 1..(c + Len(Y)) : P[i] = IF i <= c THEN body[i] ELSE Y[i - c]
  BY ConcatProperties
<1> HIDE DEF H, b, c
<1>4. P[b] = <<m, H + b>> /\ P[c + j] = Y[j]
      /\ b \in 1..Len(P) /\ c + j \in 1..Len(P) /\ b < c + j
  <2>1. /\ b \in 1..Len(P) /\ c + j \in 1..Len(P) /\ b < c + j /\ ~(c + j <= c)
        /\ c + j - c = j /\ b \in 1..b /\ b <= c
        /\ b \in 1..(c + Len(Y)) /\ c + j \in 1..(c + Len(Y))
    BY <1>1, <1>2, <1>3
  <2>2. P[b] = IF b <= c THEN body[b] ELSE Y[b - c]
    BY <1>3, <2>1, Zenon
  <2>3. \A z \in 1..(c + Len(Y)) : ~(z <= c) => P[z] = Y[z - c]
    BY <1>3, Zenon
  <2>4. P[b] = <<m, H + b>>
    BY <1>2, <2>1, <2>2
  <2> DEFINE z == c + j
  <2>5. z \in 1..(c + Len(Y)) /\ ~(z <= c) /\ z - c = j
    BY <1>1, <2>1
  <2> HIDE DEF z
  <2>6. P[z] = Y[j]
    BY <2>3, <2>5
  <2> QED BY <2>1, <2>4, <2>6 DEF z
<1>5. Before(P[b], P[c + j])
  BY <1>4, Zenon DEF Sorted
<1>6. Y[j] \in Byte
  BY ElementOfSeq
<1>7. Y[j][1] \in Nat /\ Y[j][2] \in 1..(H + BodySize[Y[j][1]])
  BY <1>6, ByteParts DEF H
<1>8. m < Y[j][1] \/ (m = Y[j][1] /\ H + b < Y[j][2])
  BY <1>4, <1>5 DEF Before
<1>9. ~(m = Y[j][1] /\ H + b < Y[j][2])
  <2> SUFFICES ASSUME m = Y[j][1], H + b < Y[j][2]
               PROVE  FALSE
    OBVIOUS
  <2>1. Y[j][2] \in 1..(H + b)
    BY <1>7 DEF b
  <2> QED BY <2>1, <1>1
<1> QED BY <1>8, <1>9

LEMMA UseKeeps ==
  ASSUME FramingIInv, NEW s \in Sizes, Use(s)
  PROVE  FramingIInv'
<1>0. FramingTypes /\ EndOfFrame /\ FramesOrdered /\ UsedUp /\ Aligned
  BY DEF FramingIInv
<1> DEFINE h == IF buf = <<>> THEN HeaderSize ELSE 0
           bytes == Drop(read_buf, h)
           n == Remaining(s, bytes)
           body == buf \o SubSeq(bytes, 1, n)
           left == Drop(bytes, n)
           X == socket \o rest
           Y == left \o X
           P == Drop(Stream, h)
           Meant == Complete(body) # {}
<1>1. /\ rest \in Seq(Byte) /\ socket \in Seq(Byte) /\ read_buf \in Seq(Byte)
      /\ buf \in Seq(Byte) /\ Stream \in Seq(Byte) /\ X \in Seq(Byte)
      /\ Len(read_buf) \in Nat /\ Len(buf) \in Nat /\ Len(X) \in Nat
      /\ HeaderSize \in Nat \ {0} /\ ReadSize \in Nat /\ Messages \in Nat
      /\ received \in Seq(Forged..Messages) /\ Len(read_buf) <= ReadSize /\ cut \in BOOLEAN
      /\ next \in Nat
  <2>1. received \in Seq(Forged..Messages) /\ Len(read_buf) <= ReadSize /\ cut \in BOOLEAN
    BY <1>0, Zenon DEF FramingTypes
  <2>2. X \in Seq(Byte)
    BY <1>0, FramingFacts, ConcatProperties
  <2> HIDE DEF X
  <2>3. Len(X) \in Nat
    BY <2>2, LenProperties
  <2> QED BY <1>0, <2>1, <2>2, <2>3, FramingFacts
<1>2. /\ stream_reader = "use"
      /\ IF buf = <<>> THEN /\ Len(read_buf) >= HeaderSize
                            /\ s \in SizesOf(SubSeq(read_buf, 1, HeaderSize))
         ELSE s = size
      /\ next' = next /\ rest' = rest /\ socket' = socket /\ failures' = failures
  BY DEF Use
<1>3. h \in 0..Len(read_buf) /\ h \in Nat
  BY <1>1, <1>2
<1>4. /\ bytes \in Seq(Byte) /\ Len(bytes) = Len(read_buf) - h
  <2> HIDE DEF h
  <2> QED BY <1>1, <1>3, Split
<1>5. bytes = IF buf = <<>> THEN SubSeq(read_buf, HeaderSize + 1, Len(read_buf)) ELSE read_buf
  <2>1. CASE buf = <<>>
    BY <2>1 DEF Drop
  <2>2. CASE buf # <<>>
    <3>1. bytes = SubSeq(read_buf, 1, Len(read_buf))
      BY <2>2 DEF Drop
    <3> QED BY <2>2, <3>1, <1>1, SubSeqFull
  <2> QED BY <2>1, <2>2
<1>6. /\ read_buf' = left
      /\ cut' = (cut \/ body = <<>>)
      /\ IF Handed(s, body)
           THEN /\ buf' = <<>> /\ size' = 0
                /\ \/ /\ \E m \in Decoded(body) : received' = Append(received, m)
                      /\ stream_reader' = IF left = <<>> THEN "read" ELSE "use"
                   \/ /\ ~Meant
                      /\ stream_reader' = "failed" /\ received' = received
           ELSE /\ buf' = body /\ size' = s
                /\ stream_reader' = IF left = <<>> THEN "read" ELSE "use"
                /\ received' = received
  <2> DEFINE bs == IF buf = <<>> THEN SubSeq(read_buf, HeaderSize + 1, Len(read_buf)) ELSE read_buf
             nn == Remaining(s, bs)
             bd == buf \o SubSeq(bs, 1, nn)
             lf == SubSeq(bs, nn + 1, Len(bs))
  <2>1. /\ read_buf' = lf
        /\ cut' = (cut \/ bd = <<>>)
        /\ IF Handed(s, bd)
             THEN /\ buf' = <<>> /\ size' = 0
                  /\ \/ /\ \E m \in Decoded(bd) : received' = Append(received, m)
                        /\ stream_reader' = IF lf = <<>> THEN "read" ELSE "use"
                     \/ /\ Complete(bd) = {}
                        /\ stream_reader' = "failed" /\ received' = received
             ELSE /\ buf' = bd /\ size' = s
                  /\ stream_reader' = IF lf = <<>> THEN "read" ELSE "use"
                  /\ received' = received
    BY DEF Use
  <2>2. bs = bytes
    BY <1>5
  <2>3. nn = n /\ bd = body /\ lf = left
    <3> HIDE DEF bs, bytes
    <3> QED BY <2>2 DEF Drop
  <2> HIDE DEF bs, nn, bd, lf, bytes, n, body, left
  <2> QED BY <2>1, <2>3 DEF Meant
<1>7. s \in Nat /\ (buf # <<>> => s = size /\ Len(buf) < s) /\ (buf = <<>> => Len(buf) = 0)
  <2>1. s \in Nat
    BY <1>1, BodySizes DEF Sizes
  <2>2. buf # <<>> => Len(buf) < size
    BY <1>0, Zenon DEF FramingTypes
  <2> QED BY <1>1, <1>2, <2>1, <2>2
<1>8. n \in 0..Len(bytes) /\ n <= s - Len(buf) /\ n \in Nat
  <2> HIDE DEF bytes
  <2>1. Len(bytes) \in Nat
    BY <1>4, LenProperties
  <2>2. s - Len(buf) \in Nat
    BY <1>1, <1>7
  <2> QED BY <2>1, <2>2 DEF Remaining
<1> DEFINE pre == SubSeq(bytes, 1, n)
<1>9. /\ pre \in Seq(Byte) /\ Len(pre) = n /\ left \in Seq(Byte)
      /\ Len(left) = Len(bytes) - n /\ bytes = pre \o left
  <2> HIDE DEF bytes, n
  <2> QED BY <1>4, <1>8, Split
<1>10. Stream = buf \o (read_buf \o X)
  BY DEF Stream
<1>11. body = buf \o pre
  OBVIOUS
<1> HIDE DEF h, bytes, n, body, left, X, P, Meant, pre
<1>12. /\ body \in Seq(Byte) /\ Len(body) = Len(buf) + n /\ Len(body) <= s
       /\ Len(body) \in Nat
       /\ Y \in Seq(Byte) /\ Len(left) <= ReadSize
  <2>1. body \in Seq(Byte) /\ Len(body) = Len(buf) + n
    BY <1>1, <1>9, <1>11, ConcatProperties
  <2>2. Y \in Seq(Byte)
    BY <1>1, <1>9, ConcatProperties
  <2>3. Len(bytes) \in Nat
    BY <1>4, LenProperties
  <2> QED BY <2>1, <2>2, <2>3, <1>1, <1>3, <1>4, <1>7, <1>8, <1>9
<1> HIDE DEF Y
<1>13. /\ h \in 0..Len(Stream)
       /\ P \in Seq(Byte) /\ P = buf \o (bytes \o X)
  <2>1. CASE buf = <<>>
    <3>1. Stream = read_buf \o X
      <4>1. read_buf \o X \in Seq(Byte)
        BY <1>1, ConcatProperties
      <4> QED BY <2>1, <4>1, <1>10, ConcatEmptySeq
    <3>2. P = bytes \o X
      BY <3>1, <1>1, <1>3, DropOfConcat DEF P, bytes
    <3>3. bytes \o X \in Seq(Byte)
      BY <1>1, <1>4, ConcatProperties
    <3>4. Len(Stream) = Len(read_buf) + Len(X)
      BY <3>1, <1>1, ConcatProperties
    <3>5. h \in 0..Len(Stream)
      BY <3>4, <1>1, <1>3
    <3> QED BY <2>1, <3>2, <3>3, <3>5, ConcatEmptySeq
  <2>2. CASE buf # <<>>
    <3>1. h = 0
      BY <2>2 DEF h
    <3>2. P = Stream
      <4>1. P = SubSeq(Stream, 1, Len(Stream))
        BY <3>1 DEF P, Drop
      <4> QED BY <4>1, <1>1, SubSeqFull
    <3>3. bytes = read_buf
      BY <2>2, <1>5
    <3>4. 0 \in 0..Len(Stream)
      BY <1>1, LenProperties
    <3> QED BY <3>1, <3>2, <3>3, <3>4, <1>1, <1>10
  <2> QED BY <2>1, <2>2
<1>14. P = body \o Y
  <2>0. X \in Seq(Byte) /\ Y \in Seq(Byte) /\ pre \in Seq(Byte)
        /\ left \in Seq(Byte) /\ buf \in Seq(Byte)
    BY <1>1, <1>9, <1>12
  <2>1. bytes \o X = pre \o (left \o X)
    <3>1. (pre \o left) \o X = pre \o (left \o X)
      <4>1. Associates(pre, left, X)
        BY <2>0, Associative, Zenon
      <4> QED BY <4>1 DEF Associates
    <3> QED BY <3>1, <1>9
  <2>2. (buf \o pre) \o Y = buf \o (pre \o Y)
    <3>1. Associates(buf, pre, Y)
      BY <2>0, Associative, Zenon
    <3> QED BY <3>1 DEF Associates
  <2> QED BY <2>1, <2>2, <1>11, <1>13 DEF Y
<1>15. Y = Drop(P, Len(body)) /\ Len(body) \in 0..Len(P)
  <2>1. Y = Drop(P, Len(body))
    BY <1>12, <1>14, DropPrefix
  <2>2. Len(P) = Len(body) + Len(Y)
    BY <1>12, <1>14, ConcatProperties
  <2>3. Len(Y) \in Nat
    BY <1>12, LenProperties
  <2> QED BY <2>1, <2>2, <2>3, <1>12
<1>16. InTime(P) /\ InTime(Y)
  <2>1. InTime(Stream)
    BY <1>0, Zenon DEF InTime, FramesOrdered
  <2>2. InTime(P)
    BY <2>1, <1>1, <1>13, InTimeDrop DEF P
  <2> QED BY <2>2, <1>13, <1>15, InTimeDrop
<1>17. Stream' = IF Handed(s, body) THEN Y ELSE P
  <2>1. Stream' = buf' \o (left \o X)
    BY <1>2, <1>6 DEF Stream, X
  <2>2. CASE Handed(s, body)
    BY <2>1, <2>2, <1>6, <1>12, ConcatEmptySeq DEF Y
  <2>3. CASE ~Handed(s, body)
    BY <2>1, <2>3, <1>6, <1>14 DEF Y
  <2> QED BY <2>2, <2>3
<1>18. \A m \in Complete(body) : m \in 1..Messages /\ BeginWith(body, Body(m))
  BY DEF Complete
<1>19. /\ \A i \in 1..Len(received) : received[i] \in Nat /\ received[i] <= next
       /\ \A i, j \in 1..Len(received) :
            i < j /\ received[j] # Forged => received[i] < received[j]
       /\ Len(received) \in Nat
  <2>1. \A i \in 1..Len(received) : received[i] \in Forged..Messages
    BY <1>1, ElementOfSeq
  <2>2. \A i \in 1..Len(received) : received[i] <= next
    BY <1>0, Zenon DEF FramesOrdered
  <2>3. \A i, j \in 1..Len(received) :
          i < j /\ received[j] # Forged => received[i] < received[j]
    BY <1>0, Zenon DEF FramesOrdered
  <2>4. Len(received) \in Nat
    BY <1>1, LenProperties
  <2> QED BY <1>1, <2>1, <2>2, <2>3, <2>4 DEF Forged
(* What happens to the message that is handed on.                          *)
<1>20. ASSUME NEW mm \in Decoded(body), received' = Append(received, mm)
       PROVE  /\ mm \in Forged..Messages
              /\ received' \in Seq(Forged..Messages)
              /\ Len(received') = Len(received) + 1
              /\ \A i \in 1..Len(received) : received'[i] = received[i]
              /\ received'[Len(received) + 1] = mm
              /\ mm # Forged => \A i \in 1..Len(received) : received[i] < mm
              /\ mm <= next
              /\ \A j \in 1..Len(Y) : mm < Y[j][1]
  <2>1. mm \in Complete(body) \/ mm = Forged
    BY DEF Decoded
  <2>2. mm \in Forged..Messages
    BY <2>1, <1>1, <1>18 DEF Forged
  <2>3. /\ received' \in Seq(Forged..Messages)
        /\ Len(received') = Len(received) + 1
        /\ \A i \in 1..Len(received) : received'[i] = received[i]
        /\ received'[Len(received) + 1] = mm
    BY <2>2, <1>1, <1>20, AppendProperties
  <2>4. ASSUME mm = Forged
        PROVE  mm <= next /\ \A j \in 1..Len(Y) : mm < Y[j][1]
    <3>1. \A j \in 1..Len(Y) : Y[j] \in Byte
      BY <1>12, ElementOfSeq
    <3>2. \A j \in 1..Len(Y) : Y[j][1] \in 1..Messages
      BY <3>1, ByteParts, Zenon
    <3> QED BY <2>4, <3>2, <1>1 DEF Forged
  <2>5. ASSUME mm # Forged
        PROVE  /\ mm <= next /\ \A i \in 1..Len(received) : received[i] < mm
               /\ \A j \in 1..Len(Y) : mm < Y[j][1]
    <3>1. mm \in 1..Messages /\ BeginWith(body, Body(mm))
      BY <2>1, <2>5, <1>18
    <3>2. Len(body) \in Nat \ {0} /\ body[1] = <<mm, HeaderSize + 1>>
      <4>1. BodySize[mm] \in Nat \ {0} /\ 1 \in 1..BodySize[mm]
        BY <3>1, BodySizes
      <4>2. Len(Body(mm)) = BodySize[mm] /\ Body(mm)[1] = <<mm, HeaderSize + 1>>
        BY <3>1, <4>1, FrameParts
      <4> QED BY <3>1, <4>1, <4>2, <1>12 DEF BeginWith
    <3>3. 1 \in 1..Len(P) /\ P[1] = body[1]
      <4>1. /\ Len(P) = Len(body) + Len(Y)
            /\ \A i \in 1..(Len(body) + Len(Y)) : P[i] = IF i <= Len(body) THEN body[i] ELSE Y[i - Len(body)]
        BY <1>12, <1>14, ConcatProperties
      <4>2. Len(Y) \in Nat
        BY <1>12, LenProperties
      <4> QED BY <3>2, <4>1, <4>2
    <3>4. P[1][1] = mm
      BY <3>2, <3>3
    <3>5. mm <= next /\ \A i \in 1..Len(received) : received[i] < mm
      BY <3>3, <3>4, <1>16, Zenon DEF InTime
    <3>6. \A j \in 1..Len(Y) : mm < Y[j][1]
      BY <3>1, <1>12, <1>13, <1>14, <1>16, BehindBody, Zenon DEF InTime
    <3> QED BY <3>5, <3>6
  <2> QED BY <2>2, <2>3, <2>4, <2>5
<1> DEFINE Delivers == Handed(s, body) /\ \E m \in Decoded(body) : received' = Append(received, m)
<1>21. FramesOrdered'
  <2>1. CASE Delivers
    <3>0. PICK mm \in Decoded(body) : received' = Append(received, mm)
      BY <2>1
    <3>1. Stream' = Y /\ Sorted(Y) /\ \A j \in 1..Len(Y) : Y[j][1] <= next
      BY <2>1, <1>16, <1>17, Zenon DEF InTime
    <3>2. \A i \in 1..Len(received) + 1 : i = Len(received) + 1 \/ i \in 1..Len(received)
      BY <1>19
    <3>3. \A i \in 1..Len(received'), j \in 1..Len(Y) : received'[i] < Y[j][1]
      BY <3>0, <3>2, <1>16, <1>20, Zenon DEF InTime
    <3>4. \A i \in 1..Len(received') : received'[i] <= next
      BY <3>0, <3>2, <1>19, <1>20, Zenon
    <3>5. \A i, j \in 1..Len(received') :
            i < j /\ received'[j] # Forged => received'[i] < received'[j]
      <4> SUFFICES ASSUME NEW i \in 1..Len(received'), NEW j \in 1..Len(received'), i < j,
                          received'[j] # Forged
                   PROVE  received'[i] < received'[j]
        OBVIOUS
      <4>0. Len(received') = Len(received) + 1
        BY <3>0, <1>20
      <4>1. i \in 1..Len(received)
        BY <4>0, <1>19
      <4>2. CASE j \in 1..Len(received)
        BY <4>1, <4>2, <3>0, <1>19, <1>20, Zenon
      <4>3. CASE j = Len(received) + 1
        BY <4>1, <4>3, <3>0, <1>20, Zenon
      <4>4. j = Len(received) + 1 \/ j \in 1..Len(received)
        BY <4>0, <3>2, Zenon
      <4> QED BY <4>2, <4>3, <4>4
    <3> QED BY <3>1, <3>3, <3>4, <3>5, <1>2, Zenon DEF FramesOrdered
  <2>2. CASE ~Delivers
    <3>1. received' = received
      BY <2>2, <1>6
    <3>2. InTime(Stream')
      BY <1>16, <1>17
    <3>3. /\ \A i, j \in 1..Len(received) :
               i < j /\ received[j] # Forged => received[i] < received[j]
          /\ \A i \in 1..Len(received) : received[i] <= next
      BY <1>19
    <3> QED BY <3>1, <3>2, <3>3, <1>2, Zenon DEF FramesOrdered, InTime
  <2> QED BY <2>1, <2>2
<1>22. Aligned'
  <2> DEFINE k == Len(received)
             m == k + 1
  <2> SUFFICES ASSUME failures' = 0, ~cut'
               PROVE  /\ stream_reader' \in {"read", "use"}
                      /\ \A i \in 1..Len(received') : received'[i] = i
                      /\ Chained(Stream')
                      /\ buf' = <<>> /\ Stream' # <<>> => Stream'[1] = <<Len(received') + 1, 1>>
                      /\ buf' # <<>> => /\ buf'[1] = <<Len(received') + 1, HeaderSize + 1>>
                                        /\ size' = BodySize[Len(received') + 1]
    BY Zenon DEF Aligned
  <2>1. failures = 0 /\ ~cut /\ body # <<>>
    BY <1>2, <1>6, <1>1
  <2>2. /\ \A i \in 1..k : received[i] = i
        /\ Chained(Stream)
        /\ buf = <<>> /\ Stream # <<>> => Stream[1] = <<m, 1>>
        /\ buf # <<>> => buf[1] = <<m, HeaderSize + 1>> /\ size = BodySize[m]
    BY <2>1, <1>0, Zenon DEF Aligned
  <2>3. Chained(P)
    BY <2>2, <1>1, <1>13, ChainedDrop DEF P
  <2>4. Len(body) \in Nat \ {0} /\ 1 \in 1..Len(P) /\ P[1] = body[1]
    <3>1. /\ Len(P) = Len(body) + Len(Y)
          /\ \A i \in 1..(Len(body) + Len(Y)) : P[i] = IF i <= Len(body) THEN body[i] ELSE Y[i - Len(body)]
      BY <1>12, <1>14, ConcatProperties
    <3>2. Len(Y) \in Nat /\ Len(body) \in Nat \ {0}
      BY <2>1, <1>12, LenProperties, EmptySeq
    <3> QED BY <3>1, <3>2
  <2>5. m \in 1..Messages /\ P[1] = <<m, HeaderSize + 1>> /\ s = BodySize[m]
    <3>1. CASE buf = <<>>
      <4>1. Stream = read_buf \o X
        <5>1. read_buf \o X \in Seq(Byte)
          BY <1>1, ConcatProperties
        <5> QED BY <3>1, <5>1, <1>10, ConcatEmptySeq
      <4>2. Len(read_buf) >= HeaderSize /\ s \in SizesOf(SubSeq(read_buf, 1, HeaderSize)) /\ h = HeaderSize
        BY <3>1, <1>2 DEF h
      <4>3. Len(Stream) = Len(read_buf) + Len(X)
        BY <4>1, <1>1, ConcatProperties
      <4>4. Stream # <<>>
        BY <4>2, <4>3, <1>1
      <4>5. Stream[1] = <<m, 1>>
        BY <3>1, <4>4, <2>2
      <4>6. /\ m \in 1..Messages /\ s = BodySize[m]
            /\ Len(Stream) > HeaderSize => Stream[HeaderSize + 1] = <<m, HeaderSize + 1>>
        <5>1. /\ k \in Nat /\ Stream \in Seq(Byte) /\ Chained(Stream)
              /\ read_buf \in Seq(Byte) /\ X \in Seq(Byte)
          BY <2>2, <1>1, <1>19
        <5> HIDE DEF k
        <5> QED BY <5>1, <4>1, <4>2, <4>5, HeaderRead, ZenonT(30) DEF m
      <4>7. Len(P) = Len(Stream) - HeaderSize /\ \A i \in 1..(Len(Stream) - HeaderSize) : P[i] = Stream[HeaderSize + i]
        BY <4>2, <1>1, <1>13, Split DEF P
      <4>8. Len(Stream) > HeaderSize /\ 1 \in 1..(Len(Stream) - HeaderSize)
        BY <4>3, <4>7, <2>4, <1>1
      <4> QED BY <4>6, <4>7, <4>8
    <3>2. CASE buf # <<>>
      <4>1. Len(buf) \in Nat \ {0} /\ Len(pre) \in Nat
        BY <3>2, <1>1, <1>9, EmptySeq, LenProperties
      <4>2. body[1] = buf[1]
        <5>1. \A i \in 1..(Len(buf) + Len(pre)) : body[i] = IF i <= Len(buf) THEN buf[i] ELSE pre[i - Len(buf)]
          BY <1>1, <1>9, <1>11, ConcatProperties
        <5> QED BY <5>1, <4>1
      <4>3. P[1] = <<m, HeaderSize + 1>> /\ s = BodySize[m]
        BY <3>2, <4>2, <2>2, <2>4, <1>7
      <4>4. P[1] \in Byte
        BY <2>4, <1>13, ElementOfSeq
      <4>5. m \in 1..Messages
        <5>1. P[1][1] = m
          BY <4>3
        <5> HIDE DEF m
        <5> QED BY <4>4, <5>1, ByteParts
      <4> QED BY <4>3, <4>5
    <3> QED BY <3>1, <3>2
  <2> HIDE DEF m
  <2>6. CASE Handed(s, body)
    <3>1. Len(body) = BodySize[m]
      BY <2>5, <2>6 DEF Handed
    <3>2. body = Body(m) /\ (Y # <<>> => Y[1] = <<m + 1, 1>>)
      BY <3>1, <2>3, <2>5, <1>12, <1>13, <1>14, BodyRead
    <3>3. Complete(body) = {m}
      <4>1. \A l \in Complete(body) : l = m
        <5> SUFFICES ASSUME NEW l \in Complete(body)
                     PROVE  l = m
          OBVIOUS
        <5>1. l \in 1..Messages /\ BeginWith(Body(m), Body(l))
          BY <3>2, <1>18
        <5>2. 1 \in 1..BodySize[l] /\ 1 \in 1..BodySize[m]
          BY <5>1, <2>5, BodySizes
        <5>3. /\ Body(l)[1] = <<l, HeaderSize + 1>> /\ Body(m)[1] = <<m, HeaderSize + 1>>
              /\ Len(Body(l)) = BodySize[l]
          BY <5>1, <5>2, <2>5, FrameParts
        <5> QED BY <5>1, <5>2, <5>3 DEF BeginWith
      <4>2. BeginWith(body, Body(m))
        BY <3>2, <1>12 DEF BeginWith
      <4> QED BY <4>1, <4>2, <2>5 DEF Complete
    <3>4. received' = Append(received, m) /\ m \in Decoded(body)
          /\ stream_reader' \in {"read", "use"}
      <4>1. Decoded(body) = {m} /\ Meant
        BY <3>3 DEF Decoded, Meant
      <4> QED BY <2>6, <4>1, <1>6
    <3>5. Len(received') = m
      BY <3>4, <1>20 DEF m
    <3>6. \A i \in 1..Len(received') : received'[i] = i
      <4>1. \A i \in 1..m : i = m \/ i \in 1..k
        BY <1>19 DEF m
      <4>2. received'[m] = m /\ \A i \in 1..k : received'[i] = received[i]
        BY <3>4, <1>20 DEF m
      <4> QED BY <4>1, <4>2, <3>5, <2>2, Zenon
    <3>7. Stream' = Y /\ Chained(Y)
      BY <2>6, <2>3, <1>13, <1>15, <1>17, ChainedDrop
    <3>8. stream_reader' \in {"read", "use"} /\ buf' = <<>>
      BY <2>6, <3>4, <1>6
    <3> QED BY <3>2, <3>5, <3>6, <3>7, <3>8
  <2>7. CASE ~Handed(s, body)
    <3>1. /\ buf' = body /\ size' = s /\ received' = received /\ Stream' = P
          /\ stream_reader' \in {"read", "use"}
      BY <2>7, <1>6, <1>17
    <3> QED BY <3>1, <2>1, <2>2, <2>3, <2>4, <2>5 DEF m
  <2> QED BY <2>6, <2>7
<1>23. UsedUp'
  BY <1>6, <1>2 DEF UsedUp
<1>24. EndOfFrame'
  BY <1>0, <1>2, Zenon DEF EndOfFrame
<1>25. FramingTypes'
  <2>1. buf' \in Seq(Byte) /\ size' \in Sizes /\ (buf' # <<>> => Len(buf') < size')
    <3>1. CASE Handed(s, body)
      <4>1. buf' = <<>> /\ size' = 0 /\ 0 \in Sizes
        BY <3>1, <1>6, <1>1 DEF Sizes
      <4> QED BY <4>1, EmptySeq
    <3>2. CASE ~Handed(s, body)
      <4>1. buf' = body /\ size' = s
        BY <3>2, <1>6
      <4>2. Len(body) # s
        BY <3>2 DEF Handed
      <4> QED BY <4>1, <4>2, <1>7, <1>12
    <3> QED BY <3>1, <3>2
  <2>2. received' \in Seq(Forged..Messages)
    <3>1. CASE Delivers
      BY <3>1, <1>20
    <3>2. CASE ~Delivers
      <4>1. received' = received
        BY <3>2, <1>6
      <4> QED BY <4>1, <1>1
    <3> QED BY <3>1, <3>2
  <2>3. stream_reader' \in {"read", "use", "failed", "panicked"} /\ cut' \in BOOLEAN
    BY <1>1, <1>6
  <2>4. read_buf' \in Seq(Byte) /\ Len(read_buf') <= ReadSize
    BY <1>6, <1>9, <1>12
  <2>5. next \in 1..(Messages + 1) /\ rest \in Seq(Byte) /\ socket \in Seq(Byte)
        /\ Len(socket) <= SocketSize /\ failures \in 0..MaxFailures
    BY <1>0, Zenon DEF FramingTypes
  <2>6. Sizes' = Sizes
    BY DEF Sizes
  <2> QED BY <2>1, <2>2, <2>3, <2>4, <2>5, <1>2, Zenon DEF FramingTypes, Sizes
<1> QED BY <1>21, <1>22, <1>23, <1>24, <1>25 DEF FramingIInv

-----------------------------------------------------------------------------
LEMMA FramingInvariance == FramingSpec => []FramingIInv
<1>1. FramingInit => FramingIInv
  BY FramingInitInvariant
<1>2. FramingIInv /\ [FramingNext]_framing => FramingIInv'
  <2> SUFFICES ASSUME FramingIInv, [FramingNext]_framing
               PROVE  FramingIInv'
    OBVIOUS
  <2>1. CASE \E n \in 1..SocketSize : Write(n)
    BY <2>1, WriteKeeps
  <2>2. CASE GiveUp
    BY <2>2, GiveUpKeeps
  <2>3. CASE Read
    BY <2>3, ReadKeeps
  <2>4. CASE CutHeader
    BY <2>4, CutHeaderKeeps
  <2>5. CASE \E s \in Sizes : Use(s)
    BY <2>5, UseKeeps
  <2>6. CASE UNCHANGED framing
    <3>1. FramingTypes' /\ EndOfFrame' /\ UsedUp'
      BY <2>6 DEF framing, FramingIInv, FramingTypes, EndOfFrame, UsedUp, Sizes
    <3>2. Stream' = Stream
      BY <2>6, Zenon DEF framing, Stream
    <3>3. FramesOrdered' /\ Aligned'
      BY <2>6, <3>2, SameStream DEF framing, FramingIInv
    <3> QED BY <3>1, <3>3 DEF FramingIInv
  <2> QED BY <2>1, <2>2, <2>3, <2>4, <2>5, <2>6 DEF FramingNext
<1> QED BY <1>1, <1>2, PTL DEF FramingSpec

(* Whatever is given up or read at the wrong place, those of the messages  *)
(* handed on that were sent come in their order and none twice (the reader *)
(* of ipc.rs puts frames together again); without that, every message      *)
(* handed on was sent, and none is missing between them.                   *)
THEOREM FramesAreInOrder == FramingSpec => []FrameInv
<1>1. FramingIInv => FrameInv
  <2> SUFFICES ASSUME FramingIInv
               PROVE  FrameInv
    OBVIOUS
  <2>1. FramingTypes /\ FramesOrdered /\ Aligned
    BY DEF FramingIInv
  <2>2. received \in Seq(Forged..Messages)
    BY <2>1, Zenon DEF FramingTypes
  <2>3. DOMAIN received = 1..Len(received)
    BY <2>2, LenProperties
  <2>4. ReceivedInOrder
    BY <2>1, <2>3, Zenon DEF ReceivedInOrder, FramesOrdered, Aligned
  <2> QED BY <2>1, <2>4 DEF FrameInv
<1> QED BY <1>1, FramingInvariance, PTL

(* StreamReader ends with an error, or panics, only because a frame was    *)
(* given up by send_to_stream, or a read ended within a size or right      *)
(* behind it, or was shorter than a size.                                  *)
THEOREM ReadersEndForAReason == FramingSpec => []FailuresExplained
<1>1. FramingIInv => FailuresExplained
  <2> SUFFICES ASSUME FramingIInv
               PROVE  FailuresExplained
    OBVIOUS
  <2>1. failures \in 0..MaxFailures
    BY Zenon DEF FramingIInv, FramingTypes
  <2>2. failures = 0 \/ failures > 0
    BY <2>1, FramingAssumption
  <2>3. failures = 0 /\ ~cut => stream_reader \in {"read", "use"}
    BY Zenon DEF FramingIInv, Aligned
  <2> QED BY <2>2, <2>3 DEF FailuresExplained
<1> QED BY <1>1, FramingInvariance, PTL

=============================================================================

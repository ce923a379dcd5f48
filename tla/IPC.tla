-------------------------------- MODULE IPC --------------------------------
(***************************************************************************)
(* The daemon and its local clients: requests, broadcast events, and the   *)
(* bounded queues between them (IPCServer, IPCClient, Daemon::run, the     *)
(* event loops of the clients).                                            *)
(*                                                                         *)
(*    client c --toDaemon[c]--> inbox --> daemon                           *)
(*    daemon --toClient[c]--> outbox[c] --> client c                       *)
(*                                                                         *)
(* A task of its own moves what is in a socket on to the queue behind it.  *)
(* The event loops of both sides wait for room in the socket when they     *)
(* write, and read nothing from their queue meanwhile.  Events are         *)
(* numbered as they are broadcast.  How they cross a socket is in Framing, *)
(* which also shows what becomes of a frame behind one that was given up   *)
(* half written: the task that reads it ends, and the socket stays open    *)
(* as long as the other half of it is kept.                                *)
(*                                                                         *)
(* Definitions whose comment begins with "Mutant" are wrong on purpose and *)
(* used by no specification.                                               *)
(***************************************************************************)
EXTENDS Naturals, Sequences

CONSTANTS
  Client,       \* the clients, a process with a fresh client_id each
  Inbox,        \* capacity of the queue of the daemon, four in the code
  Outbox,       \* capacity of the queue of a client, four in the code
  Wire,         \* frames a socket has room for, in each direction
  MaxRequests,  \* bound: MaxRequests[c], requests of c
  MaxEvents,    \* bound: events broadcast
  MaxDrops      \* bound: writes given up though the client lives

ASSUME IPCAssumption ==
  /\ Inbox \in Nat \ {0} /\ Outbox \in Nat \ {0} /\ Wire \in Nat \ {0}
  /\ MaxRequests \in [Client -> Nat] /\ MaxEvents \in Nat /\ MaxDrops \in Nat

VARIABLES
  client,      \* client[c]: see ClientState
  asked,       \* asked[c]: number of requests, bounded by MaxRequests[c],
               \*   while it lives
  toDaemon,    \* toDaemon[c]: the requests in the socket of c, Whole or Half
  inbox,       \* the requests of the daemon's queue, as their clients
  toClient,    \* toClient[c]: the events in the socket of c, likewise
  outbox,      \* outbox[c]: number of events in the queue of c
  reader,      \* reader[side][c]: the task that reads the socket of c
  id_map,      \* the clients the daemon writes to
  pending,     \* the clients the present broadcast has still to reach
  event,       \* number of events broadcast, bounded by MaxEvents
  drops,       \* number of writes given up, bounded by MaxDrops
  got,         \* history: got[c], the events written to c while it lives,
               \*   since a write to it failed
  answer       \* history: answer[c], the last event since then that answers
               \*   a request of c, or 0

queues == <<toDaemon, inbox, toClient, outbox, reader>>
history == <<got, answer>>
vars == <<client, asked, queues, id_map, pending, event, drops, history>>

(* "idle" in its select!, "asking" as it waits to write a request, "gone". *)
ClientState == {"idle", "asking", "gone"}

(* A reader: before a frame, within one that was given up, or ended.       *)
ReaderState == {"frame", "amid", "ended"}

(* A frame, and one given up half written.  What it says is not followed.  *)
Whole == 1
Half == 0

(* The daemon drops the socket of c when nothing of it is left: its reader,*)
(* its entry in id_map, its requests.                                      *)
Closed(c) ==
  /\ reader["daemon"][c] = "ended"
  /\ c \notin id_map
  /\ \A i \in DOMAIN inbox : inbox[i] # c

Init ==
  /\ client = [c \in Client |-> "idle"]
  /\ asked = [c \in Client |-> 0]
  /\ toDaemon = [c \in Client |-> <<>>]
  /\ inbox = <<>>
  /\ toClient = [c \in Client |-> <<>>]
  /\ outbox = [c \in Client |-> 0]
  /\ reader = [side \in {"daemon", "client"} |-> [c \in Client |-> "frame"]]
  /\ id_map = {}
  /\ pending = {}
  /\ event = 0
  /\ drops = 0
  /\ got = [c \in Client |-> <<>>]
  /\ answer = [c \in Client |-> 0]

-----------------------------------------------------------------------------
(* A client.                                                               *)

(* A key, or the start of the client, makes it send a request.             *)
Ask(c) ==
  /\ client[c] = "idle"
  /\ asked[c] < MaxRequests[c]
  /\ asked' = [asked EXCEPT ![c] = @ + 1]
  /\ client' = [client EXCEPT ![c] = "asking"]
  /\ UNCHANGED <<queues, id_map, pending, event, drops, history>>

(* IPCClient::send, once the socket is writable.  An error is logged: the  *)
(* request is lost, and a part of it may have been written.                *)
Send(c) ==
  /\ client[c] = "asking"
  /\ client' = [client EXCEPT ![c] = "idle"]
  /\ \/ /\ ~Closed(c)
        /\ Len(toDaemon[c]) < Wire
        /\ toDaemon' = [toDaemon EXCEPT ![c] = Append(@, Whole)]
        /\ UNCHANGED drops
     \/ /\ Closed(c)
        /\ UNCHANGED <<drops, toDaemon>>
     \/ /\ ~Closed(c)
        /\ drops < MaxDrops
        /\ drops' = drops + 1
        /\ \/ UNCHANGED toDaemon
           \/ /\ Len(toDaemon[c]) < Wire
              /\ toDaemon' = [toDaemon EXCEPT ![c] = Append(@, Half)]
  /\ UNCHANGED <<asked, inbox, toClient, outbox, reader, id_map, pending, event,
                 history>>

(* The reader at one side takes the first frame of a socket.  What comes   *)
(* behind a half one is read as a part of it, and does not decode, sooner  *)
(* or later: the reader ends, with the rest of it perhaps left unread.     *)
ReadFrame(side, c, socket) ==
  LET frame == Head(socket[c])
      state == reader[side][c]
  IN
  /\ socket[c] # <<>>
  /\ \/ /\ state = "frame"
        /\ reader' = IF frame = Half
                       THEN [reader EXCEPT ![side][c] = "amid"] ELSE reader
     \/ /\ state = "amid"
        /\ \E s \in {"amid", "ended"} : reader' = [reader EXCEPT ![side][c] = s]
  /\ \/ socket' = [socket EXCEPT ![c] = Tail(@)]
     \/ reader'[side][c] = "ended" /\ UNCHANGED socket

Decodes(side, c, socket) == reader[side][c] = "frame" /\ Head(socket[c]) # Half

(* The reader task of the client, which waits for room in its queue.       *)
Deliver(c) ==
  /\ client[c] # "gone"
  /\ ReadFrame("client", c, toClient)
  /\ IF Decodes("client", c, toClient)
       THEN outbox[c] < Outbox /\ outbox' = [outbox EXCEPT ![c] = @ + 1]
       ELSE UNCHANGED outbox
  /\ UNCHANGED <<client, asked, toDaemon, inbox, id_map, pending, event, drops,
                 history>>

(* IPCClient::recv in the select! of the client.                           *)
Recv(c) ==
  /\ client[c] = "idle"
  /\ outbox[c] > 0
  /\ outbox' = [outbox EXCEPT ![c] = @ - 1]
  /\ UNCHANGED <<client, asked, toDaemon, inbox, toClient, reader, id_map,
                 pending, event, drops, history>>

(* The process ends; what it has written can still be read.                *)
Quit(c) ==
  /\ client[c] # "gone"
  /\ client' = [client EXCEPT ![c] = "gone"]
  /\ asked' = [asked EXCEPT ![c] = 0]
  /\ toClient' = [toClient EXCEPT ![c] = <<>>]
  /\ outbox' = [outbox EXCEPT ![c] = 0]
  /\ reader' = [reader EXCEPT !["client"][c] = "ended"]
  /\ got' = [got EXCEPT ![c] = <<>>]
  /\ answer' = [answer EXCEPT ![c] = 0]
  /\ UNCHANGED <<toDaemon, inbox, id_map, pending, event, drops>>

-----------------------------------------------------------------------------
(* The daemon.                                                             *)

(* The reader task of the connection of c, likewise.                       *)
Accept(c) ==
  /\ ReadFrame("daemon", c, toDaemon)
  /\ IF Decodes("daemon", c, toDaemon)
       THEN Len(inbox) < Inbox /\ inbox' = Append(inbox, c)
       ELSE UNCHANGED inbox
  /\ UNCHANGED <<client, asked, toClient, outbox, id_map, pending, event, drops,
                 history>>

(* A broadcast begins: the event goes to the clients of ids.               *)
Broadcast(ids) ==
  /\ event < MaxEvents
  /\ event' = event + 1
  /\ pending' = ids

(* Mutant of Handle, breaks AskerIsAnswered: a new client is entered only  *)
(* when its request has been handled.                                      *)
HandleFirst(answered) ==
  LET c == Head(inbox) IN
  /\ pending = {}
  /\ inbox # <<>>
  /\ inbox' = Tail(inbox)
  /\ id_map' = id_map \cup {c}
  /\ IF answered
       THEN /\ Broadcast(id_map)
            /\ answer' = [answer EXCEPT ![c] = event + 1]
       ELSE UNCHANGED <<event, pending, answer>>
  /\ UNCHANGED <<client, asked, toDaemon, toClient, outbox, reader, drops, got>>

(* IPCServer::recv enters the client, then its request is handled: it is   *)
(* answered by an event or, like RegistRaw, by nothing.                    *)
Handle(answered) ==
  LET c == Head(inbox) IN
  /\ pending = {}
  /\ inbox # <<>>
  /\ inbox' = Tail(inbox)
  /\ id_map' = id_map \cup {c}
  /\ IF answered
       THEN /\ Broadcast(id_map')
            /\ answer' = [answer EXCEPT ![c] = event + 1]
       ELSE UNCHANGED <<event, pending, answer>>
  /\ UNCHANGED <<client, asked, toDaemon, toClient, outbox, reader, drops, got>>

(* Something happened on the network that clients are told of.             *)
NetworkEvent ==
  /\ pending = {}
  /\ Broadcast(id_map)
  /\ UNCHANGED <<client, asked, queues, id_map, drops, history>>

(* Mutant of Reach, breaks QueueInv: a socket without room is passed over. *)
ReachOrSkip(c) ==
  /\ c \in pending
  /\ client[c] # "gone"
  /\ toClient' = IF Len(toClient[c]) < Wire
                   THEN [toClient EXCEPT ![c] = Append(@, Whole)] ELSE toClient
  /\ got' = IF Len(toClient[c]) < Wire
              THEN [got EXCEPT ![c] = Append(@, event)] ELSE got
  /\ pending' = pending \ {c}
  /\ UNCHANGED <<client, asked, toDaemon, inbox, outbox, reader, id_map, event,
                 drops, answer>>

(* broadcast, for one client: it waits until the socket is writable.       *)
Reach(c) ==
  /\ c \in pending
  /\ client[c] # "gone"
  /\ Len(toClient[c]) < Wire
  /\ toClient' = [toClient EXCEPT ![c] = Append(@, Whole)]
  /\ got' = [got EXCEPT ![c] = Append(@, event)]
  /\ pending' = pending \ {c}
  /\ UNCHANGED <<client, asked, toDaemon, inbox, outbox, reader, id_map, event,
                 drops, answer>>

(* Mutant of Lose, breaks WaitsEnd: a client that is gone is waited for.   *)
LoseLiving(c) ==
  /\ c \in pending
  /\ client[c] # "gone" /\ drops < MaxDrops
  /\ drops' = drops + 1
  /\ pending' = pending \ {c}
  /\ id_map' = id_map \ {c}
  /\ got' = [got EXCEPT ![c] = <<>>]
  /\ answer' = [answer EXCEPT ![c] = 0]
  /\ UNCHANGED <<client, asked, queues, event>>

(* Writing fails, as the client is gone, or after ten attempts without     *)
(* success, perhaps with a part of the frame written: the client is taken  *)
(* out, until its next request.                                            *)
Lose(c) ==
  /\ c \in pending
  /\ \/ client[c] = "gone" /\ UNCHANGED <<drops, toClient>>
     \/ /\ client[c] # "gone" /\ drops < MaxDrops
        /\ drops' = drops + 1
        /\ \/ UNCHANGED toClient
           \/ /\ Len(toClient[c]) < Wire
              /\ toClient' = [toClient EXCEPT ![c] = Append(@, Half)]
  /\ pending' = pending \ {c}
  /\ id_map' = id_map \ {c}
  /\ got' = [got EXCEPT ![c] = <<>>]
  /\ answer' = [answer EXCEPT ![c] = 0]
  /\ UNCHANGED <<client, asked, toDaemon, inbox, outbox, reader, event>>

Next ==
  \/ \E c \in Client :
       \/ Ask(c) \/ Send(c) \/ Deliver(c) \/ Recv(c) \/ Quit(c)
       \/ Accept(c) \/ Reach(c) \/ Lose(c)
  \/ \E answered \in BOOLEAN : Handle(answered)
  \/ NetworkEvent

Spec == Init /\ [][Next]_vars

(* What the tasks of the daemon and its clients do, unlike the user, the   *)
(* network and the end of a client.                                        *)
TaskStep ==
  \/ \E c \in Client : \/ Send(c) \/ Deliver(c) \/ Recv(c)
                       \/ Accept(c) \/ Reach(c) \/ Lose(c)
  \/ \E answered \in BOOLEAN : Handle(answered)

(* They go on as long as one of them can.  That is less than the scheduler *)
(* gives, and enough, as each of their steps uses something up.            *)
Fairness == WF_vars(TaskStep)

FairSpec == Spec /\ Fairness

-----------------------------------------------------------------------------
(* Every value has its type, and no queue holds more than it has room for. *)
TypeOK ==
  /\ client \in [Client -> ClientState]
  /\ asked \in [Client -> Nat]
  /\ toDaemon \in [Client -> Seq({Whole, Half})]
  /\ inbox \in Seq(Client) /\ Len(inbox) <= Inbox
  /\ toClient \in [Client -> Seq({Whole, Half})]
  /\ outbox \in [Client -> 0..Outbox]
  /\ reader \in [{"daemon", "client"} -> [Client -> ReaderState]]
  /\ \A c \in Client : /\ Len(toDaemon[c]) <= Wire
                       /\ Len(toClient[c]) <= Wire
  /\ id_map \subseteq Client
  /\ pending \subseteq Client
  /\ event \in 0..MaxEvents
  /\ drops \in 0..MaxDrops
  /\ got \in [Client -> Seq(1..MaxEvents)]
  /\ answer \in [Client -> 0..MaxEvents]

(* From the first event it is sent, a client is sent every event in its    *)
(* order, however slow it is, until a write to it fails, and again from    *)
(* its next request on.                                                    *)
NoGap ==
  \A c \in Client :
    LET due == IF c \in pending THEN event - 1 ELSE event IN
    got[c] # <<>> =>
      /\ \A i \in DOMAIN got[c] : got[c][i] = got[c][1] + i - 1
      /\ got[c][Len(got[c])] = due

(* Who asks for something is sent the answer, also with its very first     *)
(* request and the first after a failed write, unless this write fails.    *)
AskerIsAnswered ==
  \A c \in Client : answer[c] # 0 =>
    \/ answer[c] = event /\ c \in pending
    \/ \E i \in DOMAIN got[c] : got[c][i] = answer[c]

(* Nobody reads what c asks.                                               *)
Unheard(c) ==
  /\ client[c] = "asking"
  /\ Len(toDaemon[c]) = Wire
  /\ reader["daemon"][c] = "ended"
  /\ ~Closed(c)

(* The daemon waits to write to c, which does not read: nothing does, or   *)
(* it waits itself, with all the queues between them full.                 *)
Stuck(c) ==
  /\ c \in pending
  /\ Len(toClient[c]) = Wire
  /\ \/ reader["client"][c] = "ended"
     \/ /\ outbox[c] = Outbox /\ Decodes("client", c, toClient)
        /\ client[c] = "asking"
        /\ Len(toDaemon[c]) = Wire
        /\ \/ Len(inbox) = Inbox /\ Decodes("daemon", c, toDaemon)
           \/ Unheard(c)

(* Nothing but the end of the client, or giving up a write, resolves that. *)
StuckStays ==
  \A c \in Client :
    Stuck(c) /\ client'[c] # "gone" /\ drops' = drops => Stuck(c)'

(* A broadcast ends, and so does the wait of a client to write its request,*)
(* unless the daemon is stuck with one of its clients or does not hear the *)
(* one that asks: a slow client or one that is gone only delays them.      *)
WaitsEnd ==
  /\ pending # {} ~> (pending = {} \/ \E c \in Client : Stuck(c))
  /\ \A c \in Client :
       client[c] = "asking" ~>
         (client[c] # "asking" \/ Unheard(c) \/ \E d \in Client : Stuck(d))
  /\ [][StuckStays]_vars

(* The types and queues, and what every client is sent over them.          *)
QueueInv == TypeOK /\ NoGap

=============================================================================

----------------------------- MODULE SyncOffer -----------------------------
(***************************************************************************)
(* How a LocalEx daemon collects the sync offers of its peers and acts on  *)
(* the best of them (SyncOfferCollector, handle_gossipsub,                 *)
(* handle_sync_offers).                                                    *)
(*                                                                         *)
(* Two tasks share the collector under a lock: the main loop, which        *)
(* handles one event at a time, and a timer task, spawned with every       *)
(* collector, that consumes it when it is late.  Whoever consumes a        *)
(* collector sends the batch it collected over a channel that holds one    *)
(* batch, keeping the lock while it waits for room.  The only receiver of  *)
(* the channel is the main loop itself.                                    *)
(*                                                                         *)
(* The service on Android has a loop of its own (see AndroidLoop): while a *)
(* handler waits, another event that is ready is taken instead and the     *)
(* handler is dropped.                                                     *)
(*                                                                         *)
(* Definitions whose comment begins with "Mutant" are wrong on purpose and *)
(* used by no specification.                                               *)
(***************************************************************************)
EXTENDS Naturals, Sequences, SequencesExt, FiniteSets

CONSTANTS
  Peer,        \* the other nodes
  File,        \* registered files, an (app_id, file_id) pair each
  Versions,    \* bound: Versions[f]: the versions of f that are offered
  MaxOffers,   \* bound: SyncOffer messages received
  None         \* no collector, no batch, no message

ASSUME SyncOfferAssumption ==
  /\ Versions \in [File -> SUBSET Nat]
  /\ MaxOffers \in Nat
  /\ IsFiniteSet(Peer) /\ IsFiniteSet(File)

VARIABLES
  android,    \* whether this is the service on Android
  known,      \* the peers in the table
  collector,  \* the collector, or None
  main,       \* "select", or what the main loop waits for: "lock", "send"
  message,    \* the SyncOffer message the main loop is handling, or None
  timer,      \* "off", "sleep", or what the timer waits for: "lock", "send"
  sending,    \* sending[w]: the batch task w waits to send, or None
  channel,    \* sync_offer_tx/rx, a queue of batches
  offers,     \* number of SyncOffer messages received, bounded by MaxOffers
  heard       \* history: what the present collector was given, see Heard

vars == <<android, known, collector, main, message, timer, sending, channel,
          offers, heard>>

Task == {"main", "timer"}
Capacity == 1

Offer == UNION {[file : {f}, version : Versions[f]] : f \in File}

(* A list of rows of the registry: no file comes twice.                    *)
OfferList == {l \in UNION {[1..k -> Offer] : k \in 0..Cardinality(File)} :
                \A i, j \in DOMAIN l : i # j => l[i].file # l[j].file}

(* A message that does not decode has no list.                             *)
Message == [peer : Peer, list : OfferList, valid : {TRUE}]
             \cup [peer : Peer, list : {<<>>}, valid : {FALSE}]

(* What was kept for each file: the peer to turn to, and its version.      *)
Batch == [File -> [peer : Peer, version : Nat] \cup {None}]

Collector == [count : Nat, except : Nat, best : Batch, received : SUBSET Peer]

ASSUME NoneAssumption ==
  None \notin Message \cup Batch \cup Collector \cup [peer : Peer, version : Nat]

Init ==
  /\ android \in BOOLEAN
  /\ known = {}
  /\ collector = None
  /\ main = "select"
  /\ message = None
  /\ timer = "off"
  /\ sending = [w \in Task |-> None]
  /\ channel = <<>>
  /\ offers = 0
  /\ heard = {}

-----------------------------------------------------------------------------
(* The peer table, as the other handlers of the main loop change it.       *)

TableStep ==
  /\ main = "select"
  /\ UNCHANGED <<android, collector, main, message, timer, sending, channel,
                 offers, heard>>

(* add_peer *)
PeerAdded(p) == TableStep /\ known' = known \cup {p}

(* remove_peer: mDNS expiry, DisconnectPeer, GossipsubNotSupported.        *)
PeerRemoved(p) == TableStep /\ known' = known \ {p}

-----------------------------------------------------------------------------
(* SyncOfferCollector.                                                     *)

NewCollector == [count |-> 0, except |-> Cardinality(known),
                 best |-> [f \in File |-> None], received |-> {}]

(* Mutant of Insert, breaks NewestIsKept: the comparison is turned round.  *)
InsertOlder(c, p, o) ==
  IF p \in c.received THEN c
  ELSE [c EXCEPT
          !.count = @ + 1,
          !.received = @ \cup {p},
          !.best[o.file] = IF @ # None /\ o.version > @.version THEN @
                           ELSE [peer |-> p, version |-> o.version]]

(* insert: a peer counts once, and only its first offer is looked at.  The *)
(* newer version is kept, and the later of two equal ones.                 *)
Insert(c, p, o) ==
  IF p \in c.received THEN c
  ELSE [c EXCEPT
          !.count = @ + 1,
          !.received = @ \cup {p},
          !.best[o.file] = IF @ # None /\ o.version < @.version THEN @
                           ELSE [peer |-> p, version |-> o.version]]

InsertList(c, p, list) ==
  FoldLeft(LAMBDA acc, o : Insert(acc, p, o), c, list)

(* is_received *)
IsReceived(c) == c.count = c.except

-----------------------------------------------------------------------------
(* The two tasks.                                                          *)

(* The lock is held, across steps, only by a task that waits to send.      *)
LockFree == \A w \in Task : sending[w] = None

(* Mutant of Consume, breaks StuckOnlyBehindBatch: the batch is handed     *)
(* over without looking for room.                                          *)
ConsumeWaits(w, c) ==
  /\ collector' = None
  /\ sending' = [sending EXCEPT ![w] = c.best]
  /\ UNCHANGED channel

(* consume: the batch is sent at once if there is room, or waits for room. *)
Consume(w, c) ==
  /\ collector' = None
  /\ IF Len(channel) < Capacity
       THEN channel' = Append(channel, c.best) /\ UNCHANGED sending
       ELSE sending' = [sending EXCEPT ![w] = c.best] /\ UNCHANGED channel

(* Mutant of StartTimer, breaks OfferInv: the timer is spawned for the     *)
(* first collector only.                                                   *)
StartTimerOnce(fresh) == IF fresh /\ offers = 1 THEN "sleep" ELSE timer

(* A new collector gets a timer task.                                      *)
StartTimer(fresh) == IF fresh THEN "sleep" ELSE timer

(* The offers of a message; "first" is the one that heads a list of a peer *)
(* that has listed nothing before.                                         *)
Heard(m) ==
  {[peer |-> m.peer, offer |-> o,
    first |-> o = m.list[1] /\ \A h \in heard : h.peer # m.peer] :
     o \in Range(m.list)}

(* A SyncOffer arrives; its handler goes for the lock.                     *)
ReceiveOffer(m) ==
  /\ main = "select"
  /\ offers < MaxOffers
  /\ offers' = offers + 1
  /\ main' = "lock"
  /\ message' = m
  /\ UNCHANGED <<android, known, collector, timer, sending, channel, heard>>

(* The message goes to the present collector, or to a new one with a timer *)
(* of its own; a collector that got its number of offers is consumed and   *)
(* its timer aborted once the batch is sent.                               *)
HandleOffer ==
  LET fresh == collector = None
      c0 == IF fresh THEN NewCollector ELSE collector
      c == IF message.valid THEN InsertList(c0, message.peer, message.list)
                            ELSE c0
      full == message.valid /\ IsReceived(c)
  IN
  /\ main = "lock"
  /\ LockFree
  /\ message' = None
  /\ IF full
       THEN /\ Consume("main", c)
            /\ main' = IF Len(channel) < Capacity THEN "select" ELSE "send"
            /\ timer' = IF Len(channel) < Capacity THEN "off" ELSE StartTimer(fresh)
            /\ heard' = {}
       ELSE /\ collector' = c
            /\ main' = "select"
            /\ timer' = StartTimer(fresh)
            /\ heard' = heard \cup Heard(message)
            /\ UNCHANGED <<sending, channel>>
  /\ UNCHANGED <<android, known, offers>>

(* The five seconds are over.                                              *)
TimerWakes ==
  /\ timer = "sleep"
  /\ timer' = "lock"
  /\ UNCHANGED <<android, known, collector, main, message, sending, channel,
                 offers, heard>>

(* The timer task takes the collector, if there is one.                    *)
TimerConsumes ==
  /\ timer = "lock"
  /\ LockFree
  /\ IF collector = None
       THEN /\ timer' = "off"
            /\ UNCHANGED <<collector, sending, channel>>
       ELSE /\ Consume("timer", collector)
            /\ timer' = IF Len(channel) < Capacity THEN "off" ELSE "send"
  /\ heard' = {}
  /\ UNCHANGED <<android, known, main, message, offers>>

(* A task that waited for room sends its batch and releases the lock; the  *)
(* main loop then aborts the timer, the timer task ends.                   *)
SendBatch(w) ==
  /\ sending[w] # None
  /\ Len(channel) < Capacity
  /\ channel' = Append(channel, sending[w])
  /\ sending' = [sending EXCEPT ![w] = None]
  /\ timer' = "off"
  /\ main' = IF w = "main" THEN "select" ELSE main
  /\ UNCHANGED <<android, known, collector, message, offers, heard>>

(* What the handler waits for, the lock or room.                           *)
Waiting == main = "send" \/ (main = "lock" /\ ~LockFree)

(* The handler is dropped, if there is one: with an offer, or with the     *)
(* batch of a collector that was filled up, whose timer runs on.           *)
DropHandler ==
  /\ main' = "select"
  /\ message' = None
  /\ sending' = [sending EXCEPT !["main"] = None]

(* Service::run takes an event of a client while the handler waits.        *)
ClientEventWins ==
  /\ android
  /\ Waiting
  /\ DropHandler
  /\ UNCHANGED <<android, known, collector, timer, channel, offers, heard>>

(* Mutant of HandleBatch, breaks CollectionEnds: a batch is taken only by  *)
(* a loop that waits for nothing, on Android too.                          *)
HandleBatchInSelect ==
  /\ main = "select"
  /\ channel # <<>>
  /\ channel' = Tail(channel)
  /\ DropHandler
  /\ UNCHANGED <<android, known, collector, timer, offers, heard>>

(* handle_sync_offers: for each file the offerer is sent, if it is verified*)
(* by now, this node's own file of that name (send_file: see FileTransfer),*)
(* which changes nothing here.                                             *)
HandleBatch ==
  /\ main = "select" \/ (android /\ Waiting)
  /\ channel # <<>>
  /\ channel' = Tail(channel)
  /\ DropHandler
  /\ UNCHANGED <<android, known, collector, timer, offers, heard>>

Next ==
  \/ \E p \in Peer : PeerAdded(p) \/ PeerRemoved(p)
  \/ \E m \in Message : ReceiveOffer(m)
  \/ HandleOffer
  \/ TimerWakes
  \/ TimerConsumes
  \/ \E w \in Task : SendBatch(w)
  \/ HandleBatch
  \/ ClientEventWins

Spec == Init /\ [][Next]_vars

(* Tasks that can run do run, the sleep ends, and select! does not pass    *)
(* over a batch for ever: it starts from a random branch.                  *)
Fairness ==
  /\ WF_vars(HandleOffer)
  /\ WF_vars(TimerWakes)
  /\ SF_vars(TimerConsumes)
  /\ \A w \in Task : WF_vars(SendBatch(w))
  /\ SF_vars(HandleBatch)

FairSpec == Spec /\ Fairness

-----------------------------------------------------------------------------
(* Every value has its type, and the channel never holds more than it has  *)
(* room for.                                                               *)
TypeOK ==
  /\ android \in BOOLEAN
  /\ known \subseteq Peer
  /\ collector \in Collector \cup {None}
  /\ main \in {"select", "lock", "send"}
  /\ message \in Message \cup {None}
  /\ timer \in {"off", "sleep", "lock", "send"}
  /\ sending \in [Task -> Batch \cup {None}]
  /\ channel \in Seq(Batch) /\ Len(channel) <= Capacity
  /\ offers \in 0..MaxOffers
  /\ heard \subseteq
       {[peer |-> p, offer |-> o, first |-> b] :
          p \in Peer, o \in Offer, b \in BOOLEAN}

(* A collector has a timer of its own.  A timer that has not consumed its  *)
(* collector has it still, unless the main loop consumed it and waits to   *)
(* send the batch, or was dropped there on Android: no collector is left   *)
(* without a timeout, and no timer consumes the collector of a later round.*)
TimerHasCollector ==
  /\ collector # None => timer \in {"sleep", "lock"}
  /\ ~android /\ main # "send" /\ timer \in {"sleep", "lock"} => collector # None

(* A collector that waits for more offers has fewer than it expects: the   *)
(* test for equality cannot be jumped over, except by a collector that     *)
(* was created when no peer was known.                                     *)
NotOverdue ==
  collector # None =>
    collector.except = 0 \/ collector.count < collector.except

(* Only one task at a time waits for room in the channel.  When it is the  *)
(* main loop it waits behind a batch that nobody else can read, and when   *)
(* the main loop waits for the lock meanwhile nobody reads either: a       *)
(* daemon gets stuck in these two ways only, a second batch before the     *)
(* first is read.                                                          *)
StuckOnlyBehindBatch ==
  /\ \A v, w \in Task : sending[v] # None /\ sending[w] # None => v = w
  /\ main = "send" => channel # <<>>
  /\ ~LockFree => main = "send" \/ timer = "send"

(* The entry kept for a file is the first offer of that peer, and at least *)
(* as new as the first offer of any peer for this file, however long their *)
(* lists are and in whatever order they come.  What stands behind the      *)
(* first in a list is dropped, and may be newer (SyncOfferCollector).      *)
NewestIsKept ==
  collector # None =>
    \A h \in heard :
      LET kept == collector.best[h.offer.file] IN
      h.first =>
        /\ kept # None
        /\ kept.version >= h.offer.version
        /\ \E g \in heard : g.first /\ g.peer = kept.peer /\ g.offer =
             [file |-> h.offer.file, version |-> kept.version]

(* The types, and every collector with its timer and its count.            *)
OfferInv == TypeOK /\ TimerHasCollector /\ NotOverdue

(* A collection comes to its end: the collector is filled up or its timer  *)
(* consumes it, and the batch is handled, unless another one has to wait   *)
(* for room behind it.  On Android that holds up nothing.                  *)
CollectionEnds ==
  /\ collector # None ~> collector = None
  /\ channel # <<>> ~> channel = <<>> \/ (~LockFree /\ ~android)

=============================================================================

--------------------------- MODULE AndroidService ---------------------------
(***************************************************************************)
(* Start and stop of the native service inside the Android application:    *)
(* the callbacks of LocalaxService, its coroutines, and the globals they   *)
(* share (init, listen, stop, get_or_create_service, ServiceManager).      *)
(*                                                                         *)
(* Android keeps at most one instance of LocalaxService at a time, but     *)
(* onDestroy leaves the work of stopping to a coroutine, so that the next  *)
(* instance may be created, and started, before or amid it.  An exception  *)
(* that leaves a coroutine ends the process, and with it the behaviour.    *)
(*                                                                         *)
(* Definitions whose comment begins with "Mutant" are wrong on purpose and *)
(* used by no specification.                                               *)
(***************************************************************************)
EXTENDS Naturals, FiniteSets

CONSTANTS
  Instances,   \* bound: instances of LocalaxService, created in order
  Listener,    \* the coroutines that call listen(), one for each start
  None         \* no service

ASSUME AndroidServiceAssumption ==
  /\ Instances \in Nat
  /\ None \notin Nat

VARIABLES
  instance,   \* instance[i]: see InstanceState
  SERVICE,    \* the global: a service, or None
  created,    \* number of services created
  channel,    \* the quit channel, a new one for each init
  listener,   \* listener[l]: see ListenerState
  taken,      \* the services whose sync_offer_rx has been taken
  crash,      \* why the process has ended
  overlap,    \* history: an instance was created before the cleanup of an
              \* earlier one had ended
  twice       \* history: an instance was started twice

vars == <<instance, SERVICE, created, channel, listener, taken, crash, overlap,
          twice>>

Instance == 1..Instances

(* "destroyed": onDestroy has launched the cleanup; "signalled": stop has  *)
(* broadcast the quit; "stopped": it has taken the service away; "over":   *)
(* the scope of the coroutines is cancelled.                               *)
InstanceState == {"unborn", "created", "destroyed", "signalled", "stopped", "over"}

Cleanup == {"destroyed", "signalled", "stopped"}

(* "launched", "waiting" for the lock of the ServiceManager, "prepared"    *)
(* and waiting for the queue of client events, "running" in the loop of    *)
(* Service::run; quit is the channel the loop listens to, and signal says  *)
(* that a quit is in it.                                                   *)
ListenerState ==
  [at : {"none", "launched", "waiting", "prepared", "running", "returned",
         "cancelled"},
   of : 0..Instances, service : 0..Instances, quit : 0..Instances,
   signal : BOOLEAN]

NoListener ==
  [at |-> "none", of |-> 0, service |-> 0, quit |-> 0, signal |-> FALSE]

Init ==
  /\ instance = [i \in Instance |-> "unborn"]
  /\ SERVICE = None
  /\ created = 0
  /\ channel = 0
  /\ listener = [l \in Listener |-> NoListener]
  /\ taken = {}
  /\ crash = "no"
  /\ overlap = FALSE
  /\ twice = FALSE

Running == {l \in Listener : listener[l].at = "running"}

(* init has put another channel in the place of the one the loop listens   *)
(* to, and dropped its sender: with no quit in it every recv is an error,  *)
(* which the loop ignores, and it goes round without ever being pending.   *)
(* It goes on with its events, but the poll does not return to listen().   *)
Spinning(l) ==
  /\ listener[l].at = "running"
  /\ listener[l].quit # channel
  /\ ~listener[l].signal

(* The listeners that hold the lock of service s.                          *)
Holders(s) ==
  {l \in Listener : listener[l].service = s
                      /\ listener[l].at \in {"prepared", "running"}}

(* Whether the instance that has started l is in one of the states.        *)
OfInstance(l, states) == \E i \in Instance : listener[l].of = i /\ instance[i] \in states

-----------------------------------------------------------------------------
(* The callbacks of LocalaxService.                                        *)

MayCreate(i) ==
  /\ crash = "no"
  /\ instance[i] = "unborn"
  /\ \A j \in Instance : /\ j < i => instance[j] \notin {"unborn", "created"}
                         /\ j > i => instance[j] = "unborn"

(* Mutant of Create, breaks CrashExplained: init makes a service only the  *)
(* first time.                                                             *)
CreateInitOnce(i) ==
  /\ MayCreate(i)
  /\ instance' = [instance EXCEPT ![i] = "created"]
  /\ channel' = channel + 1
  /\ IF created = 0
       THEN SERVICE' = 1 /\ created' = 1
       ELSE UNCHANGED <<SERVICE, created>>
  /\ overlap' = (overlap \/ \E j \in Instance : instance[j] \in Cleanup)
  /\ UNCHANGED <<listener, taken, crash, twice>>

(* onCreate: init replaces the quit channel, which closes the one before   *)
(* it, and makes a service if there is none.                               *)
Create(i) ==
  /\ MayCreate(i)
  /\ instance' = [instance EXCEPT ![i] = "created"]
  /\ channel' = channel + 1
  /\ IF SERVICE = None
       THEN SERVICE' = created + 1 /\ created' = created + 1
       ELSE UNCHANGED <<SERVICE, created>>
  /\ overlap' = (overlap \/ \E j \in Instance : instance[j] \in Cleanup)
  /\ UNCHANGED <<listener, taken, crash, twice>>

(* What onStartCommand does but for the quit channel.                      *)
Launch(i, l) ==
  /\ crash = "no"
  /\ instance[i] = "created"
  /\ listener[l] = NoListener
  /\ listener' = [listener EXCEPT ![l].at = "launched", ![l].of = i]
  /\ twice' = (twice \/ \E k \in Listener : listener[k].of = i)
  /\ UNCHANGED <<instance, SERVICE, created, taken, crash, overlap>>

(* Mutant of StartCommand, breaks LoopInv: the quit channel is replaced    *)
(* with every start.                                                       *)
StartWithChannel(i, l) == Launch(i, l) /\ channel' = (channel % Instances) + 1

(* Mutant of StartCommand, breaks ServedUnlessOverlap: a start first tells *)
(* the loop that runs to quit.                                             *)
StartAnew(i, l) ==
  /\ crash = "no"
  /\ instance[i] = "created"
  /\ listener[l] = NoListener
  /\ listener' = [k \in Listener |->
                    IF k = l THEN [NoListener EXCEPT !.at = "launched", !.of = i]
                    ELSE IF k \in Running THEN [listener[k] EXCEPT !.signal = TRUE]
                    ELSE listener[k]]
  /\ twice' = (twice \/ \E k \in Listener : listener[k].of = i)
  /\ UNCHANGED <<instance, SERVICE, created, channel, taken, crash, overlap>>

(* onStartCommand, which comes again with every start of the activity.     *)
StartCommand(i, l) == Launch(i, l) /\ UNCHANGED channel

Destroy(i) ==
  /\ crash = "no"
  /\ instance[i] = "created"
  /\ instance' = [instance EXCEPT ![i] = "destroyed"]
  /\ UNCHANGED <<SERVICE, created, channel, listener, taken, crash, overlap, twice>>

(* stop: broadcast_quit, to the loops that listen to the present channel.  *)
BroadcastQuit(i) ==
  /\ crash = "no"
  /\ instance[i] = "destroyed"
  /\ instance' = [instance EXCEPT ![i] = "signalled"]
  /\ listener' = [l \in Listener |->
                    IF l \in Running /\ listener[l].quit = channel
                      THEN [listener[l] EXCEPT !.signal = TRUE] ELSE listener[l]]
  /\ UNCHANGED <<SERVICE, created, channel, taken, crash, overlap, twice>>

(* stop: SERVICE.take(), whoever has made the service.                     *)
TakeService(i) ==
  /\ crash = "no"
  /\ instance[i] = "signalled"
  /\ instance' = [instance EXCEPT ![i] = "stopped"]
  /\ SERVICE' = None
  /\ UNCHANGED <<created, channel, listener, taken, crash, overlap, twice>>

CancelScope(i) ==
  /\ crash = "no"
  /\ instance[i] = "stopped"
  /\ instance' = [instance EXCEPT ![i] = "over"]
  /\ UNCHANGED <<SERVICE, created, channel, listener, taken, crash, overlap, twice>>

-----------------------------------------------------------------------------
(* A coroutine in listen().                                                *)

MoveTo(l, at) == listener' = [listener EXCEPT ![l].at = at]

GetService(l) ==
  /\ crash = "no"
  /\ listener[l].at = "launched"
  /\ ~ OfInstance(l, {"over"})
  /\ IF SERVICE = None
       THEN crash' = "access" /\ UNCHANGED listener
       ELSE /\ listener' = [listener EXCEPT ![l].at = "waiting",
                                            ![l].service = SERVICE]
            /\ UNCHANGED crash
  /\ UNCHANGED <<instance, SERVICE, created, channel, taken, overlap, twice>>

(* The lock of the ServiceManager; then the swarm is prepared.             *)
Prepare(l) ==
  /\ crash = "no"
  /\ listener[l].at = "waiting"
  /\ Holders(listener[l].service) = {}
  /\ MoveTo(l, "prepared")
  /\ UNCHANGED <<instance, SERVICE, created, channel, taken, crash, overlap, twice>>

(* What Service::run does once it has the queue of client events.          *)
EnterLoop(l) ==
  /\ crash = "no"
  /\ listener[l].at = "prepared"
  /\ IF listener[l].service \in taken
       THEN crash' = "panic" /\ UNCHANGED <<listener, taken>>
       ELSE /\ taken' = taken \cup {listener[l].service}
            /\ listener' = [listener EXCEPT ![l].at = "running",
                                            ![l].quit = channel]
            /\ UNCHANGED crash
  /\ UNCHANGED <<instance, SERVICE, created, channel, overlap, twice>>

(* Service::run waits for the queue of client events, which all services   *)
(* share.                                                                  *)
Run(l) == Running = {} /\ EnterLoop(l)

(* The loop takes the quit.                                                *)
Quit(l) ==
  /\ crash = "no"
  /\ listener[l].at = "running"
  /\ listener[l].signal
  /\ MoveTo(l, "returned")
  /\ UNCHANGED <<instance, SERVICE, created, channel, taken, crash, overlap, twice>>

(* Mutant of Cancel, breaks LoopsTakeTurns: only who waits is cancelled.   *)
CancelWaiting(l) ==
  /\ crash = "no"
  /\ listener[l].at \in {"launched", "waiting"}
  /\ OfInstance(l, {"over"})
  /\ MoveTo(l, "cancelled")
  /\ UNCHANGED <<instance, SERVICE, created, channel, taken, crash, overlap, twice>>

(* The scope of l is cancelled: its future is dropped, with its locks.     *)
DropFuture(l) ==
  /\ crash = "no"
  /\ OfInstance(l, {"over"})
  /\ MoveTo(l, "cancelled")
  /\ UNCHANGED <<instance, SERVICE, created, channel, taken, crash, overlap, twice>>

(* A future can be dropped when it is pending.                             *)
Cancel(l) ==
  /\ listener[l].at \in {"launched", "waiting", "prepared", "running"}
  /\ ~Spinning(l)
  /\ DropFuture(l)

(* A loop that spins is pending only while it handles a request or a batch *)
(* of offers and waits: that may never happen.                             *)
CancelAmid(l) == Spinning(l) /\ DropFuture(l)

(* The cleanup of an instance, step by step.                               *)
Stop(i) == BroadcastQuit(i) \/ TakeService(i) \/ CancelScope(i)

Listen(l) == GetService(l) \/ Prepare(l) \/ Run(l) \/ Quit(l) \/ Cancel(l)

Next ==
  \/ \E i \in Instance :
       \/ Create(i) \/ Destroy(i) \/ Stop(i)
       \/ \E l \in Listener : StartCommand(i, l)
  \/ \E l \in Listener : Listen(l) \/ CancelAmid(l)

Spec == Init /\ [][Next]_vars

(* Coroutines that can run do; nothing is assumed of Android.              *)
Fairness ==
  /\ \A i \in Instance : WF_vars(Stop(i))
  /\ \A l \in Listener : WF_vars(Listen(l))

FairSpec == Spec /\ Fairness

-----------------------------------------------------------------------------
(* Every value has its type, and no service is used before it is created.  *)
TypeOK ==
  /\ instance \in [Instance -> InstanceState]
  /\ SERVICE \in 1..created \cup {None}
  /\ created \in 0..Instances
  /\ channel \in 0..Instances
  /\ listener \in [Listener -> ListenerState]
  /\ taken \subseteq 1..created
  /\ crash \in {"no", "access", "panic"}
  /\ {overlap, twice} \subseteq BOOLEAN

(* However instances follow one another, one loop at most takes client     *)
(* events and speaks for this node.                                        *)
OneLoop == Cardinality(Running) <= 1

(* Listening ends the process only if an instance came before the cleanup  *)
(* of an earlier one; or because its instance is stopped before it had     *)
(* begun; or, inside run, if an instance was started twice.                *)
CrashExplained ==
  /\ crash = "access" => overlap \/ \E i \in Instance : instance[i] = "stopped"
  /\ crash = "panic" => overlap \/ twice

(* The loop of a live instance listens to the channel its stop will use.   *)
QuitReaches ==
  \A l \in Running : OfInstance(l, {"created"}) => listener[l].quit = channel

(* The loop of a live instance ends by itself only if the late cleanup of  *)
(* an earlier instance has told it to.                                     *)
ServedUnlessOverlap ==
  \A l \in Listener :
    listener[l].at = "returned" /\ OfInstance(l, {"created"}) => overlap

(* The types, and which loop runs, on which channel.                       *)
LoopInv == TypeOK /\ OneLoop /\ QuitReaches

(* Once an instance is destroyed, all its loops end, also one that has     *)
(* missed the quit, or the process does; but for a loop that still runs    *)
(* without a quit when the next instance replaces the channel, and spins.  *)
LoopsEnd ==
  \A l \in Listener :
    OfInstance(l, {"destroyed"})
      ~> \/ crash # "no" \/ listener[l].at \in {"returned", "cancelled"}
         \/ Spinning(l)

(* What is started runs, unless it is destroyed, started twice, or the     *)
(* process ends: also behind the loop of an earlier instance, unless that  *)
(* one spins, and keeps the queue of client events.                        *)
StartedRuns ==
  \A l \in Listener :
    listener[l].at = "launched"
      ~> \/ listener[l].at = "running" \/ crash # "no" \/ twice
         \/ ~ OfInstance(l, {"created"})
         \/ \E k \in Listener : Spinning(k)

(* The loops of the instances take turns, unless one spins: each ends, and *)
(* each begins.                                                            *)
LoopsTakeTurns == LoopsEnd /\ StartedRuns

=============================================================================

---------------------------- MODULE AndroidLoop ----------------------------
(***************************************************************************)
(* The event loop of the native Android service (Service::run), and how    *)
(* its events reach the storage, the files and the list of the application *)
(* (emit_event, save_peers, recv, LocalaxService, MainViewModel).          *)
(*                                                                         *)
(* Unlike the daemon, the loop handles a network event inside a branch of  *)
(* select!: while that handler waits for room in the queue of events,      *)
(* another branch that is ready wins, and the handler is dropped with what *)
(* it had left to do.  save_peers blocks the thread instead of waiting.    *)
(* A peer table is the set of the changes it has seen.                     *)
(*                                                                         *)
(* A coroutine that receives events moves a file to its place and then     *)
(* asks the service to register it: it waits for room in the queue of      *)
(* client events, and nobody receives meanwhile.                           *)
(*                                                                         *)
(* The queues outlive the service: one that is started in the same process *)
(* finds in them what the last one has left.  Services that overlap are in *)
(* AndroidService; here one starts when the last one is over.              *)
(*                                                                         *)
(* Definitions whose comment begins with "Mutant" are wrong on purpose and *)
(* used by no specification.                                               *)
(***************************************************************************)
EXTENDS Naturals, FiniteSets, SequencesExt

CONSTANTS
  Receivers,    \* bound: coroutines in the loop of recv(), one for each start
  QueueSize,    \* capacity of the queue of events, four in the code
  MaxRequests,  \* capacity of the queue of client events, four in the code
  MaxHandled,   \* bound: changes of the peer table, files, and restarts
  File,         \* the files that are received
  Nothing       \* no event

ASSUME AndroidLoopAssumption ==
  /\ Receivers \in Nat \ {0}
  /\ QueueSize \in Nat \ {0}
  /\ MaxRequests \in Nat
  /\ MaxHandled \in Nat

VARIABLES
  at,          \* what the loop is in: see Place
  todo,        \* the events the handler has still to emit
  table,       \* the peer table, as the set of its changes
  changes,     \* number of changes of the table
  received,    \* number of files received
  requests,    \* "RegistFileId" or "other": client events and sync batches
  quit,        \* a quit is in the channel
  events,      \* the queue of events
  held,        \* the events the coroutines handle, in the order received
  stopped,     \* how many of the Receivers do not run
  listening,   \* isListeningDaemon
  collecting,  \* the view model collects from the service
  stored,      \* the table in the secure storage
  shown,       \* the table in the list of the application
  placed,      \* the files in the store of the application
  crashed,     \* an exception has ended the process
  restarts,    \* number of times the service was started again
  saved,       \* history: the table last given to save_peers
  untold,      \* history: changed since the last list was emitted
  missed,      \* history: the table in the last list, if nobody collected it
  moved,       \* history: number of files moved to the store
  lost,        \* history: number of files whose event was dropped
  crossed,     \* history: two coroutines have held events at the same time
  cut,         \* history: a save on its way was lost with a coroutine or with
               \*   the process
  late         \* history: a service has started with a save still on its way

loop == <<at, todo, table, changes, received>>
store == <<stored, shown, placed>>
kotlin == <<held, stopped, listening, collecting, store, crashed>>
ends == <<restarts, cut, late>>
history == <<saved, untold, missed, moved, lost, crossed>>
android == <<loop, requests, quit, events, kotlin, ends, history>>

(* "select"; inside a handler of a network event that waits or that saves; *)
(* inside a handler of a client event; or the loop has ended.              *)
Place == {"select", "network", "saving", "client", "ended"}
Table == SUBSET (1..MaxHandled)
Event ==
  {"PeerList", "SavePeers"} \X Table
    \cup {"Notice"} \X {Nothing} \* VerifyResult, InComingVerify, Error
    \cup {"FileUpdated"} \X File

LoopInit ==
  /\ at = "select"
  /\ todo = <<>>
  /\ table = {}
  /\ changes = 0
  /\ received = 0
  /\ requests = <<>>
  /\ quit = FALSE
  /\ events = <<>>
  /\ held = <<>>
  /\ stopped \in 0..(Receivers - 1)
  /\ listening = TRUE
  /\ collecting = FALSE
  /\ stored = {}
  /\ shown = {}
  /\ placed \in SUBSET File
  /\ crashed = FALSE
  /\ restarts = 0
  /\ saved = {}
  /\ untold = FALSE
  /\ missed = Nothing
  /\ moved = 0
  /\ lost = 0
  /\ crossed = FALSE
  /\ cut = FALSE
  /\ late = FALSE

Full == Len(events) = QueueSize
MoreToCome == changes + received + restarts < MaxHandled

Count(s, kind) == Cardinality({i \in DOMAIN s : s[i][1] = kind})
OnTheirWay(kind) == Count(todo, kind) + Count(events, kind) + Count(held, kind)
Pending(kind) == OnTheirWay(kind) > 0

-----------------------------------------------------------------------------
(* The loop.                                                               *)

(* A network event, and the events its handler has to emit.                *)
Handle(place, emits) ==
  /\ at = "select"
  /\ MoreToCome
  /\ at' = place
  /\ todo' = emits
  /\ UNCHANGED <<requests, quit, events, kotlin, ends, missed, moved, lost,
                 crossed>>

List(t) == <<"PeerList", t>>
Notice == <<"Notice", Nothing>>

Changed == table \cup {changes + 1}

ChangeTable ==
  /\ changes' = changes + 1
  /\ table' = Changed
  /\ untold' = TRUE
  /\ UNCHANGED received

(* handle_mdns, a hostname, GossipsubNotSupported.                         *)
PeersChange ==
  /\ Handle("network", <<List(Changed)>>)
  /\ ChangeTable
  /\ UNCHANGED saved

ReceiveRequest ==
  /\ Handle("network", <<Notice, List(Changed)>>)
  /\ ChangeTable
  /\ UNCHANGED saved

ReceiveResponse ==
  /\ Handle("saving", << <<"SavePeers", Changed>>, Notice, List(Changed)>>)
  /\ ChangeTable
  /\ saved' = Changed

(* done: the writer is gone before the event is emitted.                   *)
FileDone(f) ==
  /\ Handle("network", << <<"FileUpdated", f>> >>)
  /\ received' = received + 1
  /\ UNCHANGED <<table, changes, untold, saved>>

(* The next event of the handler goes into the queue.                      *)
EmitNext ==
  /\ ~Full
  /\ events' = Append(events, Head(todo))
  /\ todo' = Tail(todo)
  /\ untold' = (untold /\ Head(todo) # List(table))
  /\ UNCHANGED <<table, changes, received, requests, quit, kotlin, ends, saved,
                 missed, moved, lost, crossed>>

(* save_peers: the thread is blocked until there is room.                  *)
Save == at = "saving" /\ EmitNext /\ at' = "network"

(* emit_event in any other place.                                          *)
Emit ==
  /\ at \in {"network", "client"}
  /\ EmitNext
  /\ at' = IF Len(todo) = 1 THEN "select" ELSE at

(* Mutant of MayBranch, breaks StoreInv: a save can be dropped too.        *)
MayBranchAmidSave == at = "select" \/ (at \in {"network", "saving"} /\ Full)

(* Nothing is handled that cannot be dropped: a network handler can, when  *)
(* it waits.                                                               *)
MayBranch == at = "select" \/ (at = "network" /\ Full)

(* The handler, if there is one, is dropped with what it had to emit.      *)
Drop == lost' = lost + Count(todo, "FileUpdated")

(* A client event or a batch.  To register a path is refused (see          *)
(* Registry), of which an error tells; VerifyConfirm may change the table  *)
(* without telling.                                                        *)
TakeRequest ==
  /\ MayBranch
  /\ requests # <<>>
  /\ requests' = Tail(requests)
  /\ Drop
  /\ IF Head(requests) = "RegistFileId"
       THEN at' = "client" /\ todo' = <<Notice>>
       ELSE at' = "select" /\ todo' = <<>>
  /\ \/ /\ Head(requests) = "other"
        /\ MoreToCome
        /\ ChangeTable
     \/ UNCHANGED <<table, changes, received, untold>>
  /\ UNCHANGED <<quit, events, kotlin, ends, saved, missed, moved, crossed>>

End ==
  /\ at' = "ended"
  /\ todo' = <<>>
  /\ Drop
  /\ UNCHANGED <<table, changes, received, requests, quit, events, kotlin, ends,
                 saved, untold, missed, moved, crossed>>

TakeQuit == MayBranch /\ quit /\ End

(* Mutant of DropLoop, breaks LoopMoves: a handler is let come to its end. *)
DropIdleLoop == quit /\ at \in {"select", "network"} /\ End

(* The scope of the service is cancelled, and the future of listen() is    *)
(* dropped, but not while the thread that polls it is blocked.             *)
DropLoop == quit /\ at \notin {"saving", "ended"} /\ End

-----------------------------------------------------------------------------
(* The application.                                                        *)

Room == Len(requests) < MaxRequests

(* dispatch of an event of the user interface, or a batch of sync offers.  *)
Dispatch ==
  /\ at # "ended"
  /\ Room
  /\ requests' = Append(requests, "other")
  /\ UNCHANGED <<loop, quit, events, kotlin, ends, history>>

(* recv, under the lock of the receiver.                                   *)
Recv ==
  /\ Len(held) + stopped < Receivers
  /\ events # <<>>
  /\ held' = Append(held, Head(events))
  /\ events' = Tail(events)
  /\ crossed' = (crossed \/ held # <<>>)
  /\ UNCHANGED <<loop, requests, quit, stopped, listening, collecting, store,
                 crashed, ends, saved, untold, missed, moved, lost>>

(* Mutant of Handled, breaks ShownExplained: a list is applied only if the *)
(* view shows an older one, and has shown any.                             *)
HandledOnce(i) ==
  /\ shown' = IF held[i][1] = "PeerList" /\ collecting /\ shown = {}
                THEN held[i][2] ELSE shown
  /\ missed' = IF held[i][1] # "PeerList" THEN missed
               ELSE IF collecting THEN Nothing ELSE held[i][2]
  /\ stored' = IF held[i][1] = "SavePeers" THEN held[i][2] ELSE stored

(* What LocalaxService does with an event: a list goes through a flow that *)
(* keeps nothing for collectors that come later.                           *)
Handled(i) ==
  /\ shown' = IF held[i][1] = "PeerList" /\ collecting
                THEN held[i][2] ELSE shown
  /\ missed' = IF held[i][1] # "PeerList" THEN missed
               ELSE IF collecting THEN Nothing ELSE held[i][2]
  /\ stored' = IF held[i][1] = "SavePeers" THEN held[i][2] ELSE stored

(* The coroutine goes on as long as isListeningDaemon.                     *)
Release(i) ==
  /\ held' = RemoveAt(held, i)
  /\ stopped' = IF listening THEN stopped ELSE stopped + 1

HandleEvent(i) ==
  /\ held[i][1] \notin {"FileUpdated", "RegistFileId"}
  /\ Handled(i)
  /\ Release(i)
  /\ UNCHANGED <<loop, requests, quit, events, listening, collecting, placed,
                 crashed, ends, saved, untold, moved, lost, crossed>>

(* handleFileUpdated: Files.move replaces no file, and its exception ends  *)
(* the process.                                                            *)
Move(i) ==
  /\ \E f \in File :
       /\ held[i] = <<"FileUpdated", f>>
       /\ IF f \in placed
            THEN crashed' = TRUE /\ UNCHANGED <<placed, held, moved>>
            ELSE /\ placed' = placed \cup {f}
                 /\ moved' = moved + 1
                 /\ held' = [held EXCEPT ![i] = <<"RegistFileId", f>>]
                 /\ UNCHANGED crashed
  /\ UNCHANGED <<loop, requests, quit, events, stopped, listening, collecting,
                 stored, shown, ends, saved, untold, missed, lost, crossed>>

(* dispatch, from the coroutine that receives.                             *)
RegistFileId(i) ==
  /\ held[i][1] = "RegistFileId"
  /\ Room
  /\ requests' = Append(requests, "RegistFileId")
  /\ Release(i)
  /\ UNCHANGED <<loop, quit, events, listening, collecting, store, crashed, ends,
                 history>>

(* onServiceConnected: collectDataFromService.                             *)
Connect ==
  /\ ~collecting
  /\ collecting' = TRUE
  /\ UNCHANGED <<loop, requests, quit, events, held, stopped, listening, store,
                 crashed, ends, history>>

(* onDestroy: isListeningDaemon is cleared, then stop broadcasts the quit. *)
OnDestroy ==
  /\ listening
  /\ listening' = FALSE
  /\ UNCHANGED <<loop, requests, quit, events, held, stopped, collecting, store,
                 crashed, ends, history>>

StopService ==
  /\ ~listening
  /\ ~quit
  /\ quit' = TRUE
  /\ UNCHANGED <<loop, requests, events, kotlin, ends, history>>

(* serviceScope.cancel(): a coroutine ends, with the event it held.        *)
CancelReceiver ==
  /\ quit
  /\ stopped < Receivers
  /\ stopped' = stopped + 1
  /\ \/ Len(held) + stopped < Receivers /\ UNCHANGED <<held, cut, lost>>
     \/ \E i \in DOMAIN held :
          /\ held' = RemoveAt(held, i)
          /\ cut' = (cut \/ held[i][1] = "SavePeers")
          /\ lost' = IF held[i][1] = "FileUpdated" THEN lost + 1 ELSE lost
  /\ UNCHANGED <<loop, requests, quit, events, listening, collecting, store,
                 crashed, restarts, late, saved, untold, missed, moved, crossed>>

-----------------------------------------------------------------------------
(* A service starts again, with the table that is stored.                  *)
Begin ==
  /\ MoreToCome
  /\ restarts' = restarts + 1
  /\ at' = "select"
  /\ todo' = <<>>
  /\ table' = stored
  /\ quit' = FALSE
  /\ held' = <<>>
  /\ stopped' \in 0..(Receivers - 1)
  /\ listening' = TRUE
  /\ collecting' = FALSE
  /\ crashed' = FALSE
  /\ untold' = TRUE
  /\ UNCHANGED <<changes, received, stored, placed, saved, missed, moved, crossed>>

(* onCreate in the same process, when the last service is over.            *)
Recreate ==
  /\ ~crashed
  /\ at = "ended" /\ stopped = Receivers
  /\ Begin
  /\ late' = (late \/ Pending("SavePeers"))
  /\ UNCHANGED <<requests, events, shown, cut, lost>>

(* The process ends, by an exception or killed by Android, which starts    *)
(* the service in a new one (START_STICKY).                                *)
NewProcess ==
  /\ Begin
  /\ requests' = <<>>
  /\ events' = <<>>
  /\ shown' = {}
  /\ cut' = (cut \/ Pending("SavePeers"))
  /\ lost' = lost + OnTheirWay("FileUpdated")
  /\ UNCHANGED late

LoopNext ==
  \/ /\ ~crashed
     /\ \/ PeersChange \/ ReceiveRequest \/ ReceiveResponse
        \/ \E f \in File : FileDone(f)
        \/ Save \/ Emit
        \/ TakeRequest \/ TakeQuit \/ DropLoop
        \/ Dispatch
        \/ Recv \/ CancelReceiver
        \/ \E i \in DOMAIN held : HandleEvent(i) \/ Move(i) \/ RegistFileId(i)
        \/ Connect \/ OnDestroy \/ StopService
  \/ Recreate
  \/ NewProcess

LoopSpec == LoopInit /\ [][LoopNext]_android

(* What the loop and the coroutines do, unlike the network, the user and   *)
(* Android.                                                                *)
TaskStep ==
  \/ Save \/ Emit \/ TakeRequest \/ Recv \/ CancelReceiver
  \/ \E i \in DOMAIN held : HandleEvent(i) \/ Move(i) \/ RegistFileId(i)

(* They go on as long as one of them can, less than the schedulers give;   *)
(* the cleanup is never passed over for ever.                              *)
LoopFairness ==
  /\ WF_android(~crashed /\ TaskStep)
  /\ WF_android(~crashed /\ (StopService \/ DropLoop))

FairLoop == LoopSpec /\ LoopFairness

-----------------------------------------------------------------------------
(* Every value has its type, and no queue holds more than it has room for. *)
LoopTypes ==
  /\ at \in Place
  /\ todo \in Seq(Event) /\ events \in Seq(Event)
  /\ held \in Seq(Event \cup {"RegistFileId"} \X File)
  /\ requests \in Seq({"RegistFileId", "other"})
  /\ Len(events) <= QueueSize /\ Len(requests) <= MaxRequests
  /\ stopped \in Nat /\ Len(held) + stopped <= Receivers
  /\ quit \in BOOLEAN /\ listening \in BOOLEAN /\ collecting \in BOOLEAN
  /\ crashed \in BOOLEAN /\ untold \in BOOLEAN /\ crossed \in BOOLEAN
  /\ cut \in BOOLEAN /\ late \in BOOLEAN
  /\ changes \in 0..MaxHandled /\ received \in 0..MaxHandled
  /\ restarts \in 0..MaxHandled
  /\ moved \in 0..MaxHandled /\ lost \in 0..MaxHandled
  /\ table \in Table /\ stored \in Table /\ shown \in Table /\ saved \in Table
  /\ missed = Nothing \/ missed \in Table
  /\ placed \subseteq File

(* The table in the storage is the one last saved, unless two coroutines   *)
(* have handled events at the same time, when an older table may have been *)
(* stored over a newer one, or the save was lost with its coroutine or its *)
(* process.  No save is lost to a handler that is dropped.                 *)
StoredExplained ==
  ~Pending("SavePeers") => stored = saved \/ crossed \/ cut

(* A service has in its table whatever was saved before, also by services  *)
(* that have ended, with one more exception: a save was still on its way   *)
(* when it started, and is stored only after it has read the storage.      *)
TableKept == saved \subseteq table \/ crossed \/ cut \/ late

(* While the application listens, the list it shows is that of the table,  *)
(* unless a handler was dropped or did not tell of its change, or the list *)
(* came before the view model, or two coroutines handled events at once.   *)
ShownExplained ==
  listening /\ ~Pending("PeerList") =>
    shown = table \/ untold \/ missed = table \/ crossed

(* A file that was received whole gets to the store of the application,    *)
(* unless its handler was dropped between remove and emit in done, or its  *)
(* event was lost with its coroutine or its process.                       *)
FilesExplained == OnTheirWay("FileUpdated") = received - moved - lost

(* The loop waits for room in the one queue, and who could make it, for    *)
(* room in the other.                                                      *)
Jammed ==
  /\ at \in {"client", "saving"} /\ Full
  /\ ~Room /\ held # <<>> /\ Len(held) + stopped = Receivers
  /\ \A i \in DOMAIN held : held[i][1] = "RegistFileId"

(* While the application listens, a handler comes to its end, unless the   *)
(* loop and all who receive wait for one another, or the move of a file    *)
(* has ended the process.                                                  *)
HandlersEnd ==
  at \in {"network", "saving", "client"} ~>
    at \in {"select", "ended"} \/ crashed \/ ~listening \/ Jammed

(* Once the service is destroyed its loop ends, with its process at the    *)
(* latest, unless it is blocked in a save with the queue full and nobody   *)
(* left to make room.                                                      *)
StopEnds ==
  ~listening ~> \/ at = "ended" \/ crashed \/ listening
                \/ at = "saving" /\ Full /\ stopped = Receivers

(* The types and the queues, and what is stored of what went through them. *)
StoreInv == LoopTypes /\ StoredExplained /\ TableKept /\ FilesExplained

(* What the loop is in comes to its end, and so does the loop.             *)
LoopMoves == HandlersEnd /\ StopEnds

=============================================================================

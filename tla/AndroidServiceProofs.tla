------------------------ MODULE AndroidServiceProofs ------------------------
(***************************************************************************)
(* What holds of AndroidService for any number of instances and starts:    *)
(* the types, that one loop runs at most and listens to the right channel, *)
(* why the process may end, and why a loop may end by itself.              *)
(*                                                                         *)
(* As long as no instance was created before the cleanup of an earlier one *)
(* had ended, everything belongs to the newest instance: the channel, the  *)
(* service, and the listeners that use it (Apart).  Overlap is remembered, *)
(* and nothing is claimed of what comes after it.                          *)
(*                                                                         *)
(* And what holds of AndroidLoop for queues of any capacity and any number *)
(* of coroutines: what is stored and shown, and what becomes of the files. *)
(***************************************************************************)
EXTENDS AndroidService, AndroidLoop, FiniteSetTheorems, SequenceTheorems, TLAPS

(* Instances are created in order, each with a channel of its own, and     *)
(* only the newest is live.                                                *)
InOrder ==
  /\ \A i \in Instance : instance[i] = "unborn" <=> i > channel
  /\ \A i \in Instance : instance[i] = "created" => i = channel
  /\ created <= channel

(* A listener was started by an instance, and waits for a service and runs *)
(* it, on the channel of its instance while that is live.                  *)
Started ==
  \A l \in Listener :
    /\ listener[l].at = "none" => listener[l] = NoListener
    /\ listener[l].at # "none" => listener[l].of \in 1..channel
    /\ listener[l].service <= created
    /\ listener[l].at \in {"waiting", "prepared", "running"} => listener[l].service # 0
    /\ listener[l].at = "running" /\ OfInstance(l, {"created"})
         => listener[l].quit = channel

(* One loop at most runs, and what was taken was taken by a loop.          *)
Turns ==
  /\ \A k, l \in Running : k = l
  /\ \A s \in taken : \E l \in Listener :
       /\ listener[l].service = s
       /\ listener[l].at \in {"running", "returned", "cancelled"}

(* Without overlap, one instance is alive at most, the newest; the service *)
(* is there until that instance takes it away, and is its own; and no loop *)
(* of a live instance has been told to quit.                               *)
Apart ==
  ~overlap =>
    /\ \A i \in Instance : instance[i] \in {"created"} \cup Cleanup => i = channel
    /\ SERVICE # None
         <=> \E i \in Instance : instance[i] \in {"created", "destroyed", "signalled"}
    /\ \A l \in Listener :
         /\ listener[l].service = SERVICE => listener[l].of = channel
         /\ listener[l].signal \/ listener[l].at = "returned"
              => ~OfInstance(l, {"created"})
    /\ \A k, l \in Listener :
         listener[k].service = listener[l].service /\ listener[k].service # 0
           => listener[k].of = listener[l].of

(* An instance that was started once has one listener.                     *)
Once ==
  ~twice => \A k, l \in Listener :
              listener[k].of = listener[l].of /\ listener[k].of # 0 => k = l

IInv ==
  /\ TypeOK /\ InOrder /\ Started /\ Turns /\ Apart /\ Once /\ CrashExplained

-----------------------------------------------------------------------------
LEMMA InitInv == Init => IInv
<1> SUFFICES ASSUME Init PROVE IInv
  OBVIOUS
<1>1. /\ instance = [i \in Instance |-> "unborn"]
      /\ SERVICE = None /\ created = 0 /\ channel = 0 /\ taken = {}
      /\ listener = [l \in Listener |-> NoListener]
      /\ crash = "no"
  BY DEF Init
<1>2. overlap = FALSE /\ twice = FALSE
  BY DEF Init
<1>3. Instances \in Nat /\ None \notin Nat
  BY AndroidServiceAssumption
<1>4. NoListener \in ListenerState
  BY <1>3 DEF NoListener, ListenerState
<1>5. TypeOK
  <2>1. {overlap, twice} \subseteq BOOLEAN
    BY <1>2, Zenon
  <2> QED
    BY <1>1, <1>3, <1>4, <2>1 DEF TypeOK, InstanceState
<1>6. InOrder
  BY <1>1, <1>3 DEF InOrder, Instance
<1>7. Started
  BY <1>1 DEF Started, NoListener
<1>8. Turns
  BY <1>1 DEF Turns, Running, NoListener
<1>9. Apart
  BY <1>1, <1>3 DEF Apart, NoListener, Cleanup
<1>10. Once
  BY <1>1 DEF Once, NoListener
<1>11. CrashExplained
  BY <1>1 DEF CrashExplained
<1> QED
  BY <1>5, <1>6, <1>7, <1>8, <1>9, <1>10, <1>11 DEF IInv

LEMMA CreateStep ==
  ASSUME IInv, NEW i \in Instance, Create(i)
  PROVE  IInv'
<1> USE AndroidServiceAssumption DEF Instance
<1>1. /\ crash = "no" /\ instance[i] = "unborn"
      /\ \A j \in Instance : /\ j < i => instance[j] \notin {"unborn", "created"}
                             /\ j > i => instance[j] = "unborn"
  BY DEF Create, MayCreate
<1>2. /\ instance' = [instance EXCEPT ![i] = "created"]
      /\ channel' = channel + 1
      /\ UNCHANGED <<listener, taken, crash, twice>>
  BY DEF Create
<1>3. \/ SERVICE = None /\ SERVICE' = created + 1 /\ created' = created + 1
      \/ SERVICE # None /\ UNCHANGED <<SERVICE, created>>
  BY DEF Create
<1>4. TypeOK /\ InOrder /\ Started /\ Turns /\ Apart /\ Once
  BY DEF IInv
<1>5. overlap' <=> overlap \/ \E j \in Instance : instance[j] \in Cleanup
  BY DEF Create
<1>6. /\ instance \in [Instance -> InstanceState]
      /\ channel \in 0..Instances /\ created \in 0..Instances
      /\ listener \in [Listener -> ListenerState]
  BY <1>4 DEF TypeOK
<1>7. i = channel + 1
  <2>1. i > channel
    BY <1>1, <1>4 DEF InOrder
  <2>2. ~(channel + 1 < i)
    BY <1>1, <1>4, <1>6 DEF InOrder
  <2> QED
    BY <1>6, <2>1, <2>2
<1>8. \A l \in Listener : listener[l].of \in 0..channel
  BY <1>4, <1>6 DEF Started, NoListener
<1>9. InOrder'
  BY <1>1, <1>2, <1>3, <1>4, <1>6, <1>7 DEF InOrder
<1>10. \A l \in Listener : ~OfInstance(l, {"created"})'
  BY <1>1, <1>2, <1>6, <1>7, <1>8 DEF OfInstance, InOrder
<1>11. Started'
  BY <1>2, <1>3, <1>4, <1>6, <1>10 DEF Started, ListenerState
<1>12. Turns'
  BY <1>2, <1>4 DEF Turns, Running
<1>13. Apart'
  <2> SUFFICES ASSUME ~overlap' PROVE Apart'
    BY DEF Apart
  <2>1. ~overlap /\ \A j \in Instance : instance[j] \notin Cleanup
    BY <1>5
  <2>2. \A j \in Instance : j # i => instance[j] # "created"
    BY <1>1
  <2>3. SERVICE = None
    BY <1>4, <2>1, <2>2, <1>1 DEF Apart, Cleanup
  <2>4. SERVICE' = created + 1 /\ SERVICE' # None
    BY <1>3, <1>6, <2>3
  <2>5. /\ instance'[i] = "created"
        /\ \A j \in Instance : j # i => instance'[j] = instance[j]
    BY <1>2, <1>6
  <2>6. \A j \in Instance : instance'[j] \in {"created"} \cup Cleanup => j = channel'
    BY <1>2, <1>7, <2>1, <2>2, <2>5
  <2>7. \A l \in Listener : listener[l].service <= created /\ listener[l].service \in Nat
    BY <1>4, <1>6 DEF Started, ListenerState
  <2>8. \A l \in Listener : listener'[l].service # SERVICE'
    BY <1>2, <1>6, <2>4, <2>7
  <2>9. \A k, l \in Listener :
          listener[k].service = listener[l].service /\ listener[k].service # 0
            => listener[k].of = listener[l].of
    BY <1>4, <2>1 DEF Apart
  <2> QED
    BY <1>2, <1>10, <2>4, <2>5, <2>6, <2>8, <2>9 DEF Apart
<1>14. Once'
  BY <1>2, <1>4 DEF Once
<1>15. CrashExplained'
  BY <1>1, <1>2 DEF CrashExplained
<1>16. TypeOK'
  <2>1. /\ SERVICE' \in 1..created' \cup {None} /\ created' \in 0..Instances
        /\ taken' \subseteq 1..created' /\ channel' \in 0..Instances
    BY <1>2, <1>3, <1>4, <1>6, <1>7 DEF TypeOK, InOrder
  <2>2. {overlap, twice}' \subseteq BOOLEAN
    <3>1. twice' \in BOOLEAN
      BY <1>2, <1>4 DEF TypeOK
    <3>2. overlap' \in BOOLEAN
      BY Zenon DEF Create
    <3> QED
      BY <3>1, <3>2
  <2>3. instance' \in [Instance -> InstanceState]
    BY <1>2, <1>6 DEF InstanceState
  <2> QED
    BY <1>2, <1>4, <2>1, <2>2, <2>3 DEF TypeOK
<1> QED
  BY <1>9, <1>11, <1>12, <1>13, <1>14, <1>15, <1>16 DEF IInv

LEMMA StartStep ==
  ASSUME IInv, NEW i \in Instance, NEW l \in Listener, StartCommand(i, l)
  PROVE  IInv'
<1> USE AndroidServiceAssumption DEF Instance
<1>1. /\ crash = "no" /\ instance[i] = "created" /\ listener[l] = NoListener
      /\ listener' = [listener EXCEPT ![l].at = "launched", ![l].of = i]
      /\ UNCHANGED <<instance, SERVICE, created, channel, taken, crash, overlap>>
  BY DEF StartCommand, Launch
<1>2. twice' <=> twice \/ \E k \in Listener : listener[k].of = i
  BY DEF StartCommand, Launch
<1>3. TypeOK /\ InOrder /\ Started /\ Turns /\ Apart /\ Once
  BY DEF IInv
<1>4. /\ listener \in [Listener -> ListenerState]
      /\ SERVICE \in 1..created \cup {None} /\ created \in 0..Instances
      /\ channel \in 0..Instances
  BY <1>3 DEF TypeOK
<1> DEFINE new == [at |-> "launched", of |-> i, service |-> 0, quit |-> 0,
                   signal |-> FALSE]
<1>5. listener' = [listener EXCEPT ![l] = new]
  BY <1>1, <1>4 DEF NoListener
<1>6. /\ new.at = "launched" /\ new.of = i /\ new.service = 0 /\ new.signal = FALSE
      /\ new \in ListenerState
  BY DEF ListenerState
<1> HIDE DEF new
<1>7. i \in 1..channel
  BY <1>1, <1>3, <1>4 DEF InOrder
<1>8. /\ listener'[l] = new
      /\ \A k \in Listener : k # l => listener'[k] = listener[k]
      /\ listener' \in [Listener -> ListenerState]
  BY <1>4, <1>5, <1>6
<1>9. TypeOK'
  <2>1. {overlap, twice}' \subseteq BOOLEAN
    <3>1. overlap' \in BOOLEAN
      BY <1>1, <1>3 DEF TypeOK
    <3>2. twice' \in BOOLEAN
      BY Zenon DEF StartCommand, Launch
    <3> QED
      BY <3>1, <3>2
  <2> QED
    BY <1>1, <1>3, <1>8, <2>1 DEF TypeOK
<1>10. InOrder'
  BY <1>1, <1>3 DEF InOrder
<1>11. Started'
  BY <1>1, <1>3, <1>4, <1>6, <1>7, <1>8 DEF Started, OfInstance
<1>12. Turns'
  <2>1. listener[l].at = "none"
    BY <1>1 DEF NoListener
  <2>2. Running' = Running
    BY <1>6, <1>8, <2>1 DEF Running
  <2>3. \A s \in taken : \E k \in Listener :
          /\ listener'[k].service = s
          /\ listener'[k].at \in {"running", "returned", "cancelled"}
    BY <1>3, <1>8, <2>1 DEF Turns
  <2> QED
    BY <1>1, <1>3, <2>2, <2>3 DEF Turns
<1>13. Apart'
  <2> SUFFICES ASSUME ~overlap PROVE Apart'
    BY <1>1 DEF Apart
  <2>1. SERVICE # 0
    BY <1>4
  <2>2. \A k \in Listener :
          /\ listener'[k].service = SERVICE' => listener'[k].of = channel'
          /\ listener'[k].signal \/ listener'[k].at = "returned"
               => ~OfInstance(k, {"created"})'
    <3> SUFFICES ASSUME NEW k \in Listener
                 PROVE  /\ listener'[k].service = SERVICE' => listener'[k].of = channel'
                        /\ listener'[k].signal \/ listener'[k].at = "returned"
                             => ~OfInstance(k, {"created"})'
      OBVIOUS
    <3>1. CASE k = l
      BY <1>1, <1>6, <1>8, <2>1, <3>1
    <3>2. CASE k # l
      BY <1>1, <1>3, <1>8, <3>2 DEF Apart, OfInstance
    <3> QED
      BY <3>1, <3>2
  <2>3. \A k, m \in Listener :
          listener'[k].service = listener'[m].service /\ listener'[k].service # 0
            => listener'[k].of = listener'[m].of
    BY <1>3, <1>6, <1>8 DEF Apart
  <2> QED
    BY <1>1, <1>3, <2>2, <2>3 DEF Apart
<1>14. Once'
  BY <1>2, <1>3, <1>6, <1>8 DEF Once
<1>15. CrashExplained'
  BY <1>1 DEF CrashExplained
<1> QED
  BY <1>9, <1>10, <1>11, <1>12, <1>13, <1>14, <1>15 DEF IInv

(* The cleanup of an instance, and its beginning.                          *)
LEMMA DestroyStep ==
  ASSUME IInv, NEW i \in Instance,
         Destroy(i) \/ TakeService(i) \/ CancelScope(i)
  PROVE  IInv'
<1> USE AndroidServiceAssumption DEF Instance
<1>1. /\ crash = "no"
      /\ UNCHANGED <<created, channel, listener, taken, crash, overlap, twice>>
  BY DEF Destroy, TakeService, CancelScope
<1>2. \/ /\ instance[i] = "created"
         /\ instance' = [instance EXCEPT ![i] = "destroyed"]
         /\ SERVICE' = SERVICE
      \/ /\ instance[i] = "signalled"
         /\ instance' = [instance EXCEPT ![i] = "stopped"]
         /\ SERVICE' = None
      \/ /\ instance[i] = "stopped"
         /\ instance' = [instance EXCEPT ![i] = "over"]
         /\ SERVICE' = SERVICE
  BY DEF Destroy, TakeService, CancelScope
<1>3. TypeOK /\ InOrder /\ Started /\ Turns /\ Apart /\ Once
  BY DEF IInv
<1>4. instance \in [Instance -> InstanceState]
  BY <1>3 DEF TypeOK
<1>5. TypeOK'
  BY <1>1, <1>2, <1>3 DEF TypeOK, InstanceState
<1>6. InOrder'
  BY <1>1, <1>2, <1>3, <1>4 DEF InOrder
<1>7. \A l \in Listener : OfInstance(l, {"created"})' => OfInstance(l, {"created"})
  BY <1>1, <1>2, <1>4 DEF OfInstance
<1>8. Started'
  BY <1>1, <1>3, <1>7 DEF Started, NoListener
<1>9. Turns'
  BY <1>1, <1>3 DEF Turns, Running
<1>10. Apart'
  <2> SUFFICES ASSUME ~overlap PROVE Apart'
    BY <1>1 DEF Apart
  <2>1. \A j \in Instance : instance[j] \in {"created"} \cup Cleanup => j = channel
    BY <1>3 DEF Apart
  <2>2. \A j \in Instance : instance'[j] \in {"created"} \cup Cleanup => j = channel
    BY <1>2, <1>4, <2>1 DEF Cleanup
  <2>3. SERVICE' # None
         <=> \E j \in Instance : instance'[j] \in {"created", "destroyed", "signalled"}
    <3>1. i = channel
      BY <1>2, <2>1 DEF Cleanup
    <3>2. SERVICE # None
           <=> \E j \in Instance : instance[j] \in {"created", "destroyed", "signalled"}
      BY <1>3 DEF Apart
    <3>3. CASE instance'[i] = "destroyed"
      BY <1>2, <1>4, <3>2, <3>3
    <3>4. CASE instance'[i] \in {"stopped", "over"}
      BY <1>2, <1>4, <2>2, <3>1, <3>2, <3>4 DEF Cleanup
    <3> QED
      BY <1>2, <1>4, <3>3, <3>4
  <2>4. \A l \in Listener : /\ listener[l].service \in Nat
                            /\ listener[l].service = SERVICE' => listener[l].of = channel
    BY <1>2, <1>3 DEF Apart, TypeOK, ListenerState
  <2>5. \A l \in Listener : listener[l].signal \/ listener[l].at = "returned"
                              => ~OfInstance(l, {"created"})'
    BY <1>3, <1>7 DEF Apart
  <2> QED
    BY <1>1, <1>3, <2>2, <2>3, <2>4, <2>5 DEF Apart
<1>11. Once'
  BY <1>1, <1>3 DEF Once
<1>12. CrashExplained'
  BY <1>1 DEF CrashExplained
<1> QED
  BY <1>5, <1>6, <1>8, <1>9, <1>10, <1>11, <1>12 DEF IInv

(* A listener that is told to quit is otherwise the same.                  *)
LEMMA Told ==
  ASSUME NEW r \in ListenerState
  PROVE  LET q == [r EXCEPT !.signal = TRUE] IN
         /\ q \in ListenerState
         /\ q.at = r.at /\ q.of = r.of /\ q.service = r.service /\ q.quit = r.quit
BY DEF ListenerState

LEMMA BroadcastStep ==
  ASSUME IInv, NEW i \in Instance, BroadcastQuit(i)
  PROVE  IInv'
<1> USE AndroidServiceAssumption DEF Instance
<1>1. /\ crash = "no" /\ instance[i] = "destroyed"
      /\ instance' = [instance EXCEPT ![i] = "signalled"]
      /\ UNCHANGED <<SERVICE, created, channel, taken, crash, overlap, twice>>
  BY DEF BroadcastQuit
<1>2. listener' = [l \in Listener |->
                     IF l \in Running /\ listener[l].quit = channel
                       THEN [listener[l] EXCEPT !.signal = TRUE] ELSE listener[l]]
  BY DEF BroadcastQuit
<1>3. TypeOK /\ InOrder /\ Started /\ Turns /\ Apart /\ Once
  BY DEF IInv
<1>4. /\ instance \in [Instance -> InstanceState]
      /\ listener \in [Listener -> ListenerState]
  BY <1>3 DEF TypeOK
<1>5. \A l \in Listener :
        /\ listener'[l] \in ListenerState
        /\ listener'[l].at = listener[l].at /\ listener'[l].of = listener[l].of
        /\ listener'[l].service = listener[l].service
        /\ listener'[l].quit = listener[l].quit
        /\ l \notin Running => listener'[l] = listener[l]
  <2> TAKE l \in Listener
  <2>1. listener'[l] = [listener[l] EXCEPT !.signal = TRUE] \/ listener'[l] = listener[l]
    BY <1>2
  <2>2. l \notin Running => listener'[l] = listener[l]
    BY <1>2
  <2>3. listener[l] \in ListenerState
    BY <1>4
  <2> QED
    BY <2>1, <2>2, <2>3, Told
<1>6. Running' = Running
  BY <1>5 DEF Running
<1>7. TypeOK'
  BY <1>1, <1>2, <1>3, <1>5 DEF TypeOK, InstanceState
<1>8. InOrder'
  BY <1>1, <1>3, <1>4 DEF InOrder
<1>9. \A l \in Listener : OfInstance(l, {"created"})' => OfInstance(l, {"created"})
  BY <1>1, <1>4, <1>5 DEF OfInstance
<1>10. Started'
  BY <1>1, <1>3, <1>5, <1>9 DEF Started, Running
<1>11. Turns'
  BY <1>1, <1>3, <1>5, <1>6 DEF Turns
<1>12. Apart'
  <2> SUFFICES ASSUME ~overlap PROVE Apart'
    BY <1>1 DEF Apart
  <2>1. \A j \in Instance : instance[j] \in {"created"} \cup Cleanup => j = channel
    BY <1>3 DEF Apart
  <2>2. \A j \in Instance : instance'[j] \in {"created"} \cup Cleanup => j = channel
    BY <1>1, <1>4, <2>1 DEF Cleanup
  <2>3. SERVICE # None
         <=> \E j \in Instance : instance'[j] \in {"created", "destroyed", "signalled"}
    BY <1>1, <1>3, <1>4 DEF Apart
  <2>4. \A j \in Instance : instance'[j] # "created"
    BY <1>1, <1>4, <2>1 DEF Cleanup
  <2>5. \A l \in Listener : ~OfInstance(l, {"created"})'
    BY <2>4 DEF OfInstance
  <2> QED
    BY <1>1, <1>3, <1>5, <2>2, <2>3, <2>5 DEF Apart
<1>13. Once'
  BY <1>1, <1>3, <1>5 DEF Once
<1>14. CrashExplained'
  BY <1>1 DEF CrashExplained
<1> QED
  BY <1>7, <1>8, <1>10, <1>11, <1>12, <1>13, <1>14 DEF IInv

-----------------------------------------------------------------------------
(* A listener that goes from one point to another is otherwise the same.   *)
LEMMA Moved ==
  ASSUME listener \in [Listener -> ListenerState], NEW l \in Listener,
         NEW point \in {"prepared", "returned", "cancelled"}, MoveTo(l, point)
  PROVE  /\ listener' \in [Listener -> ListenerState]
         /\ \A k \in Listener : k # l => listener'[k] = listener[k]
         /\ listener'[l].at = point
         /\ \A k \in Listener : /\ listener'[k].of = listener[k].of
                                /\ listener'[k].service = listener[k].service
                                /\ listener'[k].quit = listener[k].quit
                                /\ listener'[k].signal = listener[k].signal
<1>1. listener[l] \in ListenerState
  OBVIOUS
<1>2. [listener[l] EXCEPT !.at = point] \in ListenerState
  BY <1>1 DEF ListenerState
<1>3. listener' = [listener EXCEPT ![l] = [listener[l] EXCEPT !.at = point]]
  BY DEF MoveTo
<1>4. /\ listener'[l] = [listener[l] EXCEPT !.at = point]
      /\ \A k \in Listener : k # l => listener'[k] = listener[k]
  BY <1>3
<1>5. /\ listener'[l].at = point
      /\ listener'[l].of = listener[l].of
      /\ listener'[l].service = listener[l].service
      /\ listener'[l].quit = listener[l].quit
      /\ listener'[l].signal = listener[l].signal
  BY <1>1, <1>4 DEF ListenerState
<1> QED
  BY <1>2, <1>3, <1>4, <1>5

(* To the lock, to the end, or cancelled.                                  *)
LEMMA MoveStep ==
  ASSUME IInv, NEW l \in Listener,
         Prepare(l) \/ Quit(l) \/ Cancel(l) \/ CancelAmid(l)
  PROVE  IInv'
<1> USE AndroidServiceAssumption DEF Instance
<1>1. /\ crash = "no"
      /\ UNCHANGED <<instance, SERVICE, created, channel, taken, crash, overlap, twice>>
  BY DEF Prepare, Quit, Cancel, CancelAmid, DropFuture, Spinning
<1>2. PICK point \in {"prepared", "returned", "cancelled"} :
        /\ MoveTo(l, point)
        /\ listener[l].at # "none"
        /\ point = "prepared" => listener[l].at = "waiting"
        /\ point = "returned" => listener[l].signal
  BY DEF Prepare, Quit, Cancel, CancelAmid, DropFuture, Spinning
<1>3. TypeOK /\ InOrder /\ Started /\ Turns /\ Apart /\ Once
  BY DEF IInv
<1>4. listener \in [Listener -> ListenerState]
  BY <1>3 DEF TypeOK
<1>5. /\ listener' \in [Listener -> ListenerState]
      /\ \A k \in Listener : k # l => listener'[k] = listener[k]
      /\ listener'[l].at = point
      /\ \A k \in Listener : /\ listener'[k].of = listener[k].of
                             /\ listener'[k].service = listener[k].service
                             /\ listener'[k].quit = listener[k].quit
                             /\ listener'[k].signal = listener[k].signal
  BY <1>2, <1>4, Moved
<1>6. TypeOK'
  BY <1>1, <1>3, <1>5 DEF TypeOK
<1>7. InOrder'
  BY <1>1, <1>3 DEF InOrder
<1>8. \A k \in Listener : OfInstance(k, {"created"})' <=> OfInstance(k, {"created"})
  BY <1>1, <1>5 DEF OfInstance
<1>9. Started'
  BY <1>1, <1>2, <1>3, <1>5, <1>8 DEF Started
<1>10. Turns'
  <2>1. Running' \subseteq Running
    BY <1>5 DEF Running
  <2>2. ASSUME NEW s \in taken
        PROVE  \E k \in Listener :
                 /\ listener'[k].service = s
                 /\ listener'[k].at \in {"running", "returned", "cancelled"}
    <3>1. PICK k \in Listener : /\ listener[k].service = s
                                /\ listener[k].at \in {"running", "returned", "cancelled"}
      BY <1>3 DEF Turns
    <3>2. listener'[k].at \in {"running", "returned", "cancelled"}
      BY <1>2, <1>5, <3>1
    <3> QED
      BY <1>5, <3>1, <3>2
  <2> QED
    BY <1>1, <1>3, <2>1, <2>2 DEF Turns
<1>11. Apart'
  <2> SUFFICES ASSUME ~overlap PROVE Apart'
    BY <1>1 DEF Apart
  <2>1. \A k \in Listener : listener'[k].signal \/ listener'[k].at = "returned"
                              => ~OfInstance(k, {"created"})'
    BY <1>2, <1>3, <1>5, <1>8 DEF Apart
  <2> QED
    BY <1>1, <1>3, <1>5, <2>1 DEF Apart
<1>12. Once'
  BY <1>1, <1>3, <1>5 DEF Once
<1>13. CrashExplained'
  BY <1>1 DEF CrashExplained
<1> QED
  BY <1>6, <1>7, <1>9, <1>10, <1>11, <1>12, <1>13 DEF IInv

(* What the coroutine of l was started for is born.                        *)
LEMMA OfBorn ==
  ASSUME TypeOK, InOrder, Started, NEW l \in Listener, listener[l].at # "none"
  PROVE  /\ listener[l].of \in Instance /\ listener[l].of # 0
         /\ instance[listener[l].of] # "unborn"
<1>1. listener[l].of \in 1..channel /\ channel \in 0..Instances
  BY DEF Started, TypeOK
<1> QED
  BY <1>1, AndroidServiceAssumption DEF Instance, InOrder

LEMMA GetServiceStep ==
  ASSUME IInv, NEW l \in Listener, GetService(l)
  PROVE  IInv'
<1> USE AndroidServiceAssumption DEF Instance
<1>1. /\ crash = "no" /\ listener[l].at = "launched" /\ ~OfInstance(l, {"over"})
      /\ UNCHANGED <<instance, SERVICE, created, channel, taken, overlap, twice>>
  BY DEF GetService
<1>2. TypeOK /\ InOrder /\ Started /\ Turns /\ Apart /\ Once
  BY DEF IInv
<1>3. /\ instance \in [Instance -> InstanceState]
      /\ listener \in [Listener -> ListenerState]
      /\ SERVICE \in 1..created \cup {None} /\ created \in 0..Instances
  BY <1>2 DEF TypeOK
<1>4. listener[l].of \in Instance /\ instance[listener[l].of] \in {"created"} \cup Cleanup
  BY <1>1, <1>2, <1>3, OfBorn DEF OfInstance, InstanceState, Cleanup
<1>5. ASSUME SERVICE = None, crash' = "access", listener' = listener
      PROVE  IInv'
  <2>1. overlap \/ \E i \in Instance : instance[i] = "stopped"
    BY <1>2, <1>4, <1>5 DEF Apart, Cleanup
  <2>2. CrashExplained'
    BY <1>1, <1>5, <2>1 DEF CrashExplained
  <2>3. TypeOK'
    BY <1>1, <1>2, <1>5 DEF TypeOK
  <2>4. InOrder' /\ Started' /\ Turns' /\ Apart' /\ Once'
    BY <1>1, <1>2, <1>5
    DEF InOrder, Started, OfInstance, Turns, Running, Apart, Once, NoListener
  <2> QED
    BY <2>2, <2>3, <2>4 DEF IInv
<1>6. ASSUME SERVICE # None, crash' = crash,
             listener' = [listener EXCEPT ![l].at = "waiting", ![l].service = SERVICE]
      PROVE  IInv'
  <2> DEFINE new == [listener[l] EXCEPT !.at = "waiting", !.service = SERVICE]
  <2>1. SERVICE \in 1..created /\ SERVICE \in 0..Instances
    BY <1>3, <1>6
  <2>2. listener[l] \in ListenerState
    BY <1>3
  <2>3. /\ new \in ListenerState
        /\ new.at = "waiting" /\ new.service = SERVICE
        /\ new.of = listener[l].of /\ new.quit = listener[l].quit
        /\ new.signal = listener[l].signal
    BY <2>1, <2>2 DEF ListenerState
  <2>4. listener' = [listener EXCEPT ![l] = new]
    BY <1>3, <1>6
  <2> HIDE DEF new
  <2>5. /\ listener' \in [Listener -> ListenerState]
        /\ listener'[l] = new
        /\ \A k \in Listener : k # l => listener'[k] = listener[k]
        /\ \A k \in Listener : listener'[k].of = listener[k].of
    BY <1>3, <2>3, <2>4
  <2>6. TypeOK'
    BY <1>1, <1>2, <1>6, <2>5 DEF TypeOK
  <2>7. InOrder'
    BY <1>1, <1>2 DEF InOrder
  <2>8. \A k \in Listener : OfInstance(k, {"created"})' <=> OfInstance(k, {"created"})
    BY <1>1, <2>5 DEF OfInstance
  <2>9. Started'
    BY <1>1, <1>2, <1>3, <2>1, <2>3, <2>5, <2>8 DEF Started
  <2>10. Turns'
    <3>1. Running' = Running
      BY <1>1, <2>3, <2>5 DEF Running
    <3>2. \A s \in taken : \E k \in Listener :
            /\ listener'[k].service = s
            /\ listener'[k].at \in {"running", "returned", "cancelled"}
      BY <1>1, <1>2, <2>5 DEF Turns
    <3> QED
      BY <1>1, <1>2, <3>1, <3>2 DEF Turns
  <2>11. Apart'
    <3> SUFFICES ASSUME ~overlap PROVE Apart'
      BY <1>1 DEF Apart
    <3>1. listener[l].of = channel
      BY <1>2, <1>4 DEF Apart
    <3>2. \A k \in Listener : listener'[k].service = SERVICE => listener'[k].of = channel
      BY <1>2, <2>5, <3>1 DEF Apart
    <3>3. ASSUME NEW k \in Listener, listener'[k].signal \/ listener'[k].at = "returned"
          PROVE  ~OfInstance(k, {"created"})'
      <4>1. CASE k = l
        <5>1. listener[k].signal
          BY <2>3, <2>5, <3>3, <4>1
        <5> QED
          BY <1>2, <2>8, <5>1 DEF Apart
      <4>2. CASE k # l
        <5>1. listener[k].signal \/ listener[k].at = "returned"
          BY <2>5, <3>3, <4>2
        <5> QED
          BY <1>2, <2>8, <5>1 DEF Apart
      <4> QED
        BY <4>1, <4>2
    <3>4. \A k, m \in Listener :
            listener'[k].service = listener'[m].service /\ listener'[k].service # 0
              => listener'[k].of = listener'[m].of
      BY <1>2, <2>3, <2>5, <3>1 DEF Apart
    <3> QED
      BY <1>1, <1>2, <3>2, <3>3, <3>4 DEF Apart
  <2>12. Once'
    BY <1>1, <1>2, <2>5 DEF Once
  <2>13. CrashExplained'
    BY <1>1, <1>6 DEF CrashExplained
  <2> QED
    BY <2>6, <2>7, <2>9, <2>10, <2>11, <2>12, <2>13 DEF IInv
<1> QED
  BY <1>5, <1>6 DEF GetService

LEMMA RunStep ==
  ASSUME IInv, NEW l \in Listener, Run(l)
  PROVE  IInv'
<1> USE AndroidServiceAssumption DEF Instance
<1>1. /\ crash = "no" /\ listener[l].at = "prepared" /\ Running = {}
      /\ UNCHANGED <<instance, SERVICE, created, channel, overlap, twice>>
  BY DEF Run, EnterLoop
<1>2. TypeOK /\ InOrder /\ Started /\ Turns /\ Apart /\ Once
  BY DEF IInv
<1>3. /\ listener \in [Listener -> ListenerState]
      /\ created \in 0..Instances /\ channel \in 0..Instances
      /\ taken \subseteq 1..created
  BY <1>2 DEF TypeOK
<1>4. listener[l].service \in 1..created
  BY <1>1, <1>2, <1>3 DEF Started, ListenerState
<1>5. ASSUME listener[l].service \in taken, crash' = "panic",
             listener' = listener, taken' = taken
      PROVE  IInv'
  <2>1. PICK k \in Listener : /\ listener[k].service = listener[l].service
                              /\ listener[k].at \in {"running", "returned", "cancelled"}
    BY <1>2, <1>5 DEF Turns
  <2>2. k # l
    BY <1>1, <2>1
  <2>3. listener[k].of # 0
    BY <1>2, <2>1, OfBorn
  <2>4. overlap \/ twice
    BY <1>2, <1>4, <2>1, <2>2, <2>3 DEF Apart, Once
  <2>5. CrashExplained'
    BY <1>1, <1>5, <2>4 DEF CrashExplained
  <2>6. TypeOK'
    BY <1>1, <1>2, <1>5 DEF TypeOK
  <2>7. InOrder' /\ Started' /\ Turns' /\ Apart' /\ Once'
    BY <1>1, <1>2, <1>5
    DEF InOrder, Started, OfInstance, Turns, Running, Apart, Once, NoListener
  <2> QED
    BY <2>5, <2>6, <2>7 DEF IInv
<1>6. ASSUME taken' = taken \cup {listener[l].service}, crash' = crash,
             listener' = [listener EXCEPT ![l].at = "running", ![l].quit = channel]
      PROVE  IInv'
  <2> DEFINE new == [listener[l] EXCEPT !.at = "running", !.quit = channel]
  <2>1. listener[l] \in ListenerState
    BY <1>3
  <2>2. /\ new \in ListenerState
        /\ new.at = "running" /\ new.quit = channel
        /\ new.of = listener[l].of /\ new.service = listener[l].service
        /\ new.signal = listener[l].signal
    BY <1>3, <2>1 DEF ListenerState
  <2>3. listener' = [listener EXCEPT ![l] = new]
    BY <1>3, <1>6
  <2> HIDE DEF new
  <2>4. /\ listener' \in [Listener -> ListenerState]
        /\ listener'[l] = new
        /\ \A k \in Listener : k # l => listener'[k] = listener[k]
        /\ \A k \in Listener : /\ listener'[k].of = listener[k].of
                               /\ listener'[k].service = listener[k].service
    BY <1>3, <2>2, <2>3
  <2>5. TypeOK'
    BY <1>1, <1>2, <1>4, <1>6, <2>4 DEF TypeOK
  <2>6. InOrder'
    BY <1>1, <1>2 DEF InOrder
  <2>7. \A k \in Listener : OfInstance(k, {"created"})' <=> OfInstance(k, {"created"})
    BY <1>1, <2>4 DEF OfInstance
  <2>8. Started'
    BY <1>1, <1>2, <1>4, <2>2, <2>4, <2>7 DEF Started
  <2>9. Turns'
    <3>1. Running' = {l}
      BY <1>1, <2>2, <2>4 DEF Running
    <3>2. ASSUME NEW s \in taken'
          PROVE  \E k \in Listener :
                   /\ listener'[k].service = s
                   /\ listener'[k].at \in {"running", "returned", "cancelled"}
      <4>1. CASE s = listener[l].service
        BY <2>2, <2>4, <4>1
      <4>2. CASE s \in taken
        BY <1>1, <1>2, <2>4, <4>2 DEF Turns
      <4> QED
        BY <1>6, <4>1, <4>2
    <3> QED
      BY <3>1, <3>2 DEF Turns
  <2>10. Apart'
    <3> SUFFICES ASSUME ~overlap PROVE Apart'
      BY <1>1 DEF Apart
    <3>1. ASSUME NEW k \in Listener, listener'[k].signal \/ listener'[k].at = "returned"
          PROVE  ~OfInstance(k, {"created"})'
      <4>1. CASE k = l
        <5>1. listener[k].signal
          BY <2>2, <2>4, <3>1, <4>1
        <5> QED
          BY <1>2, <2>7, <5>1 DEF Apart
      <4>2. CASE k # l
        <5>1. listener[k].signal \/ listener[k].at = "returned"
          BY <2>4, <3>1, <4>2
        <5> QED
          BY <1>2, <2>7, <5>1 DEF Apart
      <4> QED
        BY <4>1, <4>2
    <3> QED
      BY <1>1, <1>2, <2>4, <3>1 DEF Apart
  <2>11. Once'
    BY <1>1, <1>2, <2>4 DEF Once
  <2>12. CrashExplained'
    BY <1>1, <1>6 DEF CrashExplained
  <2> QED
    BY <2>5, <2>6, <2>8, <2>9, <2>10, <2>11, <2>12 DEF IInv
<1> QED
  BY <1>5, <1>6 DEF Run, EnterLoop

LEMMA Invariance == Spec => []IInv
<1>1. IInv /\ UNCHANGED vars => IInv'
  BY DEF vars, IInv, TypeOK, InOrder, Started, OfInstance, Turns, Running, Apart, Once,
         NoListener, CrashExplained
<1>2. IInv /\ Next => IInv'
  BY CreateStep, StartStep, DestroyStep, BroadcastStep, GetServiceStep, MoveStep, RunStep
  DEF Next, Stop, Listen
<1> QED
  BY InitInv, <1>1, <1>2, PTL DEF Spec

-----------------------------------------------------------------------------
(* The types; one loop runs at most, and the stop of a live instance       *)
(* reaches it.                                                             *)
THEOREM OneLoopOnItsChannel == Spec => []LoopInv
<1>1. ASSUME IInv, \A k, l \in Running : k = l
      PROVE  OneLoop
  <2>1. CASE Running = {}
    BY <2>1, FS_EmptySet DEF OneLoop
  <2>2. CASE Running # {}
    <3>1. PICK l : Running = {l}
      BY <1>1, <2>2
    <3>2. Cardinality({l}) = 1
      BY FS_Singleton, Zenon
    <3> QED
      BY <3>1, <3>2 DEF OneLoop
  <2> QED
    BY <2>1, <2>2
<1>2. IInv => LoopInv
  BY <1>1 DEF IInv, LoopInv, Turns, Started, QuitReaches, Running
<1> QED
  BY <1>2, Invariance, PTL

(* The process ends only for the reasons given.                            *)
THEOREM EveryCrashIsExplained == Spec => []CrashExplained
<1>1. IInv => CrashExplained
  BY DEF IInv
<1> QED
  BY <1>1, Invariance, PTL

(* Only an overlap makes the loop of a live instance end by itself.        *)
THEOREM ServiceGoesOn == Spec => []ServedUnlessOverlap
<1>1. IInv => ServedUnlessOverlap
  BY DEF IInv, Apart, ServedUnlessOverlap
<1> QED
  BY <1>1, Invariance, PTL

-----------------------------------------------------------------------------
(* AndroidLoop: one service, its queues, and what the application does     *)
(* with what goes through them.                                            *)

(* In the events of a queue there is none of a kind; or the last of a kind *)
(* is this one.                                                            *)
NoneOf(s, kind) == \A i \in DOMAIN s : s[i][1] # kind
LastIs(s, kind, t) ==
  \E i \in DOMAIN s :
    /\ s[i] = <<kind, t>>
    /\ \A j \in DOMAIN s : s[j][1] = kind => j <= i

(* What a handler has still to emit: what it tells of the table is true,   *)
(* for the table does not change while it waits.                           *)
Handlers ==
  /\ at \in {"select", "ended"} => todo = <<>>
  /\ at = "client" => todo = <<Notice>>
  /\ at = "network" =>
       \/ \E f \in File : todo = << <<"FileUpdated", f>> >>
       \/ todo \in {<<List(table)>>, <<Notice, List(table)>>} /\ untold
  /\ at = "saving" =>
       /\ todo = << <<"SavePeers", table>>, Notice, List(table)>>
       /\ saved = table /\ untold
  /\ quit => ~listening
  /\ ~crossed => Len(held) <= 1
  /\ changes + received + restarts <= MaxHandled

(* The last save on its way is of the table last given to save_peers, and  *)
(* without one this is the table in the storage.                           *)
LastSave ==
  ~crossed /\ ~cut =>
    \/ at = "saving"
    \/ LastIs(events, "SavePeers", saved)
    \/ /\ NoneOf(events, "SavePeers")
       /\ \/ LastIs(held, "SavePeers", saved)
          \/ NoneOf(held, "SavePeers") /\ stored = saved

(* The last list on its way is that of the table, and without one it is    *)
(* shown, or came too early.                                               *)
LastList ==
  listening /\ ~untold /\ ~crossed =>
    \/ LastIs(events, "PeerList", table)
    \/ /\ NoneOf(events, "PeerList")
       /\ \/ LastIs(held, "PeerList", table)
          \/ NoneOf(held, "PeerList") /\ (shown = table \/ missed = table)

LoopIInv ==
  LoopTypes /\ Handlers /\ FilesExplained /\ LastSave /\ TableKept /\ LastList

-----------------------------------------------------------------------------
(* Counting the events of a kind.                                          *)
Those(s, kind) == {i \in DOMAIN s : s[i][1] = kind}

LEMMA ThoseAreFinite ==
  ASSUME NEW E, NEW s \in Seq(E), NEW kind
  PROVE  /\ IsFiniteSet(Those(s, kind))
         /\ Count(s, kind) = Cardinality(Those(s, kind))
         /\ Count(s, kind) \in Nat
         /\ DOMAIN s = 1..Len(s) /\ Len(s) \in Nat
<1>1. DOMAIN s = 1..Len(s) /\ Len(s) \in Nat
  BY LenProperties
<1>2. IsFiniteSet(1..Len(s))
  BY <1>1, FS_Interval
<1>3. Those(s, kind) \subseteq 1..Len(s)
  BY <1>1 DEF Those
<1>4. IsFiniteSet(Those(s, kind))
  BY <1>2, <1>3, FS_Subset, Zenon
<1>5. Count(s, kind) = Cardinality(Those(s, kind))
  BY Zenon DEF Count, Those
<1> QED BY <1>1, <1>4, <1>5, FS_CardinalityType

LEMMA CountNone ==
  ASSUME NEW E, NEW s \in Seq(E), NEW kind
  PROVE  Count(s, kind) = 0 <=> NoneOf(s, kind)
<1>1. Cardinality(Those(s, kind)) = 0 <=> Those(s, kind) = {}
  BY ThoseAreFinite, FS_EmptySet
<1>2. Those(s, kind) = {} <=> NoneOf(s, kind)
  BY DEF Those, NoneOf
<1> QED BY <1>1, <1>2, ThoseAreFinite

LEMMA CountEmpty ==
  ASSUME NEW kind
  PROVE  Count(<<>>, kind) = 0 /\ NoneOf(<<>>, kind)
<1>1. <<>> \in Seq({}) /\ NoneOf(<<>>, kind)
  BY DEF NoneOf
<1> QED BY <1>1, CountNone

LEMMA CountAppend ==
  ASSUME NEW E, NEW s \in Seq(E), NEW x \in E, NEW kind
  PROVE  Count(Append(s, x), kind)
           = IF x[1] = kind THEN Count(s, kind) + 1 ELSE Count(s, kind)
<1> DEFINE t == Append(s, x)
           n == Len(s) + 1
<1>1. /\ t \in Seq(E) /\ DOMAIN t = 1..n /\ t[n] = x
      /\ \A i \in 1..Len(s) : t[i] = s[i]
      /\ DOMAIN s = 1..Len(s) /\ Len(s) \in Nat
  BY AppendProperties, LenProperties
<1> HIDE DEF t
<1>2. Those(t, kind) = IF x[1] = kind THEN Those(s, kind) \cup {n}
                       ELSE Those(s, kind)
  BY <1>1 DEF Those
<1>3. n \notin Those(s, kind)
  BY <1>1 DEF Those
<1>4. Count(t, kind) = Cardinality(Those(t, kind))
  BY <1>1, ThoseAreFinite
<1>5. CASE x[1] = kind
  <2>1. Cardinality(Those(s, kind) \cup {n}) = Cardinality(Those(s, kind)) + 1
    BY <1>3, ThoseAreFinite, FS_AddElement
  <2> QED BY <2>1, <1>2, <1>4, <1>5, ThoseAreFinite DEF t
<1>6. CASE x[1] # kind
  BY <1>2, <1>4, <1>6, ThoseAreFinite DEF t
<1> QED BY <1>5, <1>6

(* t is s without what is at i.                                            *)
Without(t, s, i) ==
  /\ Len(t) = Len(s) - 1
  /\ \A j \in 1..Len(t) : t[j] = IF j < i THEN s[j] ELSE s[j + 1]

LEMMA CountWithout ==
  ASSUME NEW E, NEW s \in Seq(E), NEW t \in Seq(E), NEW i \in DOMAIN s,
         Without(t, s, i), NEW kind
  PROVE  Count(t, kind)
           = IF s[i][1] = kind THEN Count(s, kind) - 1 ELSE Count(s, kind)
<1>1. /\ DOMAIN s = 1..Len(s) /\ DOMAIN t = 1..Len(t)
      /\ Len(s) \in Nat /\ Len(t) = Len(s) - 1 /\ Len(t) \in Nat
      /\ i \in 1..Len(s)
  BY LenProperties DEF Without
<1> DEFINE S == Those(s, kind) \ {i}
           T == Those(t, kind)
           f == [j \in T |-> IF j < i THEN j ELSE j + 1]
<1>2. \A j \in T : j \in 1..Len(t) /\ t[j][1] = kind
  BY <1>1 DEF Those
<1>3. \A j \in S : j \in 1..Len(s) /\ s[j][1] = kind /\ j # i
  BY <1>1 DEF Those
<1>4. \A j \in 1..Len(t) : t[j][1] = kind => j \in T
  BY <1>1 DEF Those
<1>5. \A j \in 1..Len(s) : s[j][1] = kind /\ j # i => j \in S
  BY <1>1 DEF Those
<1>6. \A j \in 1..Len(t) : t[j] = IF j < i THEN s[j] ELSE s[j + 1]
  BY Zenon DEF Without
<1>7. IsFiniteSet(T) /\ Count(t, kind) = Cardinality(T)
  BY ThoseAreFinite
<1>8. Cardinality(S) = IF s[i][1] = kind THEN Count(s, kind) - 1 ELSE Count(s, kind)
  <2>1. i \in Those(s, kind) <=> s[i][1] = kind
    BY DEF Those
  <2>2. IsFiniteSet(Those(s, kind)) /\ Count(s, kind) = Cardinality(Those(s, kind))
    BY ThoseAreFinite
  <2>3. Cardinality(S) = IF i \in Those(s, kind) THEN Cardinality(Those(s, kind)) - 1
                         ELSE Cardinality(Those(s, kind))
    BY <2>2, FS_RemoveElement
  <2> HIDE DEF S
  <2> QED BY <2>1, <2>2, <2>3
<1> HIDE DEF S, T
<1>9. \A j \in T : (IF j < i THEN j ELSE j + 1) \in S
  BY <1>1, <1>2, <1>5, <1>6
<1>10. f \in [T -> S]
  BY <1>9
<1>11. \A j, k \in T : f[j] = f[k] => j = k
  BY <1>1, <1>2
<1>12. \A j \in S : \E k \in T : f[k] = j
  <2> SUFFICES ASSUME NEW j \in S
               PROVE  \E k \in T : f[k] = j
    OBVIOUS
  <2>1. CASE j < i
    BY <2>1, <1>1, <1>3, <1>4, <1>6
  <2>2. CASE ~(j < i)
    <3>1. j - 1 \in 1..Len(t) /\ ~(j - 1 < i) /\ (j - 1) + 1 = j
      BY <2>2, <1>1, <1>3
    <3>2. j - 1 \in T
      BY <3>1, <1>3, <1>4, <1>6
    <3> QED BY <3>1, <3>2
  <2> QED BY <2>1, <2>2
<1> HIDE DEF f
<1>13. ExistsBijection(T, S)
  BY <1>10, <1>11, <1>12, Zenon
     DEF ExistsBijection, Bijection, Injection, Surjection, IsInjective
<1>14. Cardinality(S) = Cardinality(T)
  BY <1>7, <1>13, FS_Bijection
<1> QED BY <1>7, <1>8, <1>14

LEMMA TailIsWithout ==
  ASSUME NEW E, NEW s \in Seq(E), s # <<>>
  PROVE  /\ Tail(s) \in Seq(E) /\ Without(Tail(s), s, 1)
         /\ Head(s) = s[1] /\ s[1] \in E /\ 1 \in DOMAIN s
BY HeadTailProperties, LenProperties, EmptySeq DEF Without

LEMMA RemoveAtIsWithout ==
  ASSUME NEW E, NEW s \in Seq(E), NEW i \in DOMAIN s
  PROVE  /\ RemoveAt(s, i) \in Seq(E) /\ Without(RemoveAt(s, i), s, i)
         /\ Len(s) \in Nat \ {0} /\ i \in 1..Len(s) /\ s[i] \in E
<1>1. Len(s) \in Nat /\ i \in 1..Len(s) /\ DOMAIN s = 1..Len(s)
  BY LenProperties
<1> DEFINE a == SubSeq(s, 1, i - 1)
           b == SubSeq(s, i + 1, Len(s))
<1>2. /\ a \in Seq(E) /\ Len(a) = i - 1
      /\ \A j \in 1..(i - 1) : a[j] = s[j]
  BY <1>1, SubSeqProperties
<1>3. /\ b \in Seq(E) /\ Len(b) = Len(s) - i
      /\ \A j \in 1..(Len(s) - i) : b[j] = s[i + j]
  BY <1>1, SubSeqProperties, SMTT(30)
<1> HIDE DEF a, b
<1>4. /\ a \o b \in Seq(E) /\ Len(a \o b) = Len(a) + Len(b)
      /\ \A j \in 1..(Len(a) + Len(b)) :
           (a \o b)[j] = IF j <= Len(a) THEN a[j] ELSE b[j - Len(a)]
  BY <1>2, <1>3, ConcatProperties
<1> DEFINE t == a \o b
<1> HIDE DEF t
<1>5. Len(t) = Len(s) - 1
  BY <1>1, <1>2, <1>3, <1>4 DEF t
<1>6. \A j \in 1..Len(t) : t[j] = IF j < i THEN s[j] ELSE s[j + 1]
  <2> SUFFICES ASSUME NEW j \in 1..Len(t)
               PROVE  t[j] = IF j < i THEN s[j] ELSE s[j + 1]
    OBVIOUS
  <2>1. j \in 1..(Len(a) + Len(b))
    BY <1>1, <1>2, <1>3, <1>5
  <2>2. t[j] = IF j <= Len(a) THEN a[j] ELSE b[j - Len(a)]
    BY <2>1, <1>4 DEF t
  <2>3. CASE j < i
    BY <2>2, <2>3, <1>1, <1>2, <1>5
  <2>4. CASE ~(j < i)
    <3>1. j - (i - 1) \in 1..(Len(s) - i) /\ i + (j - (i - 1)) = j + 1
      BY <2>4, <1>1, <1>5
    <3>2. t[j] = b[j - (i - 1)]
      BY <2>2, <2>4, <1>1, <1>2, <1>5
    <3>3. b[j - (i - 1)] = s[i + (j - (i - 1))]
      BY <3>1, <1>3
    <3>4. t[j] = s[j + 1]
      BY <3>1, <3>2, <3>3
    <3> QED BY <3>4, <2>4
  <2> QED BY <2>3, <2>4
<1>8. RemoveAt(s, i) = t
  BY DEF RemoveAt, a, b, t
<1>7. s[i] \in E
  BY ElementOfSeq, <1>1
<1>9. t \in Seq(E)
  BY <1>4 DEF t
<1>10. Len(s) \in Nat \ {0}
  BY <1>1
<1>11. Without(t, s, i)
  BY <1>5, <1>6, Zenon DEF Without
<1> QED BY <1>1, <1>7, <1>8, <1>9, <1>10, <1>11, Zenon

(* What is at i is one of a kind, and is replaced by one of another.       *)
LEMMA CountReplace ==
  ASSUME NEW E, NEW s \in Seq(E), NEW i \in DOMAIN s, NEW x \in E, NEW kind
  PROVE  /\ [s EXCEPT ![i] = x] \in Seq(E)
         /\ Len([s EXCEPT ![i] = x]) = Len(s)
         /\ x[1] # kind =>
              Count([s EXCEPT ![i] = x], kind)
                = IF s[i][1] = kind THEN Count(s, kind) - 1 ELSE Count(s, kind)
<1> DEFINE t == [s EXCEPT ![i] = x]
<1>1. Len(s) \in Nat /\ i \in 1..Len(s) /\ DOMAIN s = 1..Len(s)
  BY LenProperties
<1>2. t \in Seq(E) /\ Len(t) = Len(s)
  BY ExceptSeq, <1>1
<1>3. \A j \in DOMAIN s : t[j] = IF j = i THEN x ELSE s[j]
  BY <1>1
<1>4. DOMAIN t = DOMAIN s
  BY <1>1
<1> HIDE DEF t
<1>5. ASSUME x[1] # kind
      PROVE  Count(t, kind)
               = IF s[i][1] = kind THEN Count(s, kind) - 1 ELSE Count(s, kind)
  <2>1. Those(t, kind) = Those(s, kind) \ {i}
    BY <1>3, <1>4, <1>5 DEF Those
  <2>2. i \in Those(s, kind) <=> s[i][1] = kind
    BY DEF Those
  <2>3. Count(t, kind) = Cardinality(Those(t, kind))
    BY <1>2, ThoseAreFinite
  <2>4. IsFiniteSet(Those(s, kind)) /\ Count(s, kind) = Cardinality(Those(s, kind))
    BY ThoseAreFinite
  <2>5. Cardinality(Those(s, kind) \ {i})
          = IF i \in Those(s, kind) THEN Cardinality(Those(s, kind)) - 1
            ELSE Cardinality(Those(s, kind))
    BY <2>4, FS_RemoveElement
  <2> QED BY <2>1, <2>2, <2>3, <2>4, <2>5
<1> QED BY <1>2, <1>5 DEF t

-----------------------------------------------------------------------------
(* None and the last of a kind, when a queue changes.                      *)
LEMMA AppendOne ==
  ASSUME NEW E, NEW s \in Seq(E), NEW x \in E, NEW kind, NEW t
  PROVE  /\ x[1] # kind =>
              /\ NoneOf(Append(s, x), kind) <=> NoneOf(s, kind)
              /\ LastIs(Append(s, x), kind, t) <=> LastIs(s, kind, t)
         /\ x = <<kind, t>> => LastIs(Append(s, x), kind, t)
<1> DEFINE a == Append(s, x)
           n == Len(s)
<1>1. /\ n \in Nat /\ DOMAIN s = 1..n /\ DOMAIN a = 1..(n + 1)
      /\ \A i \in 1..n : a[i] = s[i]
      /\ a[n + 1] = x
  BY AppendProperties, LenProperties
<1> HIDE DEF a, n
<1>2. ASSUME x[1] # kind
      PROVE  NoneOf(a, kind) <=> NoneOf(s, kind)
  BY <1>1, <1>2 DEF NoneOf
<1>3. ASSUME x[1] # kind
      PROVE  LastIs(a, kind, t) <=> LastIs(s, kind, t)
  <2>1. ASSUME LastIs(s, kind, t)
        PROVE  LastIs(a, kind, t)
    BY <2>1, <1>1, <1>3 DEF LastIs
  <2>2. ASSUME LastIs(a, kind, t)
        PROVE  LastIs(s, kind, t)
    <3>1. PICK i \in 1..(n + 1) :
                 a[i] = <<kind, t>> /\ \A j \in 1..(n + 1) : a[j][1] = kind => j <= i
      BY <2>2, <1>1 DEF LastIs
    <3>2. i # n + 1
      BY <3>1, <1>1, <1>3
    <3> QED BY <3>1, <3>2, <1>1 DEF LastIs
  <2> QED BY <2>1, <2>2
<1>4. ASSUME x = <<kind, t>>
      PROVE  LastIs(a, kind, t)
  BY <1>1, <1>4 DEF LastIs
<1> QED BY <1>2, <1>3, <1>4 DEF a

LEMMA TailOfLast ==
  ASSUME NEW E, NEW s \in Seq(E), s # <<>>, NEW kind, NEW t
  PROVE  /\ NoneOf(s, kind) => NoneOf(Tail(s), kind) /\ Head(s)[1] # kind
         /\ LastIs(s, kind, t) =>
              \/ LastIs(Tail(s), kind, t)
              \/ NoneOf(Tail(s), kind) /\ Head(s) = <<kind, t>>
<1> DEFINE a == Tail(s)
           n == Len(s)
<1>1. /\ n \in Nat \ {0} /\ DOMAIN s = 1..n /\ DOMAIN a = 1..(n - 1)
      /\ \A i \in 1..(n - 1) : a[i] = s[i + 1]
      /\ Head(s) = s[1]
  BY HeadTailProperties, LenProperties, EmptySeq
<1> HIDE DEF a, n
<1>2. ASSUME NoneOf(s, kind)
      PROVE  NoneOf(a, kind) /\ s[1][1] # kind
  BY <1>1, <1>2 DEF NoneOf
<1>3. ASSUME LastIs(s, kind, t)
      PROVE  LastIs(a, kind, t) \/ (NoneOf(a, kind) /\ s[1] = <<kind, t>>)
  <2>1. PICK i \in 1..n :
               s[i] = <<kind, t>> /\ \A j \in 1..n : s[j][1] = kind => j <= i
    BY <1>1, <1>3 DEF LastIs
  <2>2. CASE i = 1
    <3>1. \A j \in 1..(n - 1) : a[j][1] # kind
      BY <2>1, <2>2, <1>1
    <3> QED BY <3>1, <2>1, <2>2, <1>1 DEF NoneOf
  <2>3. CASE i # 1
    <3>1. i - 1 \in 1..(n - 1) /\ (i - 1) + 1 = i
      BY <2>3, <1>1
    <3>2. a[i - 1] = <<kind, t>>
      BY <3>1, <2>1, <1>1
    <3>3. \A j \in 1..(n - 1) : a[j][1] = kind => j <= i - 1
      BY <2>1, <1>1
    <3> QED BY <3>1, <3>2, <3>3, <1>1, Zenon DEF LastIs
  <2> QED BY <2>2, <2>3
<1> QED BY <1>1, <1>2, <1>3 DEF a

LEMMA ReplaceInQueue ==
  ASSUME NEW E, NEW s \in Seq(E), NEW i \in DOMAIN s, NEW x, NEW kind, NEW t,
         s[i][1] # kind, x[1] # kind
  PROVE  /\ NoneOf([s EXCEPT ![i] = x], kind) <=> NoneOf(s, kind)
         /\ LastIs([s EXCEPT ![i] = x], kind, t) <=> LastIs(s, kind, t)
<1> DEFINE a == [s EXCEPT ![i] = x]
<1>1. /\ DOMAIN a = DOMAIN s
      /\ \A j \in DOMAIN s : a[j] = IF j = i THEN x ELSE s[j]
  OBVIOUS
<1> HIDE DEF a
<1>2. NoneOf(a, kind) <=> NoneOf(s, kind)
  BY <1>1 DEF NoneOf
<1>3. LastIs(a, kind, t) <=> LastIs(s, kind, t)
  <2>1. <<kind, t>>[1] = kind
    OBVIOUS
  <2>2. \A j \in DOMAIN s : a[j] = <<kind, t>> <=> s[j] = <<kind, t>>
    BY <2>1, <1>1
  <2>3. \A j \in DOMAIN s : a[j][1] = kind <=> s[j][1] = kind
    BY <1>1
  <2> QED BY <2>2, <2>3, <1>1 DEF LastIs
<1> QED BY <1>2, <1>3 DEF a

(* A queue of at most one event.                                           *)
LEMMA OnlyOne ==
  ASSUME NEW E, NEW s \in Seq(E), NEW i \in DOMAIN s, Len(s) <= 1, NEW kind, NEW t
  PROVE  /\ LastIs(s, kind, t) => s[i] = <<kind, t>>
         /\ NoneOf(s, kind) <=> s[i][1] # kind
         /\ RemoveAt(s, i) = <<>>
<1>1. DOMAIN s = 1..Len(s) /\ Len(s) \in Nat
  BY LenProperties
<1>2. \A j \in DOMAIN s : j = i
  BY <1>1
<1>3. Len(RemoveAt(s, i)) = 0
  BY <1>1, RemoveAtIsWithout DEF Without
<1>4. RemoveAt(s, i) = <<>>
  BY <1>3, RemoveAtIsWithout, EmptySeq
<1>5. LastIs(s, kind, t) => s[i] = <<kind, t>>
  BY <1>2 DEF LastIs
<1>6. NoneOf(s, kind) <=> s[i][1] # kind
  BY <1>2 DEF NoneOf
<1> QED BY <1>4, <1>5, <1>6

LEMMA OneHeld ==
  ASSUME NEW x, NEW kind, NEW t
  PROVE  /\ Append(<<>>, x) = <<x>>
         /\ x = <<kind, t>> => LastIs(<<x>>, kind, t)
         /\ x[1] # kind => NoneOf(<<x>>, kind)
BY DEF LastIs, NoneOf

(* The events there are.                                                   *)
LEMMA EventForms ==
  ASSUME NEW e \in Event
  PROVE  \/ e[1] \in {"PeerList", "SavePeers"} /\ e[2] \in Table
         \/ e[1] = "Notice"
         \/ e[1] = "FileUpdated" /\ e[2] \in File /\ e = <<"FileUpdated", e[2]>>
BY DEF Event

LEMMA EventKinds ==
  /\ \A t \in Table : List(t) \in Event /\ <<"SavePeers", t>> \in Event
  /\ Notice \in Event
  /\ \A f \in File : <<"FileUpdated", f>> \in Event
  /\ \A t : List(t)[1] = "PeerList" /\ List(t)[2] = t
  /\ Notice[1] = "Notice"
BY DEF Event, List, Notice

-----------------------------------------------------------------------------
(* The initial state, and the handlers that begin.                         *)
LEMMA LoopBegins == LoopInit => LoopIInv
<1> SUFFICES ASSUME LoopInit
             PROVE  LoopIInv
  OBVIOUS
<1>1. LoopTypes
  <2>1. /\ at \in Place /\ <<>> \in Seq(Event)
        /\ <<>> \in Seq(Event \cup {"RegistFileId"} \X File)
        /\ <<>> \in Seq({"RegistFileId", "other"})
    BY DEF LoopInit, Place
  <2>2. {} \in Table /\ placed \subseteq File
    BY DEF LoopInit, Table
  <2>3. /\ Len(events) <= QueueSize /\ Len(requests) <= MaxRequests
        /\ stopped \in Nat /\ Len(held) + stopped <= Receivers
        /\ 0 \in 0..MaxHandled
    BY AndroidLoopAssumption DEF LoopInit
  <2> QED BY <2>1, <2>2, <2>3, Zenon DEF LoopInit, LoopTypes
<1>2. Handlers
  BY AndroidLoopAssumption DEF LoopInit, Handlers
<1>3. FilesExplained
  BY CountEmpty DEF LoopInit, FilesExplained, OnTheirWay
<1>4. LastSave /\ LastList /\ TableKept
  BY CountEmpty DEF LoopInit, LastSave, LastList, TableKept
<1> QED BY <1>1, <1>2, <1>3, <1>4 DEF LoopIInv

(* The numbers of the events on their way.                                 *)
LEMMA Counts ==
  ASSUME LoopTypes, NEW kind
  PROVE  /\ Count(todo, kind) \in Nat /\ Count(events, kind) \in Nat
         /\ Count(held, kind) \in Nat
<1>1. todo \in Seq(Event) /\ events \in Seq(Event)
  BY Zenon DEF LoopTypes
<1>2. held \in Seq(Event \cup {"RegistFileId"} \X File)
  BY Zenon DEF LoopTypes
<1> QED BY <1>1, <1>2, ThoseAreFinite

LEMMA HandlesBegin ==
  ASSUME LoopIInv,
         \/ PeersChange \/ ReceiveRequest \/ ReceiveResponse
         \/ \E f \in File : FileDone(f)
  PROVE  LoopIInv'
<1>1. LoopTypes /\ Handlers /\ FilesExplained /\ LastSave /\ TableKept /\ LastList
  BY DEF LoopIInv
<1>2. /\ at = "select" /\ MoreToCome
      /\ UNCHANGED <<requests, quit, events, held, stopped, listening, collecting,
                     stored, shown, placed, crashed, restarts, cut, late, missed,
                     moved, lost, crossed>>
  BY DEF PeersChange, ReceiveRequest, ReceiveResponse, FileDone, Handle, kotlin,
         store, ends
<1>3. todo = <<>>
  BY <1>1, <1>2 DEF Handlers
<1>4. /\ changes \in 0..MaxHandled /\ received \in 0..MaxHandled
      /\ restarts \in 0..MaxHandled /\ MaxHandled \in Nat
      /\ changes + received + restarts < MaxHandled
  BY <1>1, <1>2, AndroidLoopAssumption DEF LoopTypes, MoreToCome
<1>5. Changed \in Table /\ table \subseteq Changed
  BY <1>1, <1>4 DEF LoopTypes, Table, Changed
<1>6. \/ /\ at' = "network"
         /\ todo' \in {<<List(Changed)>>, <<Notice, List(Changed)>>}
         /\ ChangeTable /\ saved' = saved
      \/ /\ at' = "saving"
         /\ todo' = << <<"SavePeers", Changed>>, Notice, List(Changed)>>
         /\ ChangeTable /\ saved' = Changed
      \/ \E f \in File :
           /\ at' = "network" /\ todo' = << <<"FileUpdated", f>> >>
           /\ received' = received + 1
           /\ UNCHANGED <<table, changes, untold, saved>>
  BY DEF PeersChange, ReceiveRequest, ReceiveResponse, FileDone, Handle
<1>7. CASE /\ ChangeTable
           /\ \/ /\ at' = "network"
                 /\ todo' \in {<<List(Changed)>>, <<Notice, List(Changed)>>}
                 /\ saved' = saved
              \/ /\ at' = "saving"
                 /\ todo' = << <<"SavePeers", Changed>>, Notice, List(Changed)>>
                 /\ saved' = Changed
  <2>1. changes' = changes + 1 /\ table' = Changed /\ untold' = TRUE
        /\ received' = received
    BY <1>7 DEF ChangeTable
  <2>2. todo' \in Seq(Event) /\ NoneOf(todo', "FileUpdated")
    <3>1. /\ List(Changed) \in Event /\ Notice \in Event
          /\ <<"SavePeers", Changed>> \in Event
          /\ List(Changed)[1] = "PeerList" /\ Notice[1] = "Notice"
      BY <1>5, EventKinds
    <3>2. todo' \in Seq(Event)
      <4>1. /\ <<List(Changed)>> \in Seq(Event)
            /\ <<Notice, List(Changed)>> \in Seq(Event)
            /\ << <<"SavePeers", Changed>>, Notice, List(Changed)>> \in Seq(Event)
        BY <3>1
      <4> QED BY <4>1, <1>7, Zenon
    <3>3. \A i \in DOMAIN todo' :
            todo'[i] \in {List(Changed), Notice, <<"SavePeers", Changed>>}
      BY <1>7
    <3>4. \A i \in DOMAIN todo' : todo'[i][1] # "FileUpdated"
      BY <3>1, <3>3
    <3> QED BY <3>2, <3>4 DEF NoneOf
  <2>3. LoopTypes'
    BY <1>1, <1>2, <1>4, <1>5, <1>7, <2>1, <2>2 DEF LoopTypes, Place
  <2>4. Handlers'
    BY <1>1, <1>2, <1>4, <1>7, <2>1 DEF Handlers
  <2>5. FilesExplained'
    <3>1. Count(todo', "FileUpdated") = 0 /\ Count(todo, "FileUpdated") = 0
      BY <1>3, <2>2, CountNone, CountEmpty
    <3> QED BY <3>1, <1>1, <1>2, <2>1 DEF FilesExplained, OnTheirWay
  <2>6. LastSave'
    BY <1>1, <1>2, <1>7 DEF LastSave
  <2>7. TableKept'
    BY <1>1, <1>2, <1>5, <1>7, <2>1 DEF TableKept
  <2>8. LastList'
    BY <2>1 DEF LastList
  <2> QED BY <2>3, <2>4, <2>5, <2>6, <2>7, <2>8 DEF LoopIInv
<1>8. ASSUME NEW f \in File,
             at' = "network", todo' = << <<"FileUpdated", f>> >>,
             received' = received + 1,
             UNCHANGED <<table, changes, untold, saved>>
      PROVE  LoopIInv'
  <2>1. <<"FileUpdated", f>> \in Event
    BY EventKinds
  <2>2. todo' \in Seq(Event)
    BY <1>8, <2>1
  <2>3. LoopTypes'
    BY <1>1, <1>2, <1>4, <1>8, <2>2 DEF LoopTypes, Place
  <2>4. Handlers'
    BY <1>1, <1>2, <1>4, <1>8 DEF Handlers
  <2>5. FilesExplained'
    <3>1. Count(<<>>, "FileUpdated") = 0 /\ <<>> \in Seq(Event)
      BY CountEmpty
    <3>2. todo' = Append(<<>>, <<"FileUpdated", f>>)
      BY <1>8, OneHeld
    <3>3. Count(todo', "FileUpdated") = 1
      <4> DEFINE e == <<"FileUpdated", f>>
      <4>1. e[1] = "FileUpdated" /\ e \in Event
        BY <2>1
      <4> HIDE DEF e
      <4>2. Count(Append(<<>>, e), "FileUpdated") = 0 + 1
        BY <3>1, <4>1, CountAppend, ZenonT(60)
      <4> QED BY <3>2, <4>2 DEF e
    <3>4. moved \in 0..MaxHandled /\ lost \in 0..MaxHandled
      BY <1>1 DEF LoopTypes
    <3> QED BY <3>1, <3>3, <3>4, <1>1, <1>2, <1>3, <1>4, <1>8, Counts
            DEF FilesExplained, OnTheirWay
  <2>6. LastSave' /\ TableKept' /\ LastList'
    BY <1>1, <1>2, <1>8 DEF LastSave, TableKept, LastList
  <2> QED BY <2>3, <2>4, <2>5, <2>6 DEF LoopIInv
<1> QED BY <1>6, <1>7, <1>8

(* What a handler emits, and what it has still to emit.                    *)
LEMMA Emitted ==
  ASSUME LoopIInv, Save \/ Emit
  PROVE  /\ todo # <<>> /\ EmitNext
         /\ \/ /\ at = "saving" /\ at' = "network" /\ saved = table /\ untold
               /\ Head(todo) = <<"SavePeers", saved>>
               /\ todo' = <<Notice, List(table)>>
            \/ /\ at = "network" /\ at' = "select" /\ todo' = <<>>
               /\ \E f \in File : Head(todo) = <<"FileUpdated", f>>
            \/ /\ at = "network" /\ at' = "select" /\ todo' = <<>>
               /\ Head(todo) = List(table) /\ untold
            \/ /\ at = "network" /\ at' = "network" /\ todo' = <<List(table)>>
               /\ Head(todo) = Notice /\ untold
            \/ /\ at = "client" /\ at' = "select" /\ todo' = <<>>
               /\ Head(todo) = Notice
<1>1. EmitNext /\ todo' = Tail(todo)
  BY DEF Save, Emit, EmitNext
<1>2. Handlers
  BY DEF LoopIInv
<1>3. \A x, y, z : /\ Head(<<x>>) = x /\ Tail(<<x>>) = <<>> /\ Len(<<x>>) = 1
                   /\ Head(<<x, y>>) = x /\ Tail(<<x, y>>) = <<y>>
                   /\ Len(<<x, y>>) = 2
                   /\ Head(<<x, y, z>>) = x /\ Tail(<<x, y, z>>) = <<y, z>>
                   /\ <<x>> # <<>> /\ <<x, y>> # <<>> /\ <<x, y, z>> # <<>>
  OBVIOUS
<1>4. CASE Save
  <2>1. /\ at = "saving" /\ at' = "network" /\ saved = table /\ untold
        /\ todo = << <<"SavePeers", table>>, Notice, List(table)>>
    BY <1>2, <1>4 DEF Save, Handlers
  <2> QED BY <2>1, <1>1, <1>3
<1>5. CASE Emit /\ at = "client"
  <2>1. todo = <<Notice>>
    BY <1>2, <1>5 DEF Handlers
  <2> QED BY <2>1, <1>1, <1>3, <1>5 DEF Emit
<1>6. CASE Emit /\ at = "network"
  <2>1. \/ \E f \in File : todo = << <<"FileUpdated", f>> >>
        \/ todo \in {<<List(table)>>, <<Notice, List(table)>>} /\ untold
    BY <1>2, <1>6 DEF Handlers
  <2>2. ASSUME NEW f \in File, todo = << <<"FileUpdated", f>> >>
        PROVE  /\ at' = "select" /\ todo' = <<>> /\ todo # <<>>
               /\ Head(todo) = <<"FileUpdated", f>>
    BY <2>2, <1>1, <1>3, <1>6 DEF Emit
  <2>3. CASE todo = <<List(table)>> /\ untold
    BY <2>3, <1>1, <1>3, <1>6 DEF Emit
  <2>4. CASE todo = <<Notice, List(table)>> /\ untold
    BY <2>4, <1>1, <1>3, <1>6 DEF Emit
  <2> QED BY <2>1, <2>2, <2>3, <2>4, <1>1, <1>6
<1> QED BY <1>4, <1>5, <1>6 DEF Emit

LEMMA HandlesEmit ==
  ASSUME LoopIInv, Save \/ Emit
  PROVE  LoopIInv'
<1>1. LoopTypes /\ Handlers /\ FilesExplained /\ LastSave /\ TableKept /\ LastList
  BY DEF LoopIInv
<1> DEFINE h == Head(todo)
<1>2. /\ Len(events) # QueueSize /\ todo # <<>>
      /\ events' = Append(events, h) /\ todo' = Tail(todo)
      /\ untold' = (untold /\ h # List(table))
      /\ UNCHANGED <<table, changes, received, requests, quit, held, stopped,
                     listening, collecting, stored, shown, placed, crashed,
                     restarts, cut, late, saved, missed, moved, lost, crossed>>
  BY Emitted DEF EmitNext, Full, kotlin, store, ends
<1>3. /\ events \in Seq(Event) /\ todo \in Seq(Event) /\ Len(events) <= QueueSize
      /\ table \in Table
  BY <1>1, Zenon DEF LoopTypes
<1>4. h \in Event /\ Tail(todo) \in Seq(Event)
  BY <1>2, <1>3, TailIsWithout
<1>5. \/ /\ at = "saving" /\ at' = "network" /\ saved = table /\ untold
         /\ h = <<"SavePeers", saved>>
         /\ todo' = <<Notice, List(table)>>
      \/ /\ at = "network" /\ at' = "select" /\ todo' = <<>>
         /\ \E f \in File : h = <<"FileUpdated", f>>
      \/ /\ at = "network" /\ at' = "select" /\ todo' = <<>>
         /\ h = List(table) /\ untold
      \/ /\ at = "network" /\ at' = "network" /\ todo' = <<List(table)>>
         /\ h = Notice /\ untold
      \/ /\ at = "client" /\ at' = "select" /\ todo' = <<>>
         /\ h = Notice
  BY Emitted, Zenon
<1>6. \A k : /\ Count(Tail(todo), k)
                  = IF h[1] = k THEN Count(todo, k) - 1 ELSE Count(todo, k)
             /\ Count(Append(events, h), k)
                  = IF h[1] = k THEN Count(events, k) + 1 ELSE Count(events, k)
  <2> SUFFICES ASSUME NEW k
               PROVE  /\ Count(Tail(todo), k)
                           = IF h[1] = k THEN Count(todo, k) - 1 ELSE Count(todo, k)
                      /\ Count(Append(events, h), k)
                           = IF h[1] = k THEN Count(events, k) + 1
                             ELSE Count(events, k)
    BY Zenon
  <2>1. h = todo[1] /\ 1 \in DOMAIN todo /\ Without(Tail(todo), todo, 1)
    BY <1>2, <1>3, TailIsWithout
  <2> HIDE DEF h
  <2>2. Count(Tail(todo), k)
          = IF todo[1][1] = k THEN Count(todo, k) - 1 ELSE Count(todo, k)
    BY <2>1, <1>3, <1>4, CountWithout, ZenonT(60)
  <2>3. Count(Append(events, h), k)
          = IF h[1] = k THEN Count(events, k) + 1 ELSE Count(events, k)
    BY <1>3, <1>4, CountAppend
  <2> QED BY <2>1, <2>2, <2>3, Zenon
<1>7. /\ h = List(table) \/ h[1] # "PeerList"
      /\ h = <<"SavePeers", saved>> \/ h[1] # "SavePeers"
      /\ h[1] = "PeerList" => h[1] # "SavePeers"
  BY <1>3, <1>5, EventKinds
<1> HIDE DEF h
<1>8. LoopTypes'
  <2>1. /\ Append(events, h) \in Seq(Event)
        /\ Len(Append(events, h)) <= QueueSize
    BY <1>2, <1>3, <1>4, AppendProperties, LenProperties, AndroidLoopAssumption
  <2>2. at' \in Place /\ untold' \in BOOLEAN
    BY <1>2, <1>5 DEF Place
  <2> QED BY <1>1, <1>2, <1>4, <2>1, <2>2 DEF LoopTypes
<1>9. Handlers'
  <2>1. /\ quit => ~listening
        /\ ~crossed => Len(held) <= 1
        /\ changes + received + restarts <= MaxHandled
    BY <1>1, Zenon DEF Handlers
  <2>2. CASE at' = "select"
    BY <2>1, <2>2, <1>2, <1>5 DEF Handlers
  <2>3. CASE /\ at' = "network" /\ untold /\ h # List(table)
             /\ todo' \in {<<List(table)>>, <<Notice, List(table)>>}
    BY <2>1, <2>3, <1>2 DEF Handlers
  <2>4. <<"SavePeers", saved>> # List(table) /\ Notice # List(table)
    BY EventKinds DEF List
  <2> QED BY <2>2, <2>3, <2>4, <1>5
<1>10. FilesExplained'
  <2> DEFINE a == Count(todo, "FileUpdated")
             b == Count(events, "FileUpdated")
             c == Count(held, "FileUpdated")
  <2>1. a \in Nat /\ b \in Nat /\ c \in Nat
    BY <1>1, Counts
  <2>2. a + b + c = received - moved - lost
    BY <1>1, Zenon DEF FilesExplained, OnTheirWay
  <2>3. \/ Count(todo', "FileUpdated") = a /\ Count(events', "FileUpdated") = b
        \/ /\ Count(todo', "FileUpdated") = a - 1
           /\ Count(events', "FileUpdated") = b + 1
    BY <1>2, <1>6
  <2>4. Count(held', "FileUpdated") = c
    BY <1>2
  <2> HIDE DEF a, b, c
  <2>5. Count(todo', "FileUpdated") + Count(events', "FileUpdated")
          + Count(held', "FileUpdated") = a + b + c
    <3>1. CASE Count(todo', "FileUpdated") = a /\ Count(events', "FileUpdated") = b
      BY <3>1, <2>4
    <3>2. CASE /\ Count(todo', "FileUpdated") = a - 1
               /\ Count(events', "FileUpdated") = b + 1
      BY <3>2, <2>1, <2>4
    <3> QED BY <3>1, <3>2, <2>3
  <2> QED BY <2>2, <2>5, <1>2 DEF FilesExplained, OnTheirWay
<1>11. LastSave'
  <2>1. CASE h = <<"SavePeers", saved>>
    BY <2>1, <1>2, <1>3, <1>4, AppendOne DEF LastSave
  <2>2. CASE h[1] # "SavePeers"
    <3>1. at # "saving"
      BY <2>2, <1>5
    <3>2. /\ NoneOf(events', "SavePeers") <=> NoneOf(events, "SavePeers")
          /\ LastIs(events', "SavePeers", saved)
               <=> LastIs(events, "SavePeers", saved)
      BY <2>2, <1>2, <1>3, <1>4, AppendOne
    <3> QED BY <3>1, <3>2, <1>1, <1>2 DEF LastSave
  <2> QED BY <1>7, <2>1, <2>2
<1>12. TableKept'
  BY <1>1, <1>2 DEF TableKept
<1>13. LastList'
  <2>1. CASE h = List(table)
    BY <2>1, <1>2, <1>3, <1>4, AppendOne DEF LastList, List
  <2>2. CASE h # List(table)
    <3>1. /\ NoneOf(events', "PeerList") <=> NoneOf(events, "PeerList")
          /\ LastIs(events', "PeerList", table)
               <=> LastIs(events, "PeerList", table)
      BY <2>2, <1>2, <1>3, <1>4, <1>7, AppendOne
    <3> QED BY <3>1, <2>2, <1>1, <1>2 DEF LastList
  <2> QED BY <2>1, <2>2
<1> QED BY <1>8, <1>9, <1>10, <1>11, <1>12, <1>13 DEF LoopIInv

(* A client event, a batch, or the end: a handler that waits is dropped.   *)
LEMMA HandlesDropped ==
  ASSUME LoopIInv, TakeRequest \/ TakeQuit \/ DropLoop
  PROVE  LoopIInv'
<1>1. LoopTypes /\ Handlers /\ FilesExplained /\ LastSave /\ TableKept /\ LastList
  BY DEF LoopIInv
<1>2. /\ at # "saving"
      /\ lost' = lost + Count(todo, "FileUpdated")
      /\ UNCHANGED <<quit, events, held, stopped, listening, collecting, stored,
                     shown, placed, crashed, restarts, cut, late, saved, missed,
                     moved, crossed>>
  BY DEF TakeRequest, TakeQuit, DropLoop, End, MayBranch, Drop, kotlin, store,
         ends
<1>3. /\ \/ at' \in {"select", "ended"} /\ todo' = <<>>
         \/ at' = "client" /\ todo' = <<Notice>>
      /\ requests' \in Seq({"RegistFileId", "other"})
      /\ Len(requests') <= MaxRequests
      /\ \/ MoreToCome /\ ChangeTable
         \/ UNCHANGED <<table, changes, received, untold>>
  <2>1. /\ requests \in Seq({"RegistFileId", "other"})
        /\ Len(requests) <= MaxRequests
    BY <1>1, Zenon DEF LoopTypes
  <2>2. CASE TakeRequest
    <3>1. /\ Tail(requests) \in Seq({"RegistFileId", "other"})
          /\ Len(Tail(requests)) <= MaxRequests
      BY <2>1, <2>2, HeadTailProperties, LenProperties, AndroidLoopAssumption
         DEF TakeRequest
    <3>2. /\ \/ at' \in {"select", "ended"} /\ todo' = <<>>
             \/ at' = "client" /\ todo' = <<Notice>>
          /\ requests' = Tail(requests)
          /\ \/ MoreToCome /\ ChangeTable
             \/ UNCHANGED <<table, changes, received, untold>>
      BY <2>2 DEF TakeRequest
    <3> QED BY <3>1, <3>2
  <2>3. CASE TakeQuit \/ DropLoop
    BY <2>1, <2>3 DEF TakeQuit, DropLoop, End
  <2> QED BY <2>2, <2>3
<1>4. /\ changes \in 0..MaxHandled /\ received \in 0..MaxHandled
      /\ restarts \in 0..MaxHandled /\ MaxHandled \in Nat
      /\ moved \in 0..MaxHandled /\ lost \in 0..MaxHandled
  BY <1>1, AndroidLoopAssumption DEF LoopTypes
<1>5. /\ changes' \in 0..MaxHandled /\ received' = received
      /\ changes' + received + restarts <= MaxHandled
      /\ table' \in Table /\ table \subseteq table' /\ untold' \in BOOLEAN
      /\ untold' \/ (table' = table /\ untold' = untold)
  <2>1. CASE MoreToCome /\ ChangeTable
    <3>1. Changed \in Table /\ table \subseteq Changed
      BY <2>1, <1>1, <1>4 DEF LoopTypes, Table, Changed, MoreToCome
    <3>2. /\ changes' = changes + 1 /\ table' = Changed /\ untold' = TRUE
          /\ received' = received
      BY <2>1 DEF ChangeTable
    <3>3. changes + received + restarts < MaxHandled
      BY <2>1 DEF MoreToCome
    <3>4. changes' \in 0..MaxHandled /\ changes' + received + restarts <= MaxHandled
      BY <3>2, <3>3, <1>4
    <3>5. untold' /\ untold' \in BOOLEAN
      BY <3>2
    <3> QED BY <3>1, <3>2, <3>4, <3>5
  <2>2. CASE UNCHANGED <<table, changes, received, untold>>
    BY <2>2, <1>1 DEF LoopTypes, Handlers
  <2> QED BY <2>1, <2>2, <1>3
<1>6. todo' \in Seq(Event) /\ Count(todo', "FileUpdated") = 0
  <2>1. CASE todo' = <<>>
    BY <2>1, CountEmpty
  <2>2. CASE todo' = <<Notice>>
    <3>1. <<>> \in Seq(Event) /\ Notice \in Event /\ Notice[1] # "FileUpdated"
      BY EventKinds
    <3>2. todo' \in Seq(Event) /\ NoneOf(todo', "FileUpdated")
      BY <3>1, <2>2, OneHeld
    <3> QED BY <3>2, CountNone
  <2> QED BY <2>1, <2>2, <1>3
<1>7. FilesExplained'
  <2> DEFINE a == Count(todo, "FileUpdated")
             b == Count(events, "FileUpdated")
             c == Count(held, "FileUpdated")
  <2>1. a \in Nat /\ b \in Nat /\ c \in Nat
    BY <1>1, Counts
  <2>2. a + b + c = received - moved - lost
    BY <1>1, Zenon DEF FilesExplained, OnTheirWay
  <2>3. /\ Count(todo', "FileUpdated") = 0 /\ Count(events', "FileUpdated") = b
        /\ Count(held', "FileUpdated") = c /\ lost' = lost + a
        /\ received' = received /\ moved' = moved
    BY <1>2, <1>5, <1>6
  <2> HIDE DEF a, b, c
  <2>4. 0 + b + c = received - moved - (lost + a)
    BY <2>1, <2>2, <1>4
  <2> QED BY <2>3, <2>4 DEF FilesExplained, OnTheirWay
<1>8. lost' \in 0..MaxHandled
  <2> DEFINE a == Count(todo, "FileUpdated")
             b == Count(events, "FileUpdated")
             c == Count(held, "FileUpdated")
  <2>1. a \in Nat /\ b \in Nat /\ c \in Nat
    BY <1>1, Counts
  <2>2. a + b + c = received - moved - lost /\ lost' = lost + a
    BY <1>1, <1>2 DEF FilesExplained, OnTheirWay
  <2> HIDE DEF a, b, c
  <2> QED BY <2>1, <2>2, <1>4
<1>9. LoopTypes'
  <2>1. at' \in Place
    BY <1>3 DEF Place
  <2> QED BY <2>1, <1>1, <1>2, <1>3, <1>5, <1>6, <1>8 DEF LoopTypes
<1>10. Handlers'
  BY <1>1, <1>2, <1>3, <1>5 DEF Handlers
<1>11. LastSave' /\ TableKept' /\ LastList'
  BY <1>1, <1>2, <1>5 DEF LastSave, TableKept, LastList
<1> QED BY <1>7, <1>9, <1>10, <1>11 DEF LoopIInv

(* What concerns neither the events nor the tables.                        *)
LEMMA ApplicationSteps ==
  ASSUME LoopIInv, Dispatch \/ Connect \/ OnDestroy \/ StopService
  PROVE  LoopIInv'
<1>1. LoopTypes /\ Handlers /\ FilesExplained /\ LastSave /\ TableKept /\ LastList
  BY DEF LoopIInv
<1>2. /\ UNCHANGED <<at, todo, table, changes, received, events, held, stopped,
                     stored, shown, placed, crashed, restarts, cut, late, saved,
                     untold, missed, moved, lost, crossed>>
      /\ listening' => listening
      /\ (quit => ~listening) => (quit' => ~listening')
  BY DEF Dispatch, Connect, OnDestroy, StopService, loop, kotlin, store, ends,
         history
<1>3. /\ requests' \in Seq({"RegistFileId", "other"})
      /\ Len(requests') <= MaxRequests
      /\ quit' \in BOOLEAN /\ listening' \in BOOLEAN /\ collecting' \in BOOLEAN
  <2>1. /\ requests \in Seq({"RegistFileId", "other"})
        /\ Len(requests) <= MaxRequests
        /\ quit \in BOOLEAN /\ listening \in BOOLEAN /\ collecting \in BOOLEAN
    BY <1>1, Zenon DEF LoopTypes
  <2>2. CASE Dispatch
    <3>1. /\ Append(requests, "other") \in Seq({"RegistFileId", "other"})
          /\ Len(Append(requests, "other")) <= MaxRequests
      BY <2>1, <2>2, AppendProperties, LenProperties, AndroidLoopAssumption
         DEF Dispatch, Room
    <3> QED BY <3>1, <2>1, <2>2 DEF Dispatch, kotlin
  <2>3. CASE Connect
    BY <2>1, <2>3 DEF Connect
  <2>4. CASE OnDestroy
    BY <2>1, <2>4 DEF OnDestroy
  <2>5. CASE StopService
    BY <2>1, <2>5 DEF StopService, kotlin
  <2> QED BY <2>2, <2>3, <2>4, <2>5
<1>4. LoopTypes'
  BY <1>1, <1>2, <1>3 DEF LoopTypes
<1>5. Handlers'
  BY <1>1, <1>2 DEF Handlers
<1>6. FilesExplained' /\ TableKept'
  BY <1>1, <1>2 DEF FilesExplained, OnTheirWay, TableKept
<1>7. LastSave' /\ LastList'
  BY <1>1, <1>2 DEF LastSave, LastList
<1> QED BY <1>4, <1>5, <1>6, <1>7 DEF LoopIInv

(* An event is received.                                                   *)
LEMMA EventReceived ==
  ASSUME LoopIInv, Recv
  PROVE  LoopIInv'
<1>1. LoopTypes /\ Handlers /\ FilesExplained /\ LastSave /\ TableKept /\ LastList
  BY DEF LoopIInv
<1> DEFINE h == Head(events)
           H == Event \cup {"RegistFileId"} \X File
<1>2. /\ Len(held) + stopped < Receivers /\ events # <<>>
      /\ held' = Append(held, h) /\ events' = Tail(events)
      /\ crossed' = (crossed \/ held # <<>>)
      /\ UNCHANGED <<at, todo, table, changes, received, requests, quit, stopped,
                     listening, collecting, stored, shown, placed, crashed,
                     restarts, cut, late, saved, untold, missed, moved, lost>>
  BY DEF Recv, loop, store, ends
<1>3. /\ events \in Seq(Event) /\ Len(events) <= QueueSize /\ held \in Seq(H)
      /\ stopped \in Nat /\ Len(held) \in Nat /\ Len(events) \in Nat
  <2>1. /\ events \in Seq(Event) /\ Len(events) <= QueueSize /\ held \in Seq(H)
        /\ stopped \in Nat
    BY <1>1, Zenon DEF LoopTypes
  <2> QED BY <2>1, LenProperties
<1>4. /\ Tail(events) \in Seq(Event) /\ Without(Tail(events), events, 1)
      /\ h = events[1] /\ h \in Event /\ 1 \in DOMAIN events
  BY <1>2, <1>3, TailIsWithout
<1>5. h \in H
  BY <1>4
<1> HIDE DEF h, H
<1>6. /\ Append(held, h) \in Seq(H) /\ Len(Append(held, h)) = Len(held) + 1
      /\ Len(Tail(events)) = Len(events) - 1
  BY <1>3, <1>4, <1>5, AppendProperties DEF Without
<1>7. LoopTypes'
  <2>1. Len(events') <= QueueSize /\ Len(held') + stopped <= Receivers
    BY <1>2, <1>3, <1>6, AndroidLoopAssumption
  <2>2. crossed' \in BOOLEAN
    BY <1>2
  <2> QED BY <2>1, <2>2, <1>1, <1>2, <1>4, <1>6 DEF LoopTypes, H
<1>8. ~crossed' => ~crossed /\ held = <<>> /\ held' = <<h>>
  BY <1>2, OneHeld
<1>9. Handlers'
  <2>1. ~crossed' => Len(held') <= 1
    BY <1>2, <1>6, <1>8
  <2> QED BY <2>1, <1>1, <1>2 DEF Handlers
<1>10. FilesExplained'
  <2> DEFINE a == Count(todo, "FileUpdated")
             b == Count(events, "FileUpdated")
             c == Count(held, "FileUpdated")
  <2>1. a \in Nat /\ b \in Nat /\ c \in Nat
    BY <1>1, Counts
  <2>2. a + b + c = received - moved - lost
    BY <1>1, Zenon DEF FilesExplained, OnTheirWay
  <2>3. Count(Tail(events), "FileUpdated")
          = IF events[1][1] = "FileUpdated" THEN b - 1 ELSE b
    BY <1>3, <1>4, CountWithout, ZenonT(60)
  <2>4. Count(Append(held, h), "FileUpdated")
          = IF h[1] = "FileUpdated" THEN c + 1 ELSE c
    BY <1>3, <1>5, CountAppend
  <2>5. Count(todo', "FileUpdated") = a
    BY <1>2
  <2> HIDE DEF a, b, c
  <2>6. Count(todo', "FileUpdated") + Count(events', "FileUpdated")
          + Count(held', "FileUpdated") = a + b + c
    <3>1. CASE h[1] = "FileUpdated"
      BY <3>1, <1>2, <1>4, <2>1, <2>3, <2>4, <2>5
    <3>2. CASE h[1] # "FileUpdated"
      BY <3>2, <1>2, <1>4, <2>1, <2>3, <2>4, <2>5
    <3> QED BY <3>1, <3>2
  <2> QED BY <2>2, <2>6, <1>2 DEF FilesExplained, OnTheirWay
<1>11. ASSUME NEW kind, NEW t, ~crossed',
              \/ LastIs(events, kind, t)
              \/ NoneOf(events, kind) /\ LastIs(held, kind, t)
       PROVE  \/ LastIs(events', kind, t)
              \/ NoneOf(events', kind) /\ LastIs(held', kind, t)
  <2>1. ~LastIs(held, kind, t)
    BY <1>8, <1>11 DEF LastIs
  <2>2. \/ LastIs(Tail(events), kind, t)
        \/ NoneOf(Tail(events), kind) /\ Head(events) = <<kind, t>>
    BY <2>1, <1>2, <1>3, <1>11, TailOfLast
  <2>3. Head(events) = <<kind, t>> => LastIs(held', kind, t)
    BY <1>8, <1>11, OneHeld DEF h
  <2> QED BY <2>2, <2>3, <1>2
<1>12. ASSUME NEW kind, ~crossed', NoneOf(events, kind)
       PROVE  NoneOf(events', kind) /\ NoneOf(held', kind)
  <2>1. NoneOf(Tail(events), kind) /\ h[1] # kind
    BY <1>2, <1>3, <1>12, TailOfLast DEF h
  <2> QED BY <2>1, <1>2, <1>8, <1>12, OneHeld
<1>13. LastSave'
  <2> SUFFICES ASSUME ~crossed', ~cut, at # "saving"
               PROVE  \/ LastIs(events', "SavePeers", saved)
                      \/ /\ NoneOf(events', "SavePeers")
                         /\ \/ LastIs(held', "SavePeers", saved)
                            \/ NoneOf(held', "SavePeers") /\ stored = saved
    BY <1>2 DEF LastSave
  <2>1. \/ LastIs(events, "SavePeers", saved)
        \/ /\ NoneOf(events, "SavePeers")
           /\ \/ LastIs(held, "SavePeers", saved)
              \/ NoneOf(held, "SavePeers") /\ stored = saved
    BY <1>1, <1>8 DEF LastSave
  <2> QED BY <2>1, <1>11, <1>12
<1>14. LastList'
  <2> SUFFICES ASSUME ~crossed', listening, ~untold
               PROVE  \/ LastIs(events', "PeerList", table)
                      \/ /\ NoneOf(events', "PeerList")
                         /\ \/ LastIs(held', "PeerList", table)
                            \/ /\ NoneOf(held', "PeerList")
                               /\ shown = table \/ missed = table
    BY <1>2 DEF LastList
  <2>1. \/ LastIs(events, "PeerList", table)
        \/ /\ NoneOf(events, "PeerList")
           /\ \/ LastIs(held, "PeerList", table)
              \/ /\ NoneOf(held, "PeerList")
                 /\ shown = table \/ missed = table
    BY <1>1, <1>8 DEF LastList
  <2> QED BY <2>1, <1>11, <1>12
<1>15. TableKept'
  BY <1>1, <1>2 DEF TableKept
<1> QED BY <1>7, <1>9, <1>10, <1>13, <1>14, <1>15 DEF LoopIInv

(* An event is handled, or lost with its coroutine.                        *)
LEMMA HeldRemoved ==
  ASSUME LoopIInv, NEW i \in DOMAIN held
  PROVE  /\ RemoveAt(held, i) \in Seq(Event \cup {"RegistFileId"} \X File)
         /\ Len(RemoveAt(held, i)) = Len(held) - 1
         /\ Len(held) \in Nat \ {0}
         /\ held[i] \in Event \cup {"RegistFileId"} \X File
         /\ \A kind : Count(RemoveAt(held, i), kind)
                        = IF held[i][1] = kind THEN Count(held, kind) - 1
                          ELSE Count(held, kind)
         /\ ~crossed => RemoveAt(held, i) = <<>>
         /\ ~crossed => \A kind, t :
              /\ LastIs(held, kind, t) => held[i] = <<kind, t>>
              /\ NoneOf(held, kind) <=> held[i][1] # kind
<1> DEFINE H == Event \cup {"RegistFileId"} \X File
<1>1. held \in Seq(H)
  BY Zenon DEF LoopIInv, LoopTypes
<1>2. ~crossed => Len(held) <= 1
  BY Zenon DEF LoopIInv, Handlers
<1> HIDE DEF H
<1>3. /\ RemoveAt(held, i) \in Seq(H) /\ Without(RemoveAt(held, i), held, i)
      /\ Len(held) \in Nat \ {0} /\ held[i] \in H
  BY <1>1, RemoveAtIsWithout
<1>4. \A kind : Count(RemoveAt(held, i), kind)
                  = IF held[i][1] = kind THEN Count(held, kind) - 1
                    ELSE Count(held, kind)
  BY <1>1, <1>3, CountWithout
<1>5. ASSUME ~crossed
      PROVE  /\ RemoveAt(held, i) = <<>>
             /\ \A kind, t : /\ LastIs(held, kind, t) => held[i] = <<kind, t>>
                             /\ NoneOf(held, kind) <=> held[i][1] # kind
  <2>1. Len(held) <= 1
    BY <1>2, <1>5
  <2>2. ASSUME NEW kind, NEW t
        PROVE  /\ RemoveAt(held, i) = <<>>
               /\ LastIs(held, kind, t) => held[i] = <<kind, t>>
               /\ NoneOf(held, kind) <=> held[i][1] # kind
    BY <2>1, <1>1, OnlyOne
  <2> QED BY <2>2, Zenon
<1> QED BY <1>3, <1>4, <1>5 DEF H, Without

(* A coroutine that is done with its event goes on or ends.                *)
LEMMA CoroutinesFit ==
  ASSUME LoopTypes, Len(held) \in Nat \ {0}, Len(held') = Len(held) - 1,
         stopped' = stopped \/ stopped' = stopped + 1
  PROVE  stopped' \in Nat /\ Len(held') + stopped' <= Receivers
<1>1. stopped \in Nat /\ Len(held) + stopped <= Receivers
  BY Zenon DEF LoopTypes
<1>2. Receivers \in Nat
  BY AndroidLoopAssumption
<1> DEFINE n == Len(held)
           m == Len(held')
<1>3. n \in Nat \ {0} /\ m = n - 1 /\ n + stopped <= Receivers
  BY <1>1
<1> HIDE DEF n, m
<1>4. CASE stopped' = stopped
  <2>1. m + stopped <= Receivers
    BY <1>1, <1>2, <1>3
  <2> QED BY <2>1, <1>1, <1>4 DEF m
<1>5. CASE stopped' = stopped + 1
  <2>1. stopped + 1 \in Nat /\ m + (stopped + 1) <= Receivers
    BY <1>1, <1>2, <1>3
  <2> QED BY <2>1, <1>5 DEF m
<1> QED BY <1>4, <1>5

LEMMA EventHandled ==
  ASSUME LoopIInv, NEW i \in DOMAIN held, HandleEvent(i)
  PROVE  LoopIInv'
<1>1. LoopTypes /\ Handlers /\ FilesExplained /\ LastSave /\ TableKept /\ LastList
  BY DEF LoopIInv
<1> DEFINE e == held[i]
<1>2. /\ e[1] \notin {"FileUpdated", "RegistFileId"}
      /\ held' = RemoveAt(held, i)
      /\ stopped' = stopped \/ stopped' = stopped + 1
      /\ UNCHANGED <<at, todo, table, changes, received, requests, quit, events,
                     listening, collecting, placed, crashed, restarts, cut, late,
                     saved, untold, moved, lost, crossed>>
  BY DEF HandleEvent, Release, loop, ends
<1>3. /\ shown' = IF e[1] = "PeerList" /\ collecting THEN e[2] ELSE shown
      /\ missed' = IF e[1] # "PeerList" THEN missed
                   ELSE IF collecting THEN Nothing ELSE e[2]
      /\ stored' = IF e[1] = "SavePeers" THEN e[2] ELSE stored
  BY DEF HandleEvent, Handled
<1>4. /\ RemoveAt(held, i) \in Seq(Event \cup {"RegistFileId"} \X File)
      /\ Len(RemoveAt(held, i)) = Len(held) - 1
      /\ Len(held) \in Nat \ {0}
      /\ e \in Event \cup {"RegistFileId"} \X File
  BY HeldRemoved
<1>5. e \in Event
  BY <1>2, <1>4
<1>6. \/ e[1] \in {"PeerList", "SavePeers"} /\ e[2] \in Table
      \/ e[1] = "Notice"
  BY <1>2, <1>5, EventForms
<1>7. ~crossed => RemoveAt(held, i) = <<>>
  BY HeldRemoved
<1>8. ~crossed => \A kind, t :
        /\ LastIs(held, kind, t) => e = <<kind, t>>
        /\ NoneOf(held, kind) <=> e[1] # kind
  BY HeldRemoved
<1>9. Count(held', "FileUpdated") = Count(held, "FileUpdated")
  BY <1>2, HeldRemoved
<1>10. \A kind, t : e = <<kind, t>> => e[1] = kind /\ e[2] = t
  OBVIOUS
<1> HIDE DEF e
<1>11. LoopTypes'
  <2>1. /\ stored \in Table /\ shown \in Table
        /\ missed = Nothing \/ missed \in Table
    BY <1>1, Zenon DEF LoopTypes
  <2>2. stored' \in Table /\ shown' \in Table
    BY <2>1, <1>3, <1>6
  <2>3. missed' = Nothing \/ missed' \in Table
    BY <2>1, <1>3, <1>6
  <2>4. stopped' \in Nat /\ Len(held') + stopped' <= Receivers
    BY <1>1, <1>2, <1>4, CoroutinesFit
  <2> QED BY <2>2, <2>3, <2>4, <1>1, <1>2, <1>4 DEF LoopTypes
<1>12. Handlers'
  <2>1. ~crossed => Len(held') <= 1
    BY <1>1, <1>2, <1>4 DEF Handlers
  <2> QED BY <2>1, <1>1, <1>2 DEF Handlers
<1>13. FilesExplained' /\ TableKept'
  BY <1>1, <1>2, <1>9 DEF FilesExplained, OnTheirWay, TableKept
<1>14. LastSave'
  <2> SUFFICES ASSUME ~crossed, ~cut, at # "saving", ~LastIs(events, "SavePeers", saved)
               PROVE  NoneOf(events, "SavePeers") /\ NoneOf(<<>>, "SavePeers")
                        /\ stored' = saved
    BY <1>2, <1>7 DEF LastSave
  <2>1. /\ NoneOf(events, "SavePeers")
        /\ \/ LastIs(held, "SavePeers", saved)
           \/ NoneOf(held, "SavePeers") /\ stored = saved
    BY <1>1 DEF LastSave
  <2> QED BY <2>1, <1>3, <1>8, <1>10, CountEmpty
<1>15. LastList'
  <2> SUFFICES ASSUME listening, ~untold, ~crossed, ~LastIs(events, "PeerList", table)
               PROVE  /\ NoneOf(events, "PeerList") /\ NoneOf(<<>>, "PeerList")
                      /\ shown' = table \/ missed' = table
    BY <1>2, <1>7 DEF LastList
  <2>1. /\ NoneOf(events, "PeerList")
        /\ \/ LastIs(held, "PeerList", table)
           \/ NoneOf(held, "PeerList") /\ (shown = table \/ missed = table)
    BY <1>1 DEF LastList
  <2>2. CASE LastIs(held, "PeerList", table)
    BY <2>1, <2>2, <1>3, <1>8, <1>10, CountEmpty
  <2>3. CASE NoneOf(held, "PeerList") /\ (shown = table \/ missed = table)
    BY <2>1, <2>3, <1>3, <1>8, CountEmpty
  <2> QED BY <2>1, <2>2, <2>3
<1> QED BY <1>11, <1>12, <1>13, <1>14, <1>15 DEF LoopIInv

(* A file is moved, or its move ends the process.                          *)
LEMMA FileMoved ==
  ASSUME LoopIInv, NEW i \in DOMAIN held, Move(i)
  PROVE  LoopIInv'
<1>1. LoopTypes /\ Handlers /\ FilesExplained /\ LastSave /\ TableKept /\ LastList
  BY DEF LoopIInv
<1>2. UNCHANGED <<at, todo, table, changes, received, requests, quit, events,
                  stopped, listening, collecting, stored, shown, restarts, cut,
                  late, saved, untold, missed, lost, crossed>>
  BY DEF Move, loop, ends
<1>3. PICK f \in File :
        /\ held[i] = <<"FileUpdated", f>>
        /\ \/ crashed' = TRUE /\ UNCHANGED <<placed, held, moved>>
           \/ /\ placed' = placed \cup {f}
              /\ moved' = moved + 1
              /\ held' = [held EXCEPT ![i] = <<"RegistFileId", f>>]
              /\ UNCHANGED crashed
  BY DEF Move
<1>4. CASE crashed' = TRUE /\ UNCHANGED <<placed, held, moved>>
  <2>1. crashed' \in BOOLEAN
    BY <1>4
  <2>2. LoopTypes'
    BY <2>1, <1>1, <1>2, <1>4 DEF LoopTypes
  <2>3. Handlers' /\ FilesExplained' /\ TableKept'
    BY <1>1, <1>2, <1>4 DEF Handlers, FilesExplained, OnTheirWay, TableKept
  <2>4. LastSave' /\ LastList'
    BY <1>1, <1>2, <1>4 DEF LastSave, LastList
  <2> QED BY <2>2, <2>3, <2>4 DEF LoopIInv
<1>5. CASE /\ placed' = placed \cup {f}
           /\ moved' = moved + 1
           /\ held' = [held EXCEPT ![i] = <<"RegistFileId", f>>]
           /\ UNCHANGED crashed
  <2> DEFINE H == Event \cup {"RegistFileId"} \X File
             x == <<"RegistFileId", f>>
             g == [held EXCEPT ![i] = x]
  <2>1. held \in Seq(H) /\ x \in H /\ x[1] = "RegistFileId"
    BY <1>1 DEF LoopTypes
  <2>2. held[i][1] = "FileUpdated"
    BY <1>3
  <2> HIDE DEF H, x
  <2>3. /\ g \in Seq(H) /\ Len(g) = Len(held)
        /\ Count(g, "FileUpdated") = Count(held, "FileUpdated") - 1
    BY <2>1, <2>2, CountReplace
  <2>4. \A kind, t : kind \in {"SavePeers", "PeerList"} =>
          /\ NoneOf(g, kind) <=> NoneOf(held, kind)
          /\ LastIs(g, kind, t) <=> LastIs(held, kind, t)
    BY <2>1, <2>2, ReplaceInQueue
  <2>5. held' = g
    BY <1>5 DEF x
  <2> HIDE DEF g
  <2>6. FilesExplained' /\ moved' \in 0..MaxHandled
    <3> DEFINE a == Count(todo, "FileUpdated")
               b == Count(events, "FileUpdated")
               c == Count(held, "FileUpdated")
    <3>1. a \in Nat /\ b \in Nat /\ c \in Nat
      BY <1>1, Counts
    <3>2. a + b + c = received - moved - lost
      BY <1>1, Zenon DEF FilesExplained, OnTheirWay
    <3>3. /\ Count(todo', "FileUpdated") = a /\ Count(events', "FileUpdated") = b
          /\ Count(held', "FileUpdated") = c - 1
      BY <2>3, <2>5, <1>2
    <3>4. c - 1 \in Nat
      BY <2>1, <2>3, ThoseAreFinite
    <3>5. /\ received \in 0..MaxHandled /\ moved \in 0..MaxHandled
          /\ lost \in 0..MaxHandled /\ MaxHandled \in Nat
      BY <1>1, AndroidLoopAssumption DEF LoopTypes
    <3> HIDE DEF a, b, c
    <3>6. a + b + (c - 1) = received - (moved + 1) - lost
      BY <3>1, <3>2, <3>5
    <3>7. moved + 1 \in 0..MaxHandled
      BY <3>1, <3>4, <3>5, <3>6
    <3> QED BY <3>3, <3>6, <3>7, <1>2, <1>5 DEF FilesExplained, OnTheirWay
  <2>7. LoopTypes'
    <3>1. placed' \subseteq File
      BY <1>1, <1>5 DEF LoopTypes
    <3> QED BY <3>1, <2>3, <2>5, <2>6, <1>1, <1>2, <1>5 DEF LoopTypes, H
  <2>8. Handlers'
    BY <2>3, <2>5, <1>1, <1>2 DEF Handlers
  <2>9. LastSave' /\ LastList' /\ TableKept'
    BY <2>4, <2>5, <1>1, <1>2 DEF LastSave, LastList, TableKept
  <2> QED BY <2>6, <2>7, <2>8, <2>9 DEF LoopIInv
<1> QED BY <1>3, <1>4, <1>5

(* A file is to be registered, or a coroutine ends.                        *)
LEMMA RegistrationAsked ==
  ASSUME LoopIInv, NEW i \in DOMAIN held, RegistFileId(i)
  PROVE  LoopIInv'
<1>1. LoopTypes /\ Handlers /\ FilesExplained /\ LastSave /\ TableKept /\ LastList
  BY DEF LoopIInv
<1>2. /\ held[i][1] = "RegistFileId" /\ Room
      /\ requests' = Append(requests, "RegistFileId")
      /\ held' = RemoveAt(held, i)
      /\ stopped' = stopped \/ stopped' = stopped + 1
      /\ UNCHANGED <<at, todo, table, changes, received, quit, events, listening,
                     collecting, stored, shown, placed, crashed, restarts, cut,
                     late, saved, untold, missed, moved, lost, crossed>>
  BY DEF RegistFileId, Release, loop, store, ends, history
<1>3. /\ RemoveAt(held, i) \in Seq(Event \cup {"RegistFileId"} \X File)
      /\ Len(RemoveAt(held, i)) = Len(held) - 1
      /\ Len(held) \in Nat \ {0}
      /\ Count(held', "FileUpdated") = Count(held, "FileUpdated")
  BY <1>2, HeldRemoved
<1>4. ~crossed => RemoveAt(held, i) = <<>>
  BY HeldRemoved
<1>5. ~crossed => \A kind, t : kind # "RegistFileId" =>
                    /\ ~LastIs(held, kind, t)
                    /\ NoneOf(held, kind)
  <2> SUFFICES ASSUME ~crossed, NEW kind, NEW t, kind # "RegistFileId"
               PROVE  ~LastIs(held, kind, t) /\ NoneOf(held, kind)
    OBVIOUS
  <2>1. ~crossed => \A k, x : /\ LastIs(held, k, x) => held[i] = <<k, x>>
                              /\ NoneOf(held, k) <=> held[i][1] # k
    BY HeldRemoved, Zenon
  <2>2. /\ LastIs(held, kind, t) => held[i] = <<kind, t>>
        /\ NoneOf(held, kind) <=> held[i][1] # kind
    BY <2>1, Zenon
  <2>3. held[i] = <<kind, t>> => held[i][1] = kind
    OBVIOUS
  <2> QED BY <2>2, <2>3, <1>2
<1>6. LoopTypes'
  <2>1. /\ Append(requests, "RegistFileId") \in Seq({"RegistFileId", "other"})
        /\ Len(Append(requests, "RegistFileId")) <= MaxRequests
    <3>1. /\ requests \in Seq({"RegistFileId", "other"})
          /\ Len(requests) <= MaxRequests
      BY <1>1, Zenon DEF LoopTypes
    <3> QED BY <3>1, <1>2, AppendProperties, LenProperties, AndroidLoopAssumption
            DEF Room
  <2>2. stopped' \in Nat /\ Len(held') + stopped' <= Receivers
    BY <1>1, <1>2, <1>3, CoroutinesFit
  <2> QED BY <2>1, <2>2, <1>1, <1>2, <1>3 DEF LoopTypes
<1>7. Handlers'
  <2>1. ~crossed => Len(held') <= 1
    BY <1>1, <1>2, <1>3 DEF Handlers
  <2> QED BY <2>1, <1>1, <1>2 DEF Handlers
<1>8. FilesExplained' /\ TableKept'
  BY <1>1, <1>2, <1>3 DEF FilesExplained, OnTheirWay, TableKept
<1>9. LastSave'
  BY <1>1, <1>2, <1>4, <1>5, CountEmpty DEF LastSave
<1>10. LastList'
  BY <1>1, <1>2, <1>4, <1>5, CountEmpty DEF LastList
<1> QED BY <1>6, <1>7, <1>8, <1>9, <1>10 DEF LoopIInv

LEMMA ReceiverCancelled ==
  ASSUME LoopIInv, CancelReceiver
  PROVE  LoopIInv'
<1>1. LoopTypes /\ Handlers /\ FilesExplained /\ LastSave /\ TableKept /\ LastList
  BY DEF LoopIInv
<1>2. /\ quit /\ stopped' = stopped + 1
      /\ UNCHANGED <<at, todo, table, changes, received, requests, quit, events,
                     listening, collecting, stored, shown, placed, crashed,
                     restarts, late, saved, untold, missed, moved, crossed>>
  BY DEF CancelReceiver, loop, store
<1>3. ~listening'
  BY <1>1, <1>2 DEF Handlers
<1>4. /\ moved \in 0..MaxHandled /\ lost \in 0..MaxHandled /\ stopped \in Nat
      /\ received \in 0..MaxHandled /\ MaxHandled \in Nat /\ Receivers \in Nat
      /\ cut \in BOOLEAN
  BY <1>1, AndroidLoopAssumption DEF LoopTypes
<1>5. CASE Len(held) + stopped < Receivers /\ UNCHANGED <<held, cut, lost>>
  <2>1. Len(held) \in Nat
    BY <1>1, LenProperties DEF LoopTypes
  <2>2. stopped' \in Nat /\ Len(held') + stopped' <= Receivers
    BY <2>1, <1>2, <1>4, <1>5
  <2>3. LoopTypes'
    BY <2>2, <1>1, <1>2, <1>5 DEF LoopTypes
  <2>4. Handlers' /\ FilesExplained' /\ TableKept'
    BY <1>1, <1>2, <1>5 DEF Handlers, FilesExplained, OnTheirWay, TableKept
  <2>5. LastSave' /\ LastList'
    BY <1>1, <1>2, <1>5 DEF LastSave, LastList
  <2> QED BY <2>3, <2>4, <2>5 DEF LoopIInv
<1>6. ASSUME NEW i \in DOMAIN held,
             held' = RemoveAt(held, i),
             cut' = (cut \/ held[i][1] = "SavePeers"),
             lost' = IF held[i][1] = "FileUpdated" THEN lost + 1 ELSE lost
      PROVE  LoopIInv'
  <2>1. /\ held' \in Seq(Event \cup {"RegistFileId"} \X File)
        /\ Len(held') = Len(held) - 1
        /\ Len(held) \in Nat \ {0}
        /\ Count(held', "FileUpdated")
             = IF held[i][1] = "FileUpdated" THEN Count(held, "FileUpdated") - 1
               ELSE Count(held, "FileUpdated")
    BY <1>6, HeldRemoved
  <2>2. FilesExplained' /\ lost' \in 0..MaxHandled
    <3> DEFINE a == Count(todo, "FileUpdated")
               b == Count(events, "FileUpdated")
               c == Count(held, "FileUpdated")
               d == Count(held', "FileUpdated")
    <3>1. a \in Nat /\ b \in Nat /\ c \in Nat /\ d \in Nat
      BY <2>1, <1>1, Counts, ThoseAreFinite
    <3>2. a + b + c = received - moved - lost
      BY <1>1, Zenon DEF FilesExplained, OnTheirWay
    <3>3. Count(todo', "FileUpdated") = a /\ Count(events', "FileUpdated") = b
      BY <1>2
    <3>4. (d = c - 1 /\ lost' = lost + 1) \/ (d = c /\ lost' = lost)
      BY <2>1, <1>6
    <3> HIDE DEF a, b, c, d
    <3>5. a + b + d = received - moved - lost' /\ lost' \in 0..MaxHandled
      BY <3>1, <3>2, <3>4, <1>4
    <3> QED BY <3>3, <3>5, <1>2 DEF FilesExplained, OnTheirWay, d
  <2>3. stopped' \in Nat /\ Len(held') + stopped' <= Receivers /\ cut' \in BOOLEAN
    <3>1. cut' \in BOOLEAN
      BY <1>4, <1>6
    <3> QED BY <3>1, <2>1, <1>1, <1>2, CoroutinesFit
  <2>4. LoopTypes'
    BY <2>1, <2>2, <2>3, <1>1, <1>2 DEF LoopTypes
  <2>5. Handlers'
    <3>1. ~crossed => Len(held') <= 1
      BY <2>1, <1>1 DEF Handlers
    <3> QED BY <3>1, <1>1, <1>2 DEF Handlers
  <2>6. TableKept'
    BY <1>1, <1>2, <1>6 DEF TableKept
  <2>7. LastSave'
    <3> SUFFICES ASSUME ~crossed, ~cut, held[i][1] # "SavePeers"
                 PROVE  LastSave'
      BY <1>2, <1>6 DEF LastSave
    <3>1. held' = <<>> /\ NoneOf(held, "SavePeers") /\ NoneOf(held', "SavePeers")
      <4>1. held' = <<>>
        BY <1>6, HeldRemoved
      <4>2. NoneOf(held, "SavePeers")
        BY HeldRemoved
      <4>3. NoneOf(held', "SavePeers")
        BY <4>1, CountEmpty
      <4> QED BY <4>1, <4>2, <4>3
    <3>2. ~LastIs(held, "SavePeers", saved)
      <4>1. LastIs(held, "SavePeers", saved) => held[i] = <<"SavePeers", saved>>
        BY HeldRemoved
      <4>2. held[i] = <<"SavePeers", saved>> => held[i][1] = "SavePeers"
        OBVIOUS
      <4> QED BY <4>1, <4>2
    <3> QED BY <3>1, <3>2, <1>1, <1>2 DEF LastSave
  <2>8. LastList'
    BY <1>3 DEF LastList
  <2> QED BY <2>2, <2>4, <2>5, <2>6, <2>7, <2>8 DEF LoopIInv
<1> QED BY <1>5, <1>6 DEF CancelReceiver

-----------------------------------------------------------------------------
(* A service starts again.                                                 *)

(* With no event of a kind on its way there is none in any queue.          *)
LEMMA NotPending ==
  ASSUME LoopTypes, NEW kind, ~Pending(kind)
  PROVE  NoneOf(todo, kind) /\ NoneOf(events, kind) /\ NoneOf(held, kind)
<1>1. /\ todo \in Seq(Event) /\ events \in Seq(Event)
      /\ held \in Seq(Event \cup {"RegistFileId"} \X File)
  BY Zenon DEF LoopTypes
<1> DEFINE a == Count(todo, kind)
           b == Count(events, kind)
           c == Count(held, kind)
<1>2. a \in Nat /\ b \in Nat /\ c \in Nat
  BY Counts
<1>3. ~(a + b + c > 0)
  BY Zenon DEF Pending, OnTheirWay
<1> HIDE DEF a, b, c
<1>4. a = 0 /\ b = 0 /\ c = 0
  BY <1>2, <1>3
<1> QED BY <1>1, <1>4, CountNone DEF a, b, c

LEMMA NoneIsNotLast ==
  ASSUME NEW s, NEW kind, NEW t, NoneOf(s, kind)
  PROVE  ~LastIs(s, kind, t)
BY DEF NoneOf, LastIs

LEMMA StorageExplained == LoopIInv => StoredExplained
<1> SUFFICES ASSUME LoopIInv, ~Pending("SavePeers"), ~crossed, ~cut
             PROVE  stored = saved
  BY DEF StoredExplained
<1>1. LoopTypes /\ Handlers /\ LastSave
  BY DEF LoopIInv
<1>2. NoneOf(todo, "SavePeers") /\ NoneOf(events, "SavePeers") /\ NoneOf(held, "SavePeers")
  BY <1>1, NotPending
<1>3. at # "saving"
  <2> SUFFICES ASSUME at = "saving"
               PROVE  FALSE
    OBVIOUS
  <2>1. todo = << <<"SavePeers", table>>, Notice, List(table)>>
    BY <1>1 DEF Handlers
  <2>2. 1 \in DOMAIN todo /\ todo[1][1] = "SavePeers"
    BY <2>1
  <2> QED BY <2>2, <1>2 DEF NoneOf
<1> QED BY <1>1, <1>2, <1>3, NoneIsNotLast DEF LastSave

LEMMA ServiceStarts ==
  ASSUME LoopIInv, Recreate \/ NewProcess
  PROVE  LoopIInv'
<1>1. LoopTypes /\ Handlers /\ FilesExplained /\ LastSave /\ TableKept /\ LastList
  BY DEF LoopIInv
<1>2. /\ MoreToCome /\ restarts' = restarts + 1
      /\ at' = "select" /\ todo' = <<>> /\ table' = stored /\ quit' = FALSE
      /\ held' = <<>> /\ stopped' \in 0..(Receivers - 1)
      /\ listening' = TRUE /\ collecting' = FALSE /\ crashed' = FALSE
      /\ untold' = TRUE
      /\ UNCHANGED <<changes, received, stored, placed, saved, missed, moved,
                     crossed>>
  BY DEF Recreate, NewProcess, Begin
<1>3. /\ changes \in 0..MaxHandled /\ received \in 0..MaxHandled
      /\ restarts \in 0..MaxHandled /\ MaxHandled \in Nat
      /\ moved \in 0..MaxHandled /\ lost \in 0..MaxHandled
      /\ cut \in BOOLEAN /\ late \in BOOLEAN
      /\ stored \in Table /\ shown \in Table
  BY <1>1, AndroidLoopAssumption DEF LoopTypes
<1>4. restarts' \in 0..MaxHandled /\ changes + received + restarts' <= MaxHandled
  BY <1>2, <1>3 DEF MoreToCome
<1>5. stopped' \in Nat /\ Len(held') + stopped' <= Receivers
  <2>1. Len(held') = 0
    BY <1>2
  <2>2. ASSUME NEW n \in 0..(Receivers - 1)
        PROVE  n \in Nat /\ 0 + n <= Receivers
    BY <2>2, AndroidLoopAssumption
  <2> QED BY <2>1, <2>2, <1>2, Zenon
<1>6. Handlers'
  BY <1>2, <1>4 DEF Handlers
<1>7. LastList'
  BY <1>2 DEF LastList
<1>8. /\ NoneOf(held', "SavePeers") /\ Count(held', "FileUpdated") = 0
      /\ Count(todo', "FileUpdated") = 0
  BY <1>2, CountEmpty
<1>9. StoredExplained
  BY StorageExplained
<1>10. /\ at' \in Place /\ todo' \in Seq(Event)
       /\ held' \in Seq(Event \cup {"RegistFileId"} \X File)
       /\ quit' \in BOOLEAN /\ listening' \in BOOLEAN
       /\ collecting' \in BOOLEAN /\ crashed' \in BOOLEAN
       /\ untold' \in BOOLEAN
  <2>1. at' \in Place
    BY <1>2 DEF Place
  <2>2. /\ todo' \in Seq(Event)
        /\ held' \in Seq(Event \cup {"RegistFileId"} \X File)
    BY <1>2
  <2>3. /\ quit' \in BOOLEAN /\ listening' \in BOOLEAN
        /\ collecting' \in BOOLEAN /\ crashed' \in BOOLEAN
        /\ untold' \in BOOLEAN
    BY <1>2, Zenon
  <2> QED BY <2>1, <2>2, <2>3
<1>11. CASE Recreate
  <2>1. /\ at = "ended" /\ stopped = Receivers
        /\ late' = (late \/ Pending("SavePeers"))
        /\ UNCHANGED <<requests, events, shown, cut, lost>>
    BY <1>11 DEF Recreate
  <2>2. todo = <<>>
    BY <2>1, <1>1 DEF Handlers
  <2>3. held = <<>>
    <3>1. /\ held \in Seq(Event \cup {"RegistFileId"} \X File)
          /\ Len(held) + stopped <= Receivers
      BY <1>1, Zenon DEF LoopTypes
    <3>2. Len(held) = 0
      BY <3>1, <2>1, LenProperties, AndroidLoopAssumption
    <3> QED BY <3>1, <3>2, EmptySeq
  <2>4. late' \in BOOLEAN
    BY <2>1
  <2>5. LoopTypes'
    <3> QED BY <2>1, <2>4, <1>1, <1>2, <1>3, <1>4, <1>5, <1>10 DEF LoopTypes
  <2>6. FilesExplained'
    BY <2>1, <2>2, <2>3, <1>1, <1>2 DEF FilesExplained, OnTheirWay
  <2>7. LastSave'
    <3>1. ~LastIs(held, "SavePeers", saved)
      BY <2>3, CountEmpty, NoneIsNotLast
    <3> QED BY <3>1, <2>1, <1>1, <1>2, <1>8 DEF LastSave
  <2>8. TableKept'
    BY <2>1, <1>2, <1>9 DEF TableKept, StoredExplained
  <2> QED BY <2>5, <2>6, <2>7, <2>8, <1>6, <1>7 DEF LoopIInv
<1>12. CASE NewProcess
  <2>1. /\ requests' = <<>> /\ events' = <<>> /\ shown' = {}
        /\ cut' = (cut \/ Pending("SavePeers"))
        /\ lost' = lost + OnTheirWay("FileUpdated")
        /\ UNCHANGED late
    BY <1>12 DEF NewProcess
  <2>2. Count(events', "FileUpdated") = 0 /\ NoneOf(events', "SavePeers")
    BY <2>1, CountEmpty
  <2>3. FilesExplained' /\ lost' \in 0..MaxHandled
    <3> DEFINE n == OnTheirWay("FileUpdated")
    <3>1. n \in Nat
      BY <1>1, Counts DEF OnTheirWay
    <3>2. n = received - moved - lost
      BY <1>1, Zenon DEF FilesExplained
    <3> HIDE DEF n
    <3>3. lost' = lost + n
      BY <2>1 DEF n
    <3>4. lost' \in 0..MaxHandled /\ 0 = received - moved - lost'
      BY <3>1, <3>2, <3>3, <1>3
    <3>5. Count(todo', "FileUpdated") + Count(events', "FileUpdated")
            + Count(held', "FileUpdated") = 0
      BY <2>2, <1>8
    <3> QED BY <3>4, <3>5, <1>2 DEF FilesExplained, OnTheirWay
  <2>4. cut' \in BOOLEAN
    BY <2>1
  <2>5. LoopTypes'
    <3>1. events' \in Seq(Event) /\ requests' \in Seq({"RegistFileId", "other"})
      BY <2>1
    <3>2. /\ Len(events') <= QueueSize /\ Len(requests') <= MaxRequests
          /\ shown' \in Table
      BY <2>1, AndroidLoopAssumption DEF Table
    <3> QED BY <3>1, <3>2, <2>1, <2>3, <2>4, <1>1, <1>2, <1>3, <1>4, <1>5, <1>10
            DEF LoopTypes
  <2>6. LastSave'
    BY <2>1, <2>2, <1>2, <1>8, <1>9 DEF LastSave, StoredExplained
  <2>7. TableKept'
    BY <2>1, <1>2, <1>9 DEF TableKept, StoredExplained
  <2> QED BY <2>3, <2>5, <2>6, <2>7, <1>6, <1>7 DEF LoopIInv
<1> QED BY <1>11, <1>12

LEMMA LoopInvariance == LoopSpec => []LoopIInv
<1>1. LoopIInv /\ [LoopNext]_android => LoopIInv'
  <2> SUFFICES ASSUME LoopIInv, [LoopNext]_android
               PROVE  LoopIInv'
    OBVIOUS
  <2>1. CASE \/ PeersChange \/ ReceiveRequest \/ ReceiveResponse
             \/ \E f \in File : FileDone(f)
    BY <2>1, HandlesBegin
  <2>2. CASE Save \/ Emit
    BY <2>2, HandlesEmit
  <2>3. CASE TakeRequest \/ TakeQuit \/ DropLoop
    BY <2>3, HandlesDropped
  <2>4. CASE Dispatch \/ Connect \/ OnDestroy \/ StopService
    BY <2>4, ApplicationSteps
  <2>5. CASE Recv
    BY <2>5, EventReceived
  <2>6. CASE CancelReceiver
    BY <2>6, ReceiverCancelled
  <2>7. CASE \E i \in DOMAIN held : HandleEvent(i) \/ Move(i) \/ RegistFileId(i)
    BY <2>7, EventHandled, FileMoved, RegistrationAsked
  <2>8. CASE Recreate \/ NewProcess
    BY <2>8, ServiceStarts
  <2>9. CASE UNCHANGED android
    <3>1. UNCHANGED <<at, todo, table, changes, received, requests, quit, events,
                      held, stopped, listening, collecting, stored, shown, placed,
                      crashed, restarts, cut, late, saved, untold, missed, moved,
                      lost, crossed>>
      BY <2>9 DEF android, loop, store, kotlin, ends, history
    <3>2. LoopTypes /\ Handlers /\ FilesExplained /\ LastSave /\ TableKept /\ LastList
      BY DEF LoopIInv
    <3>3. LoopTypes' /\ Handlers'
      BY <3>1, <3>2 DEF LoopTypes, Handlers
    <3>4. FilesExplained' /\ TableKept'
      BY <3>1, <3>2 DEF FilesExplained, OnTheirWay, TableKept
    <3>5. LastSave' /\ LastList'
      BY <3>1, <3>2 DEF LastSave, LastList
    <3> QED BY <3>3, <3>4, <3>5 DEF LoopIInv
  <2> QED BY <2>1, <2>2, <2>3, <2>4, <2>5, <2>6, <2>7, <2>8, <2>9 DEF LoopNext
<1> QED BY <1>1, LoopBegins, PTL DEF LoopSpec

(* No handler that is dropped takes a save with it (save_peers blocks the  *)
(* thread), so that without crossing coroutines and a lost coroutine or    *)
(* process what is stored is what was last saved, and a service starts     *)
(* with it; and each file that was received (done) is moved by the         *)
(* application, on its way, or counted as lost.                            *)
THEOREM SavesAndFilesAreKept == LoopSpec => []StoreInv
<1>1. LoopIInv => StoreInv
  BY StorageExplained, Zenon DEF LoopIInv, StoreInv
<1> QED BY <1>1, LoopInvariance, PTL

(* The list the application shows is that of the table of the service once *)
(* no list is on its way, or there is one of four reasons (emit_event,     *)
(* recv, handlePeerList).                                                  *)
THEOREM ShownListsAreExplained == LoopSpec => []ShownExplained
<1>1. LoopIInv => ShownExplained
  <2> SUFFICES ASSUME LoopIInv, listening, ~Pending("PeerList"), ~untold, ~crossed
               PROVE  shown = table \/ missed = table
    BY DEF ShownExplained
  <2>1. LoopTypes /\ LastList
    BY DEF LoopIInv
  <2>2. NoneOf(events, "PeerList") /\ NoneOf(held, "PeerList")
    BY <2>1, NotPending
  <2> QED BY <2>1, <2>2, NoneIsNotLast DEF LastList
<1> QED BY <1>1, LoopInvariance, PTL

=============================================================================

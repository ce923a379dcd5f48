---------------------------- MODULE ProfileProofs ----------------------------
(***************************************************************************)
(* Proofs about SocketFile and about Profile, which extends it, for any    *)
(* daemons and clients, any number of kills and any bounds:                *)
(*                                                                         *)
(*   TypeCorrect            the types of the variables of SocketFile       *)
(*   FileExcludes           two daemons serve only after a theft, which    *)
(*                          happens only among daemons that overlap        *)
(*   FileMeansWhatItSays    the file and the errors are untrue only after  *)
(*                          a kill or a theft                              *)
(*   ProfileImplementsSocketFile   all this holds of Profile too           *)
(*   IdentityIsKept    the types, and the key of a daemon that serves      *)
(*   PairingsAreKept   the pairings that were saved                        *)
(*                                                                         *)
(* The invariant of SocketFile adds that a daemon that serves has its file *)
(* as long as there was no theft (Owned), and that without an overlap a    *)
(* single daemon is up, and nobody else's file is in its way (Alone).      *)
(*                                                                         *)
(* The invariant behind the key: unless a second process made a key of its *)
(* own, a process whose key is not the saved one has not saved it, and     *)
(* nobody else has come past that point (Same).  Behind the pairings: they *)
(* are in the table of every process that may save it (Held).              *)
(***************************************************************************)
EXTENDS Profile, TLAPS

-----------------------------------------------------------------------------
(* SocketFile.                                                             *)

FileIsLive == file # None => file \in Running \/ kills > 0

StolenOnlyInOverlap == stolen => overlap

ErrorsExplained ==
  /\ "application has already running" \in wrong => kills > 0
  /\ "daemon is not started" \in wrong => stolen

Owned == \A d \in Running : stolen \/ file = d

Alone ==
  ~overlap =>
    /\ \A d, e \in Daemon : state[d] # "off" /\ state[e] # "off" => d = e
    /\ \A d \in Daemon : state[d] # "off" => file \in {d, None}

IInv == /\ TypeOK
        /\ FileIsLive
        /\ Owned
        /\ StolenOnlyInOverlap
        /\ ErrorsExplained
        /\ Alone

LEMMA InitInvariant == Init => IInv
<1> SUFFICES ASSUME Init
             PROVE  IInv
  OBVIOUS
<1> USE SocketFileAssumption DEF Init
<1>1. stolen \in BOOLEAN /\ overlap \in BOOLEAN
  OBVIOUS
<1>2. TypeOK
  BY <1>1 DEF TypeOK, State
<1>3. Running = {}
  BY DEF Running
<1> QED
  BY <1>2, <1>3 DEF IInv, FileIsLive, Owned,
                    StolenOnlyInOverlap, ErrorsExplained, Alone

(* A daemon that stops, and releases what is at the path.                  *)
LEMMA ReleasePreserves ==
  ASSUME IInv, NEW d \in Daemon, NEW s \in {"off", "released"},
         state[d] # "off", state' = [state EXCEPT ![d] = s], Release(d),
         UNCHANGED <<kills, overlap, wrong>>
  PROVE  IInv'
<1> USE SocketFileAssumption
<1>1. Running' = Running \ {d}
  BY DEF IInv, TypeOK, Running, State
<1>2. TypeOK'
  <2>1. stolen' \in BOOLEAN
    BY DEF Release
  <2>2. client' \in [Client -> {"off", "found"} \cup Daemon]
    BY DEF IInv, TypeOK, Release
  <2> QED
    BY <2>1, <2>2 DEF IInv, TypeOK, State, Release
<1>3. FileIsLive'
  BY DEF FileIsLive, Release
<1>4. Owned'
  BY <1>1 DEF IInv, Owned, Release, Running
<1>5. StolenOnlyInOverlap'
  BY DEF IInv, StolenOnlyInOverlap, Alone, Release
<1>6. Alone'
  BY DEF IInv, TypeOK, Alone, Release
<1>7. ErrorsExplained'
  BY DEF IInv, ErrorsExplained, Release
<1> QED
  BY <1>2, <1>3, <1>4, <1>5, <1>6, <1>7 DEF IInv

LEMMA DaemonPreserves ==
  ASSUME IInv, NEW d \in Daemon,
         Refuse(d) \/ Open(d) \/ Bind(d) \/ Fail(d) \/ Quit(d) \/ Drop(d) \/ Kill(d)
  PROVE  IInv'
<1> USE SocketFileAssumption
<1>1. CASE Refuse(d)
  BY <1>1 DEF Refuse, IInv, TypeOK, FileIsLive, Owned,
              StolenOnlyInOverlap, ErrorsExplained, Alone, Running, Error
<1>2. CASE Open(d)
  <2>1. Running' = Running
    BY <1>2 DEF Open, IInv, TypeOK, Running, State
  <2>2. TypeOK'
    BY <1>2 DEF Open, IInv, TypeOK, State
  <2>3. Alone'
    BY <1>2 DEF Open, IInv, TypeOK, Alone
  <2> QED
    BY <1>2, <2>1, <2>2, <2>3
    DEF Open, IInv, FileIsLive, Owned, StolenOnlyInOverlap,
        ErrorsExplained
<1>3. CASE Bind(d)
  <2>1. Running' = Running \cup {d}
    BY <1>3 DEF Bind, IInv, TypeOK, Running, State
  <2>2. TypeOK'
    BY <1>3 DEF Bind, IInv, TypeOK, State
  <2>3. Alone'
    BY <1>3 DEF Bind, IInv, TypeOK, Alone
  <2>4. Owned'
    BY <1>3, <2>1 DEF Bind, IInv, Owned, Running
  <2> QED
    BY <1>3, <2>1, <2>2, <2>3, <2>4
    DEF Bind, IInv, FileIsLive, StolenOnlyInOverlap,
        ErrorsExplained
<1>4. CASE Fail(d)
  BY <1>4, ReleasePreserves DEF Fail
<1>5. CASE Quit(d)
  BY <1>5, ReleasePreserves DEF Quit
<1>6. CASE Drop(d)
  BY <1>6, ReleasePreserves DEF Drop
<1>7. CASE Kill(d)
  <2>1. Running' = Running \ {d}
    BY <1>7 DEF Kill, IInv, TypeOK, Running, State
  <2>2. TypeOK'
    <3>1. client' \in [Client -> {"off", "found"} \cup Daemon]
      BY <1>7 DEF Kill, IInv, TypeOK
    <3>2. kills' \in 0..MaxKills
      BY <1>7 DEF Kill, IInv, TypeOK
    <3> QED
      BY <1>7, <3>1, <3>2 DEF Kill, IInv, TypeOK, State
  <2>4. FileIsLive'
    BY <1>7 DEF Kill, IInv, TypeOK, FileIsLive
  <2>5. Alone'
    BY <1>7 DEF Kill, IInv, TypeOK, Alone
  <2>6. ErrorsExplained'
    <3>1. kills' > 0
      BY <1>7 DEF Kill, IInv, TypeOK
    <3>2. UNCHANGED <<wrong, stolen>>
      BY <1>7 DEF Kill
    <3> QED
      BY <3>1, <3>2 DEF IInv, ErrorsExplained
  <2> QED
    BY <1>7, <2>1, <2>2, <2>4, <2>5, <2>6
    DEF Kill, IInv, Owned, StolenOnlyInOverlap
<1> QED
  BY <1>1, <1>2, <1>3, <1>4, <1>5, <1>6, <1>7

LEMMA ClientPreserves ==
  ASSUME IInv, NEW c \in Client, Find(c) \/ Connect(c) \/ Leave(c)
  PROVE  IInv'
<1> USE SocketFileAssumption
<1>1. UNCHANGED <<file, state, kills, stolen, overlap>> /\ Running' = Running
  BY DEF Find, Connect, Leave, Running
<1>2. TypeOK'
  <2>1. CASE Find(c)
    <3>1. client' \in [Client -> {"off", "found"} \cup Daemon]
      BY <1>1, <2>1 DEF Find, IInv, TypeOK
    <3>2. wrong' \subseteq Error
      BY <1>1, <2>1 DEF Find, IInv, TypeOK, Error
    <3> QED
      BY <1>1, <3>1, <3>2 DEF IInv, TypeOK
  <2>2. CASE Connect(c)
    BY <1>1, <2>2 DEF Connect, IInv, TypeOK, Running
  <2>3. CASE Leave(c)
    BY <1>1, <2>3 DEF Leave, IInv, TypeOK, Running
  <2> QED
    BY <2>1, <2>2, <2>3
<1>3. ErrorsExplained'
  BY <1>1 DEF Find, Connect, Leave, IInv, ErrorsExplained, Owned, Running
<1> QED
  BY <1>1, <1>2, <1>3
  DEF IInv, FileIsLive, Owned, StolenOnlyInOverlap, Alone

LEMMA Invariance == Spec => []IInv
<1>1. IInv /\ [Next]_vars => IInv'
  <2> SUFFICES ASSUME IInv, [Next]_vars
               PROVE  IInv'
    OBVIOUS
  <2>1. CASE UNCHANGED vars
    BY <2>1 DEF vars, IInv, TypeOK, FileIsLive, Owned,
                StolenOnlyInOverlap, ErrorsExplained, Alone, Running
  <2>2. CASE Next
    BY <2>2, DaemonPreserves, ClientPreserves DEF Next
  <2> QED
    BY <2>1, <2>2
<1> QED
  BY <1>1, InitInvariant, PTL DEF Spec

(* Every value has its type.                                               *)
THEOREM TypeCorrect == Spec => []TypeOK
<1>1. IInv => TypeOK
  BY DEF IInv
<1> QED
  BY <1>1, Invariance, PTL

(* Two daemons serve only after somebody removed a file not its own, which *)
(* nobody does unless daemons start while others start or stop.            *)
THEOREM FileExcludes == Spec => []OneServes
<1>1. IInv => OneServes
  BY DEF IInv, Owned, OneServes, StolenOnlyInOverlap
<1> QED
  BY <1>1, Invariance, PTL

(* The file leads to a daemon that serves, and the errors are true, unless *)
(* a daemon was killed or its file stolen.                                 *)
THEOREM FileMeansWhatItSays == Spec => []FileExplained
<1>1. IInv => FileExplained
  BY DEF IInv, FileIsLive, ErrorsExplained, FileExplained
<1> QED
  BY <1>1, Invariance, PTL

-----------------------------------------------------------------------------
(* Profile.                                                                *)

Saves(d) == mem[d] # None /\ (~mem[d].ready \/ mem[d].key # None)

Same ==
  ~anew => \A d \in Daemon :
    mem[d] # None /\ mem[d].key \notin {None, saved.key} =>
      /\ ~mem[d].ready
      /\ \A e \in Others(d) : mem[e].key = None \/ ~mem[e].ready

Held == \A d \in Daemon : Saves(d) => due \subseteq mem[d].peers

Ready == \A d \in Daemon : state[d] # "off" => mem[d] # None /\ mem[d].ready

PInv == ProfileTypeOK /\ Ready /\ Same /\ Held /\ PairingsKept

-----------------------------------------------------------------------------
(* Every step of Profile is a step of SocketFile or leaves it alone.       *)
LEMMA ProfileStep == PNext => Next \/ UNCHANGED vars
BY DEF PNext, Next, LoadPeers, StartUnsaved, ReadKey, MakeKey, SaveKey, GiveUp,
       ChangeTable, SaveTable

(* Profile implements SocketFile, which thus holds of it.                  *)
THEOREM ProfileImplementsSocketFile == PSpec => Spec
<1>1. PInit => Init
  BY DEF PInit
<1>2. [PNext]_pvars => [Next]_vars
  BY ProfileStep DEF pvars
<1> QED
  BY <1>1, <1>2, PTL DEF PSpec, Spec

-----------------------------------------------------------------------------
LEMMA PInitInvariant == PInit => PInv
<1> SUFFICES ASSUME PInit PROVE PInv
  OBVIOUS
<1> USE ProfileAssumption DEF PInit
<1>1. \A d \in Daemon : mem[d] = None /\ state[d] = "off"
  BY DEF Init
<1>2. anew \in BOOLEAN
  OBVIOUS
<1>3. ProfileTypeOK
  BY <1>1, <1>2 DEF ProfileTypeOK, Key, Pairing
<1> QED
  BY <1>1, <1>3 DEF PInv, Ready, Same, Held, Saves, PairingsKept

(* A process that has ended, in whatever way.                              *)
LEMMA ForgetPreserves ==
  ASSUME PInv, NEW d \in Daemon, Forget(d), state'[d] = "off",
         \A e \in Daemon \ {d} : state'[e] = state[e]
  PROVE  PInv'
<1>1. \A e \in Daemon : mem'[e] = IF e = d THEN None ELSE mem[e]
  BY DEF Forget, PInv, ProfileTypeOK
<1>2. ProfileTypeOK'
  BY <1>1 DEF Forget, PInv, ProfileTypeOK, Key, Pairing
<1>3. Ready'
  BY <1>1 DEF PInv, Ready
<1>4. Same'
  BY <1>1 DEF PInv, Same, Others, Forget
<1>5. Held' /\ PairingsKept'
  BY <1>1 DEF PInv, Held, Saves, PairingsKept, Forget
<1> QED
  BY <1>2, <1>3, <1>4, <1>5 DEF PInv

(* A step of the socket file that leaves every process its profile.        *)
LEMMA SocketPreserves ==
  ASSUME PInv, UNCHANGED store,
         \A e \in Daemon : state'[e] # "off" =>
           state[e] # "off" \/ (mem[e] # None /\ mem[e].ready)
  PROVE  PInv'
<1> USE DEF store
<1>1. ProfileTypeOK'
  BY DEF PInv, ProfileTypeOK, Key, Pairing
<1>2. Ready'
  BY DEF PInv, Ready
<1>3. Same'
  BY DEF PInv, Same, Others
<1>4. Held' /\ PairingsKept'
  BY DEF PInv, Held, Saves, PairingsKept
<1> QED
  BY <1>1, <1>2, <1>3, <1>4 DEF PInv

-----------------------------------------------------------------------------
(* The steps that start a daemon.                                          *)

LEMMA LoadPreserves ==
  ASSUME PInv, NEW d \in Daemon, LoadPeers(d) \/ StartUnsaved(d)
  PROVE  PInv'
<1>1. PICK read \in {{}, saved.peers}, ready \in BOOLEAN :
        /\ mem' = [mem EXCEPT ![d] = [key |-> None, peers |-> read, ready |-> ready]]
        /\ due' \in {due, {}}
        /\ ready \/ due' \subseteq read
  BY DEF LoadPeers, StartUnsaved, PInv, PairingsKept
<1>2. UNCHANGED <<vars, saved, keys, pairings, anew>>
  BY DEF LoadPeers, StartUnsaved
<1> DEFINE new == [key |-> None, peers |-> read, ready |-> ready]
<1>3. new \in Memory /\ new.key = None /\ new.peers = read /\ new.ready = ready
  BY DEF Memory, PInv, ProfileTypeOK
<1>4. \A e \in Daemon : mem'[e] = IF e = d THEN new ELSE mem[e]
  BY <1>1 DEF PInv, ProfileTypeOK
<1>5. state[d] = "off" /\ UNCHANGED state
  BY <1>2 DEF LoadPeers, StartUnsaved, vars
<1> HIDE DEF new
<1>6. ProfileTypeOK'
  <2>1. mem' \in [Daemon -> Memory \cup {None}]
    BY <1>1, <1>3 DEF PInv, ProfileTypeOK, new
  <2>2. \A e \in Daemon : state'[e] # "off" => mem'[e] # None
    BY <1>4, <1>5 DEF PInv, ProfileTypeOK
  <2> QED
    BY <2>1, <2>2, <1>1, <1>2 DEF PInv, ProfileTypeOK
<1>7. Ready'
  BY <1>4, <1>5 DEF PInv, Ready
<1>8. Same'
  BY <1>2, <1>3, <1>4 DEF PInv, Same, Others
<1>9. Held' /\ PairingsKept'
  BY <1>1, <1>2, <1>3, <1>4 DEF PInv, Held, Saves, PairingsKept
<1> QED
  BY <1>6, <1>7, <1>8, <1>9 DEF PInv

(* A step that changes the memory of one process that is up.               *)
LEMMA MemoryChanges ==
  ASSUME PInv, NEW d \in Daemon, mem[d] # None, NEW new \in Memory,
         mem' = [mem EXCEPT ![d] = new], UNCHANGED state, mem[d].ready => new.ready
  PROVE  /\ mem' \in [Daemon -> Memory \cup {None}]
         /\ \A e \in Daemon : mem'[e] = IF e = d THEN new ELSE mem[e]
         /\ \A e \in Daemon : mem'[e] # None <=> mem[e] # None
         /\ \A e \in Daemon : Others(e)' = Others(e)
         /\ \A e \in Daemon : state'[e] # "off" => mem'[e] # None
         /\ Ready'
<1>1. /\ mem' \in [Daemon -> Memory \cup {None}]
      /\ \A e \in Daemon : mem'[e] = IF e = d THEN new ELSE mem[e]
  BY DEF PInv, ProfileTypeOK
<1>2. \A e \in Daemon : mem'[e] # None <=> mem[e] # None
  BY <1>1, NoneIsNoMemory
<1> QED
  BY <1>1, <1>2 DEF PInv, ProfileTypeOK, Ready, Others

LEMMA MakePreserves ==
  ASSUME PInv, NEW d \in Daemon, ReadKey(d) \/ MakeKey(d)
  PROVE  PInv'
<1> USE ProfileAssumption
<1>1. /\ mem[d] # None /\ mem[d].key = None /\ ~mem[d].ready /\ mem[d] \in Memory
      /\ UNCHANGED <<state, saved, pairings, due>>
  BY DEF ReadKey, MakeKey, Starting, vars, PInv, ProfileTypeOK
<1>2. PICK key \in Key :
        /\ mem' = [mem EXCEPT ![d].key = key]
        /\ keys' \in 0..MaxKeys
        /\ anew' \in BOOLEAN
        /\ anew => anew'
        /\ anew' \/ key = saved.key \/ Others(d) = {} \/ saved.key = None
  <2>1. CASE ReadKey(d)
    <3>1. saved.key \in Key
      BY <2>1 DEF ReadKey, PInv, ProfileTypeOK
    <3> QED
      BY <2>1, <3>1 DEF ReadKey, PInv, ProfileTypeOK
  <2>2. CASE MakeKey(d)
    <3>1. keys + 1 \in Key /\ keys' \in 0..MaxKeys
      BY <2>2 DEF MakeKey, PInv, ProfileTypeOK, Key
    <3>2. PICK asked \in BOOLEAN :
            anew' = (anew \/ (Others(d) # {} /\ (asked \/ saved.key # None)))
      BY <2>2 DEF MakeKey
    <3>3. anew' \in BOOLEAN /\ (anew => anew')
      BY <3>2, Zenon DEF PInv, ProfileTypeOK
    <3>4. anew' \/ Others(d) = {} \/ saved.key = None
      BY <3>2
    <3> QED
      BY <2>2, <3>1, <3>3, <3>4 DEF MakeKey
  <2> QED
    BY <2>1, <2>2
<1> DEFINE new == [mem[d] EXCEPT !.key = key]
<1>3. new \in Memory /\ new.key = key /\ new.peers = mem[d].peers /\ ~new.ready
  BY <1>1 DEF Memory
<1>4. mem' = [mem EXCEPT ![d] = new]
  BY <1>2
<1> HIDE DEF new
<1>5. /\ mem' \in [Daemon -> Memory \cup {None}] /\ Ready'
      /\ \A e \in Daemon : mem'[e] = IF e = d THEN new ELSE mem[e]
      /\ \A e \in Daemon : mem'[e] # None <=> mem[e] # None
      /\ \A e \in Daemon : Others(e)' = Others(e)
      /\ \A e \in Daemon : state'[e] # "off" => mem'[e] # None
  BY <1>1, <1>3, <1>4, MemoryChanges
<1>6. ProfileTypeOK'
  BY <1>1, <1>2, <1>5 DEF PInv, ProfileTypeOK
<1>7. Same'
  <2> SUFFICES ASSUME ~anew', NEW e \in Daemon, mem'[e] # None,
                      mem'[e].key \notin {None, saved'.key}
               PROVE  /\ ~mem'[e].ready
                      /\ \A f \in Others(e)' : mem'[f].key = None \/ ~mem'[f].ready
    BY DEF Same
  <2>1. CASE e = d
    <3>1. \A f \in Others(d) : mem[f].key = None \/ ~mem[f].ready
      BY <1>1, <1>2, <1>3, <1>5, <2>1 DEF PInv, Same, Others
    <3> QED
      BY <1>3, <1>5, <2>1, <3>1 DEF Others
  <2>2. CASE e # d
    BY <1>1, <1>2, <1>3, <1>5, <2>2 DEF PInv, Same, Others
  <2> QED
    BY <2>1, <2>2
<1>8. Held' /\ PairingsKept'
  BY <1>1, <1>3, <1>5 DEF PInv, Held, Saves, PairingsKept
<1> QED
  BY <1>5, <1>6, <1>7, <1>8 DEF PInv

LEMMA SavePreserves ==
  ASSUME PInv, NEW d \in Daemon, SaveKey(d)
  PROVE  PInv'
<1> USE ProfileAssumption
<1>1. /\ mem[d] # None /\ mem[d].key # None /\ ~mem[d].ready /\ mem[d] \in Memory
      /\ saved' = [saved EXCEPT !.key = mem[d].key]
      /\ mem' = [mem EXCEPT ![d].ready = TRUE]
      /\ UNCHANGED <<state, keys, pairings, due>>
  BY DEF SaveKey, Starting, vars, PInv, ProfileTypeOK
<1>2. /\ saved' \in [key : Key \cup {None}, peers : SUBSET Pairing]
      /\ saved'.key = mem[d].key /\ saved'.peers = saved.peers
  BY <1>1 DEF PInv, ProfileTypeOK, Memory
<1>3. anew' \in BOOLEAN
  BY Zenon DEF SaveKey
<1> DEFINE new == [mem[d] EXCEPT !.ready = TRUE]
<1>4. new \in Memory /\ new.key = mem[d].key /\ new.peers = mem[d].peers /\ new.ready
  BY <1>1 DEF Memory
<1>5. mem' = [mem EXCEPT ![d] = new]
  BY <1>1
<1> HIDE DEF new
<1>6. /\ mem' \in [Daemon -> Memory \cup {None}] /\ Ready'
      /\ \A e \in Daemon : mem'[e] = IF e = d THEN new ELSE mem[e]
      /\ \A e \in Daemon : mem'[e] # None <=> mem[e] # None
      /\ \A e \in Daemon : Others(e)' = Others(e)
      /\ \A e \in Daemon : state'[e] # "off" => mem'[e] # None
  BY <1>1, <1>4, <1>5, MemoryChanges
<1>7. ProfileTypeOK'
  BY <1>1, <1>2, <1>3, <1>6 DEF PInv, ProfileTypeOK
<1>8. Same'
  <2> SUFFICES ASSUME ~anew', NEW e \in Daemon, mem'[e] # None
               PROVE  mem'[e].key \in {None, saved'.key}
    BY DEF Same
  <2>1. CASE e = d
    BY <1>2, <1>4, <1>6, <2>1
  <2>2. CASE e # d
    <3>1. e \in Others(d) /\ d \in Others(e) /\ mem'[e] = mem[e] /\ mem[e] # None
      BY <1>1, <1>6, <2>2 DEF Others
    <3>2. ~anew /\ ~Starting(e)
      BY <3>1 DEF SaveKey
    <3>3. mem[e].ready
      BY <3>1, <3>2 DEF Starting, PInv, Ready
    <3>4. mem[e].key \in {None, saved.key}
      BY <3>1, <3>2, <3>3 DEF PInv, Same
    <3>5. mem[d].key = saved.key \/ mem[e].key = None
      BY <1>1, <3>1, <3>2, <3>3 DEF PInv, Same
    <3> QED
      BY <1>2, <3>1, <3>4, <3>5
  <2> QED
    BY <2>1, <2>2
<1>9. Held' /\ PairingsKept'
  BY <1>1, <1>2, <1>4, <1>6 DEF PInv, Held, Saves, PairingsKept
<1> QED
  BY <1>6, <1>7, <1>8, <1>9 DEF PInv

-----------------------------------------------------------------------------
(* The steps of a daemon that serves: only the table of its memory changes.*)
LEMMA TablePreserves ==
  ASSUME PInv, NEW d \in Daemon, ChangeTable(d) \/ SaveTable(d)
  PROVE  PInv'
<1> USE ProfileAssumption
<1>1. /\ mem[d] # None /\ mem[d].ready /\ mem[d] \in Memory
      /\ UNCHANGED <<state, keys, anew>>
  BY DEF ChangeTable, SaveTable, vars, PInv, ProfileTypeOK, Ready
<1>2. PICK table \in SUBSET Pairing :
        /\ mem' = [mem EXCEPT ![d].peers = table]
        /\ pairings' \in 0..MaxPairings
        /\ \/ /\ UNCHANGED saved
              /\ due' \subseteq due
              /\ due' \subseteq mem[d].peers => due' \subseteq table
           \/ /\ saved' = [saved EXCEPT !.peers = table]
              /\ mem[d].key # None
              /\ due' = IF Others(d) = {} THEN due \cup table ELSE {}
              /\ mem[d].peers \subseteq table
  <2>1. pairings \in 0..MaxPairings /\ mem[d].peers \subseteq Pairing
    BY <1>1 DEF PInv, ProfileTypeOK, Memory
  <2>2. CASE ChangeTable(d)
    <3>1. CASE /\ pairings < MaxPairings
               /\ pairings' = pairings + 1
               /\ mem' = [mem EXCEPT ![d].peers = @ \cup {pairings + 1}]
               /\ UNCHANGED due
      <4> DEFINE table == mem[d].peers \cup {pairings + 1}
      <4>1. table \in SUBSET Pairing /\ pairings' \in 0..MaxPairings
        BY <2>1, <3>1 DEF Pairing
      <4>2. mem' = [mem EXCEPT ![d].peers = table]
        BY <3>1
      <4>3. UNCHANGED saved /\ due' \subseteq due
        BY <2>2, <3>1 DEF ChangeTable
      <4>4. due' \subseteq mem[d].peers => due' \subseteq table
        OBVIOUS
      <4> QED
        BY <4>1, <4>2, <4>3, <4>4
    <3>2. CASE \E p \in mem[d].peers :
                 /\ mem' = [mem EXCEPT ![d].peers = @ \ {p}]
                 /\ due' = due \ {p}
                 /\ UNCHANGED pairings
      <4>1. PICK p \in mem[d].peers :
              /\ mem' = [mem EXCEPT ![d].peers = @ \ {p}]
              /\ due' = due \ {p}
              /\ UNCHANGED pairings
        BY <3>2
      <4> DEFINE table == mem[d].peers \ {p}
      <4>2. table \in SUBSET Pairing
        BY <2>1
      <4>3. mem' = [mem EXCEPT ![d].peers = table]
        BY <4>1
      <4>4. UNCHANGED saved /\ due' \subseteq due
        BY <2>2, <4>1 DEF ChangeTable
      <4>5. due' \subseteq mem[d].peers => due' \subseteq table
        BY <4>1
      <4> QED
        BY <2>1, <4>1, <4>2, <4>3, <4>4, <4>5
    <3> QED
      BY <2>2, <3>1, <3>2 DEF ChangeTable
  <2>3. CASE SaveTable(d)
    <3> DEFINE table == mem[d].peers \cup ((pairings + 1)..pairings')
    <3>1. pairings' \in 0..MaxPairings /\ table \in SUBSET Pairing
      BY <2>1, <2>3 DEF SaveTable, Pairing
    <3>2. mem' = [mem EXCEPT ![d].peers = table] /\ mem[d].peers \subseteq table
      BY <2>3 DEF SaveTable
    <3>3. \/ UNCHANGED <<saved, due>>
          \/ /\ saved' = [saved EXCEPT !.peers = table]
             /\ mem[d].key # None
             /\ due' = IF Others(d) = {} THEN due \cup table ELSE {}
      BY <2>3 DEF SaveTable
    <3> QED
      BY <3>1, <3>2, <3>3
  <2> QED
    BY <2>2, <2>3
<1> DEFINE new == [mem[d] EXCEPT !.peers = table]
<1>3. new \in Memory /\ new.key = mem[d].key /\ new.peers = table /\ new.ready
  BY <1>1 DEF Memory
<1>4. mem' = [mem EXCEPT ![d] = new]
  BY <1>2
<1> HIDE DEF new
<1>5. /\ mem' \in [Daemon -> Memory \cup {None}] /\ Ready'
      /\ \A e \in Daemon : mem'[e] = IF e = d THEN new ELSE mem[e]
      /\ \A e \in Daemon : mem'[e] # None <=> mem[e] # None
      /\ \A e \in Daemon : Others(e)' = Others(e)
      /\ \A e \in Daemon : state'[e] # "off" => mem'[e] # None
  BY <1>1, <1>3, <1>4, MemoryChanges
<1>6. /\ saved' \in [key : Key \cup {None}, peers : SUBSET Pairing]
      /\ saved'.key = saved.key
      /\ saved'.peers \in {saved.peers, table}
      /\ due' \subseteq Pairing
  BY <1>2 DEF PInv, ProfileTypeOK
<1>7. ProfileTypeOK'
  BY <1>1, <1>2, <1>5, <1>6 DEF PInv, ProfileTypeOK
<1>8. Same'
  BY <1>1, <1>3, <1>5, <1>6 DEF PInv, Same, Others
<1>9. Held' /\ PairingsKept'
  <2>1. CASE UNCHANGED saved /\ due' \subseteq due
             /\ (due' \subseteq mem[d].peers => due' \subseteq table)
    BY <1>1, <1>3, <1>5, <2>1 DEF PInv, Held, Saves, PairingsKept
  <2>2. CASE /\ saved' = [saved EXCEPT !.peers = table]
             /\ mem[d].key # None
             /\ due' = IF Others(d) = {} THEN due \cup table ELSE {}
             /\ mem[d].peers \subseteq table
    <3>1. due \subseteq table
      BY <1>1, <2>2 DEF PInv, Held, Saves
    <3>2. due' \subseteq table /\ saved'.peers = table
      BY <2>2, <3>1 DEF PInv, ProfileTypeOK
    <3>3. \A e \in Daemon : e # d /\ mem[e] # None => due' = {}
      BY <2>2 DEF Others
    <3> QED
      BY <1>3, <1>5, <3>2, <3>3 DEF Held, Saves, PairingsKept
  <2> QED
    BY <1>2, <2>1, <2>2
<1> QED
  BY <1>5, <1>7, <1>8, <1>9 DEF PInv

-----------------------------------------------------------------------------
LEMMA DaemonStep ==
  ASSUME PInv, TypeOK, NEW d \in Daemon,
         \/ (Bind(d) \/ Quit(d)) /\ UNCHANGED store
         \/ Starting(d) /\ mem[d].ready /\ Open(d) /\ UNCHANGED store
         \/ Starting(d) /\ mem[d].ready /\ Refuse(d) /\ Forget(d)
         \/ (Fail(d) \/ Drop(d) \/ Kill(d)) /\ Forget(d)
         \/ GiveUp(d)
  PROVE  PInv'
<1>1. \A e \in Daemon \ {d} : state'[e] = state[e]
  BY DEF Bind, Quit, Open, Refuse, Fail, Drop, Kill, GiveUp, TypeOK, vars
<1>2. CASE (Bind(d) \/ Quit(d)) /\ UNCHANGED store
  <2>1. state[d] # "off"
    BY <1>2 DEF Bind, Quit
  <2> QED
    BY <1>1, <1>2, <2>1, SocketPreserves
<1>3. CASE Starting(d) /\ mem[d].ready /\ Open(d) /\ UNCHANGED store
  BY <1>1, <1>3, SocketPreserves DEF Starting
<1>4. CASE \/ Starting(d) /\ mem[d].ready /\ Refuse(d) /\ Forget(d)
           \/ (Fail(d) \/ Drop(d) \/ Kill(d)) /\ Forget(d)
           \/ GiveUp(d)
  <2>1. state'[d] = "off" /\ Forget(d)
    BY <1>4 DEF Starting, Refuse, Fail, Drop, Kill, GiveUp, TypeOK, vars
  <2> QED
    BY <1>1, <2>1, ForgetPreserves
<1> QED
  BY <1>2, <1>3, <1>4

LEMMA PInvariance == PSpec => []PInv
<1>1. PInv /\ TypeOK /\ [PNext]_pvars => PInv'
  <2> SUFFICES ASSUME PInv, TypeOK, [PNext]_pvars
               PROVE  PInv'
    OBVIOUS
  <2>1. CASE UNCHANGED pvars
    BY <2>1, SocketPreserves DEF pvars, vars
  <2>2. CASE \E d \in Daemon :
               \/ LoadPeers(d) \/ StartUnsaved(d) \/ ReadKey(d) \/ MakeKey(d)
               \/ SaveKey(d) \/ ChangeTable(d) \/ SaveTable(d)
    BY <2>2, LoadPreserves, MakePreserves, SavePreserves, TablePreserves
  <2>3. CASE \E d \in Daemon :
               \/ (Bind(d) \/ Quit(d)) /\ UNCHANGED store
               \/ Starting(d) /\ mem[d].ready /\ Open(d) /\ UNCHANGED store
               \/ Starting(d) /\ mem[d].ready /\ Refuse(d) /\ Forget(d)
               \/ (Fail(d) \/ Drop(d) \/ Kill(d)) /\ Forget(d)
               \/ GiveUp(d)
    BY <2>3, DaemonStep
  <2>4. CASE \E c \in Client :
               (Find(c) \/ Connect(c) \/ Leave(c)) /\ UNCHANGED store
    <3>1. UNCHANGED state /\ UNCHANGED store
      BY <2>4 DEF Find, Connect, Leave
    <3> QED
      BY <3>1, SocketPreserves
  <2> QED
    BY <2>1, <2>2, <2>3, <2>4 DEF PNext
<1>2. PSpec => []TypeOK
  BY ProfileImplementsSocketFile, TypeCorrect, PTL
<1> QED
  BY <1>1, <1>2, PInitInvariant, PTL DEF PSpec

(* The types; and a daemon that serves comes back under the same key,      *)
(* unless another process made one meanwhile, or two started at once.      *)
THEOREM IdentityIsKept == PSpec => []ProfileInv
<1>1. PInv => ProfileInv
  BY DEF PInv, ProfileInv, IdentityKept, Same, Ready, Running
<1> QED
  BY <1>1, PInvariance, PTL

(* A pairing saved by the only process that was up stays saved, until it   *)
(* leaves the table or a start cannot read it.                             *)
THEOREM PairingsAreKept == PSpec => []PairingsKept
<1>1. PInv => PairingsKept
  BY DEF PInv
<1> QED
  BY <1>1, PInvariance, PTL

=============================================================================

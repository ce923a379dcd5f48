------------------------------- MODULE Profile -------------------------------
(***************************************************************************)
(* The profile of a daemon in the secret service of its user: its key and  *)
(* its paired peers (main of the daemon, SecretStore), and the daemons     *)
(* that share it, which only the socket file keeps apart.                  *)
(*                                                                         *)
(* A daemon reads the peers, reads the key or makes one, saves the key,    *)
(* and only then looks for the socket file.  What cannot be read, as when  *)
(* the collection is locked, counts as not there.                          *)
(*                                                                         *)
(* Definitions whose comment begins with "Mutant" are wrong on purpose and *)
(* used by no specification.                                               *)
(***************************************************************************)
EXTENDS SocketFile

CONSTANTS
  MaxKeys,     \* bound: keys generated
  MaxPairings  \* bound: pairings made

ASSUME ProfileAssumption ==
  /\ MaxKeys \in Nat
  /\ MaxPairings \in Nat
  /\ None \notin Nat

VARIABLES
  saved,     \* the profile in the secret service: its key and its peers
  mem,       \* mem[d]: the profile of process d, or None: see Memory
  keys,      \* number of keys generated, bounded by MaxKeys
  pairings,  \* number of pairings made, bounded by MaxPairings
  due,       \* history: pairings saved by the only process that was up, and
             \*   neither left out of its table nor not read since then
  anew       \* history: while another process was up a key was made for a
             \*   new profile, or as one could not be read, or two started

store == <<saved, mem, keys, pairings, due, anew>>
pvars == <<vars, store>>

Key == 1..MaxKeys
Pairing == 1..MaxPairings

(* The key is None until it has been read or made, and "ready" once saved. *)
(* With --no-save nothing is read or saved, and it stays None.             *)
Memory == [key : Key \cup {None}, peers : SUBSET Pairing, ready : BOOLEAN]

ASSUME NoneIsNoMemory == None \notin Memory

Starting(d) == mem[d] # None /\ state[d] = "off"
Others(d) == {e \in Daemon \ {d} : mem[e] # None}

PInit ==
  /\ Init
  /\ saved = [key |-> None, peers |-> {}]
  /\ mem = [d \in Daemon |-> None]
  /\ keys = 0
  /\ pairings = 0
  /\ due = {}
  /\ anew = FALSE

-----------------------------------------------------------------------------
(* The start of a daemon.                                                  *)

(* Mutant of LoadPeers, breaks PairingsKept: the peers are never read.     *)
LoadNothing(d) ==
  /\ state[d] = "off" /\ mem[d] = None
  /\ mem' = [mem EXCEPT ![d] =
               [key |-> None, peers |-> {}, ready |-> FALSE]]
  /\ UNCHANGED <<vars, saved, keys, pairings, due, anew>>

(* SecretStore::new, peers_init.                                           *)
LoadPeers(d) ==
  /\ state[d] = "off" /\ mem[d] = None
  /\ \E readable \in BOOLEAN :
       /\ mem' = [mem EXCEPT ![d] =
                    [key |-> None, peers |-> IF readable THEN saved.peers ELSE {},
                     ready |-> FALSE]]
       /\ due' = IF readable THEN due ELSE {}
  /\ UNCHANGED <<vars, saved, keys, pairings, anew>>

(* --new-profile with --no-save; without the first there is no key, and    *)
(* the daemon panics before it has done anything.                          *)
StartUnsaved(d) ==
  /\ state[d] = "off" /\ mem[d] = None
  /\ mem' = [mem EXCEPT ![d] = [key |-> None, peers |-> {}, ready |-> TRUE]]
  /\ UNCHANGED <<vars, saved, keys, pairings, due, anew>>

(* get_local_key: the saved key, if there is one.                          *)
ReadKey(d) ==
  /\ Starting(d) /\ mem[d].key = None /\ ~mem[d].ready
  /\ saved.key # None
  /\ mem' = [mem EXCEPT ![d].key = saved.key]
  /\ UNCHANGED <<vars, saved, keys, pairings, due, anew>>

(* A new key: for --new-profile, or when there is none or none can be read.*)
MakeKey(d) ==
  /\ Starting(d) /\ mem[d].key = None /\ ~mem[d].ready
  /\ keys < MaxKeys
  /\ keys' = keys + 1
  /\ mem' = [mem EXCEPT ![d].key = keys + 1]
  /\ \E asked \in BOOLEAN :
       anew' = (anew \/ (Others(d) # {} /\ (asked \/ saved.key # None)))
  /\ UNCHANGED <<vars, saved, pairings, due>>

(* Mutant of SaveKey, breaks IdentityKept: the key is only looked for.     *)
KeyNotSaved(d) ==
  /\ Starting(d) /\ mem[d].key # None /\ ~mem[d].ready
  /\ mem' = [mem EXCEPT ![d].ready = TRUE]
  /\ UNCHANGED <<vars, saved, keys, pairings, due, anew>>

(* save_local_key, before anybody has looked whether a daemon runs.        *)
SaveKey(d) ==
  /\ Starting(d) /\ mem[d].key # None /\ ~mem[d].ready
  /\ saved' = [saved EXCEPT !.key = mem[d].key]
  /\ mem' = [mem EXCEPT ![d].ready = TRUE]
  /\ anew' = (Others(d) # {} /\ (anew \/ \E e \in Others(d) : Starting(e)))
  /\ UNCHANGED <<vars, keys, pairings, due>>

(* The process has ended, and with it what it knew.                        *)
Forget(d) ==
  /\ mem' = [mem EXCEPT ![d] = None]
  /\ UNCHANGED <<saved, keys, pairings, due, anew>>

(* The secret service, the database or the swarm fails, or a kill.         *)
GiveUp(d) == Starting(d) /\ Forget(d) /\ UNCHANGED vars

-----------------------------------------------------------------------------
(* The table of a daemon that serves (see Pairing).                        *)

(* It answers a request of another peer, which is not saved; or a peer     *)
(* leaves the table, paired as it was: it expired, was disconnected, or    *)
(* asked again.                                                            *)
ChangeTable(d) ==
  /\ state[d] = "serving"
  /\ \/ /\ pairings < MaxPairings
        /\ pairings' = pairings + 1
        /\ mem' = [mem EXCEPT ![d].peers = @ \cup {pairings + 1}]
        /\ UNCHANGED due
     \/ \E p \in mem[d].peers :
          /\ mem' = [mem EXCEPT ![d].peers = @ \ {p}]
          /\ due' = due \ {p}
          /\ UNCHANGED pairings
  /\ UNCHANGED <<vars, saved, keys, anew>>

(* A response arrives, with a pairing or without, and the table is saved   *)
(* as it is; save_peers may fail, which is ignored (handle_auth).          *)
SaveTable(d) ==
  /\ state[d] = "serving"
  /\ \/ UNCHANGED pairings
     \/ pairings < MaxPairings /\ pairings' = pairings + 1
  /\ LET table == mem[d].peers \cup ((pairings + 1)..pairings') IN
     /\ mem' = [mem EXCEPT ![d].peers = table]
     /\ \/ /\ mem[d].key # None
           /\ saved' = [saved EXCEPT !.peers = table]
           /\ due' = IF Others(d) = {} THEN due \cup table ELSE {}
        \/ UNCHANGED <<saved, due>>
  /\ UNCHANGED <<vars, keys, anew>>

PNext ==
  \/ \E d \in Daemon :
       \/ LoadPeers(d) \/ StartUnsaved(d) \/ ReadKey(d) \/ MakeKey(d) \/ SaveKey(d)
       \/ GiveUp(d)
       \/ Starting(d) /\ mem[d].ready /\ Refuse(d) /\ Forget(d)
       \/ Starting(d) /\ mem[d].ready /\ Open(d) /\ UNCHANGED store
       \/ (Bind(d) \/ Quit(d)) /\ UNCHANGED store
       \/ (Fail(d) \/ Drop(d) \/ Kill(d)) /\ Forget(d)
       \/ ChangeTable(d) \/ SaveTable(d)
  \/ \E c \in Client : (Find(c) \/ Connect(c) \/ Leave(c)) /\ UNCHANGED store

PSpec == PInit /\ [][PNext]_pvars

-----------------------------------------------------------------------------
(* Every value has its type, and a daemon that is up has its profile.      *)
ProfileTypeOK ==
  /\ saved \in [key : Key \cup {None}, peers : SUBSET Pairing]
  /\ mem \in [Daemon -> Memory \cup {None}]
  /\ \A d \in Daemon : state[d] # "off" => mem[d] # None
  /\ keys \in 0..MaxKeys
  /\ pairings \in 0..MaxPairings
  /\ due \subseteq Pairing
  /\ anew \in BOOLEAN

(* A daemon that serves comes back under the same key, although a start    *)
(* that is refused saves a key too: unless, while another process was up,  *)
(* a key was made for a new profile or because none could be read, or two  *)
(* were starting at once.                                                  *)
IdentityKept ==
  \A d \in Running :
    mem[d].key # None => mem[d].key = saved.key \/ anew

(* The types, and the identity.                                            *)
ProfileInv == ProfileTypeOK /\ IdentityKept

(* A pairing that the only process up has saved stays saved, until it      *)
(* leaves the table of a daemon, or is not read by one that starts, or     *)
(* daemons that are up together save their tables over one another's.      *)
PairingsKept == due \subseteq saved.peers

=============================================================================

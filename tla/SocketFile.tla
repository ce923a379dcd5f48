----------------------------- MODULE SocketFile -----------------------------
(***************************************************************************)
(* The socket file by which daemons of one machine exclude one another and *)
(* clients find their daemon (IPCServer, IPCClient, main of the daemon).   *)
(*                                                                         *)
(* A daemon that finds the file gives up.  Otherwise it goes on, binds the *)
(* socket once its event loop starts, and removes the file, whoever made   *)
(* it, in release and again when the IPCServer is dropped: on every way    *)
(* out but a kill.                                                         *)
(*                                                                         *)
(* Definitions whose comment begins with "Mutant" are wrong on purpose and *)
(* used by no specification.                                               *)
(***************************************************************************)
EXTENDS Naturals

CONSTANTS
  Daemon,    \* daemon processes, each started again when it has ended
  Client,    \* client processes, each started again when it has ended
  None,      \* no file, no daemon
  MaxKills   \* bound: daemons killed

ASSUME SocketFileAssumption ==
  /\ {None, "off", "found"} \cap Daemon = {}
  /\ MaxKills \in Nat

VARIABLES
  file,      \* the daemon whose listener the socket file leads to, or None
  state,     \* state[d]: see State
  client,    \* client[c]: "off", "found" the file, or the daemon it talks to
  kills,     \* number of daemons killed, bounded by MaxKills
  stolen,    \* history: a daemon removed the file of another one
  overlap,   \* history: a daemon started while another had not ended
  wrong      \* history: errors given to users that were not true

vars == <<file, state, client, kills, stolen, overlap, wrong>>

(* "open": IPCServer::new found no file; "serving": the socket is bound;   *)
(* "released": ctrl-c, the server is released and not dropped yet.         *)
State == {"off", "open", "serving", "released"}

Error == {"application has already running", "daemon is not started"}

Running == {d \in Daemon : state[d] = "serving"}

Init ==
  /\ file = None
  /\ state = [d \in Daemon |-> "off"]
  /\ client = [c \in Client |-> "off"]
  /\ kills = 0
  /\ stolen = FALSE
  /\ overlap = FALSE
  /\ wrong = {}

-----------------------------------------------------------------------------
(* A daemon.                                                               *)

(* release: whatever is at the path is removed, and clients are let go.    *)
Release(d) ==
  /\ file' = None
  /\ client' = [c \in Client |-> IF client[c] = d THEN "off" ELSE client[c]]
  /\ stolen' = (stolen \/ file \notin {d, None})

(* IPCServer::new finds a file: the daemon ends.                           *)
Refuse(d) ==
  /\ state[d] = "off"
  /\ file # None
  /\ wrong' = IF Running = {} THEN wrong \cup {"application has already running"}
              ELSE wrong
  /\ UNCHANGED <<file, state, client, kills, stolen, overlap>>

(* IPCServer::new finds none.                                              *)
Open(d) ==
  /\ state[d] = "off"
  /\ file = None
  /\ state' = [state EXCEPT ![d] = "open"]
  /\ overlap' = (overlap \/ \E e \in Daemon \ {d} : state[e] # "off")
  /\ UNCHANGED <<file, client, kills, stolen, wrong>>

(* Mutant of Bind, breaks OneServes: an old file is replaced.              *)
BindAnew(d) ==
  /\ state[d] = "open"
  /\ file' = d
  /\ state' = [state EXCEPT ![d] = "serving"]
  /\ UNCHANGED <<client, kills, stolen, overlap, wrong>>

(* IPCServer::prepare, at the start of run: binding to a path that exists  *)
(* fails, see Fail.                                                        *)
Bind(d) ==
  /\ state[d] = "open"
  /\ file = None
  /\ file' = d
  /\ state' = [state EXCEPT ![d] = "serving"]
  /\ UNCHANGED <<client, kills, stolen, overlap, wrong>>

(* The daemon ends with an error, in binding or anywhere else, or with a   *)
(* panic: the server is dropped.                                           *)
Fail(d) ==
  /\ state[d] \in {"open", "serving"}
  /\ state' = [state EXCEPT ![d] = "off"]
  /\ Release(d)
  /\ UNCHANGED <<kills, overlap, wrong>>

(* Mutant of Quit, breaks FileExplained: the file is left to Drop.         *)
QuitWithoutRelease(d) ==
  /\ state[d] = "serving"
  /\ state' = [state EXCEPT ![d] = "released"]
  /\ UNCHANGED <<file, client, kills, stolen, overlap, wrong>>

(* ctrl-c: the event loop releases the server and returns.                 *)
Quit(d) ==
  /\ state[d] = "serving"
  /\ state' = [state EXCEPT ![d] = "released"]
  /\ Release(d)
  /\ UNCHANGED <<kills, overlap, wrong>>

(* The daemon is dropped at the end of main, and its server releases again.*)
Drop(d) ==
  /\ state[d] = "released"
  /\ state' = [state EXCEPT ![d] = "off"]
  /\ Release(d)
  /\ UNCHANGED <<kills, overlap, wrong>>

(* The process is killed; nothing is removed.                              *)
Kill(d) ==
  /\ state[d] # "off"
  /\ kills < MaxKills
  /\ kills' = kills + 1
  /\ state' = [state EXCEPT ![d] = "off"]
  /\ client' = [c \in Client |-> IF client[c] = d THEN "off" ELSE client[c]]
  /\ UNCHANGED <<file, stolen, overlap, wrong>>

-----------------------------------------------------------------------------
(* A client.                                                               *)

(* IPCClient::new looks for the file.                                      *)
Find(c) ==
  /\ client[c] = "off"
  /\ client' = [client EXCEPT ![c] = IF file = None THEN "off" ELSE "found"]
  /\ wrong' = IF file = None /\ Running # {}
                THEN wrong \cup {"daemon is not started"} ELSE wrong
  /\ UNCHANGED <<file, state, kills, stolen, overlap>>

(* It connects, and fails when the file is gone or nobody listens there.   *)
Connect(c) ==
  /\ client[c] = "found"
  /\ client' = [client EXCEPT ![c] = IF file \in Running THEN file ELSE "off"]
  /\ UNCHANGED <<file, state, kills, stolen, overlap, wrong>>

Leave(c) ==
  /\ client[c] \in Daemon
  /\ client' = [client EXCEPT ![c] = "off"]
  /\ UNCHANGED <<file, state, kills, stolen, overlap, wrong>>

Next ==
  \/ \E d \in Daemon : \/ Refuse(d) \/ Open(d) \/ Bind(d) \/ Fail(d)
                       \/ Quit(d) \/ Drop(d) \/ Kill(d)
  \/ \E c \in Client : Find(c) \/ Connect(c) \/ Leave(c)

Spec == Init /\ [][Next]_vars

-----------------------------------------------------------------------------
(* Every value has its type.                                               *)
TypeOK ==
  /\ file \in Daemon \cup {None}
  /\ state \in [Daemon -> State]
  /\ client \in [Client -> {"off", "found"} \cup Daemon]
  /\ kills \in 0..MaxKills
  /\ stolen \in BOOLEAN
  /\ overlap \in BOOLEAN
  /\ wrong \subseteq Error

(* The file keeps daemons apart: two serve only after one of them, or a    *)
(* third, removed a file that was not its own, and nobody does that unless *)
(* a daemon is started while another one is still starting or stopping.    *)
OneServes ==
  /\ \A d, e \in Running : d # e => stolen
  /\ stolen => overlap

(* The file and the two errors mean what they say, with one exception      *)
(* each: it leads to a daemon that serves, and a user is told that the     *)
(* application runs only when it does, unless a daemon was killed; and     *)
(* that no daemon is started when one is comes of a theft.                 *)
FileExplained ==
  /\ file # None => file \in Running \/ kills > 0
  /\ "application has already running" \in wrong => kills > 0
  /\ "daemon is not started" \in wrong => stolen

=============================================================================

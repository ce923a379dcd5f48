------------------------------ MODULE Transfer ------------------------------
(***************************************************************************)
(* What a client may rely on when it is told of a file (FileUpdated):      *)
(* chunks are collected while the transfer is open, it is reported once,   *)
(* and from then on nothing is collected any more.  The one chunk that was *)
(* collected last may still be owed: it reaches the file later, or never,  *)
(* as when the daemon stops.  FileTransfer implements this.                *)
(***************************************************************************)
EXTENDS FiniteSets

CONSTANTS Session, Chunk

VARIABLES
  state,  \* state[s]: "shut", "open" or "reported"
  file,   \* file[s]: the chunks in the file of s
  owed    \* owed[s]: at most one chunk on its way into the file of s

vars == <<state, file, owed>>

Init ==
  /\ state = [s \in Session |-> "shut"]
  /\ file = [s \in Session |-> {}]
  /\ owed = [s \in Session |-> {}]

Open(s) ==
  /\ state[s] = "shut"
  /\ state' = [state EXCEPT ![s] = "open"]
  /\ file' = [file EXCEPT ![s] = {}]
  /\ owed' = [owed EXCEPT ![s] = {}]

(* A chunk is collected when the one before it is in the file.             *)
Collect(s, c) ==
  /\ state[s] = "open"
  /\ file' = [file EXCEPT ![s] = @ \cup owed[s]]
  /\ owed' = [owed EXCEPT ![s] = {c}]
  /\ UNCHANGED state

Settle(s) ==
  /\ file' = [file EXCEPT ![s] = @ \cup owed[s]]
  /\ owed' = [owed EXCEPT ![s] = {}]
  /\ UNCHANGED state

(* What is owed cannot be written.                                         *)
Miss(s) ==
  /\ owed' = [owed EXCEPT ![s] = {}]
  /\ UNCHANGED <<state, file>>

(* The end, with a report or without.                                      *)
Close(s) ==
  /\ state[s] = "open"
  /\ \E end \in {"reported", "shut"} : state' = [state EXCEPT ![s] = end]
  /\ UNCHANGED <<file, owed>>

(* The daemon stops.                                                       *)
Crash ==
  /\ state' = [s \in Session |-> IF state[s] = "open" THEN "shut" ELSE state[s]]
  /\ owed' = [s \in Session |-> {}]
  /\ UNCHANGED file

Next ==
  \/ \E s \in Session : Open(s) \/ Settle(s) \/ Miss(s) \/ Close(s)
  \/ \E s \in Session, c \in Chunk : Collect(s, c)
  \/ Crash

Spec == Init /\ [][Next]_vars

=============================================================================

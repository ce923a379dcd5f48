------------------------------ MODULE PeerView ------------------------------
(***************************************************************************)
(* What the clients of one daemon show of its peers: the table with states *)
(* and hostnames, the handlers that change it, the events that tell the    *)
(* clients, and the list and the prompt of the terminal client (send_peers,*)
(* handle_mdns, handle_auth, handle_gossipsub, handle_client_event,        *)
(* App::handle_deamon, App::handle_input).                                 *)
(*                                                                         *)
(* Requests and events are not lost and keep their order (module IPC).     *)
(* The daemon handles one event at a time and waits for room to tell its   *)
(* clients.  How two nodes reach a verified state is in Pairing.           *)
(*                                                                         *)
(* Definitions whose comment begins with "Mutant" are wrong on purpose and *)
(* used by no specification.                                               *)
(***************************************************************************)
EXTENDS Naturals, Sequences

CONSTANTS
  Peer,       \* the other nodes
  Client,     \* the terminal clients of the daemon
  Absent,     \* no entry
  Nobody,     \* no prompt
  Room,       \* room for events and for requests on the way
  MaxSteps    \* bound: events and requests handled by the daemon

ASSUME PeerViewAssumption ==
  /\ Nobody \notin Peer
  /\ Room \in Nat /\ Room >= 2
  /\ MaxSteps \in Nat

VARIABLES
  table,      \* table[p]: the entry of p, or Absent
  attached,   \* the clients in the id_map of the daemon
  events,     \* events[c]: the events on their way to c
  asks,       \* asks[c]: the requests on their way from c
  view,       \* view[c][p]: the entry of p in the list of c, or Absent
  prompt,     \* prompt[c]: the peer c asks its user about
  steps,      \* number of steps of the daemon, bounded by MaxSteps
  quiet       \* history: peers changed since the last list without telling

vars == <<table, attached, events, asks, view, prompt, steps, quiet>>

(* DaemonPeer; a hostname is known or not.                                 *)
Entry == [state : {"Verified", "Blocked", "WaitingVerification"},
          named : BOOLEAN]
Table == [Peer -> Entry \cup {Absent}]

NewPeer == [state |-> "WaitingVerification", named |-> FALSE]
Unknown == [p \in Peer |-> Absent]

Ask ==
  {<<"RequestPeerList">>} \cup ({"RequestVerify", "DisconnectPeer"} \X Peer)
    \cup ({"VerifyConfirm"} \X Peer \X BOOLEAN)

Event ==
  ({"PeerList"} \X Table) \cup ({"InComingVerify"} \X Peer)
    \cup ({"VerifyResult"} \X Peer \X BOOLEAN)

Init ==
  /\ table = Unknown
  /\ attached = {}
  /\ events = [c \in Client |-> <<>>]
  /\ asks = [c \in Client |-> <<>>]
  /\ view = [c \in Client |-> Unknown]
  /\ prompt = [c \in Client |-> Nobody]
  /\ steps = 0
  /\ quiet = {}

-----------------------------------------------------------------------------
(* The daemon.                                                             *)

(* The main loop takes the next event; more are told first.                *)
Step(n) ==
  /\ steps < MaxSteps
  /\ \A c \in attached : Len(events[c]) + n <= Room
  /\ steps' = steps + 1

(* emit_event for each of es, and send_peers behind them, to the clients   *)
(* of ids.                                                                 *)
TellThenSendPeers(ids, es) ==
  /\ events' = [c \in Client |->
                  IF c \in ids
                    THEN events[c] \o es \o << <<"PeerList", table'>> >>
                    ELSE events[c]]
  /\ quiet' = {}

(* add_peer: a fresh entry, whatever was there.                            *)
AddPeers(S) == table' = [p \in Peer |-> IF p \in S THEN NewPeer ELSE table[p]]

RemovePeers(S) == table' = [p \in Peer |-> IF p \in S THEN Absent ELSE table[p]]

Discovered(S) ==
  /\ Step(1)
  /\ AddPeers(S)
  /\ TellThenSendPeers(attached, <<>>)
  /\ UNCHANGED <<attached, asks, view, prompt>>

Expired(S) ==
  /\ Step(1)
  /\ RemovePeers(S)
  /\ TellThenSendPeers(attached, <<>>)
  /\ UNCHANGED <<attached, asks, view, prompt>>

(* Mutant of GossipsubNotSupported, breaks ViewExplained: the clients are  *)
(* not told.                                                               *)
NotSupportedUntold(p) ==
  /\ Step(1)
  /\ RemovePeers({p})
  /\ UNCHANGED <<attached, events, asks, view, prompt, quiet>>

GossipsubNotSupported(p) ==
  /\ Step(1)
  /\ RemovePeers({p})
  /\ TellThenSendPeers(attached, <<>>)
  /\ UNCHANGED <<attached, asks, view, prompt>>

(* A message on topic Hostname: of a peer that is not known it is dropped. *)
ReceiveHostname(p) ==
  /\ Step(1)
  /\ IF table[p] # Absent
       THEN /\ table' = [table EXCEPT ![p].named = TRUE]
            /\ TellThenSendPeers(attached, <<>>)
       ELSE UNCHANGED <<table, events, quiet>>
  /\ UNCHANGED <<attached, asks, view, prompt>>

ReceiveRequest(p) ==
  /\ Step(2)
  /\ table' = [table EXCEPT ![p] = [NewPeer EXCEPT !.named = TRUE]]
  /\ TellThenSendPeers(attached, << <<"InComingVerify", p>> >>)
  /\ UNCHANGED <<attached, asks, view, prompt>>

(* What a response changes in the entry of its peer, if there is one.      *)
Answered(p, accept) ==
  table' = IF table[p] = Absent THEN table
           ELSE [table EXCEPT ![p].named = TRUE,
                   ![p].state = IF accept THEN "Verified" ELSE @]

(* Mutant of ReceiveResponse, breaks ViewInv: the list is not sent behind  *)
(* the result.                                                             *)
ResponseWithoutList(p, accept) ==
  /\ Step(2)
  /\ Answered(p, accept)
  /\ events' = [c \in Client |->
                  IF c \in attached
                    THEN Append(events[c], <<"VerifyResult", p, accept>>)
                    ELSE events[c]]
  /\ UNCHANGED <<attached, asks, view, prompt, quiet>>

ReceiveResponse(p, accept) ==
  /\ Step(2)
  /\ Answered(p, accept)
  /\ TellThenSendPeers(attached, << <<"VerifyResult", p, accept>> >>)
  /\ UNCHANGED <<attached, asks, view, prompt>>

(* IPCServer::recv and handle_client_event.                                *)
HandleAsk(c) ==
  LET ask == Head(asks[c]) IN
  /\ Step(1)
  /\ asks[c] # <<>>
  /\ asks' = [asks EXCEPT ![c] = Tail(@)]
  /\ attached' = attached \cup {c}
  /\ \/ /\ ask[1] = "RequestPeerList"
        /\ UNCHANGED table
        /\ TellThenSendPeers(attached', <<>>)
     \/ /\ ask[1] = "RequestVerify"
        /\ UNCHANGED <<table, events, quiet>>
     \/ /\ ask[1] = "DisconnectPeer"
        /\ RemovePeers({ask[2]})
        /\ quiet' = quiet \cup {ask[2]}
        /\ UNCHANGED events
     \/ /\ ask[1] = "VerifyConfirm"
        /\ IF ask[3]
             THEN /\ table' = [table EXCEPT
                                 ![ask[2]] = [NewPeer EXCEPT !.state = "Verified"]]
                  /\ quiet' = quiet \cup {ask[2]}
             ELSE UNCHANGED <<table, quiet>>
        /\ UNCHANGED events
  /\ UNCHANGED <<view, prompt>>

-----------------------------------------------------------------------------
(* A terminal client.                                                      *)

Send(c, ask) ==
  /\ Len(asks[c]) < Room
  /\ asks' = [asks EXCEPT ![c] = Append(@, ask)]

(* The start of a client, and key r.                                       *)
Refresh(c) ==
  /\ Send(c, <<"RequestPeerList">>)
  /\ UNCHANGED <<table, attached, events, view, prompt, steps, quiet>>

(* Keys Enter and d on a peer of the list.                                 *)
Pick(c, p) ==
  /\ view[c][p] # Absent
  /\ \E kind \in {"RequestVerify", "DisconnectPeer"} : Send(c, <<kind, p>>)
  /\ UNCHANGED <<table, attached, events, view, prompt, steps, quiet>>

(* Keys y and n on a prompt; y marks the peer in the list of this client.  *)
Confirm(c, yes) ==
  LET p == prompt[c] IN
  /\ p # Nobody
  /\ Send(c, <<"VerifyConfirm", p, yes>>)
  /\ view' = IF yes /\ view[c][p] # Absent
               THEN [view EXCEPT ![c][p].state = "Verified"] ELSE view
  /\ prompt' = [prompt EXCEPT ![c] = Nobody]
  /\ UNCHANGED <<table, attached, events, steps, quiet>>

(* handle_deamon *)
Show(c) ==
  LET event == Head(events[c]) IN
  /\ events[c] # <<>>
  /\ events' = [events EXCEPT ![c] = Tail(@)]
  /\ \/ /\ event[1] = "PeerList"
        /\ view' = [view EXCEPT ![c] = event[2]]
        /\ UNCHANGED prompt
     \/ /\ event[1] = "InComingVerify"
        /\ prompt' = [prompt EXCEPT ![c] = event[2]]
        /\ UNCHANGED view
     \/ /\ event[1] = "VerifyResult"
        /\ view' = IF view[c][event[2]] = Absent THEN view
                   ELSE [view EXCEPT ![c][event[2]].state =
                           IF event[3] THEN "Verified" ELSE "Blocked"]
        /\ UNCHANGED prompt
  /\ UNCHANGED <<table, attached, asks, steps, quiet>>

Next ==
  \/ \E S \in SUBSET Peer \ {{}} : Discovered(S) \/ Expired(S)
  \/ \E p \in Peer :
       \/ GossipsubNotSupported(p)
       \/ ReceiveHostname(p)
       \/ ReceiveRequest(p)
       \/ \E accept \in BOOLEAN : ReceiveResponse(p, accept)
  \/ \E c \in Client :
       \/ HandleAsk(c)
       \/ Refresh(c)
       \/ \E p \in Peer : Pick(c, p)
       \/ \E yes \in BOOLEAN : Confirm(c, yes)
       \/ Show(c)

Spec == Init /\ [][Next]_vars

-----------------------------------------------------------------------------
(* Every value has its type; no peer of the table is ever Blocked.         *)
TypeOK ==
  /\ table \in Table
  /\ \A p \in Peer : table[p] # Absent => table[p].state # "Blocked"
  /\ attached \subseteq Client
  /\ \A c \in Client :
       /\ \A i \in DOMAIN events[c] : events[c][i] \in Event
       /\ \A i \in DOMAIN asks[c] : asks[c][i] \in Ask
       /\ Len(events[c]) <= Room /\ Len(asks[c]) <= Room
  /\ view \in [Client -> Table]
  /\ prompt \in [Client -> Peer \cup {Nobody}]
  /\ steps \in 0..MaxSteps
  /\ quiet \subseteq Peer

(* A client that has seen all its events shows the table of the daemon,    *)
(* but for peers that a client has confirmed or disconnected since, as     *)
(* handle_client_event tells nobody of these, and for its own yes that is  *)
(* still on its way.                                                       *)
ViewExplained ==
  \A c \in attached : events[c] = <<>> =>
    \A p \in Peer :
      \/ view[c][p] = table[p]
      \/ p \in quiet
      \/ \E i \in DOMAIN asks[c] : asks[c][i] = <<"VerifyConfirm", p, TRUE>>

(* A refusal shows as Blocked, and only until the list behind it comes:    *)
(* no client that has seen all its events shows a blocked peer.            *)
BlockedIsPassing ==
  \A c \in Client : events[c] = <<>> =>
    \A p \in Peer : view[c][p] # Absent => view[c][p].state # "Blocked"

(* The types, and where a peer is Blocked: never in the table, and in a    *)
(* list for a moment only.                                                 *)
ViewInv == TypeOK /\ BlockedIsPassing

=============================================================================

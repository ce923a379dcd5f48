------------------------------ MODULE Pairing ------------------------------
(***************************************************************************)
(* The pairing of LocalEx nodes: the peer table every node keeps           *)
(* (PeersManager), its mDNS handlers, the verification handshake over the  *)
(* "/localex/auth/1.0.0" request-response protocol (AuthHandler,           *)
(* ClientHandler), the prompt the clients of a daemon show and the copy of *)
(* the table kept in the secret store over a restart.                      *)
(*                                                                         *)
(* Each handler runs to its end before the main loop of the daemon picks   *)
(* the next event, so a handler is one action.  Requests and responses     *)
(* travel on streams of their own: no order between them is assumed, any   *)
(* of them may be lost, and the requester may stop waiting at any time.    *)
(*                                                                         *)
(* Definitions whose comment begins with "Mutant" are wrong on purpose and *)
(* used by no specification: each stands for a plausible bug in the        *)
(* definition below it, and must break the property it names.              *)
(***************************************************************************)
EXTENDS Naturals, Sequences

CONSTANTS
  Node,         \* the nodes, each with the daemon it runs
  Client,       \* the frontends attached to every daemon
  Addr,         \* the addresses mDNS may report for a peer
  Request,      \* the verification requests of a behaviour
  Nobody,       \* no peer
  NoRequest,    \* no response channel
  MaxRestarts   \* bound: restarts of one daemon

ASSUME PairingAssumption ==
  /\ Nobody \notin Node
  /\ NoRequest \notin Request
  /\ MaxRestarts \in Nat

VARIABLES
  peers,     \* peers[n][m]: m's state in n's table, "Unknown" when absent
  explicit,  \* explicit[n]: n's explicit gossipsub peers
  records,   \* records[n]: the live mDNS records n sees, as <<peer, address>>
  channels,  \* channels[n][m]: the request whose response channel n keeps for m
  prompt,    \* prompt[n][c]: the peer client c of n asks its user about
  answers,   \* answers[n][c]: the VerifyConfirm events on their way from c to n
  stored,    \* stored[n]: the table in n's secret store
  req,       \* req[r]: the life of request r
  restarts,  \* restarts[n]: number of restarts of n, bounded by MaxRestarts
  accepted   \* accepted[n]: history, the peers n's user has accepted, ever

table == <<peers, explicit>>
clients == <<prompt, answers>>
history == <<restarts, accepted>>
vars == <<table, records, channels, clients, stored, req, history>>

PeerState == {"Unknown", "WaitingVerification", "Verified"}

(* "free" not sent yet; "sent" on its way to the responder; "held" the     *)
(* responder keeps its channel; "lost" it can get no response any more;    *)
(* "accept"/"deny" the response is on its way back; "done" delivered.      *)
Phase == {"free", "sent", "held", "lost", "accept", "deny", "done"}

VerifyConfirm == [peer : Node, result : BOOLEAN]

RequestState == [from : Node \cup {Nobody}, to : Node \cup {Nobody},
                 phase : Phase, waiting : BOOLEAN]

Known(n) == {m \in Node : peers[n][m] # "Unknown"}

(* is_verified *)
IsVerified(n, m) == peers[n][m] = "Verified"

EmptyRow == [m \in Node |-> "Unknown"]

Init ==
  /\ peers = [n \in Node |-> EmptyRow]
  /\ explicit = [n \in Node |-> {}]
  /\ records = [n \in Node |-> {}]
  /\ channels = [n \in Node |-> [m \in Node |-> NoRequest]]
  /\ prompt = [n \in Node |-> [c \in Client |-> Nobody]]
  /\ answers = [n \in Node |-> [c \in Client |-> <<>>]]
  /\ stored = [n \in Node |-> EmptyRow]
  /\ req = [r \in Request |-> [from |-> Nobody, to |-> Nobody,
                               phase |-> "free", waiting |-> FALSE]]
  /\ restarts = [n \in Node |-> 0]
  /\ accepted = [n \in Node |-> {}]

-----------------------------------------------------------------------------
(* The peer table.                                                         *)

(* add_peer for every peer of M, which leaves them in the given state: a   *)
(* fresh DaemonPeer replaces the entry, whatever its state was.            *)
AddPeers(n, M, state) ==
  /\ peers' = [peers EXCEPT ![n] =
                 [m \in Node |-> IF m \in M THEN state ELSE peers[n][m]]]
  /\ explicit' = [explicit EXCEPT ![n] = @ \cup M]

(* Mutant of RemovePeers, breaks ExplicitFollowsTable: remove_explicit_peer*)
(* is not called.                                                          *)
RemovePeersKeepExplicit(n, M) ==
  /\ peers' = [peers EXCEPT ![n] =
                 [m \in Node |-> IF m \in M THEN "Unknown" ELSE peers[n][m]]]
  /\ UNCHANGED explicit

(* remove_peer for every peer of M.  The response channel kept for a peer  *)
(* and the prompt about it are left alone.                                 *)
RemovePeers(n, M) ==
  /\ peers' = [peers EXCEPT ![n] =
                 [m \in Node |-> IF m \in M THEN "Unknown" ELSE peers[n][m]]]
  /\ explicit' = [explicit EXCEPT ![n] = @ \ M]

PeersOf(S) == {s[1] : s \in S}

(* handle_mdns, Discovered: mDNS reports the records it had not seen.      *)
Discovered(n, S) ==
  /\ S # {}
  /\ S \cap records[n] = {}
  /\ records' = [records EXCEPT ![n] = @ \cup S]
  /\ AddPeers(n, PeersOf(S), "WaitingVerification")
  /\ UNCHANGED <<channels, clients, stored, req, history>>

(* handle_mdns, Expired: any record may run out, whatever other records    *)
(* its peer still has.                                                     *)
Expired(n, S) ==
  /\ S # {}
  /\ S \subseteq records[n]
  /\ records' = [records EXCEPT ![n] = @ \ S]
  /\ RemovePeers(n, PeersOf(S))
  /\ UNCHANGED <<channels, clients, stored, req, history>>

-----------------------------------------------------------------------------
(* What the clients of n do, and what n does of it (handle_client_event).  *)

RequestVerify(n, m, r) ==
  /\ n # m
  /\ req[r].phase = "free"
  /\ req' = [req EXCEPT ![r] = [from |-> n, to |-> m,
                                phase |-> "sent", waiting |-> TRUE]]
  /\ UNCHANGED <<table, records, channels, clients, stored, history>>

(* Mutant of DisconnectPeer, breaks PromptAnswerable: the channel kept for *)
(* the peer is dropped with its entry.                                     *)
DisconnectDropsChannel(n, m) ==
  /\ n # m
  /\ RemovePeers(n, {m})
  /\ channels' = [channels EXCEPT ![n][m] = NoRequest]
  /\ UNCHANGED <<records, clients, stored, req, history>>

DisconnectPeer(n, m) ==
  /\ n # m
  /\ RemovePeers(n, {m})
  /\ UNCHANGED <<records, channels, clients, stored, req, history>>

(* The user answers the prompt client c shows: the answer leaves for the   *)
(* daemon and the prompt is closed, whatever becomes of the request.       *)
Answer(n, c, result) ==
  LET m == prompt[n][c] IN
  /\ m # Nobody
  /\ prompt' = [prompt EXCEPT ![n][c] = Nobody]
  /\ answers' = [answers EXCEPT ![n][c] =
                   Append(@, [peer |-> m, result |-> result])]
  /\ accepted' = IF result
                   THEN [accepted EXCEPT ![n] = @ \cup {m}] ELSE accepted
  /\ UNCHANGED <<table, records, channels, stored, req, restarts>>

(* The response channel kept for m is taken, and answered if it can be.    *)
AnswerChannel(n, m, answer) ==
  LET r == channels[n][m] IN
  /\ channels' = [channels EXCEPT ![n][m] = NoRequest]
  /\ req' = IF r # NoRequest /\ req[r].phase = "held"
              THEN [req EXCEPT ![r].phase = answer]
              ELSE req

(* Mutant of HandleConfirm, breaks AcceptIsMeant: the state sent does not  *)
(* depend on the answer.                                                   *)
ConfirmAlwaysAccepts(n, c) ==
  /\ answers[n][c] # <<>>
  /\ AnswerChannel(n, Head(answers[n][c]).peer, "accept")
  /\ answers' = [answers EXCEPT ![n][c] = Tail(@)]
  /\ UNCHANGED <<table, records, prompt, stored, history>>

(* The oldest answer of client c arrives.  A "no" leaves the table alone.  *)
HandleConfirm(n, c) ==
  /\ answers[n][c] # <<>>
  /\ LET m == Head(answers[n][c]).peer IN
       \/ /\ Head(answers[n][c]).result
          /\ AddPeers(n, {m}, "Verified")
          /\ AnswerChannel(n, m, "accept")
       \/ /\ ~Head(answers[n][c]).result
          /\ AnswerChannel(n, m, "deny")
          /\ UNCHANGED table
  /\ answers' = [answers EXCEPT ![n][c] = Tail(@)]
  /\ UNCHANGED <<records, prompt, stored, history>>

-----------------------------------------------------------------------------
(* What the network brings (handle_auth).                                  *)

(* Mutant of ReceiveRequest, breaks ChannelSlots: the newer channel is     *)
(* dropped when one is kept already.                                       *)
ReceiveRequestKeepsOld(r) ==
  LET n == req[r].to
      m == req[r].from
  IN
  /\ req[r].phase = "sent"
  /\ AddPeers(n, {m}, "WaitingVerification")
  /\ channels' = IF channels[n][m] = NoRequest
                   THEN [channels EXCEPT ![n][m] = r] ELSE channels
  /\ prompt' = [prompt EXCEPT ![n] = [c \in Client |-> m]]
  /\ req' = [req EXCEPT ![r].phase = "held"]
  /\ UNCHANGED <<records, answers, stored, history>>

(* A request arrives: its peer is added afresh, its channel replaces the   *)
(* one kept for that peer, and every client shows the prompt.              *)
ReceiveRequest(r) ==
  LET n == req[r].to
      m == req[r].from
      old == channels[n][m]
  IN
  /\ req[r].phase = "sent"
  /\ AddPeers(n, {m}, "WaitingVerification")
  /\ channels' = [channels EXCEPT ![n][m] = r]
  /\ prompt' = [prompt EXCEPT ![n] = [c \in Client |-> m]]
  /\ req' = [q \in Request |->
               IF q = r THEN [req[q] EXCEPT !.phase = "held"]
               ELSE IF q = old THEN [req[q] EXCEPT !.phase = "lost"]
               ELSE req[q]]
  /\ UNCHANGED <<records, answers, stored, history>>

(* Mutant of ReceiveResponse, breaks VerifiedByConsent: the state of the   *)
(* response is not looked at.                                              *)
ReceiveAnyResponse(r) ==
  LET n == req[r].from
      m == req[r].to
  IN
  /\ req[r].phase \in {"accept", "deny"}
  /\ req[r].waiting
  /\ req' = [req EXCEPT ![r].phase = "done", ![r].waiting = FALSE]
  /\ peers' = IF m \in Known(n)
                THEN [peers EXCEPT ![n][m] = "Verified"] ELSE peers
  /\ explicit' = [explicit EXCEPT ![n] = @ \cup {m}]
  /\ stored' = [stored EXCEPT ![n] = peers'[n]]
  /\ UNCHANGED <<records, channels, clients, history>>

(* verified acts only on a peer that is in the table; add_explicit_peer    *)
(* acts in any case.  The table is saved last, and a failure to save it is *)
(* ignored.                                                                *)
ReceiveResponse(r) ==
  LET n == req[r].from
      m == req[r].to
      ok == req[r].phase = "accept"
  IN
  /\ req[r].phase \in {"accept", "deny"}
  /\ req[r].waiting
  /\ req' = [req EXCEPT ![r].phase = "done", ![r].waiting = FALSE]
  /\ peers' = IF ok /\ m \in Known(n)
                THEN [peers EXCEPT ![n][m] = "Verified"] ELSE peers
  /\ explicit' = IF ok THEN [explicit EXCEPT ![n] = @ \cup {m}] ELSE explicit
  /\ \/ stored' = [stored EXCEPT ![n] = peers'[n]]
     \/ UNCHANGED stored
  /\ UNCHANGED <<records, channels, clients, history>>

(* The requester stops waiting: a timeout, a failed dial, a lost stream, a *)
(* channel the responder dropped.  What already travels may still arrive.  *)
OutboundFailure(r) ==
  /\ req[r].waiting
  /\ req' = [req EXCEPT ![r].waiting = FALSE]
  /\ UNCHANGED <<table, records, channels, clients, stored, history>>

(* The responder's side of the stream fails: the channel stays where it    *)
(* is, but nothing can be sent on it.                                      *)
InboundFailure(r) ==
  /\ req[r].phase = "held"
  /\ req' = [req EXCEPT ![r].phase = "lost"]
  /\ UNCHANGED <<table, records, channels, clients, stored, history>>

-----------------------------------------------------------------------------
(* What a stop of n takes away whatever it loads afterwards.               *)
LoseMemory(n) ==
  /\ restarts[n] < MaxRestarts
  /\ restarts' = [restarts EXCEPT ![n] = @ + 1]
  /\ explicit' = [explicit EXCEPT ![n] = {}]
  /\ records' = [records EXCEPT ![n] = {}]
  /\ channels' = [channels EXCEPT ![n] = [m \in Node |-> NoRequest]]
  /\ prompt' = [prompt EXCEPT ![n] = [c \in Client |-> Nobody]]
  /\ answers' = [answers EXCEPT ![n] = [c \in Client |-> <<>>]]
  /\ req' = [r \in Request |->
               [req[r] EXCEPT
                  !.waiting = @ /\ req[r].from # n,
                  !.phase = IF @ = "held" /\ req[r].to = n
                              THEN "lost" ELSE @]]
  /\ UNCHANGED <<stored, accepted>>

(* Mutant of Restart, breaks ImplementsConsent: every peer of the saved    *)
(* table is taken for a paired one.                                        *)
RestartTrustsAll(n) ==
  /\ LoseMemory(n)
  /\ peers' = [peers EXCEPT ![n] = [m \in Node |->
                 IF stored[n][m] = "Unknown" THEN "Unknown" ELSE "Verified"]]

(* The daemon stops and starts again: SecretStore::new loads the saved     *)
(* table, with the states it holds; everything else starts empty.          *)
Restart(n) ==
  /\ LoseMemory(n)
  /\ peers' = [peers EXCEPT ![n] = stored[n]]

Next ==
  \/ \E n \in Node :
       \/ \E S \in SUBSET ((Node \ {n}) \X Addr) : Discovered(n, S)
       \/ \E S \in SUBSET ((Node \ {n}) \X Addr) : Expired(n, S)
       \/ \E m \in Node, r \in Request : RequestVerify(n, m, r)
       \/ \E m \in Node : DisconnectPeer(n, m)
       \/ \E c \in Client, result \in BOOLEAN : Answer(n, c, result)
       \/ \E c \in Client : HandleConfirm(n, c)
       \/ Restart(n)
  \/ \E r \in Request :
       \/ ReceiveRequest(r)
       \/ ReceiveResponse(r)
       \/ OutboundFailure(r)
       \/ InboundFailure(r)

Spec == Init /\ [][Next]_vars

-----------------------------------------------------------------------------
(* Type correctness of the peer tables, channels, prompts and requests.    *)
TypeOK ==
  /\ peers \in [Node -> [Node -> PeerState]]
  /\ explicit \in [Node -> SUBSET Node]
  /\ records \in [Node -> SUBSET (Node \X Addr)]
  /\ channels \in [Node -> [Node -> Request \cup {NoRequest}]]
  /\ prompt \in [Node -> [Client -> Node \cup {Nobody}]]
  /\ answers \in [Node -> [Client -> Seq(VerifyConfirm)]]
  /\ stored \in [Node -> [Node -> PeerState]]
  /\ req \in [Request -> RequestState]
  /\ restarts \in [Node -> 0..MaxRestarts]
  /\ accepted \in [Node -> SUBSET Node]

(* n has a ground to trust m: one of the two users said yes to the other.  *)
Grounded(n, m) == m \in accepted[n] \/ n \in accepted[m]

(* A peer is verified, in memory or in the secret store, only if the user  *)
(* of one of the two nodes accepted the other node, whatever requests,     *)
(* responses, expiries and restarts crossed meanwhile.                     *)
VerifiedByConsent ==
  \A n, m \in Node :
    \/ peers[n][m] = "Verified"
    \/ stored[n][m] = "Verified"
    => Grounded(n, m)

(* A response channel is kept for the peer that sent the request, a        *)
(* request whose channel can still be used is kept in exactly that slot:   *)
(* none that waits for its answer gets out of reach of VerifyConfirm.      *)
ChannelSlots ==
  /\ \A n, m \in Node : channels[n][m] # NoRequest =>
       LET r == channels[n][m] IN
       /\ req[r].to = n /\ req[r].from = m
       /\ req[r].phase \in {"held", "lost"}
  /\ \A r \in Request : req[r].phase = "held" =>
       channels[req[r].to][req[r].from] = r

(* The explicit peers of gossipsub follow the table except in two ways:    *)
(* an Accept that comes after its peer was removed makes explicit a peer   *)
(* that is in no table, and a peer loaded from the store is not explicit.  *)
ExplicitFollowsTable ==
  \A n, m \in Node :
    /\ m \in explicit[n] \ Known(n) => n \in accepted[m]
    /\ m \in Known(n) \ explicit[n] => restarts[n] > 0

(* A client that shows a prompt about m has a channel to answer on, unless *)
(* a request of m was answered, by another client or by an answer given to *)
(* an older prompt, or its stream failed: no prompt is dead from the start.*)
PromptAnswerable ==
  \A n \in Node, c \in Client :
    LET m == prompt[n][c] IN
    m # Nobody /\ channels[n][m] = NoRequest =>
      \E r \in Request : /\ req[r].from = m /\ req[r].to = n
                         /\ req[r].phase \in {"accept", "deny", "done", "lost"}

(* An Accept under way was sent for a yes to that very peer, even when the *)
(* yes was given to an older prompt and other requests came meanwhile.     *)
AcceptIsMeant ==
  \A r \in Request :
    req[r].phase = "accept" => req[r].from \in accepted[req[r].to]

(* The abstract specification of pairing.                                  *)
Abstract == INSTANCE Consent WITH
  consent <- accepted,
  trust <- [n \in Node |-> {m \in Node : peers[n][m] = "Verified"}]

(* Pairing implements Consent: every step of every handler is a consent,   *)
(* a grounded gain of trust, a loss of trust, a recall, or none of these.  *)
ImplementsConsent == Abstract!Spec

=============================================================================

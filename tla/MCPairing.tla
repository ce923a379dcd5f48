----------------------------- MODULE MCPairing -----------------------------
(* Pairing on two small instances, checked in one run: two daemons with    *)
(* clients that race, and two that restart and are announced on several    *)
(* addresses.                                                              *)
EXTENDS Pairing, TLC

VARIABLE in_use  \* the clients, addresses and restarts of the instance

(* Nodes, clients, addresses and requests are interchangeable.  Safety     *)
(* only.                                                                   *)
Symmetry == Permutations(Addr) \cup Permutations(Request)
              \cup Permutations(Client) \cup Permutations(Node)

Racing == [clients : {Client}, addrs : {{a} : a \in Addr}, restarts : {0}]

Restarting == [clients : {{c} : c \in Client}, addrs : {Addr},
               restarts : {MaxRestarts}]

(* Nothing that is not in use does anything: no user answers a prompt of   *)
(* such a client.                                                          *)
WithinInstance ==
  \A n \in Node :
    /\ \A c \in Client \ in_use.clients : answers'[n][c] = <<>>
    /\ records'[n] \subseteq Node \X in_use.addrs
    /\ restarts'[n] <= in_use.restarts

MCInit == Init /\ in_use \in Racing \cup Restarting

MCNext == Next /\ WithinInstance /\ UNCHANGED in_use

MCSpec == MCInit /\ [][MCNext]_<<vars, in_use>>

=============================================================================

--------------------------- MODULE HitlBroadcast ---------------------------
(***************************************************************************)
(* The registry of admin WebSockets of one tenant, and the broadcast that  *)
(* tells them of a new HITL session (broadcast_to_tenant, hitl_websocket   *)
(* in admin_service/routes/hitl.py).                                       *)
(*                                                                         *)
(* broadcast_to_tenant iterates over the registry's own list and awaits a  *)
(* send at every element; other tasks of the event loop add and remove     *)
(* sockets meanwhile.  A Python list iterator is an index into the list as *)
(* it is at each step.                                                     *)
(***************************************************************************)
EXTENDS Naturals, Sequences, Ranks

CONSTANTS
    Sockets,     \* WebSocket connections of one tenant's admins
    Broadcasts   \* calls of broadcast_to_tenant in the admin service's process

VARIABLES
    conn,      \* per socket: state of its connection and handler
    registry,  \* _ws_connections[tenant_id]
    bpc,       \* per broadcast: position
    index,     \* per broadcast: the list iterator
    dead,      \* per broadcast: the sockets its sends failed on
    received,  \* per socket: number of copies of each broadcast
    audience,  \* per broadcast: sockets open since it began
    churn      \* broadcasts during which a socket left the registry

busVars == <<conn, registry, bpc, index, dead, received, audience, churn>>

Registered(s) == \E i \in DOMAIN registry : registry[i] = s

\* list.remove of each of gone; a socket is in the list once at most.
Without(list, gone) ==
    LET left == InOrder({i \in DOMAIN list : list[i] \notin gone})
    IN  [k \in DOMAIN left |-> list[left[k]]]

Sending == {b \in Broadcasts : bpc[b] = "send"}

BusInit ==
    /\ conn = [s \in Sockets |-> "new"]
    /\ registry = <<>>
    /\ bpc = [b \in Broadcasts |-> "idle"]
    /\ index = [b \in Broadcasts |-> 1]
    /\ dead = [b \in Broadcasts |-> <<>>]
    /\ received = [s \in Sockets |-> [b \in Broadcasts |-> 0]]
    /\ audience = [b \in Broadcasts |-> {}]
    /\ churn = {}

(***************************************************************************)
(* hitl_websocket.                                                         *)
(***************************************************************************)
\* Mutant: the handler of a client that reconnects registers it again.
Register_Twice(s) ==
    /\ conn[s] \in {"new", "open"}
    /\ conn' = [conn EXCEPT ![s] = "open"]
    /\ registry' = IF Len(registry) < 3 THEN Append(registry, s) ELSE registry
    /\ UNCHANGED <<bpc, index, dead, received, audience, churn>>

\* The initial message carries a tenant_id.
Register(s) ==
    /\ conn[s] = "new"
    /\ conn' = [conn EXCEPT ![s] = "open"]
    /\ registry' = Append(registry, s)
    /\ UNCHANGED <<bpc, index, dead, received, audience, churn>>

\* It does not (close code 4001), or the client leaves before it sends one.
Reject(s) ==
    /\ conn[s] = "new"
    /\ conn' = [conn EXCEPT ![s] = "closed"]
    /\ UNCHANGED <<registry, bpc, index, dead, received, audience, churn>>

\* The peer goes away; the handler has not been resumed yet.
PeerLeaves(s) ==
    /\ conn[s] = "open"
    /\ conn' = [conn EXCEPT ![s] = "left"]
    /\ audience' = [b \in Broadcasts |-> audience[b] \ {s}]
    /\ UNCHANGED <<registry, bpc, index, dead, received, churn>>

\* Mutant: the handler ends without taking its socket out of the registry.
Unregister_Forgotten(s) ==
    /\ conn[s] = "left"
    /\ conn' = [conn EXCEPT ![s] = "closed"]
    /\ UNCHANGED <<registry, bpc, index, dead, received, audience, churn>>

\* WebSocketDisconnect, and the finally block.
Unregister(s) ==
    /\ conn[s] = "left"
    /\ conn' = [conn EXCEPT ![s] = "closed"]
    /\ registry' = Without(registry, {s})
    /\ churn' = IF Registered(s) THEN churn \cup Sending ELSE churn
    /\ UNCHANGED <<bpc, index, dead, received, audience>>

(***************************************************************************)
(* broadcast_to_tenant.                                                    *)
(***************************************************************************)
Start(b) ==
    /\ bpc[b] = "idle"
    /\ bpc' = [bpc EXCEPT ![b] = "send"]
    /\ audience' = [audience EXCEPT ![b] = {s \in Sockets : conn[s] = "open"}]
    /\ UNCHANGED <<conn, registry, index, dead, received, churn>>

\* Mutant: the loop is left at the first socket that fails.
SendFails_Stops(b) ==
    /\ bpc[b] = "send"
    /\ index[b] \in DOMAIN registry
    /\ conn[registry[index[b]]] = "left"
    /\ dead' = [dead EXCEPT ![b] = Append(@, registry[index[b]])]
    /\ index' = [index EXCEPT ![b] = Len(registry) + 1]
    /\ UNCHANGED <<conn, registry, bpc, received, audience, churn>>

\* A send to a peer that has left raises, or is swallowed by the network.
SendFails(b) ==
    /\ bpc[b] = "send"
    /\ index[b] \in DOMAIN registry
    /\ conn[registry[index[b]]] = "left"
    /\ dead' = [dead EXCEPT ![b] = Append(@, registry[index[b]])]
    /\ index' = [index EXCEPT ![b] = @ + 1]
    /\ UNCHANGED <<conn, registry, bpc, received, audience, churn>>

Send(b) ==
    /\ bpc[b] = "send"
    /\ index[b] \in DOMAIN registry
    /\ LET s == registry[index[b]]
       IN  received' = IF conn[s] = "open"
                       THEN [received EXCEPT ![s][b] = @ + 1] ELSE received
    /\ index' = [index EXCEPT ![b] = @ + 1]
    /\ UNCHANGED <<conn, registry, bpc, dead, audience, churn>>

\* Without an await in between, the failed sockets leave the registry one by
\* one; remove raises ValueError at the first that is no longer there.
Reap(b) ==
    LET missing == {i \in DOMAIN dead[b] : ~Registered(dead[b][i])}
        reaped  == {dead[b][i] : i \in {j \in DOMAIN dead[b] :
                                          \A k \in missing : j < k}}
    IN  /\ bpc[b] = "send"
        /\ index[b] \notin DOMAIN registry
        /\ registry' = Without(registry, reaped)
        /\ churn' = IF reaped = {} THEN churn ELSE churn \cup (Sending \ {b})
        /\ bpc' = [bpc EXCEPT ![b] = IF missing = {} THEN "done" ELSE "raised"]
        /\ UNCHANGED <<conn, index, dead, received, audience>>

BusNext ==
    \/ \E s \in Sockets : Register(s) \/ Reject(s) \/ PeerLeaves(s) \/ Unregister(s)
    \/ \E b \in Broadcasts : Start(b) \/ SendFails(b) \/ Send(b) \/ Reap(b)

BusSpec == BusInit /\ [][BusNext]_busVars
-----------------------------------------------------------------------------
(***************************************************************************)
(* Properties                                                              *)
(***************************************************************************)
BusTypeOK ==
    /\ conn \in [Sockets -> {"new", "open", "left", "closed"}]
    /\ registry \in Seq(Sockets)
    /\ bpc \in [Broadcasts -> {"idle", "send", "done", "raised"}]
    /\ index \in [Broadcasts -> Nat \ {0}]
    /\ dead \in [Broadcasts -> Seq(Sockets)]
    /\ received \in [Sockets -> [Broadcasts -> Nat]]
    /\ audience \in [Broadcasts -> SUBSET Sockets]
    /\ churn \subseteq Broadcasts

\* Whatever broadcasts reap while handlers come and go, the registry holds
\* every open socket exactly once, and none whose handler has ended.
RegistryExact ==
    /\ \A s \in Sockets : conn[s] = "open" => Registered(s)
    /\ \A s \in Sockets : Registered(s) => conn[s] \in {"open", "left"}
    /\ \A i, j \in DOMAIN registry : registry[i] = registry[j] => i = j

\* What a broadcast still wants to remove is a socket that has gone, so a
\* removal never costs an open socket its registration.
DeadHaveLeft ==
    \A b \in Broadcasts : \A i \in DOMAIN dead[b] : conn[dead[b][i]] \in {"left", "closed"}

\* The registry shrinks and grows under the iterator, yet no admin gets the
\* same event twice.
AtMostOnce == \A s \in Sockets, b \in Broadcasts : received[s][b] <= 1

\* Types, and the three of them, which no interleaving of one broadcast with
\* another, or with the handlers of the sockets, breaks.
BroadcastInv == BusTypeOK /\ RegistryExact /\ DeadHaveLeft /\ AtMostOnce

\* A broadcast during which nobody leaves the registry returns to its caller,
\* and reaches every socket that was open when it began and still is.
QuietReachesAll ==
    \A b \in Broadcasts :
        bpc[b] \in {"done", "raised"} /\ b \notin churn
            => bpc[b] = "done" /\ \A s \in audience[b] : received[s][b] = 1

\* hitl.py:24: the message is pushed to all connections of the tenant.
AllOpenReceive ==
    \A b \in Broadcasts :
        bpc[b] \in {"done", "raised"} => \A s \in audience[b] : received[s][b] = 1
=============================================================================

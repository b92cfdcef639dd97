----------------------------- MODULE Forwarding ------------------------------
(***************************************************************************)
(* What a transport promises to the users of its ports, with no word about *)
(* channels, goroutines or the control connection: a user connection is    *)
(* refused, or accepted and then joined to a tunnel nobody else uses, or   *)
(* closed.  The transport runs in periods that end when it restarts; only  *)
(* a connection accepted for a period that has ended may be forgotten.     *)
(***************************************************************************)
EXTENDS Integers

CONSTANTS Users, Tunnels, NoTunnel

VARIABLES
    user,      \* user -> "outside", "waiting", "relayed", "closed" or "lost"
    tunnel,    \* user -> the tunnel it was joined to
    accepted,  \* user -> the period it was accepted for, -1: none
    run,       \* the period new connections are accepted for
    ended      \* the periods that have ended

vars == <<user, tunnel, accepted, run, ended>>

Init ==
    /\ user = [u \in Users |-> "outside"]
    /\ tunnel = [u \in Users |-> NoTunnel]
    /\ accepted = [u \in Users |-> -1]
    /\ run = 0 /\ ended = {}

Accept(u) ==
    /\ user[u] = "outside"
    /\ user' = [user EXCEPT ![u] = "waiting"]
    /\ accepted' = [accepted EXCEPT ![u] = run]
    /\ UNCHANGED <<tunnel, run, ended>>

(* Refused because of the load, or dropped after it waited too long. *)
Close(u) ==
    /\ user[u] \in {"outside", "waiting"}
    /\ user' = [user EXCEPT ![u] = "closed"]
    /\ UNCHANGED <<tunnel, accepted, run, ended>>

Join(u) ==
    /\ user[u] = "waiting"
    /\ \E t \in Tunnels :
         /\ \A v \in Users : tunnel[v] # t
         /\ tunnel' = [tunnel EXCEPT ![u] = t]
    /\ user' = [user EXCEPT ![u] = "relayed"]
    /\ UNCHANGED <<accepted, run, ended>>

Forget(u) ==
    /\ user[u] = "waiting" /\ accepted[u] \in ended
    /\ user' = [user EXCEPT ![u] = "lost"]
    /\ UNCHANGED <<tunnel, accepted, run, ended>>

End ==
    /\ run \notin ended
    /\ ended' = ended \cup {run}
    /\ UNCHANGED <<user, tunnel, accepted, run>>

Renew ==
    /\ run \in ended
    /\ run' = run + 1
    /\ UNCHANGED <<user, tunnel, accepted, ended>>

Next == \/ \E u \in Users : Accept(u) \/ Close(u) \/ Join(u) \/ Forget(u)
        \/ End \/ Renew

Spec == Init /\ [][Next]_vars
=============================================================================

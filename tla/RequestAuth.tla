------------------------------ MODULE RequestAuth ------------------------------
(***************************************************************************)
(* The authentication of node requests: build_headers on the node signs    *)
(* each request with a timestamp and a fresh nonce, authenticate_node in   *)
(* the control plane accepts or refuses it, and the scanner prunes old     *)
(* nonces.  The network may delay, repeat, reorder or lose any request.    *)
(*                                                                         *)
(* Time is in the unit of the timestamps, whole seconds.  A node's clock   *)
(* is set independently of the server's and may be stepped back.           *)
(* Signatures are not modelled: a request carries its node's.  Accepting   *)
(* is one step: authenticate_node runs on the event loop in a transaction  *)
(* of its own, and a refusal rolls back all of it.                         *)
(***************************************************************************)
EXTENDS Integers, Sequences

CONSTANTS Nodes,        \* the registered nodes
          Skew,         \* node_allowed_clock_skew_sec
          Ttl,          \* nonce_ttl_sec
          MaxTime,      \* bound on the clocks
          MaxRequests   \* bound on the requests signed by each node

ASSUME RequestAuthAssumption ==
    /\ Skew \in Nat
    /\ Ttl \in Nat
    /\ MaxTime \in Nat \ {0}
    /\ MaxRequests \in Nat

Times == 1..MaxTime

\* last_request_ts of a node that was never heard of.
Null == 0

VARIABLES
    now,      \* the server's clock
    clock,    \* clock[n]: node n's clock
    signed,   \* signed[n]: the timestamps of n's requests; a place is the nonce
    last,     \* last[n]: nodes.last_request_ts
    nonces,   \* the nonces table
    accepted  \* accepted[n]: the nonces of n's accepted requests, as accepted

vars == <<now, clock, signed, last, nonces, accepted>>

TypeOK ==
    /\ now \in Times
    /\ clock \in [Nodes -> Times]
    /\ signed \in [Nodes -> Seq(Times)]
    /\ last \in [Nodes -> Times \cup {Null}]
    /\ nonces \subseteq [node: Nodes, nonce: Nat, expires: 0..(now + Ttl)]
    /\ accepted \in [Nodes -> Seq(Nat)]
    /\ \A n \in Nodes : \A i \in DOMAIN accepted[n] : accepted[n][i] \in DOMAIN signed[n]

Init ==
    /\ now = 1
    /\ clock = [n \in Nodes |-> 1]
    /\ signed = [n \in Nodes |-> <<>>]
    /\ last = [n \in Nodes |-> Null]
    /\ nonces = {}
    /\ accepted = [n \in Nodes |-> <<>>]

--------------------------------------------------------------------------------
\* build_headers: the time with its microseconds cut off, and a nonce never used.
Sign(n) ==
    /\ Len(signed[n]) < MaxRequests
    /\ signed' = [signed EXCEPT ![n] = Append(@, clock[n])]
    /\ UNCHANGED <<now, clock, last, nonces, accepted>>

\* Breaks LockoutBounded: only old requests are refused.
WithinSkew_OldOnly(ts) == now - ts <= Skew

WithinSkew(ts) == now - ts <= Skew /\ ts - now <= Skew

\* Breaks AcceptedInOrder: the UPDATE takes an equal timestamp.
Newer_OrEqual(n, ts) == last[n] <= ts

\* Breaks FreshSecondIsAccepted: as if the timestamps were finer than they are.
Newer_ByTwo(n, ts) == last[n] + 1 < ts \/ last[n] = Null

\* The WHERE clause of the UPDATE of nodes.
Newer(n, ts) == last[n] < ts

Unused(n, nonce) == \A row \in nonces : row.node = n => row.nonce # nonce

Acceptable(n, nonce) ==
    /\ WithinSkew(signed[n][nonce])
    /\ Unused(n, nonce)
    /\ Newer(n, signed[n][nonce])

Recorded(n, nonce) == nonces \cup {[node |-> n, nonce |-> nonce, expires |-> now + Ttl]}

\* authenticate_node accepts; any signed request may arrive at any time, any number
\* of times.
Accept(n, nonce) ==
    /\ Acceptable(n, nonce)
    /\ nonces' = Recorded(n, nonce)
    /\ last' = [last EXCEPT ![n] = signed[n][nonce]]
    /\ accepted' = [accepted EXCEPT ![n] = Append(@, nonce)]
    /\ UNCHANGED <<now, clock, signed>>

\* prune_expired_nonces, every SCAN_INTERVAL_SEC.
Prune ==
    /\ nonces' = {row \in nonces : row.expires >= now}
    /\ UNCHANGED <<now, clock, signed, last, accepted>>

Tick ==
    /\ now < MaxTime
    /\ now' = now + 1
    /\ UNCHANGED <<clock, signed, last, nonces, accepted>>

\* A node's clock goes on, or is corrected.
ClockSet(n) ==
    /\ \E time \in Times : clock' = [clock EXCEPT ![n] = time]
    /\ UNCHANGED <<now, signed, last, nonces, accepted>>

Next ==
    \/ \E n \in Nodes : Sign(n) \/ ClockSet(n)
    \/ \E n \in Nodes : \E nonce \in DOMAIN signed[n] : Accept(n, nonce)
    \/ Prune
    \/ Tick

Spec == Init /\ [][Next]_vars

--------------------------------------------------------------------------------
\* What a node's requests do, they do once, and in the order of their timestamps,
\* although nonces are forgotten after Ttl, which is shorter than the time for which
\* a delayed copy is still within the allowed skew.
AcceptedInOrder ==
    \A n \in Nodes : \A i, j \in DOMAIN accepted[n] :
        i < j => signed[n][accepted[n][i]] < signed[n][accepted[n][j]]

\* A clock that ran ahead and was put right locks the node out for no longer than
\* the allowed skew: its last_request_ts is never further in the future.
LockoutBounded == \A n \in Nodes : last[n] <= now + Skew

\* The newest request of a node whose clock is right, arriving for the first time,
\* is accepted, unless another one of the same second was: timestamps are whole
\* seconds and must grow.
FreshSecondIsAccepted ==
    \A n \in Nodes :
        LET newest == Len(signed[n])
        IN  /\ newest > 0
            /\ clock[n] = now
            /\ signed[n][newest] = now
            /\ \A i \in DOMAIN signed[n] : signed[n][i] <= now
            /\ \A i \in DOMAIN accepted[n] : signed[n][accepted[n][i]] # now
            => Acceptable(n, newest)

================================================================================

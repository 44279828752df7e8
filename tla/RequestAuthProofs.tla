--------------------------- MODULE RequestAuthProofs ---------------------------
(***************************************************************************)
(* RequestAuth for any number of nodes, any clocks and any settings: what  *)
(* is accepted is accepted in order, and a lockout is bounded.  The        *)
(* invariant that carries both is that last_request_ts of a node is an     *)
(* upper bound of the timestamps accepted from it (LastIsBound); the nonce *)
(* table, which forgets, plays no part.                                    *)
(***************************************************************************)
EXTENDS RequestAuth, TLAPS

LastIsBound ==
    \A n \in Nodes : \A i \in DOMAIN accepted[n] : signed[n][accepted[n][i]] <= last[n]

OrderInv == TypeOK /\ LockoutBounded /\ LastIsBound /\ AcceptedInOrder

\* Nothing is accepted at first.
LEMMA InitOrderInv == Init => OrderInv
  BY RequestAuthAssumption
  DEF Init, OrderInv, TypeOK, LockoutBounded, LastIsBound, AcceptedInOrder, Times, Null

\* What was accepted was signed at some time, no later than last_request_ts.
LEMMA AcceptedIsOld ==
  ASSUME OrderInv, NEW n \in Nodes, NEW i \in DOMAIN accepted[n]
  PROVE  signed[n][accepted[n][i]] \in Int /\ signed[n][accepted[n][i]] <= last[n]
<1>1. signed[n] \in Seq(Times) /\ accepted[n][i] \in DOMAIN signed[n]
  BY DEF OrderInv, TypeOK
<1>2. signed[n][accepted[n][i]] \in Times
  BY <1>1
<1>3. signed[n][accepted[n][i]] <= last[n]
  BY DEF OrderInv, LastIsBound
<1>4. QED
  BY <1>2, <1>3, RequestAuthAssumption DEF Times

\* Signing extends the list of signed requests and leaves the accepted ones.
LEMMA SignKeepsOrder == ASSUME OrderInv, NEW n \in Nodes, Sign(n) PROVE OrderInv'
<1> USE RequestAuthAssumption DEF OrderInv, Times, Null
<1>1. TypeOK'
  <2>1. signed' \in [Nodes -> Seq(Times)] /\ signed \in [Nodes -> Seq(Times)]
    BY DEF TypeOK, Sign
  <2>2. \A m \in Nodes : DOMAIN signed[m] \subseteq DOMAIN signed'[m]
    BY <2>1 DEF Sign
  <2>3. \A m \in Nodes : \A i \in DOMAIN accepted[m] : accepted[m][i] \in DOMAIN signed'[m]
    BY <2>2 DEF TypeOK
  <2>4. QED
    BY <2>1, <2>3 DEF TypeOK, Sign
<1>2. \A m \in Nodes : \A i \in DOMAIN accepted[m] :
        signed'[m][accepted[m][i]] = signed[m][accepted[m][i]]
  BY DEF TypeOK, Sign
<1>3. LockoutBounded'
  BY DEF LockoutBounded, Sign
<1>4. LastIsBound'
  <2> SUFFICES ASSUME NEW m \in Nodes, NEW i \in DOMAIN accepted[m]
               PROVE  signed'[m][accepted[m][i]] <= last[m]
    BY DEF LastIsBound, Sign
  <2>1. QED
    BY <1>2, AcceptedIsOld
<1>5. AcceptedInOrder'
  <2> SUFFICES ASSUME NEW m \in Nodes, NEW i \in DOMAIN accepted[m],
                      NEW j \in DOMAIN accepted[m], i < j
               PROVE  signed'[m][accepted[m][i]] < signed'[m][accepted[m][j]]
    BY DEF AcceptedInOrder, Sign
  <2>1. QED
    BY <1>2 DEF AcceptedInOrder
<1>6. QED
  BY <1>1, <1>3, <1>4, <1>5

\* Accepting takes a timestamp above last_request_ts, and makes it the new one.
LEMMA AcceptKeepsOrder ==
  ASSUME OrderInv, NEW n \in Nodes, NEW nonce \in DOMAIN signed[n], Accept(n, nonce)
  PROVE  OrderInv'
<1> USE RequestAuthAssumption DEF OrderInv, Times, Null
<1> DEFINE ts == signed[n][nonce]
<1>1. ts \in Times /\ nonce \in Nat /\ now \in Times
  BY DEF TypeOK
<1>2. last[n] < ts /\ ts - now <= Skew
  BY DEF Accept, Acceptable, Newer, WithinSkew
<1>3. UNCHANGED <<now, clock, signed>>
  BY DEF Accept
<1>4. last' = [last EXCEPT ![n] = ts] /\ last \in [Nodes -> Times \cup {Null}]
  BY DEF Accept, TypeOK
<1>5. /\ accepted' = [accepted EXCEPT ![n] = Append(@, nonce)]
      /\ accepted \in [Nodes -> Seq(Nat)]
  BY DEF Accept, TypeOK
<1>6. nonces' \subseteq [node: Nodes, nonce: Nat, expires: 0..(now + Ttl)]
  BY <1>1 DEF Accept, Recorded, TypeOK
<1>7. /\ DOMAIN accepted'[n] = DOMAIN accepted[n] \cup {Len(accepted[n]) + 1}
      /\ \A i \in DOMAIN accepted[n] : accepted'[n][i] = accepted[n][i] /\ i < Len(accepted[n]) + 1
      /\ accepted'[n][Len(accepted[n]) + 1] = nonce
      /\ \A m \in Nodes \ {n} : accepted'[m] = accepted[m]
  BY <1>1, <1>5
<1>8. TypeOK'
  <2>1. \A m \in Nodes : \A i \in DOMAIN accepted'[m] : accepted'[m][i] \in DOMAIN signed[m]
    BY <1>7 DEF TypeOK
  <2>2. accepted' \in [Nodes -> Seq(Nat)]
    BY <1>1, <1>5
  <2>3. QED
    BY <2>1, <2>2, <1>1, <1>3, <1>4, <1>6 DEF TypeOK
<1>9. LockoutBounded'
  BY <1>1, <1>2, <1>3, <1>4 DEF LockoutBounded
<1>10. LastIsBound'
  <2> SUFFICES ASSUME NEW m \in Nodes, NEW i \in DOMAIN accepted'[m]
               PROVE  signed[m][accepted'[m][i]] <= last'[m]
    BY <1>3 DEF LastIsBound
  <2>1. CASE m # n
    BY <2>1, <1>4, <1>7 DEF LastIsBound
  <2>2. CASE m = n /\ i = Len(accepted[n]) + 1
    BY <2>2, <1>1, <1>4, <1>7
  <2>3. CASE m = n /\ i \in DOMAIN accepted[n]
    <3>1. signed[n][accepted[n][i]] <= last[n] /\ signed[n][accepted[n][i]] \in Int
      BY <2>3, AcceptedIsOld
    <3>2. last'[n] = ts /\ last[n] \in Int /\ ts \in Int /\ last[n] < ts
      BY <1>1, <1>2, <1>4
    <3>3. signed[n][accepted[n][i]] <= last'[n]
      <4> HIDE DEF ts
      <4> QED
        BY <3>1, <3>2
    <3>4. accepted'[n][i] = accepted[n][i]
      BY <2>3, <1>7
    <3>5. QED
      BY <3>3, <3>4, <2>3
  <2>4. QED
    BY <2>1, <2>2, <2>3, <1>7
<1>11. AcceptedInOrder'
  <2> SUFFICES ASSUME NEW m \in Nodes, NEW i \in DOMAIN accepted'[m],
                      NEW j \in DOMAIN accepted'[m], i < j
               PROVE  signed[m][accepted'[m][i]] < signed[m][accepted'[m][j]]
    BY <1>3 DEF AcceptedInOrder
  <2>1. CASE m # n
    BY <2>1, <1>7 DEF AcceptedInOrder
  <2>2. CASE m = n /\ j = Len(accepted[n]) + 1
    <3>1. i \in DOMAIN accepted[n]
      BY <2>2, <1>5, <1>7
    <3>2. signed[n][accepted[n][i]] <= last[n] /\ signed[n][accepted[n][i]] \in Int
      BY <3>1, AcceptedIsOld
    <3>3. last[n] \in Int /\ last[n] < ts
      BY <1>2, <1>4
    <3>4. signed[n][accepted[n][i]] < ts
      BY <3>2, <3>3, <1>1
    <3>5. QED
      BY <3>1, <3>4, <2>2, <1>7
  <2>3. CASE m = n /\ j \in DOMAIN accepted[n]
    <3>1. i \in DOMAIN accepted[n]
      BY <2>3, <1>5, <1>7
    <3>2. QED
      BY <3>1, <2>3, <1>7 DEF AcceptedInOrder
  <2>4. QED
    BY <2>1, <2>2, <2>3, <1>7
<1>12. QED
  BY <1>8, <1>9, <1>10, <1>11

\* Every step keeps the invariant: the others touch only the clocks and the nonces.
LEMMA StepOrderInv == OrderInv /\ [Next]_vars => OrderInv'
<1> SUFFICES ASSUME OrderInv, [Next]_vars PROVE OrderInv'
  OBVIOUS
<1> USE RequestAuthAssumption
<1>1. CASE \E n \in Nodes : Sign(n)
  BY <1>1, SignKeepsOrder
<1>2. CASE \E n \in Nodes : \E nonce \in DOMAIN signed[n] : Accept(n, nonce)
  BY <1>2, AcceptKeepsOrder
<1>3. CASE \E n \in Nodes : ClockSet(n)
  BY <1>3 DEF OrderInv, TypeOK, LockoutBounded, LastIsBound, AcceptedInOrder, ClockSet, Times
<1>4. CASE Prune
  BY <1>4 DEF OrderInv, TypeOK, LockoutBounded, LastIsBound, AcceptedInOrder, Prune
<1>5. CASE Tick
  <2>1. now \in Int /\ now' = now + 1 /\ now' \in Times
    BY <1>5 DEF Tick, OrderInv, TypeOK, Times
  <2>2. 0..(now + Ttl) \subseteq 0..(now' + Ttl)
    BY <2>1
  <2>3. TypeOK'
    BY <2>1, <2>2, <1>5 DEF Tick, OrderInv, TypeOK
  <2>4. LockoutBounded'
    <3>1. \A n \in Nodes : last[n] \in Int /\ last[n] <= now + Skew
      BY DEF OrderInv, TypeOK, LockoutBounded, Times, Null
    <3>2. \A n \in Nodes : last[n] <= now' + Skew
      BY <3>1, <2>1
    <3>3. QED
      BY <3>2, <1>5 DEF LockoutBounded, Tick
  <2>5. QED
    BY <2>3, <2>4, <1>5 DEF OrderInv, LastIsBound, AcceptedInOrder, Tick
<1>6. CASE UNCHANGED vars
  BY <1>6 DEF OrderInv, TypeOK, LockoutBounded, LastIsBound, AcceptedInOrder, vars
<1>7. QED
  BY <1>1, <1>2, <1>3, <1>4, <1>5, <1>6 DEF Next

\* Whatever authenticate_node, the pruning and the clocks do, each variable keeps its
\* type; a nonce never expires later than Ttl from now, by the server's clock.
THEOREM TypeCorrect == Spec => []TypeOK
<1>1. OrderInv => TypeOK
  BY DEF OrderInv
<1>2. QED
  BY <1>1, InitOrderInv, StepOrderInv, PTL DEF Spec

\* What a node's requests do, they do once and in order: no delayed or repeated copy
\* is accepted by authenticate_node, whatever the nonce table has forgotten.
THEOREM AcceptedInOrderHolds == Spec => []AcceptedInOrder
<1>1. OrderInv => AcceptedInOrder
  BY DEF OrderInv
<1>2. QED
  BY <1>1, InitOrderInv, StepOrderInv, PTL DEF Spec

\* last_request_ts never runs ahead of the server's clock by more than
\* node_allowed_clock_skew_sec.
THEOREM LockoutBoundedHolds == Spec => []LockoutBounded
<1>1. OrderInv => LockoutBounded
  BY DEF OrderInv
<1>2. QED
  BY <1>1, InitOrderInv, StepOrderInv, PTL DEF Spec

--------------------------------------------------------------------------------
(* That nothing else than the order refuses the newest request of a second. *)

LastIsAccepted ==
    \A n \in Nodes :
        last[n] # Null => \E i \in DOMAIN accepted[n] : signed[n][accepted[n][i]] = last[n]

NoncesAreAccepted ==
    \A r \in nonces : \E i \in DOMAIN accepted[r.node] : accepted[r.node][i] = r.nonce

FreshInv == LastIsAccepted /\ NoncesAreAccepted

\* What refuses a request was accepted before it; a request of this second that none
\* of this second precedes is therefore acceptable.
LEMMA FreshFollows == OrderInv /\ FreshInv => FreshSecondIsAccepted
<1> SUFFICES ASSUME OrderInv, FreshInv, NEW n \in Nodes,
                    Len(signed[n]) > 0, signed[n][Len(signed[n])] = now,
                    \A i \in DOMAIN signed[n] : signed[n][i] <= now,
                    \A i \in DOMAIN accepted[n] : signed[n][accepted[n][i]] # now
             PROVE  Acceptable(n, Len(signed[n]))
  BY DEF FreshSecondIsAccepted
<1> DEFINE newest == Len(signed[n])
<1>1. now \in Int /\ now > 0 /\ Skew \in Nat
  BY RequestAuthAssumption DEF OrderInv, TypeOK, Times
<1>2. WithinSkew(now)
  BY <1>1 DEF WithinSkew
<1>3. Unused(n, newest)
  <2> SUFFICES ASSUME NEW r \in nonces, r.node = n, r.nonce = newest PROVE FALSE
    BY DEF Unused
  <2>1. PICK i \in DOMAIN accepted[n] : accepted[n][i] = newest
    BY DEF FreshInv, NoncesAreAccepted
  <2>2. QED
    BY <2>1
<1>4. Newer(n, now)
  <2>1. CASE last[n] = Null
    BY <2>1, <1>1 DEF Newer, Null
  <2>2. CASE last[n] # Null
    <3>1. PICK i \in DOMAIN accepted[n] : signed[n][accepted[n][i]] = last[n]
      BY <2>2 DEF FreshInv, LastIsAccepted
    <3>2. accepted[n][i] \in DOMAIN signed[n]
      BY DEF OrderInv, TypeOK
    <3>3. last[n] <= now /\ last[n] # now
      BY <3>1, <3>2
    <3>4. last[n] \in Int
      BY DEF OrderInv, TypeOK, Times, Null
    <3>5. QED
      BY <3>3, <3>4, <1>1 DEF Newer
  <2>3. QED
    BY <2>1, <2>2
<1>5. QED
  BY <1>2, <1>3, <1>4 DEF Acceptable

\* A request is signed at the clock of its node, a nonce the server has not accepted.
LEMMA SignKeepsFresh == ASSUME OrderInv, FreshInv, NEW n \in Nodes, Sign(n) PROVE FreshInv'
<1>1. UNCHANGED <<last, nonces, accepted>>
  BY DEF Sign
<1>2. \A m \in Nodes : \A i \in DOMAIN accepted[m] :
        signed'[m][accepted[m][i]] = signed[m][accepted[m][i]]
  BY DEF OrderInv, TypeOK, Sign, Times
<1>3. QED
  BY <1>1, <1>2 DEF FreshInv, LastIsAccepted, NoncesAreAccepted

\* An accepted timestamp becomes the latest one.
LEMMA AcceptKeepsFresh ==
  ASSUME OrderInv, FreshInv, NEW n \in Nodes, NEW nonce \in DOMAIN signed[n], Accept(n, nonce)
  PROVE  FreshInv'
<1>1. UNCHANGED signed /\ nonce \in Nat
  BY DEF Accept, OrderInv, TypeOK
<1>2. accepted \in [Nodes -> Seq(Nat)] /\ last \in [Nodes -> Times \cup {Null}]
  BY DEF OrderInv, TypeOK
<1>3. /\ accepted' = [accepted EXCEPT ![n] = Append(@, nonce)]
      /\ last' = [last EXCEPT ![n] = signed[n][nonce]]
      /\ nonces' = nonces \cup {[node |-> n, nonce |-> nonce, expires |-> now + Ttl]}
  BY DEF Accept, Recorded
<1>4. /\ Len(accepted[n]) + 1 \in DOMAIN accepted'[n]
      /\ accepted'[n][Len(accepted[n]) + 1] = nonce
      /\ \A m \in Nodes : \A i \in DOMAIN accepted[m] :
            i \in DOMAIN accepted'[m] /\ accepted'[m][i] = accepted[m][i]
  BY <1>1, <1>2, <1>3
<1>5. LastIsAccepted'
  <2> SUFFICES ASSUME NEW m \in Nodes, last'[m] # Null
               PROVE  \E i \in DOMAIN accepted'[m] : signed[m][accepted'[m][i]] = last'[m]
    BY <1>1 DEF LastIsAccepted, Null
  <2>1. CASE m = n
    BY <2>1, <1>2, <1>3, <1>4
  <2>2. CASE m # n
    BY <2>2, <1>2, <1>3, <1>4 DEF FreshInv, LastIsAccepted
  <2>3. QED
    BY <2>1, <2>2
<1>6. NoncesAreAccepted'
  <2> SUFFICES ASSUME NEW r \in nonces'
               PROVE  \E i \in DOMAIN accepted'[r.node] : accepted'[r.node][i] = r.nonce
    BY DEF NoncesAreAccepted
  <2>1. CASE r \in nonces
    <3>1. PICK i \in DOMAIN accepted[r.node] : accepted[r.node][i] = r.nonce
      BY <2>1 DEF FreshInv, NoncesAreAccepted
    <3>2. r.node \in Nodes
      BY <2>1 DEF OrderInv, TypeOK
    <3>3. QED
      BY <3>1, <3>2, <1>4
  <2>2. CASE r = [node |-> n, nonce |-> nonce, expires |-> now + Ttl]
    BY <2>2, <1>4
  <2>3. QED
    BY <2>1, <2>2, <1>3
<1>7. QED
  BY <1>5, <1>6 DEF FreshInv

\* Every step of authentication keeps it.
LEMMA StepFreshInv == OrderInv /\ FreshInv /\ [Next]_vars => FreshInv'
<1> SUFFICES ASSUME OrderInv, FreshInv, [Next]_vars PROVE FreshInv'
  OBVIOUS
<1>1. CASE \E n \in Nodes : Sign(n)
  BY <1>1, SignKeepsFresh
<1>2. CASE \E n \in Nodes : \E nonce \in DOMAIN signed[n] : Accept(n, nonce)
  BY <1>2, AcceptKeepsFresh
<1>3. CASE \E n \in Nodes : ClockSet(n)
  BY <1>3 DEF FreshInv, LastIsAccepted, NoncesAreAccepted, ClockSet
<1>4. CASE Prune \/ Tick \/ UNCHANGED vars
  BY <1>4 DEF FreshInv, LastIsAccepted, NoncesAreAccepted, Prune, Tick, vars
<1>5. QED
  BY <1>1, <1>2, <1>3, <1>4 DEF Next

\* Neither the nonces nor last_request_ts ever refuse a node whose clock is right, but
\* for a second request in one second.
THEOREM FreshSecondHolds == Spec => []FreshSecondIsAccepted
<1>1. Init => FreshInv
  BY DEF Init, FreshInv, LastIsAccepted, NoncesAreAccepted
<1>2. QED
  BY <1>1, FreshFollows, InitOrderInv, StepOrderInv, StepFreshInv, PTL DEF Spec

================================================================================

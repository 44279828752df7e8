--------------------------- MODULE NodeRegistryProofs ---------------------------
(***************************************************************************)
(* NodeRegistry for any number of nodes, administrators and secrets: the   *)
(* order of RequestAuth survives administrators who delete, renew and edit *)
(* the rows under it, no request is acted on twice, and the token shown is *)
(* the key.                                                                *)
(*                                                                         *)
(* OnceEver rests on KeysAreYoung: a row is authenticated with keys no     *)
(* older than itself, and what was accepted before the row was made was    *)
(* signed with older ones; what was accepted since is in `accepted', where *)
(* the order of the timestamps keeps it from being accepted again.         *)
(***************************************************************************)
EXTENDS NodeRegistry, RequestAuthProofs

\* What the event loop is handling was signed with the key of the row it read.
AuthIsSigned ==
    auth # NoAuth =>
        /\ auth.nonce \in DOMAIN signed[auth.node]
        /\ signedKey[auth.node][auth.nonce] = auth.saw.key
        /\ auth.saw.id <= auth.saw.key

KeysAreYoung ==
    /\ \A n \in Nodes : row[n].exists => row[n].id <= row[n].key /\ row[n].key <= keys
    /\ \A n \in Nodes : installed[n] <= keys
    /\ \A n \in Nodes : \A k \in DOMAIN signedKey[n] : signedKey[n][k] <= keys

\* What n's row, if it has one, has not accepted itself was signed before it was made.
AcceptedHere(n, k) == \E j \in DOMAIN accepted[n] : accepted[n][j] = k

HistoryIsOld ==
    \A n \in Nodes : \A i \in DOMAIN history[n] :
        LET k == history[n][i].nonce
        IN  /\ k \in DOMAIN signed[n]
            /\ AcceptedHere(n, k) \/ (row[n].exists => signedKey[n][k] < row[n].id)

RegistryInv ==
    /\ OrderInv /\ FreshInv
    /\ RegistryTypeOK
    /\ AuthIsSigned /\ KeysAreYoung /\ HistoryIsOld
    /\ OnceEver /\ TokenIsKey

\* No node is registered at first, so every part of the invariant holds.
LEMMA InitRegistryInv == RegistryInit => RegistryInv
<1> SUFFICES ASSUME RegistryInit PROVE RegistryInv
  OBVIOUS
<1> USE RequestAuthAssumption, RegistryAssumption
<1>1. OrderInv /\ FreshInv
  BY InitOrderInv DEF RegistryInit, Init, FreshInv, LastIsAccepted, NoncesAreAccepted
<1>2. /\ row \in [Nodes -> Rows]
      /\ keys \in 0..MaxKeys
      /\ \A n \in Nodes : row[n].exists => row[n].id <= row[n].key /\ row[n].key <= keys
      /\ \A n \in Nodes : row[n].key <= keys /\ row[n].token = NoKey
  <2>1. CASE row = [n \in Nodes |-> NoRow] /\ keys = 0
    <3>1. NoRow \in Rows /\ ~NoRow.exists /\ NoRow.key = 0 /\ NoRow.token = NoKey
      BY DEF NoRow, NoKey, Rows
    <3>2. QED
      BY <2>1, <3>1
  <2>2. CASE row = [n \in Nodes |-> OldRow] /\ keys = 1
    <3>1. OldRow \in Rows /\ OldRow.id = 1 /\ OldRow.key = 1 /\ OldRow.token = NoKey
      BY DEF OldRow, NoKey, Rows
    <3>2. QED
      BY <2>2, <3>1
  <2>3. QED
    BY <2>1, <2>2 DEF RegistryInit
<1>3. \A n \in Nodes : row[n].key \in 0..MaxKeys
  BY <1>2 DEF Rows
<1>4. RegistryTypeOK
  BY <1>2, <1>3 DEF RegistryInit, Init, RegistryTypeOK
<1>5. KeysAreYoung
  BY <1>2 DEF RegistryInit, KeysAreYoung
<1>6. AuthIsSigned /\ HistoryIsOld /\ OnceEver
  BY DEF RegistryInit, AuthIsSigned, HistoryIsOld, OnceEver
<1>7. TokenIsKey
  BY <1>2 DEF TokenIsKey, TokenShown, NoKey
<1>8. QED
  BY <1>1, <1>4, <1>5, <1>6, <1>7 DEF RegistryInv

--------------------------------------------------------------------------------
(* RequestAuth under the registry: the steps of RequestAuth, and DeleteNode, which *)
(* takes a node back to where it started.                                          *)

\* delete_node drops last_nonce with the row: the node is as one never heard of.
LEMMA DeleteKeepsOrder ==
  ASSUME OrderInv, FreshInv, NEW n \in Nodes, DeleteNode(n)
  PROVE  OrderInv' /\ FreshInv'
<1> USE RequestAuthAssumption DEF OrderInv, Times, Null
<1>1. UNCHANGED <<now, clock, signed>>
  BY DEF DeleteNode
<1>2. /\ last' = [last EXCEPT ![n] = Null]
      /\ accepted' = [accepted EXCEPT ![n] = <<>>]
      /\ nonces' = {r \in nonces : r.node # n}
  BY DEF DeleteNode
<1>3. TypeOK'
  <2>1. \A m \in Nodes : \A i \in DOMAIN accepted'[m] : accepted'[m][i] \in DOMAIN signed[m]
    BY <1>2 DEF TypeOK
  <2>2. QED
    BY <1>1, <1>2, <2>1 DEF TypeOK
<1>4. LockoutBounded'
  BY <1>1, <1>2 DEF LockoutBounded, TypeOK
<1>5. LastIsBound'
  BY <1>1, <1>2 DEF LastIsBound, TypeOK
<1>6. AcceptedInOrder'
  BY <1>1, <1>2 DEF AcceptedInOrder, TypeOK
<1>7. FreshInv'
  BY <1>1, <1>2 DEF FreshInv, LastIsAccepted, NoncesAreAccepted, TypeOK
<1>8. QED
  BY <1>3, <1>4, <1>5, <1>6, <1>7

\* The transaction of authenticate_node is a step of RequestAuth, for a signed request.
LEMMA AuthOfRead ==
  ASSUME RegistryInv, auth.phase = "read"
  PROVE  /\ auth.node \in Nodes /\ auth.nonce \in DOMAIN signed[auth.node]
         /\ auth.nonce \in DOMAIN signedKey[auth.node]
         /\ auth.saw \in Secrets
         /\ signedKey[auth.node][auth.nonce] = auth.saw.key
         /\ auth.saw.id <= auth.saw.key
         /\ auth \in [phase: {"read", "accepted"}, node: Nodes, nonce: Nat, saw: Secrets]
<1>1. auth # NoAuth
  BY DEF NoAuth
<1>2. auth \in [phase: {"read", "accepted"}, node: Nodes, nonce: Nat, saw: Secrets]
  BY <1>1 DEF RegistryInv, RegistryTypeOK
<1>3. QED
  BY <1>1, <1>2 DEF RegistryInv, RegistryTypeOK, AuthIsSigned

\* Every step of the registry keeps what RequestAuth knows of clocks and timestamps.
LEMMA RegistryStepOrder ==
  ASSUME RegistryInv, [RegistryNext]_allVars
  PROVE  OrderInv' /\ FreshInv'
<1>1. OrderInv /\ FreshInv
  BY DEF RegistryInv
<1>2. CASE \E n \in Nodes : SignRequest(n)
  BY <1>1, <1>2, SignKeepsOrder, SignKeepsFresh DEF SignRequest
<1>3. CASE AcceptRequest
  BY <1>1, <1>3, AuthOfRead, AcceptKeepsOrder, AcceptKeepsFresh DEF AcceptRequest
<1>4. CASE \E n \in Nodes : DeleteNode(n)
  BY <1>1, <1>4, DeleteKeepsOrder
<1>5. CASE Clocks
  <2>1. [Next]_vars
    BY <1>5 DEF Clocks, Next
  <2>2. QED
    BY <1>1, <2>1, StepOrderInv, StepFreshInv
<1>6. CASE UNCHANGED vars
  BY <1>1, <1>6, StepOrderInv, StepFreshInv
<1>7. [RegistryNext]_allVars =>
        \/ \E n \in Nodes : SignRequest(n) \/ DeleteNode(n)
        \/ AcceptRequest
        \/ Clocks
        \/ UNCHANGED vars
  BY DEF RegistryNext, Requests, AdminCalls, Install, SelectNode, RefuseRequest, Heartbeat,
         OtherRequest, CreateNode, RenewSecret, SetEnabled, UpdateRead, UpdateWrite,
         authVars, allVars
<1>8. QED
  BY <1>2, <1>3, <1>4, <1>5, <1>6, <1>7
--------------------------------------------------------------------------------
(* The rest of the invariant, one lemma for each step that matters to it. *)

\* Signing takes the key the agent has installed, which is a key that was issued.
LEMMA SignRequestKeeps ==
  ASSUME RegistryInv, NEW n \in Nodes, SignRequest(n)
  PROVE  /\ RegistryTypeOK' /\ AuthIsSigned' /\ KeysAreYoung'
         /\ HistoryIsOld' /\ OnceEver' /\ TokenIsKey'
<1> USE RequestAuthAssumption, RegistryAssumption
<1>1. UNCHANGED <<row, keys, installed, auth, edit, history, reverted, accepted>>
  BY DEF SignRequest, Sign, adminVars
<1>2. /\ signed \in [Nodes -> Seq(Times)] /\ signedKey \in [Nodes -> Seq(Keys)]
      /\ \A m \in Nodes : DOMAIN signedKey[m] = DOMAIN signed[m]
      /\ installed[n] \in Keys /\ clock[n] \in Times
  BY DEF RegistryInv, OrderInv, TypeOK, RegistryTypeOK, SignRequest, NoKey, Keys
<1>3. /\ signed' = [signed EXCEPT ![n] = Append(@, clock[n])]
      /\ signedKey' = [signedKey EXCEPT ![n] = Append(@, installed[n])]
  BY DEF SignRequest, Sign
<1>4. /\ signedKey' \in [Nodes -> Seq(Keys)]
      /\ \A m \in Nodes : DOMAIN signedKey'[m] = DOMAIN signed'[m]
      /\ \A m \in Nodes : \A k \in DOMAIN signed[m] :
            k \in DOMAIN signed'[m] /\ signedKey'[m][k] = signedKey[m][k]
      /\ \A m \in Nodes : \A k \in DOMAIN signedKey'[m] :
            k \in DOMAIN signedKey[m] \/ signedKey'[m][k] = installed[n]
  BY <1>2, <1>3
<1>5. RegistryTypeOK'
  BY <1>1, <1>4 DEF RegistryInv, RegistryTypeOK
<1>6. AuthIsSigned'
  <2>1. auth # NoAuth => auth.node \in Nodes
    BY DEF RegistryInv, RegistryTypeOK
  <2>2. QED
    BY <2>1, <1>1, <1>4 DEF RegistryInv, AuthIsSigned
<1>7. KeysAreYoung'
  BY <1>1, <1>2, <1>4 DEF RegistryInv, KeysAreYoung
<1>8. HistoryIsOld'
  <2> SUFFICES ASSUME NEW m \in Nodes, NEW i \in DOMAIN history[m]
               PROVE  LET k == history[m][i].nonce
                      IN  /\ k \in DOMAIN signed'[m]
                          /\ \/ AcceptedHere(m, k)
                             \/ row[m].exists => signedKey'[m][k] < row[m].id
    BY <1>1 DEF HistoryIsOld, AcceptedHere
  <2> DEFINE k == history[m][i].nonce
  <2>1. k \in DOMAIN signed[m]
    BY DEF RegistryInv, HistoryIsOld
  <2>2. AcceptedHere(m, k) \/ (row[m].exists => signedKey[m][k] < row[m].id)
    BY DEF RegistryInv, HistoryIsOld
  <2>3. k \in DOMAIN signed'[m] /\ signedKey'[m][k] = signedKey[m][k]
    BY <2>1, <1>4
  <2>4. QED
    BY <2>2, <2>3
<1>9. OnceEver' /\ TokenIsKey'
  BY <1>1 DEF RegistryInv, OnceEver, TokenIsKey, TokenShown
<1>10. QED
  BY <1>5, <1>6, <1>7, <1>8, <1>9

\* The request was accepted before only if its row was not the one that was read.
LEMMA AcceptIsFirst ==
  ASSUME RegistryInv, AcceptRequest,
         NEW i \in DOMAIN history[auth.node], history[auth.node][i].nonce = auth.nonce
  PROVE  row[auth.node].id # auth.saw.id
<1> DEFINE n == auth.node
           k == auth.nonce
<1>1. /\ n \in Nodes /\ k \in DOMAIN signed[n] /\ k \in DOMAIN signedKey[n]
      /\ signedKey[n][k] = auth.saw.key /\ auth.saw.id <= auth.saw.key
      /\ auth.saw \in Secrets
  BY AuthOfRead DEF AcceptRequest
<1>2. row[n].exists /\ last[n] < signed[n][k]
  BY DEF AcceptRequest, StillServed, Accept, Acceptable, Newer
<1>3. CASE AcceptedHere(n, k)
  <2>1. PICK j \in DOMAIN accepted[n] : accepted[n][j] = k
    BY <1>3 DEF AcceptedHere
  <2>2. signed[n][k] \in Int /\ signed[n][k] <= last[n]
    BY <2>1, <1>1, AcceptedIsOld DEF RegistryInv
  <2>3. last[n] \in Int
    BY <1>1, RequestAuthAssumption DEF RegistryInv, OrderInv, TypeOK, Times, Null
  <2>4. QED
    BY <2>2, <2>3, <1>2
<1>4. CASE ~AcceptedHere(n, k)
  <2>1. signedKey[n][k] < row[n].id
    BY <1>1, <1>2, <1>4 DEF RegistryInv, HistoryIsOld
  <2>2. row[n].id \in Int /\ auth.saw.id \in Int /\ auth.saw.key \in Int
    BY <1>1 DEF RegistryInv, RegistryTypeOK, Rows, Secrets
  <2>3. QED
    BY <2>1, <2>2, <1>1
<1>5. QED
  BY <1>3, <1>4

\* An accepted request joins the history of the row whose key verified it.
LEMMA AcceptRequestKeeps ==
  ASSUME RegistryInv, AcceptRequest
  PROVE  /\ RegistryTypeOK' /\ AuthIsSigned' /\ KeysAreYoung'
         /\ HistoryIsOld' /\ OnceEver' /\ TokenIsKey'
<1> USE RequestAuthAssumption, RegistryAssumption
<1> DEFINE n == auth.node
           k == auth.nonce
           entry == [nonce |-> k, stale |-> row[n].id # auth.saw.id]
<1>1. /\ n \in Nodes /\ k \in DOMAIN signed[n] /\ k \in DOMAIN signedKey[n]
      /\ signedKey[n][k] = auth.saw.key /\ auth.saw.id <= auth.saw.key
      /\ auth.saw \in Secrets
      /\ auth \in [phase: {"read", "accepted"}, node: Nodes, nonce: Nat, saw: Secrets]
  BY AuthOfRead DEF AcceptRequest
<1>2. UNCHANGED <<keys, installed, signedKey, signed, edit>>
  BY DEF AcceptRequest, Accept, nodeVars
<1>3. /\ row \in [Nodes -> Rows] /\ keys \in 0..MaxKeys
      /\ history \in [Nodes -> Seq([nonce: Nat, stale: BOOLEAN])]
      /\ accepted \in [Nodes -> Seq(Nat)]
      /\ reverted \subseteq Nodes
  BY DEF RegistryInv, RegistryTypeOK, OrderInv, TypeOK
<1>4. /\ row' = Reencrypted(n)
      /\ reverted' = IF row'[n].key # row[n].key THEN reverted \cup {n} ELSE reverted
      /\ history' = [history EXCEPT ![n] = Append(@, entry)]
      /\ accepted' = [accepted EXCEPT ![n] = Append(@, k)]
  BY DEF AcceptRequest, Accept
<1>5. auth' = [auth EXCEPT !.phase = "accepted"]
  BY DEF AcceptRequest
<1>6. /\ auth' \in [phase: {"read", "accepted"}, node: Nodes, nonce: Nat, saw: Secrets]
      /\ auth'.node = n /\ auth'.nonce = k /\ auth'.saw = auth.saw
  BY <1>1, <1>5
<1>7. /\ row' \in [Nodes -> Rows]
      /\ \A m \in Nodes : /\ row'[m].exists = row[m].exists /\ row'[m].id = row[m].id
                          /\ row'[m].token = row[m].token
                          /\ \/ row'[m].key = row[m].key
                             \/ m = n /\ row'[m].key = auth.saw.key /\ row[m].id = auth.saw.id
  <2>1. row[n] \in Rows /\ auth.saw.key \in 0..MaxKeys
    BY <1>1, <1>3 DEF Secrets
  <2>2. CASE row' = row
    BY <2>2, <1>3
  <2>3. CASE /\ row' = [row EXCEPT ![n].key = auth.saw.key, ![n].v1 = FALSE]
             /\ row[n].id = auth.saw.id
    <3>1. /\ row'[n] \in Rows
          /\ row'[n].exists = row[n].exists /\ row'[n].id = row[n].id
          /\ row'[n].token = row[n].token /\ row'[n].key = auth.saw.key
      BY <2>1, <2>3, <1>1, <1>3 DEF Rows
    <3>2. \A m \in Nodes \ {n} : row'[m] = row[m]
      BY <2>3, <1>3
    <3>3. DOMAIN row' = Nodes /\ row' = [m \in Nodes |-> row'[m]]
      BY <2>3, <1>3
    <3>4. \A m \in Nodes : row'[m] \in Rows
      BY <3>1, <3>2, <1>3
    <3>5. row' \in [Nodes -> Rows]
      BY <3>3, <3>4
    <3>6. QED
      BY <3>1, <3>2, <3>5, <2>3
  <2>4. QED
    BY <2>2, <2>3, <1>4 DEF Reencrypted
<1>8. entry \in [nonce: Nat, stale: BOOLEAN] /\ entry.nonce = k
  BY <1>1
<1>9. /\ history' \in [Nodes -> Seq([nonce: Nat, stale: BOOLEAN])]
      /\ DOMAIN history'[n] = DOMAIN history[n] \cup {Len(history[n]) + 1}
      /\ history'[n][Len(history[n]) + 1] = entry
      /\ \A i \in DOMAIN history[n] :
            history'[n][i] = history[n][i] /\ i < Len(history[n]) + 1
      /\ \A m \in Nodes \ {n} : history'[m] = history[m]
  <2> HIDE DEF entry
  <2> QED
    BY <1>1, <1>3, <1>4, <1>8
<1>10. /\ \A m \in Nodes : \A j \in DOMAIN accepted[m] :
             j \in DOMAIN accepted'[m] /\ accepted'[m][j] = accepted[m][j]
       /\ Len(accepted[n]) + 1 \in DOMAIN accepted'[n]
       /\ accepted'[n][Len(accepted[n]) + 1] = k
  <2>1. k \in Nat
    BY <1>1
  <2> HIDE DEF k
  <2>2. QED
    BY <2>1, <1>1, <1>3, <1>4
<1>11. RegistryTypeOK'
  <2>1. reverted' \subseteq Nodes
    BY <1>1, <1>3, <1>4
  <2>2. DOMAIN signedKey' = DOMAIN signedKey /\ signed' = signed
    BY <1>2
  <2>3. QED
    BY <2>1, <1>2, <1>3, <1>6, <1>7, <1>9 DEF RegistryInv, RegistryTypeOK
<1>12. AuthIsSigned'
  BY <1>1, <1>2, <1>6 DEF AuthIsSigned
<1>13. KeysAreYoung'
  BY <1>1, <1>2, <1>7 DEF RegistryInv, KeysAreYoung
<1>14. HistoryIsOld'
  <2> SUFFICES ASSUME NEW m \in Nodes, NEW i \in DOMAIN history'[m]
               PROVE  LET x == history'[m][i].nonce
                      IN  /\ x \in DOMAIN signed[m]
                          /\ \/ \E j \in DOMAIN accepted'[m] : accepted'[m][j] = x
                             \/ row'[m].exists => signedKey[m][x] < row'[m].id
    BY <1>2 DEF HistoryIsOld, AcceptedHere
  <2>1. CASE m = n /\ i = Len(history[n]) + 1
    BY <2>1, <1>1, <1>8, <1>9, <1>10
  <2>2. CASE i \in DOMAIN history[m] /\ history'[m][i] = history[m][i]
    <3> DEFINE x == history[m][i].nonce
    <3>1. x \in DOMAIN signed[m]
      BY <2>2 DEF RegistryInv, HistoryIsOld
    <3>2. AcceptedHere(m, x) \/ (row[m].exists => signedKey[m][x] < row[m].id)
      BY <2>2 DEF RegistryInv, HistoryIsOld
    <3>3. AcceptedHere(m, x) => \E j \in DOMAIN accepted'[m] : accepted'[m][j] = x
      BY <1>10 DEF AcceptedHere
    <3>4. row'[m].exists = row[m].exists /\ row'[m].id = row[m].id
      BY <1>7
    <3>5. QED
      BY <3>1, <3>2, <3>3, <3>4, <2>2
  <2>3. QED
    BY <2>1, <2>2, <1>9
<1>15. OnceEver'
  <2> SUFFICES ASSUME NEW m \in Nodes, NEW i \in DOMAIN history'[m],
                      NEW j \in DOMAIN history'[m],
                      i < j, history'[m][i].nonce = history'[m][j].nonce
               PROVE  history'[m][j].stale
    BY DEF OnceEver
  <2>1. CASE m = n /\ j = Len(history[n]) + 1
    <3>1. i \in DOMAIN history[n]
      BY <2>1, <1>9
    <3>2. history[n][i].nonce = k
      BY <3>1, <2>1, <1>8, <1>9
    <3>3. entry.stale
      BY <3>1, <3>2, AcceptIsFirst
    <3>4. QED
      BY <3>3, <2>1, <1>9
  <2>2. CASE m # n \/ j \in DOMAIN history[n]
    <3>1. i \in DOMAIN history[m] /\ j \in DOMAIN history[m]
      <4>1. CASE m # n
        BY <4>1, <1>9
      <4>2. CASE m = n
        <5>1. j \in DOMAIN history[n] /\ j < Len(history[n]) + 1
          BY <2>2, <4>2, <1>9
        <5>2. i \in Nat /\ j \in Nat /\ Len(history[n]) \in Nat
          <6>1. history[n] \in Seq([nonce: Nat, stale: BOOLEAN])
            BY <1>1, <1>3
          <6>2. DOMAIN history[n] \subseteq Nat /\ Len(history[n]) \in Nat
            BY <6>1
          <6>3. QED
            BY <6>2, <5>1, <4>2, <1>9
        <5>3. i # Len(history[n]) + 1
          BY <5>1, <5>2
        <5>4. QED
          BY <5>1, <5>3, <4>2, <1>9
      <4>3. QED
        BY <4>1, <4>2
    <3>2. history'[m][i] = history[m][i] /\ history'[m][j] = history[m][j]
      BY <3>1, <1>9
    <3>3. QED
      BY <3>1, <3>2 DEF RegistryInv, OnceEver
  <2>3. QED
    BY <2>1, <2>2, <1>9
<1>16. TokenIsKey'
  BY <1>1, <1>3, <1>4, <1>7 DEF RegistryInv, TokenIsKey, TokenShown
<1>17. QED
  BY <1>11, <1>12, <1>13, <1>14, <1>15, <1>16

\* A reset or regenerated secret leaves a well-formed row.
LEMMA RenewedIsRow ==
  ASSUME NEW r \in Rows, NEW k \in 1..MaxKeys
  PROVE  [r EXCEPT !.key = k, !.v1 = FALSE, !.token = k] \in Rows
<1>1. k \in 0..MaxKeys
  BY RegistryAssumption
<1>2. QED
  BY <1>1 DEF Rows

\* An administrator who makes or renews a secret: it is younger than all others.
LEMMA NewSecretKeeps ==
  ASSUME RegistryInv, NEW n \in Nodes, CreateNode(n) \/ RenewSecret(n)
  PROVE  /\ RegistryTypeOK' /\ AuthIsSigned' /\ KeysAreYoung'
         /\ HistoryIsOld' /\ OnceEver' /\ TokenIsKey'
<1> USE RequestAuthAssumption, RegistryAssumption
<1>1. UNCHANGED <<signed, accepted, installed, signedKey, auth, edit, history>>
  BY DEF CreateNode, RenewSecret, authVars, vars, nodeVars
<1>2. row \in [Nodes -> Rows] /\ keys \in 0..MaxKeys /\ reverted \subseteq Nodes
  BY DEF RegistryInv, RegistryTypeOK
<1>3. keys' = keys + 1 /\ keys' \in 1..MaxKeys
  BY <1>2 DEF CreateNode, RenewSecret, NewKey
<1>4. reverted' \in {reverted, reverted \ {n}}
  BY DEF CreateNode, RenewSecret
<1>5. /\ row'[n] \in Rows
      /\ row'[n].exists /\ row'[n].key = keys' /\ row'[n].token = keys'
      /\ \/ row[n].exists /\ row'[n].id = row[n].id
         \/ row'[n].id = keys'
  <2>1. row[n] \in Rows
    BY <1>2
  <2>2. CASE CreateNode(n)
    <3>1. row'[n] = [id |-> keys', exists |-> TRUE, enabled |-> TRUE,
                     key |-> keys', v1 |-> FALSE, token |-> keys']
      BY <2>2, <1>2 DEF CreateNode
    <3>2. QED
      BY <3>1, <1>3 DEF Rows
  <2>3. CASE RenewSecret(n)
    <3>1. row'[n] = [row[n] EXCEPT !.key = keys', !.v1 = FALSE, !.token = keys']
          /\ row[n].exists
      BY <2>3, <1>2 DEF RenewSecret, Renewed
    <3>2. /\ row'[n].key = keys' /\ row'[n].token = keys' /\ row'[n].v1 = FALSE
          /\ row'[n].exists = row[n].exists /\ row'[n].id = row[n].id
          /\ row'[n].enabled = row[n].enabled
          /\ DOMAIN row'[n] = DOMAIN row[n]
      BY <3>1, <2>1 DEF Rows
    <3>3. row'[n] \in Rows
      BY <3>1, <2>1, <1>3, RenewedIsRow
    <3>4. QED
      BY <3>1, <3>2, <3>3
  <2>4. QED
    BY <2>2, <2>3
<1>6. /\ \A m \in Nodes \ {n} : row'[m] = row[m]
      /\ row' = [m \in Nodes |-> row'[m]]
  <2>1. CASE CreateNode(n)
    BY <2>1, <1>2 DEF CreateNode
  <2>2. CASE RenewSecret(n)
    BY <2>2, <1>2 DEF RenewSecret, Renewed
  <2>3. QED
    BY <2>1, <2>2
<1>7. row' \in [Nodes -> Rows]
  <2>1. \A m \in Nodes : row'[m] \in Rows
    BY <1>2, <1>5, <1>6
  <2>2. QED
    BY <2>1, <1>6
<1>8. RegistryTypeOK'
  BY <1>1, <1>2, <1>3, <1>4, <1>7 DEF RegistryInv, RegistryTypeOK
<1>9. AuthIsSigned'
  BY <1>1 DEF RegistryInv, AuthIsSigned
<1>10. KeysAreYoung'
  <2>1. \A m \in Nodes : row'[m].exists => row'[m].id <= row'[m].key /\ row'[m].key <= keys'
    <3> SUFFICES ASSUME NEW m \in Nodes, row'[m].exists
                 PROVE  row'[m].id <= row'[m].key /\ row'[m].key <= keys'
      OBVIOUS
    <3>1. row[m] \in Rows /\ row'[m] \in Rows
      BY <1>2, <1>7
    <3>2. row[m].exists => row[m].id <= row[m].key /\ row[m].key <= keys
      BY DEF RegistryInv, KeysAreYoung
    <3>3. row[m].id \in Int /\ row[m].key \in Int /\ keys \in Int
      BY <3>1, <1>2 DEF Rows
    <3>4. CASE m = n
      BY <3>2, <3>3, <3>4, <1>3, <1>5
    <3>5. CASE m # n
      BY <3>2, <3>3, <3>5, <1>3, <1>6
    <3>6. QED
      BY <3>4, <3>5
  <2>2. /\ \A m \in Nodes : installed[m] \in Int /\ installed[m] <= keys
        /\ \A m \in Nodes : \A k \in DOMAIN signedKey[m] :
              signedKey[m][k] \in Int /\ signedKey[m][k] <= keys
    BY DEF RegistryInv, RegistryTypeOK, KeysAreYoung, Keys
  <2>3. \A m \in Nodes : installed[m] <= keys'
    BY <2>2, <1>2, <1>3
  <2>4. \A m \in Nodes : \A k \in DOMAIN signedKey[m] : signedKey[m][k] <= keys'
    BY <2>2, <1>2, <1>3
  <2>5. QED
    BY <2>1, <2>3, <2>4, <1>1 DEF KeysAreYoung
<1>11. HistoryIsOld'
  <2> SUFFICES ASSUME NEW m \in Nodes, NEW i \in DOMAIN history[m]
               PROVE  LET k == history[m][i].nonce
                      IN  /\ k \in DOMAIN signed[m]
                          /\ \/ AcceptedHere(m, k)
                             \/ row'[m].exists => signedKey[m][k] < row'[m].id
    BY <1>1 DEF HistoryIsOld, AcceptedHere
  <2> DEFINE k == history[m][i].nonce
  <2>1. /\ k \in DOMAIN signed[m] /\ k \in DOMAIN signedKey[m]
        /\ AcceptedHere(m, k) \/ (row[m].exists => signedKey[m][k] < row[m].id)
    BY DEF RegistryInv, RegistryTypeOK, HistoryIsOld
  <2>2. signedKey[m][k] \in Int /\ signedKey[m][k] <= keys
    <3>1. signedKey[m] \in Seq(Keys)
      BY DEF RegistryInv, RegistryTypeOK
    <3>2. signedKey[m][k] \in Keys
      <4> HIDE DEF k
      <4> QED
        BY <3>1, <2>1
    <3>3. QED
      BY <3>2, <2>1 DEF Keys, RegistryInv, KeysAreYoung
  <2>3. signedKey[m][k] < keys'
    BY <2>2, <1>2, <1>3
  <2>4. AcceptedHere(m, k) \/ (row'[m].exists => signedKey[m][k] < row'[m].id)
    <3> HIDE DEF k
    <3>1. CASE m # n
      BY <2>1, <3>1, <1>6
    <3>2. CASE m = n
      BY <2>1, <2>3, <3>2, <1>5
    <3>3. QED
      BY <3>1, <3>2
  <2>5. QED
    BY <2>1, <2>4
<1>12. OnceEver'
  BY <1>1 DEF RegistryInv, OnceEver
<1>13. TokenIsKey'
  <2> SUFFICES ASSUME NEW m \in Nodes, row'[m].exists, row'[m].token # NoKey
               PROVE  row'[m].token = row'[m].key \/ m \in reverted'
    BY DEF TokenIsKey, TokenShown
  <2>1. CASE m = n
    BY <2>1, <1>5
  <2>2. CASE m # n
    BY <2>2, <1>4, <1>6 DEF RegistryInv, TokenIsKey, TokenShown
  <2>3. QED
    BY <2>1, <2>2
<1>14. QED
  BY <1>8, <1>9, <1>10, <1>11, <1>12, <1>13

\* A deleted row leaves nothing behind that a row created later could be taken for.
LEMMA DeleteNodeKeeps ==
  ASSUME RegistryInv, NEW n \in Nodes, DeleteNode(n)
  PROVE  /\ RegistryTypeOK' /\ AuthIsSigned' /\ KeysAreYoung'
         /\ HistoryIsOld' /\ OnceEver' /\ TokenIsKey'
<1>1. UNCHANGED <<signed, keys, installed, signedKey, auth, edit, history>>
  BY DEF DeleteNode, nodeVars
<1>2. /\ row \in [Nodes -> Rows] /\ reverted \subseteq Nodes
      /\ accepted \in [Nodes -> Seq(Nat)]
  BY DEF RegistryInv, RegistryTypeOK, OrderInv, TypeOK
<1>3. NoRow \in Rows /\ ~NoRow.exists
  BY RegistryAssumption DEF NoRow, Rows, NoKey
<1>4. /\ row' = [row EXCEPT ![n] = NoRow] /\ row' \in [Nodes -> Rows]
      /\ accepted' = [accepted EXCEPT ![n] = <<>>]
      /\ reverted' = reverted \ {n}
  BY <1>2, <1>3 DEF DeleteNode
<1>5. ~row'[n].exists /\ \A m \in Nodes \ {n} : row'[m] = row[m] /\ accepted'[m] = accepted[m]
  BY <1>2, <1>3, <1>4
<1>6. RegistryTypeOK'
  BY <1>1, <1>2, <1>4 DEF RegistryInv, RegistryTypeOK
<1>7. AuthIsSigned' /\ KeysAreYoung'
  BY <1>1, <1>5 DEF RegistryInv, AuthIsSigned, KeysAreYoung
<1>8. HistoryIsOld'
  BY <1>1, <1>5 DEF RegistryInv, HistoryIsOld, AcceptedHere
<1>9. OnceEver' /\ TokenIsKey'
  BY <1>1, <1>4, <1>5 DEF RegistryInv, OnceEver, TokenIsKey, TokenShown
<1>10. QED
  BY <1>6, <1>7, <1>8, <1>9

\* What the heartbeat, the flags and the failures change: at most the flag and the
\* token of a row, and who is doing what.
Harmless ==
    /\ UNCHANGED <<signed, accepted, keys, signedKey, history, reverted>>
    /\ installed' \in [Nodes -> 0..MaxKeys] /\ \A n \in Nodes : installed'[n] <= keys
    /\ row' \in [Nodes -> Rows]
    /\ \A n \in Nodes :
         /\ row'[n].exists = row[n].exists /\ row'[n].id = row[n].id
         /\ row'[n].key = row[n].key
         /\ row'[n].token = row[n].token \/ row'[n].token = NoKey
    /\ auth' = auth \/ auth' = NoAuth
    /\ edit' \in [Admins -> {NoEdit}
                      \cup [phase: {"read"}, node: Nodes, asks: Asks, saw: BOOLEAN]]

\* A step that changes no key, row or history keeps every part of the invariant.
LEMMA HarmlessKeeps ==
  ASSUME RegistryInv, Harmless
  PROVE  /\ RegistryTypeOK' /\ AuthIsSigned' /\ KeysAreYoung'
         /\ HistoryIsOld' /\ OnceEver' /\ TokenIsKey'
<1>1. RegistryTypeOK'
  BY DEF RegistryInv, RegistryTypeOK, Harmless
<1>2. AuthIsSigned'
  BY DEF RegistryInv, AuthIsSigned, Harmless
<1>3. KeysAreYoung'
  BY DEF RegistryInv, KeysAreYoung, Harmless
<1>4. HistoryIsOld'
  BY DEF RegistryInv, HistoryIsOld, AcceptedHere, Harmless
<1>5. OnceEver' /\ TokenIsKey'
  BY DEF RegistryInv, OnceEver, TokenIsKey, TokenShown, Harmless
<1>6. QED
  BY <1>1, <1>2, <1>3, <1>4, <1>5

\* Installing, refusing, the other requests and the edits are such steps.
LEMMA HarmlessSteps ==
  ASSUME RegistryInv,
         \/ \E n \in Nodes : Install(n)
         \/ RefuseRequest \/ Heartbeat \/ OtherRequest
         \/ \E n \in Nodes, enabled \in BOOLEAN : SetEnabled(n, enabled)
         \/ \E a \in Admins, n \in Nodes, asks \in Asks : UpdateRead(a, n, asks)
         \/ \E a \in Admins : UpdateWrite(a)
         \/ Clocks
         \/ UNCHANGED allVars
  PROVE  Harmless
<1>1. /\ row \in [Nodes -> Rows] /\ keys \in 0..MaxKeys
      /\ installed \in [Nodes -> 0..MaxKeys] /\ \A n \in Nodes : installed[n] <= keys
      /\ edit \in [Admins -> {NoEdit}
                      \cup [phase: {"read"}, node: Nodes, asks: Asks, saw: BOOLEAN]]
  BY DEF RegistryInv, RegistryTypeOK, KeysAreYoung
<1>2. CASE \E n \in Nodes : Install(n)
  <2>1. PICK n \in Nodes : Install(n)
    BY <1>2
  <2>2. PICK k \in 1..keys : installed' = [installed EXCEPT ![n] = k]
    BY <2>1 DEF Install
  <2>3. /\ installed' \in [Nodes -> 0..MaxKeys]
        /\ \A m \in Nodes : installed'[m] <= keys
    BY <2>2, <1>1, RegistryAssumption
  <2>4. QED
    BY <2>1, <2>3, <1>1 DEF Install, Harmless, authVars, vars, adminVars
<1>3. CASE RefuseRequest \/ OtherRequest
  BY <1>1, <1>3
  DEF RefuseRequest, OtherRequest, Harmless, authVars, vars, adminVars, nodeVars
<1>4. CASE Heartbeat
  <2>1. auth.node \in Nodes
    BY <1>4 DEF Heartbeat, RegistryInv, RegistryTypeOK, NoAuth
  <2>2. row[auth.node] \in Rows /\ NoKey \in 0..MaxKeys
    BY <2>1, <1>1, RegistryAssumption DEF NoKey
  <2>3. [row[auth.node] EXCEPT !.token = NoKey] \in Rows
    BY <2>2 DEF Rows
  <2>4. row' = row \/ row' = [row EXCEPT ![auth.node] = [row[auth.node] EXCEPT !.token = NoKey]]
    BY <1>4, <1>1, <2>1 DEF Heartbeat
  <2>5. /\ row' \in [Nodes -> Rows]
        /\ \A n \in Nodes :
             /\ row'[n].exists = row[n].exists /\ row'[n].id = row[n].id
             /\ row'[n].key = row[n].key
             /\ row'[n].token = row[n].token \/ row'[n].token = NoKey
    <3>1. CASE row' = row
      BY <3>1, <1>1
    <3>2. CASE row' = [row EXCEPT ![auth.node] = [row[auth.node] EXCEPT !.token = NoKey]]
      <4>1. row' \in [Nodes -> Rows]
        BY <3>2, <2>1, <2>3, <1>1
      <4>2. \A n \in Nodes : row'[n] = row[n] \/ row'[n] = [row[n] EXCEPT !.token = NoKey]
        BY <3>2, <2>1, <1>1
      <4>3. QED
        BY <4>1, <4>2, <1>1 DEF Rows
    <3>3. QED
      BY <3>1, <3>2, <2>4
  <2>6. QED
    BY <2>5, <1>1, <1>4 DEF Heartbeat, Harmless, authVars, vars, nodeVars
<1>5. ASSUME NEW n \in Nodes, NEW enabled \in BOOLEAN,
             row' = [row EXCEPT ![n].enabled = enabled]
      PROVE  /\ row' \in [Nodes -> Rows]
             /\ \A m \in Nodes :
                  /\ row'[m].exists = row[m].exists /\ row'[m].id = row[m].id
                  /\ row'[m].key = row[m].key
                  /\ row'[m].token = row[m].token
  <2>1. row[n] \in Rows /\ row' = [row EXCEPT ![n] = [row[n] EXCEPT !.enabled = enabled]]
    BY <1>1, <1>5
  <2>2. [row[n] EXCEPT !.enabled = enabled] \in Rows
    BY <2>1 DEF Rows
  <2>3. QED
    BY <2>1, <2>2, <1>1 DEF Rows
<1>6. CASE \E n \in Nodes, enabled \in BOOLEAN : SetEnabled(n, enabled)
  BY <1>1, <1>5, <1>6 DEF SetEnabled, Harmless, authVars, vars, nodeVars
<1>7. CASE \E a \in Admins, n \in Nodes, asks \in Asks : UpdateRead(a, n, asks)
  <2>1. PICK a \in Admins, n \in Nodes, asks \in Asks : UpdateRead(a, n, asks)
    BY <1>7
  <2>2. row[n].enabled \in BOOLEAN
    BY <1>1 DEF Rows
  <2>3. QED
    BY <1>1, <2>1, <2>2 DEF UpdateRead, Harmless, authVars, vars, adminVars, nodeVars
<1>8. CASE \E a \in Admins : UpdateWrite(a)
  <2>1. PICK a \in Admins : UpdateWrite(a)
    BY <1>8
  <2> DEFINE wanted == IF edit[a].asks = "nothing" THEN edit[a].saw ELSE edit[a].asks = "enable"
  <2>2. edit[a].node \in Nodes /\ wanted \in BOOLEAN
    BY <2>1, <1>1 DEF UpdateWrite
  <2>3. row' = row \/ row' = [row EXCEPT ![edit[a].node].enabled = wanted]
    BY <2>1 DEF UpdateWrite
  <2>4. edit' = [edit EXCEPT ![a] = NoEdit]
    BY <2>1 DEF UpdateWrite
  <2>5. /\ row' \in [Nodes -> Rows]
        /\ \A m \in Nodes :
             /\ row'[m].exists = row[m].exists /\ row'[m].id = row[m].id
             /\ row'[m].key = row[m].key
             /\ row'[m].token = row[m].token
    <3> HIDE DEF wanted
    <3> QED
      BY <2>2, <2>3, <1>1, <1>5
  <2>6. QED
    BY <1>1, <2>1, <2>4, <2>5 DEF UpdateWrite, Harmless, authVars, vars, nodeVars
<1>9. CASE Clocks
  BY <1>1, <1>9
  DEF Clocks, Prune, Tick, ClockSet, Harmless, adminVars, nodeVars
<1>10. CASE UNCHANGED allVars
  BY <1>1, <1>10 DEF allVars, authVars, vars, adminVars, nodeVars, Harmless
<1>11. QED
  BY <1>2, <1>3, <1>4, <1>6, <1>7, <1>8, <1>9, <1>10

\* The key a request is tested with is the one in the row that is read.
LEMMA SelectNodeKeeps ==
  ASSUME RegistryInv, NEW n \in Nodes, NEW nonce \in DOMAIN signed[n], SelectNode(n, nonce)
  PROVE  /\ RegistryTypeOK' /\ AuthIsSigned' /\ KeysAreYoung'
         /\ HistoryIsOld' /\ OnceEver' /\ TokenIsKey'
<1>1. /\ UNCHANGED <<signed, accepted, row, keys, installed, signedKey, edit, history, reverted>>
      /\ auth' = [phase |-> "read", node |-> n, nonce |-> nonce, saw |-> SecretOf(row[n])]
  BY DEF SelectNode, authVars, vars, adminVars, nodeVars
<1>2. row[n] \in Rows /\ nonce \in Nat
  BY DEF RegistryInv, RegistryTypeOK, OrderInv, TypeOK
<1>3. SecretOf(row[n]) \in Secrets
  BY <1>2 DEF SecretOf, Secrets, Rows
<1>4. auth' \in [phase: {"read", "accepted"}, node: Nodes, nonce: Nat, saw: Secrets]
  BY <1>1, <1>2, <1>3
<1>5. RegistryTypeOK'
  BY <1>1, <1>4 DEF RegistryInv, RegistryTypeOK
<1>6. AuthIsSigned'
  <2>1. row[n].id <= row[n].key /\ signedKey[n][nonce] = row[n].key
    BY DEF SelectNode, RegistryInv, KeysAreYoung
  <2>2. auth'.node = n /\ auth'.nonce = nonce
        /\ auth'.saw.id = row[n].id /\ auth'.saw.key = row[n].key
    BY <1>1 DEF SecretOf
  <2>3. QED
    BY <2>1, <2>2, <1>1 DEF AuthIsSigned
<1>7. KeysAreYoung' /\ HistoryIsOld' /\ OnceEver' /\ TokenIsKey'
  BY <1>1 DEF RegistryInv, KeysAreYoung, HistoryIsOld, AcceptedHere, OnceEver, TokenIsKey,
              TokenShown
<1>8. QED
  BY <1>5, <1>6, <1>7

\* Every step of the registry keeps the invariant.
LEMMA StepRegistryInv == RegistryInv /\ [RegistryNext]_allVars => RegistryInv'
<1> SUFFICES ASSUME RegistryInv, [RegistryNext]_allVars PROVE RegistryInv'
  OBVIOUS
<1> DEFINE Rest == /\ RegistryTypeOK' /\ AuthIsSigned' /\ KeysAreYoung'
                   /\ HistoryIsOld' /\ OnceEver' /\ TokenIsKey'
<1>1. OrderInv' /\ FreshInv'
  BY RegistryStepOrder
<1>2. CASE \E n \in Nodes : SignRequest(n)
  <2>1. Rest
    BY <1>2, SignRequestKeeps
  <2>2. QED
    BY <1>1, <2>1 DEF RegistryInv
<1>3. CASE AcceptRequest
  <2>1. Rest
    BY <1>3, AcceptRequestKeeps
  <2>2. QED
    BY <1>1, <2>1 DEF RegistryInv
<1>4. CASE \E n \in Nodes : CreateNode(n) \/ RenewSecret(n)
  <2>1. Rest
    BY <1>4, NewSecretKeeps
  <2>2. QED
    BY <1>1, <2>1 DEF RegistryInv
<1>5. CASE \E n \in Nodes : DeleteNode(n)
  <2>1. Rest
    BY <1>5, DeleteNodeKeeps
  <2>2. QED
    BY <1>1, <2>1 DEF RegistryInv
<1>6. CASE \E n \in Nodes : \E nonce \in DOMAIN signed[n] : SelectNode(n, nonce)
  <2>1. Rest
    BY <1>6, SelectNodeKeeps
  <2>2. QED
    BY <1>1, <2>1 DEF RegistryInv
<1>7. CASE \/ \E n \in Nodes : Install(n)
           \/ RefuseRequest \/ Heartbeat \/ OtherRequest
           \/ \E n \in Nodes, enabled \in BOOLEAN : SetEnabled(n, enabled)
           \/ \E a \in Admins, n \in Nodes, asks \in Asks : UpdateRead(a, n, asks)
           \/ \E a \in Admins : UpdateWrite(a)
           \/ Clocks
           \/ UNCHANGED allVars
  <2>1. Harmless
    BY <1>7, HarmlessSteps
  <2>2. Rest
    BY <2>1, HarmlessKeeps
  <2>3. QED
    BY <1>1, <2>2 DEF RegistryInv
<1>8. QED
  BY <1>2, <1>3, <1>4, <1>5, <1>6, <1>7 DEF RegistryNext, Requests, AdminCalls

--------------------------------------------------------------------------------
\* The rows, the secrets and the request under way keep their types, whoever writes them.
THEOREM RegistryTypeCorrect == RegistrySpec => [](TypeOK /\ RegistryTypeOK)
<1>1. RegistryInv => TypeOK /\ RegistryTypeOK
  BY DEF RegistryInv, OrderInv
<1>2. QED
  BY <1>1, InitRegistryInv, StepRegistryInv, PTL DEF RegistrySpec

\* Renewed secrets, deleted and re-created nodes and requests that straddle them leave
\* the guarantees of authenticate_node as they are: order, bounded lockout, and no
\* refusal of the first request of a second.
THEOREM RegistryKeepsOrder ==
  RegistrySpec => [](AcceptedInOrder /\ LockoutBounded /\ FreshSecondIsAccepted)
<1>1. RegistryInv => AcceptedInOrder /\ LockoutBounded /\ FreshSecondIsAccepted
  BY FreshFollows DEF RegistryInv, OrderInv
<1>2. QED
  BY <1>1, InitRegistryInv, StepRegistryInv, PTL DEF RegistrySpec

\* No request is acted on twice, not even across a deletion that took its nonce and
\* last_request_ts away, but for the one that was read before the deletion.
THEOREM OnceEverHolds == RegistrySpec => []OnceEver
<1>1. RegistryInv => OnceEver
  BY DEF RegistryInv
<1>2. QED
  BY <1>1, InitRegistryInv, StepRegistryInv, PTL DEF RegistrySpec

\* The token get_node_onboarding shows is the secret that authenticates the node,
\* unless the re-encryption of a v1 key has undone a renewal.
THEOREM TokenIsKeyHolds == RegistrySpec => []TokenIsKey
<1>1. RegistryInv => TokenIsKey
  BY DEF RegistryInv
<1>2. QED
  BY <1>1, InitRegistryInv, StepRegistryInv, PTL DEF RegistrySpec

\* Only SetEnabled and update_node ever enable a row that is disabled, update_node also
\* because of what it read before: the secret, the heartbeat and the re-encryption
\* leave the flag alone.
THEOREM DisableUndoneHolds == RegistrySpec => DisableUndoneByStaleEditOnly
<1> DEFINE Undone(n) ==
              /\ row[n].exists /\ ~row[n].enabled
              /\ row'[n].enabled
              => \/ row' = [row EXCEPT ![n].enabled = TRUE] /\ edit' = edit
                 \/ \E a \in Admins :
                      /\ edit[a] # NoEdit /\ edit'[a] = NoEdit
                      /\ edit[a].node = n
                      /\ \/ edit[a].asks = "enable"
                         \/ edit[a].asks = "nothing" /\ edit[a].saw
<1>1. RegistryInv /\ [RegistryNext]_allVars => [\A n \in Nodes : Undone(n)]_allVars
  <2> SUFFICES ASSUME RegistryInv, RegistryNext, NEW n \in Nodes,
                      row[n].exists, ~row[n].enabled, row'[n].enabled
               PROVE  \/ row' = [row EXCEPT ![n].enabled = TRUE] /\ edit' = edit
                      \/ \E a \in Admins :
                           /\ edit[a] # NoEdit /\ edit'[a] = NoEdit
                           /\ edit[a].node = n
                           /\ \/ edit[a].asks = "enable"
                              \/ edit[a].asks = "nothing" /\ edit[a].saw
    BY DEF allVars
  <2>1. /\ row \in [Nodes -> Rows]
        /\ edit \in [Admins -> {NoEdit}
                        \cup [phase: {"read"}, node: Nodes, asks: Asks, saw: BOOLEAN]]
    BY DEF RegistryInv, RegistryTypeOK
  <2>2. ASSUME NEW m \in Nodes, NEW enabled \in BOOLEAN, SetEnabled(m, enabled)
        PROVE  row' = [row EXCEPT ![n].enabled = TRUE] /\ edit' = edit
    <3>1. row' = [row EXCEPT ![m].enabled = enabled]
      BY <2>2 DEF SetEnabled
    <3>2. m = n
      BY <3>1, <2>1
    <3>3. enabled = TRUE
      BY <3>1, <3>2, <2>1 DEF Rows
    <3>4. QED
      BY <2>2, <3>1, <3>2, <3>3 DEF SetEnabled
  <2>3. ASSUME NEW a \in Admins, UpdateWrite(a)
        PROVE  /\ edit[a] # NoEdit /\ edit'[a] = NoEdit
               /\ edit[a].node = n
               /\ \/ edit[a].asks = "enable"
                  \/ edit[a].asks = "nothing" /\ edit[a].saw
    <3> DEFINE wanted == IF edit[a].asks = "nothing" THEN edit[a].saw ELSE edit[a].asks = "enable"
    <3>1. edit[a] # NoEdit /\ edit'[a] = NoEdit
      BY <2>1, <2>3 DEF UpdateWrite
    <3>2. row' = row \/ row' = [row EXCEPT ![edit[a].node].enabled = wanted]
      BY <2>3 DEF UpdateWrite
    <3>3. row' # row
      OBVIOUS
    <3>4. edit[a].node \in Nodes
      BY <3>1, <2>1
    <3>5. edit[a].node = n
      <4> HIDE DEF wanted
      <4> QED
        BY <3>2, <3>3, <3>4, <2>1
    <3>6. wanted
      <4> HIDE DEF wanted
      <4>1. row'[n] = [row[n] EXCEPT !.enabled = wanted]
        BY <3>2, <3>3, <3>5, <2>1
      <4>2. QED
        BY <4>1, <2>1 DEF Rows
    <3>7. QED
      BY <3>1, <3>5, <3>6
  <2>4. CASE \E m \in Nodes : CreateNode(m) \/ RenewSecret(m) \/ DeleteNode(m)
    <3>1. PICK m \in Nodes : CreateNode(m) \/ RenewSecret(m) \/ DeleteNode(m)
      BY <2>4
    <3>2. m = n
      BY <3>1, <2>1 DEF CreateNode, RenewSecret, Renewed, DeleteNode
    <3>3. ~CreateNode(n)
      BY DEF CreateNode
    <3>4. CASE DeleteNode(n)
      BY <3>4, <2>1 DEF DeleteNode, NoRow
    <3>5. CASE RenewSecret(n)
      BY <3>5, <2>1 DEF RenewSecret, Renewed, Rows
    <3>6. QED
      BY <3>1, <3>2, <3>3, <3>4, <3>5
  <2>5. CASE AcceptRequest \/ Heartbeat
    <3>1. AcceptRequest => auth.node \in Nodes
      BY AuthOfRead DEF AcceptRequest
    <3>2. Heartbeat => auth.node \in Nodes
      BY DEF Heartbeat, RegistryInv, RegistryTypeOK, NoAuth
    <3>3. /\ auth.node \in Nodes
          /\ \/ row' = row
             \/ row' = [row EXCEPT ![auth.node].key = auth.saw.key, ![auth.node].v1 = FALSE]
             \/ row' = [row EXCEPT ![auth.node].token = NoKey]
      BY <2>5, <3>1, <3>2 DEF AcceptRequest, Reencrypted, Heartbeat
    <3>4. row'[n] = row[n] \/ row'[n] = [row[n] EXCEPT !.key = auth.saw.key, !.v1 = FALSE]
          \/ row'[n] = [row[n] EXCEPT !.token = NoKey]
      BY <3>3, <2>1
    <3>5. row'[n].enabled = row[n].enabled
      BY <3>4, <2>1 DEF Rows
    <3>6. QED
      BY <3>5
  <2>6. CASE UNCHANGED row
    BY <2>6
  <2>7. QED
    BY <2>2, <2>3, <2>4, <2>5, <2>6
    DEF RegistryNext, Requests, AdminCalls, Install, SignRequest, SelectNode, RefuseRequest,
        OtherRequest, UpdateRead, Clocks, adminVars
<1>2. QED
  BY <1>1, InitRegistryInv, StepRegistryInv, PTL
  DEF RegistrySpec, DisableUndoneByStaleEditOnly

================================================================================

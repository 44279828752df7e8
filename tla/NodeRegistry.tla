------------------------------ MODULE NodeRegistry ------------------------------
(***************************************************************************)
(* The registered nodes and their secrets: what administrators do to the   *)
(* rows of `nodes' (create, edit, enable, disable, renew the secret,       *)
(* delete) while authenticate_node and the heartbeat read and write the    *)
(* same rows.  RequestAuth is the authentication with one secret per node  *)
(* and in one step; here authenticate_node is the SELECT of the row and,   *)
(* after it, the transaction that may find another row.                    *)
(*                                                                         *)
(* Administrators' handlers are plain `def': each runs in a thread.  All   *)
(* but update_node write what does not depend on the row they read, and    *)
(* are one step.  The node handlers run on the event loop, one at a time.  *)
(* A secret, the signing key derived from it and the onboarding token that *)
(* shows it are one number, in the order of their commits; encryption is   *)
(* left out, except that the old v1 format is encrypted anew when it is    *)
(* read.  Secrets travel by hand: any secret shown once may be installed.  *)
(***************************************************************************)
EXTENDS RequestAuth

CONSTANTS Admins,  \* threads that run update_node
          MaxKeys  \* bound on the secrets generated

ASSUME RegistryAssumption == MaxKeys \in Nat \ {0}

VARIABLES
    row,        \* row[n]: the nodes row
    keys,       \* the secrets generated
    installed,  \* installed[n]: the secret in the agent's configuration
    signedKey,  \* signedKey[n]: the secrets n's requests were signed with
    auth,       \* the request the event loop is handling
    edit,       \* edit[a]: the update_node request that has read its row
    history,    \* history[n]: all accepted requests; stale: the row read was gone
    reverted    \* the nodes whose key an old one has replaced

authVars == vars
adminVars == <<row, keys>>
nodeVars == <<installed, signedKey>>
allVars == <<authVars, adminVars, nodeVars, auth, edit, history, reverted>>

NoKey == 0
Keys == 1..MaxKeys

Rows == [id: 0..MaxKeys, exists: BOOLEAN, enabled: BOOLEAN, key: 0..MaxKeys, v1: BOOLEAN,
         token: 0..MaxKeys]
NoRow == [id |-> 0, exists |-> FALSE, enabled |-> FALSE, key |-> NoKey, v1 |-> FALSE,
          token |-> NoKey]

\* A node registered by an old version, at work with its first secret.
OldRow == [id |-> 1, exists |-> TRUE, enabled |-> TRUE, key |-> 1, v1 |-> TRUE,
           token |-> NoKey]

\* What authenticate_node remembers of the row it read.
Secrets == [id: 0..MaxKeys, key: 0..MaxKeys, v1: BOOLEAN]
SecretOf(r) == [id |-> r.id, key |-> r.key, v1 |-> r.v1]

NoAuth == [phase |-> "none"]
NoEdit == [phase |-> "none"]

\* What an update_node asks of is_enabled.
Asks == {"enable", "disable", "nothing"}

RegistryTypeOK ==
    /\ row \in [Nodes -> Rows]
    /\ keys \in 0..MaxKeys
    /\ installed \in [Nodes -> 0..MaxKeys]
    /\ signedKey \in [Nodes -> Seq(Keys)]
    /\ \A n \in Nodes : DOMAIN signedKey[n] = DOMAIN signed[n]
    /\ auth \in {NoAuth}
          \cup [phase: {"read", "accepted"}, node: Nodes, nonce: Nat, saw: Secrets]
    /\ edit \in [Admins -> {NoEdit} \cup [phase: {"read"}, node: Nodes, asks: Asks, saw: BOOLEAN]]
    /\ history \in [Nodes -> Seq([nonce: Nat, stale: BOOLEAN])]
    /\ reverted \subseteq Nodes

RegistryInit ==
    /\ Init
    /\ \/ row = [n \in Nodes |-> NoRow] /\ keys = 0
       \/ row = [n \in Nodes |-> OldRow] /\ keys = 1
    /\ installed = [n \in Nodes |-> row[n].key]
    /\ signedKey = [n \in Nodes |-> <<>>]
    /\ auth = NoAuth
    /\ edit = [a \in Admins |-> NoEdit]
    /\ history = [n \in Nodes |-> <<>>]
    /\ reverted = {}

--------------------------------------------------------------------------------
(* The node. *)

\* A secret from some onboarding bundle is put into the configuration.
Install(n) ==
    /\ \E k \in 1..keys : installed' = [installed EXCEPT ![n] = k]
    /\ UNCHANGED <<authVars, adminVars, signedKey, auth, edit, history, reverted>>

SignRequest(n) ==
    /\ installed[n] # NoKey
    /\ Sign(n)
    /\ signedKey' = [signedKey EXCEPT ![n] = Append(@, installed[n])]
    /\ UNCHANGED <<adminVars, installed, auth, edit, history, reverted>>

--------------------------------------------------------------------------------
(* authenticate_node and the heartbeat. *)

\* Breaks OnceEver: the signature is not looked at.
SelectNode_AnySecret(n, nonce) ==
    /\ auth = NoAuth
    /\ row[n].exists /\ row[n].enabled
    /\ auth' = [phase |-> "read", node |-> n, nonce |-> nonce, saw |-> SecretOf(row[n])]
    /\ UNCHANGED <<authVars, adminVars, nodeVars, edit, history, reverted>>

\* The SELECT of the enabled row, and the signature tested with the key in it.
SelectNode(n, nonce) ==
    /\ auth = NoAuth
    /\ row[n].exists /\ row[n].enabled
    /\ signedKey[n][nonce] = row[n].key
    /\ auth' = [phase |-> "read", node |-> n, nonce |-> nonce, saw |-> SecretOf(row[n])]
    /\ UNCHANGED <<authVars, adminVars, nodeVars, edit, history, reverted>>

\* A v1 key is written again as v2, whatever key the row has now (WHERE id = ?).
Reencrypted(n) ==
    IF auth.saw.v1 /\ row[n].id = auth.saw.id
    THEN [row EXCEPT ![n].key = auth.saw.key, ![n].v1 = FALSE]
    ELSE row

\* What the UPDATE of last_request_ts asks of the row besides the timestamp.
StillServed(n) == row[n].exists /\ row[n].enabled

\* The transaction: the key, the nonce, last_request_ts.
AcceptRequest ==
    /\ auth.phase = "read"
    /\ LET n == auth.node
           anew == Reencrypted(n)
       IN  /\ StillServed(n)
           /\ Accept(n, auth.nonce)
           /\ row' = anew
           /\ reverted' = IF anew[n].key # row[n].key THEN reverted \cup {n} ELSE reverted
           /\ history' = [history EXCEPT ![n] =
                Append(@, [nonce |-> auth.nonce, stale |-> row[n].id # auth.saw.id])]
    /\ auth' = [auth EXCEPT !.phase = "accepted"]
    /\ UNCHANGED <<keys, nodeVars, edit>>

\* 401 or 409: everything is rolled back.
RefuseRequest ==
    /\ auth.phase = "read"
    /\ ~(StillServed(auth.node) /\ Acceptable(auth.node, auth.nonce))
    /\ auth' = NoAuth
    /\ UNCHANGED <<authVars, adminVars, nodeVars, edit, history, reverted>>

\* The heartbeat withdraws the onboarding token, by node_id only.
Heartbeat ==
    /\ auth.phase = "accepted"
    /\ row' = IF row[auth.node].exists THEN [row EXCEPT ![auth.node].token = NoKey] ELSE row
    /\ auth' = NoAuth
    /\ UNCHANGED <<authVars, keys, nodeVars, edit, history, reverted>>

\* Task events, results, logs and artifacts leave the row alone.
OtherRequest ==
    /\ auth.phase = "accepted"
    /\ auth' = NoAuth
    /\ UNCHANGED <<authVars, adminVars, nodeVars, edit, history, reverted>>

--------------------------------------------------------------------------------
(* The administrators. *)

NewKey ==
    /\ keys < MaxKeys
    /\ keys' = keys + 1

CreateNode(n) ==
    /\ ~row[n].exists
    /\ NewKey
    /\ row' = [row EXCEPT ![n] = [id |-> keys', exists |-> TRUE, enabled |-> TRUE,
                                  key |-> keys', v1 |-> FALSE, token |-> keys']]
    /\ UNCHANGED <<authVars, nodeVars, auth, edit, history, reverted>>

\* Breaks TokenIsKey: the token of the secret before stays.
Renewed_KeyOnly(n, k) == [row EXCEPT ![n].key = k, ![n].v1 = FALSE]

\* Breaks DisableUndoneByStaleEditOnly: a new secret starts enabled, as a new node.
Renewed_Enabled(n, k) ==
    [row EXCEPT ![n].key = k, ![n].v1 = FALSE, ![n].token = k, ![n].enabled = TRUE]

Renewed(n, k) == [row EXCEPT ![n].key = k, ![n].v1 = FALSE, ![n].token = k]

\* reset_node_secret and regenerate_node_onboarding make the same of the row; neither
\* touches last_request_ts.
RenewSecret(n) ==
    /\ row[n].exists
    /\ NewKey
    /\ row' = Renewed(n, keys')
    /\ reverted' = reverted \ {n}
    /\ UNCHANGED <<authVars, nodeVars, auth, edit, history>>

SetEnabled(n, enabled) ==
    /\ row[n].exists
    /\ row' = [row EXCEPT ![n].enabled = enabled]
    /\ UNCHANGED <<authVars, keys, nodeVars, auth, edit, history, reverted>>

\* update_node reads the row ...
UpdateRead(a, n, asks) ==
    /\ edit[a] = NoEdit
    /\ row[n].exists
    /\ edit' = [edit EXCEPT ![a] =
                    [phase |-> "read", node |-> n, asks |-> asks, saw |-> row[n].enabled]]
    /\ UNCHANGED <<authVars, adminVars, nodeVars, auth, history, reverted>>

\* ... and writes every column of it that the form has, changed or not.
UpdateWrite(a) ==
    LET e == edit[a]
        enabled == IF e.asks = "nothing" THEN e.saw ELSE e.asks = "enable"
    IN  /\ e # NoEdit
        /\ row' = IF row[e.node].exists THEN [row EXCEPT ![e.node].enabled = enabled] ELSE row
        /\ edit' = [edit EXCEPT ![a] = NoEdit]
        /\ UNCHANGED <<authVars, keys, nodeVars, auth, history, reverted>>

\* The nonces go with the row (ON DELETE CASCADE), and with it last_request_ts.
DeleteNode(n) ==
    /\ row[n].exists
    /\ row' = [row EXCEPT ![n] = NoRow]
    /\ nonces' = {r \in nonces : r.node # n}
    /\ last' = [last EXCEPT ![n] = Null]
    /\ accepted' = [accepted EXCEPT ![n] = <<>>]
    /\ reverted' = reverted \ {n}
    /\ UNCHANGED <<now, clock, signed, keys, nodeVars, auth, edit, history>>

--------------------------------------------------------------------------------
Requests ==
    \/ \E n \in Nodes : \E nonce \in DOMAIN signed[n] : SelectNode(n, nonce)
    \/ AcceptRequest \/ RefuseRequest
    \/ Heartbeat \/ OtherRequest

AdminCalls ==
    \/ \E n \in Nodes : CreateNode(n) \/ RenewSecret(n) \/ DeleteNode(n)
    \/ \E n \in Nodes, enabled \in BOOLEAN : SetEnabled(n, enabled)
    \/ \E a \in Admins, n \in Nodes, asks \in Asks : UpdateRead(a, n, asks)
    \/ \E a \in Admins : UpdateWrite(a)

Clocks ==
    /\ Prune \/ Tick \/ \E n \in Nodes : ClockSet(n)
    /\ UNCHANGED <<adminVars, nodeVars, auth, edit, history, reverted>>

RegistryNext ==
    \/ \E n \in Nodes : Install(n) \/ SignRequest(n)
    \/ Requests
    \/ AdminCalls
    \/ Clocks

RegistrySpec == RegistryInit /\ [][RegistryNext]_allVars

--------------------------------------------------------------------------------
\* No request is acted on twice, whatever happens to the secret and the row in
\* between, but for one that was read from a row deleted and created again before
\* the transaction that followed.
OnceEver ==
    \A n \in Nodes : \A i, j \in DOMAIN history[n] :
        i < j /\ history[n][i].nonce = history[n][j].nonce => history[n][j].stale

\* _token_status: the token is shown while it is there; heartbeats withdraw it.
TokenShown(n) == IF row[n].exists THEN row[n].token ELSE NoKey

\* The token an administrator is shown is the secret the node is authenticated
\* with, unless a v1 key read before the secret was renewed was written after it.
TokenIsKey ==
    \A n \in Nodes :
        TokenShown(n) # NoKey => TokenShown(n) = row[n].key \/ n \in reverted

\* A disabled node is enabled by an administrator who asks for that, or against
\* everybody's will by an update_node that had read the row before it was disabled.
DisableUndoneByStaleEditOnly ==
    [][\A n \in Nodes :
          /\ row[n].exists /\ ~row[n].enabled
          /\ row'[n].enabled
          => \/ row' = [row EXCEPT ![n].enabled = TRUE] /\ edit' = edit
             \/ \E a \in Admins :
                  /\ edit[a] # NoEdit /\ edit'[a] = NoEdit
                  /\ edit[a].node = n
                  /\ \/ edit[a].asks = "enable"
                     \/ edit[a].asks = "nothing" /\ edit[a].saw
      ]_allVars

================================================================================

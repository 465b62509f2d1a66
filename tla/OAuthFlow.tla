----------------------------- MODULE OAuthFlow -----------------------------
(***************************************************************************)
(* pkg/oauthsecurity: the single-use authorisation states (Store), the     *)
(* exchange of a code for a token, and the keyring that seals the refresh  *)
(* token, rotates its keys, and rotates and revokes sealed tokens.  A      *)
(* state is identified with the authorisation it begins, and a sealed      *)
(* token, here a form, with the authorisation it came from, the key it     *)
(* is sealed with and its nonce.  Callbacks run concurrently: the store    *)
(* and the keyring have a lock each and the exchange holds neither.  A     *)
(* restart keeps the forms, which the callers store, and no more.          *)
(***************************************************************************)
EXTENDS Integers, FiniteSets, Sequences

CONSTANTS Callbacks, Authorisations,
          MaxRecords,   \* bound of the store (maxRecords)
          MaxTokenKeys, \* bound of the keyring (maxTokenKeys)
          MaxRevoked,   \* bound of the revocations (maxRevocations)
          Ttl, LastInstant,
          MaxNonce      \* bound: forms ever sealed

ASSUME OAuthConstants ==
  /\ MaxRecords \in Nat /\ MaxTokenKeys \in Nat \ {0} /\ MaxRevoked \in Nat /\ Ttl \in Nat
  /\ LastInstant \in Nat /\ MaxNonce \in Nat

VARIABLES flaws,     \* what is wrong with the provider's configuration
          now,
          records,   \* authorisation -> CreatedAt, for the states in the store
          begun,     \* authorisations whose state was issued
          callback,  \* callback -> [pc, auth]
          keyOrder,  \* the keyring's order; its last rotated key is active
          keys, active, minted,
          forms,     \* every form ever sealed; since: history, the form that it
                     \* descends from of those that the last restart found, or 0
          revoked,
          nonce

storeVars == <<flaws, now, records, begun>>
ringVars == <<keyOrder, keys, active, minted, forms, revoked, nonce>>
oauthVars == <<flaws, now, records, begun, callback, keyOrder, keys, active, minted, forms, revoked, nonce>>

Waiting == [pc |-> "idle", auth |-> 0]
\* loadProvider refuses a provider with any of these.
ProviderFlaws == {"name", "clientID", "clientSecret", "credentialFile", "endpoint", "redirect", "authStyle", "scopes"}
Configured == flaws = {}
OAuthInit ==
  /\ flaws \in {{}} \cup {{x} : x \in ProviderFlaws}
  /\ now = 0 /\ records = <<>> /\ begun = {} /\ callback = [c \in Callbacks |-> Waiting]
  /\ keyOrder = <<1>> /\ keys = {1} /\ active = 1 /\ minted = 1 /\ forms = {} /\ revoked = {} /\ nonce = 0

(***************************************************************************)
(* The store.                                                              *)
(***************************************************************************)
Without(f, S) == [x \in DOMAIN f \ S |-> f[x]]
Live(a) == now - records[a] \in 0 .. Ttl
\* pruneLocked: what is expired, or from the future.
Pruned == Without(records, {a \in DOMAIN records : ~Live(a)})
Begin(a) ==
  /\ Configured /\ a \notin begun /\ Cardinality(DOMAIN Pruned) < MaxRecords
  /\ records' = [x \in DOMAIN Pruned \cup {a} |-> IF x = a THEN now ELSE Pruned[x]] /\ begun' = begun \cup {a}
  /\ UNCHANGED <<flaws, now, callback, ringVars>>
\* A state is removed whatever becomes of it.
Spent(a) == Without(records, {a})
Consume(c, a) ==
  /\ callback[c].pc = "idle" /\ a \in DOMAIN records /\ records' = Spent(a)
  /\ \/ callback' = callback
     \/ Live(a) /\ callback' = [callback EXCEPT ![c] = [pc |-> "exchange", auth |-> a]]
  /\ UNCHANGED <<flaws, now, begun, ringVars>>
\* The injected clock may step back.
Clock == now' \in (0 .. LastInstant) \ {now} /\ UNCHANGED <<flaws, records, begun, callback, ringVars>>

(***************************************************************************)
(* The exchange and the keyring.                                           *)
(***************************************************************************)
\* What a token endpoint may answer; parseTokenResponse accepts the first.
TokenResponses == {"token", "noToken", "notBearer", "badExpiry", "oversized", "badStatus", "noAnswer"}
TokenParsed(response) == response = "token"
\* Exchange validates its provider again, and gives up after its timeout.
Exchange(c, response) ==
  /\ callback[c].pc = "exchange"
  /\ callback' = [callback EXCEPT ![c] = IF Configured /\ TokenParsed(response) THEN [@ EXCEPT !.pc = "seal"] ELSE Waiting]
  /\ UNCHANGED <<storeVars, ringVars>>

SealedForm(a, since) == [auth |-> a, since |-> since, key |-> active, nonce |-> nonce + 1]
Opens(x) == x \notin revoked /\ x.key \in keys
Seal(c) ==
  /\ callback[c].pc = "seal" /\ nonce < MaxNonce /\ active \in keys
  /\ forms' = forms \cup {SealedForm(callback[c].auth, 0)} /\ nonce' = nonce + 1
  /\ callback' = [callback EXCEPT ![c] = Waiting]
  /\ UNCHANGED <<storeVars, keyOrder, keys, active, minted, revoked>>

\* The oldest keys go when there are too many, never the active one.
Kept(order) == IF Len(order) > MaxTokenKeys THEN SubSeq(order, Len(order) - MaxTokenKeys + 1, Len(order)) ELSE order
RotateKey ==
  /\ minted < MaxNonce /\ minted' = minted + 1 /\ active' = minted + 1 /\ keyOrder' = Kept(Append(keyOrder, minted + 1))
  /\ keys' = {keyOrder'[i] : i \in DOMAIN keyOrder'}
  /\ UNCHANGED <<storeVars, callback, forms, revoked, nonce>>
\* A key that was generated earlier, before a restart or since, is appended: it
\* is evicted later than the active one.
AddRetainedKey(k) ==
  /\ k \notin keys /\ Cardinality(keys) < MaxTokenKeys
  /\ keys' = keys \cup {k} /\ keyOrder' = Append(keyOrder, k)
  /\ UNCHANGED <<storeVars, callback, active, minted, forms, revoked, nonce>>

Revocable == Cardinality(revoked) < MaxRevoked
Revoke(x) ==
  /\ Opens(x) /\ Revocable /\ revoked' = revoked \cup {x}
  /\ UNCHANGED <<storeVars, callback, keyOrder, keys, active, minted, forms, nonce>>
\* The whole rotation holds the write lock, and mints nothing that it cannot revoke the old form for.
RotatedBestEffort(x) == revoked' = IF Revocable THEN revoked \cup {x} ELSE revoked
RotatedRevokes(x) == Revocable /\ revoked' = revoked \cup {x}
RotateToken(x) ==
  /\ Opens(x) /\ nonce < MaxNonce /\ RotatedRevokes(x) /\ nonce' = nonce + 1 /\ forms' = forms \cup {SealedForm(x.auth, x.since)}
  /\ UNCHANGED <<storeVars, callback, keyOrder, keys, active, minted>>

\* NewStore and NewTokenKeyring: one fresh key, no states and no revocations.
Restart ==
  /\ minted < MaxNonce /\ minted' = minted + 1 /\ active' = minted + 1
  /\ keys' = {minted + 1} /\ keyOrder' = <<minted + 1>> /\ revoked' = {}
  /\ records' = <<>> /\ callback' = [c \in Callbacks |-> Waiting]
  /\ forms' = {[x EXCEPT !.since = x.nonce] : x \in forms}
  /\ UNCHANGED <<flaws, now, begun, nonce>>

OAuthNext ==
  \/ Clock \/ RotateKey \/ Restart \/ \E k \in 1 .. minted : AddRetainedKey(k)
  \/ \E a \in Authorisations : Begin(a) \/ \E c \in Callbacks : Consume(c, a)
  \/ \E c \in Callbacks : Seal(c) \/ \E response \in TokenResponses : Exchange(c, response)
  \/ \E x \in forms : Revoke(x) \/ RotateToken(x)

OAuthSpec == OAuthInit /\ [][OAuthNext]_oauthVars

\* An authorisation has at most one sealed form that opens, whatever callbacks
\* race for its state, however forms, keys and revocations are rotated, retained
\* and evicted ("a rotated refresh token has exactly one valid sealed form").
\* This is for one life of the process.  The revocations are in memory and
\* retained keys open what was sealed before a restart, so a restart may bring
\* rotated forms back; from then on each of them has one descendant that opens.
OneLiveForm ==
  \A x, y \in forms : x.auth = y.auth /\ x.since = y.since /\ Opens(x) /\ Opens(y) => x = y

=============================================================================

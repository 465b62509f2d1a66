--------------------------- MODULE AccessProofs -----------------------------
(***************************************************************************)
(* Proofs about how access is granted, for any number of requests, tickets,*)
(* authorisations and keys: the sealed refresh tokens, the tickets of the  *)
(* terminal and the dial of its SSH client.                                *)
(***************************************************************************)
EXTENDS OAuthFlow, TerminalLogin, TerminalDial, TLAPS

(***************************************************************************)
(* The OAuth flow: an authorisation has at most one sealed refresh token   *)
(* that opens.                                                             *)
(***************************************************************************)

Pcs == {"idle", "exchange", "seal"}
CallbackRecords == [pc : Pcs, auth : Authorisations \cup {0}]
CallbacksOK(f) == f \in [Callbacks -> CallbackRecords]
Carries(c) == callback[c].pc # "idle"

FormRecords == [auth : Authorisations \cup {0}, since : Nat, key : Nat, nonce : Nat]

OAuthTypeOK ==
  /\ DOMAIN records \subseteq begun
  /\ CallbacksOK(callback)

(* The forms are numbered. *)
FormsNumbered ==
  /\ minted \in Nat /\ active \in Nat /\ nonce \in Nat
  /\ \A x \in forms : x \in FormRecords /\ x.nonce <= nonce
  /\ \A x, y \in forms : x.nonce = y.nonce => x = y

(* An authorisation that was begun is in one place: the store, a callback  *)
(* or the forms.                                                           *)
OnePlace ==
  /\ \A c \in Callbacks : Carries(c) => callback[c].auth \in begun \ DOMAIN records
  /\ \A c, d \in Callbacks : Carries(c) /\ Carries(d) /\ callback[c].auth = callback[d].auth => c = d
  /\ \A x \in forms : /\ x.auth \in begun \ DOMAIN records
                      /\ \A c \in Callbacks : Carries(c) => callback[c].auth # x.auth

(* One form of a line is not revoked, whether or not its key is there: an  *)
(* evicted key may be retained again.                                      *)
OneUnrevoked ==
  \A x, y \in forms : x.auth = y.auth /\ x.since = y.since /\ x \notin revoked /\ y \notin revoked => x = y

OAuthInv == OAuthTypeOK /\ FormsNumbered /\ OnePlace /\ OneUnrevoked

----------------------------------------------------------------------------
(* A callback goes on to r. *)
LEMMA CallbackGoes ==
  ASSUME NEW f, CallbacksOK(f), NEW c \in Callbacks, NEW r \in CallbackRecords, NEW g, g = [f EXCEPT ![c] = r]
  PROVE  CallbacksOK(g) /\ g[c] = r /\ \A d \in Callbacks : d # c => g[d] = f[d]
BY DEF CallbacksOK

LEMMA OAuthInvInit == OAuthInit => OAuthInv
<1>. SUFFICES ASSUME OAuthInit PROVE OAuthInv
  OBVIOUS
<1>1. Waiting \in CallbackRecords /\ Waiting.pc = "idle"
  BY DEF Waiting, CallbackRecords, Pcs
<1>2. CallbacksOK(callback) /\ \A c \in Callbacks : ~Carries(c)
  BY <1>1 DEF OAuthInit, Carries, CallbacksOK
<1>3. DOMAIN records \subseteq begun
  BY DEF OAuthInit
<1>4. forms = {} /\ active = 1 /\ minted = 1 /\ nonce = 0
  BY DEF OAuthInit
<1>5. FormsNumbered
  BY <1>4 DEF FormsNumbered
<1>6. OnePlace /\ OneUnrevoked
  BY <1>2, <1>4, Zenon DEF OnePlace, OneUnrevoked
<1>. QED BY <1>2, <1>3, <1>5, <1>6, Zenon DEF OAuthInv, OAuthTypeOK

(* A step that leaves the keyring alone keeps what is said of it. *)
LEMMA RingKept ==
  ASSUME OAuthInv, UNCHANGED ringVars
  PROVE  FormsNumbered' /\ OneUnrevoked'
BY DEF OAuthInv, ringVars, FormsNumbered, OneUnrevoked

(* A step that leaves the places alone keeps what is said of them. *)
LEMMA PlacesKept ==
  ASSUME OAuthInv, UNCHANGED <<storeVars, callback, forms>>
  PROVE  OAuthTypeOK' /\ OnePlace'
BY DEF OAuthInv, OAuthTypeOK, storeVars, OnePlace, Carries

LEMMA BeginFlowKeeps ==
  ASSUME OAuthInv, NEW a \in Authorisations, Begin(a)
  PROVE  OAuthInv'
<1>1. DOMAIN Pruned \subseteq DOMAIN records
  BY DEF Pruned, Without
<1>2. DOMAIN records' \subseteq DOMAIN records \cup {a} /\ begun' = begun \cup {a} /\ a \notin begun
  BY <1>1 DEF Begin
<1>3. UNCHANGED <<callback, ringVars>>
  BY DEF Begin
<1>4. OAuthTypeOK'
  BY <1>2, <1>3 DEF OAuthInv, OAuthTypeOK
<1>5. OnePlace'
  <2>1. UNCHANGED <<callback, forms>>
    BY <1>3 DEF ringVars
  <2>. QED BY <1>2, <2>1 DEF OAuthInv, OAuthTypeOK, OnePlace, Carries
<1>. QED BY <1>3, <1>4, <1>5, RingKept DEF OAuthInv

LEMMA ConsumeKeeps ==
  ASSUME OAuthInv, NEW c \in Callbacks, NEW a \in Authorisations, Consume(c, a)
  PROVE  OAuthInv'
<1>1. DOMAIN records' = DOMAIN records \ {a} /\ a \in DOMAIN records
  BY DEF Consume, Spent, Without
<1>2. UNCHANGED <<begun, ringVars>>
  BY DEF Consume
<1>. DEFINE r == [pc |-> "exchange", auth |-> a]
<1>3. r \in CallbackRecords /\ r.auth = a
  BY DEF CallbackRecords, Pcs
<1>4. callback' = callback \/ callback' = [callback EXCEPT ![c] = r]
  BY DEF Consume
<1>. HIDE DEF r
<1>5. OAuthTypeOK'
  <2>1. CallbacksOK(callback')
    BY <1>3, <1>4, CallbackGoes DEF OAuthInv, OAuthTypeOK
  <2>. QED BY <1>1, <1>2, <2>1 DEF OAuthInv, OAuthTypeOK
<1>6. \A d \in Callbacks : \/ callback'[d] = callback[d]
                           \/ d = c /\ callback'[d].auth = a
  BY <1>3, <1>4, CallbackGoes DEF OAuthInv, OAuthTypeOK
<1>7. \A d \in Callbacks : Carries(d) => callback[d].auth # a
  BY <1>1 DEF OAuthInv, OnePlace
<1>8. OnePlace'
  <2>1. UNCHANGED <<begun, forms>>
    BY <1>2 DEF ringVars
  <2>2. a \in begun /\ \A x \in forms : x.auth # a
    BY <1>1, Zenon DEF OAuthInv, OAuthTypeOK, OnePlace
  <2>. QED BY <1>1, <1>6, <1>7, <2>1, <2>2 DEF OAuthInv, OnePlace, Carries
<1>. QED BY <1>2, <1>5, <1>8, RingKept DEF OAuthInv

LEMMA ExchangeKeeps ==
  ASSUME OAuthInv, NEW c \in Callbacks, NEW r \in TokenResponses, Exchange(c, r)
  PROVE  OAuthInv'
<1>. DEFINE s == [callback[c] EXCEPT !.pc = "seal"]
<1>1. callback' = [callback EXCEPT ![c] = s] \/ callback' = [callback EXCEPT ![c] = Waiting]
  BY Zenon DEF Exchange
<1>2. callback[c] \in CallbackRecords /\ callback[c].pc = "exchange"
  BY DEF OAuthInv, OAuthTypeOK, CallbacksOK, Exchange
<1>3. s \in CallbackRecords /\ s.auth = callback[c].auth
  BY <1>2 DEF CallbackRecords, Pcs
<1>4. Waiting \in CallbackRecords /\ Waiting.pc = "idle"
  BY DEF Waiting, CallbackRecords, Pcs
<1>. HIDE DEF s
<1>5. UNCHANGED <<storeVars, ringVars>>
  BY DEF Exchange
<1>6. OAuthTypeOK'
  <2>1. CallbacksOK(callback')
    BY <1>1, <1>3, <1>4, CallbackGoes DEF OAuthInv, OAuthTypeOK
  <2>. QED BY <1>5, <2>1 DEF OAuthInv, OAuthTypeOK, storeVars
<1>7. \A d \in Callbacks : Carries(d)' => Carries(d) /\ callback'[d].auth = callback[d].auth
  <2>1. Carries(c)
    BY <1>2 DEF Carries
  <2>2. \/ callback'[c] = s \/ callback'[c] = Waiting
    BY <1>1, <1>3, <1>4, CallbackGoes DEF OAuthInv, OAuthTypeOK
  <2>3. \A d \in Callbacks : d # c => callback'[d] = callback[d]
    BY <1>1, <1>3, <1>4, CallbackGoes DEF OAuthInv, OAuthTypeOK
  <2>. QED BY <1>3, <1>4, <2>1, <2>2, <2>3, Zenon DEF Carries
<1>8. OnePlace'
  <2>1. UNCHANGED <<records, begun, forms>>
    BY <1>5 DEF ringVars, storeVars
  <2>. QED BY <1>7, <2>1, Zenon DEF OAuthInv, OnePlace
<1>. QED BY <1>5, <1>6, <1>8, RingKept DEF OAuthInv

(* The form that the active key seals. *)
LEMMA SealedTyped ==
  ASSUME OAuthInv, NEW a \in Authorisations \cup {0}, NEW since \in Nat, NEW f, f = SealedForm(a, since)
  PROVE  f \in FormRecords /\ f.auth = a /\ f.since = since /\ f.nonce = nonce + 1
BY DEF OAuthInv, FormsNumbered, SealedForm, FormRecords

(* It has a number of its own. *)
LEMMA SealedNumbered ==
  ASSUME OAuthInv, NEW f \in FormRecords, f.nonce = nonce + 1, forms' = forms \cup {f}, nonce' = nonce + 1,
         UNCHANGED <<active, minted>>
  PROVE  FormsNumbered' /\ f \notin forms
<1>1. nonce \in Nat /\ \A x \in forms : x \in FormRecords /\ x.nonce <= nonce
  BY DEF OAuthInv, FormsNumbered
<1>2. \A x \in forms : x.nonce \in Nat /\ x.nonce # f.nonce /\ x.nonce <= nonce + 1
  BY <1>1 DEF FormRecords
<1>3. nonce + 1 \in Nat /\ f.nonce <= nonce + 1
  BY <1>1
<1>. QED BY <1>1, <1>2, <1>3 DEF OAuthInv, FormsNumbered

LEMMA SealKeeps ==
  ASSUME OAuthInv, NEW c \in Callbacks, Seal(c)
  PROVE  OAuthInv'
<1>. DEFINE a == callback[c].auth
<1>1. a \in Authorisations \cup {0} /\ Carries(c)
  BY DEF OAuthInv, OAuthTypeOK, CallbacksOK, CallbackRecords, Seal, Carries
<1>2. PICK f : f = SealedForm(a, 0)
  OBVIOUS
<1>3. f \in FormRecords /\ f.auth = a /\ f.nonce = nonce + 1
  BY <1>1, <1>2, SealedTyped
<1>4. /\ forms' = forms \cup {f} /\ nonce' = nonce + 1 /\ callback' = [callback EXCEPT ![c] = Waiting]
      /\ UNCHANGED <<storeVars, active, minted, revoked>>
  BY <1>2 DEF Seal
<1>5. Waiting \in CallbackRecords /\ Waiting.pc = "idle"
  BY DEF Waiting, CallbackRecords, Pcs
<1>6. CallbacksOK(callback') /\ callback'[c] = Waiting /\ \A d \in Callbacks : d # c => callback'[d] = callback[d]
  <2>1. CallbacksOK(callback)
    BY DEF OAuthInv, OAuthTypeOK
  <2>2. callback' = [callback EXCEPT ![c] = Waiting]
    BY <1>4
  <2>. QED BY <1>5, <2>1, <2>2 DEF CallbacksOK
<1>7. OAuthTypeOK'
  BY <1>4, <1>6 DEF OAuthInv, OAuthTypeOK, storeVars
<1>8. \A d \in Callbacks : Carries(d)' => d # c /\ Carries(d) /\ callback'[d] = callback[d]
  BY <1>5, <1>6, Zenon DEF Carries
<1>9. OnePlace'
  <2>1. a \in begun \ DOMAIN records
    BY <1>1 DEF OAuthInv, OnePlace
  <2>2. \A d \in Callbacks : Carries(d)' => callback'[d].auth # a
    BY <1>1, <1>8, Zenon DEF OAuthInv, OnePlace
  <2>3. UNCHANGED <<records, begun>>
    BY <1>4 DEF storeVars
  <2>. QED BY <1>3, <1>4, <1>8, <2>1, <2>2, <2>3, Zenon DEF OAuthInv, OnePlace
<1>10. FormsNumbered'
  BY <1>3, <1>4, SealedNumbered
<1>11. OneUnrevoked'
  <2>1. \A x \in forms : x.auth # f.auth
    BY <1>1, <1>3 DEF OAuthInv, OnePlace
  <2>. QED BY <1>4, <2>1 DEF OAuthInv, OneUnrevoked
<1>. QED BY <1>7, <1>9, <1>10, <1>11 DEF OAuthInv

(* The keys come and go, and forms are revoked: the forms stay. *)
LEMMA KeysKeep ==
  ASSUME OAuthInv, UNCHANGED <<storeVars, callback, forms, nonce>>, revoked \subseteq revoked',
         minted' \in Nat, active' \in Nat
  PROVE  OAuthInv'
<1>1. FormsNumbered'
  BY DEF OAuthInv, FormsNumbered
<1>2. OneUnrevoked'
  BY DEF OAuthInv, OneUnrevoked
<1>. QED BY <1>1, <1>2, PlacesKept DEF OAuthInv

LEMMA RotateKeyKeeps ==
  ASSUME OAuthInv, RotateKey
  PROVE  OAuthInv'
<1>1. minted + 1 \in Nat
  BY DEF OAuthInv, FormsNumbered
<1>. QED BY <1>1, KeysKeep DEF RotateKey

LEMMA RetainKeeps ==
  ASSUME OAuthInv, NEW k, AddRetainedKey(k)
  PROVE  OAuthInv'
<1>1. minted \in Nat /\ active \in Nat
  BY DEF OAuthInv, FormsNumbered
<1>. QED BY <1>1, KeysKeep DEF AddRetainedKey

LEMMA RevokeKeeps ==
  ASSUME OAuthInv, NEW x \in forms, Revoke(x)
  PROVE  OAuthInv'
<1>1. minted \in Nat /\ active \in Nat
  BY DEF OAuthInv, FormsNumbered
<1>. QED BY <1>1, KeysKeep DEF Revoke

LEMMA RotateTokenKeeps ==
  ASSUME OAuthInv, NEW x \in forms, RotateToken(x)
  PROVE  OAuthInv'
<1>1. x \in FormRecords /\ x \notin revoked
  BY DEF OAuthInv, FormsNumbered, RotateToken, Opens
<1>2. x.auth \in Authorisations \cup {0} /\ x.since \in Nat
  BY <1>1 DEF FormRecords
<1>3. PICK f : f = SealedForm(x.auth, x.since)
  OBVIOUS
<1>4. f \in FormRecords /\ f.auth = x.auth /\ f.since = x.since /\ f.nonce = nonce + 1
  BY <1>2, <1>3, SealedTyped
<1>5. /\ revoked' = revoked \cup {x} /\ nonce' = nonce + 1 /\ forms' = forms \cup {f}
      /\ UNCHANGED <<storeVars, callback, active, minted>>
  BY <1>3 DEF RotateToken, RotatedRevokes
<1>6. OAuthTypeOK'
  BY <1>5 DEF OAuthInv, OAuthTypeOK, storeVars
<1>7. OnePlace'
  <2>1. UNCHANGED <<records, begun>>
    BY <1>5 DEF storeVars
  <2>. QED BY <1>4, <1>5, <2>1, Zenon DEF OAuthInv, OnePlace, Carries
<1>8. FormsNumbered'
  BY <1>4, <1>5, SealedNumbered
<1>9. OneUnrevoked'
  <2>1. \A y \in forms : y.auth = x.auth /\ y.since = x.since => y \in revoked'
    BY <1>1, <1>5 DEF OAuthInv, OneUnrevoked
  <2>. QED BY <1>4, <1>5, <2>1 DEF OAuthInv, OneUnrevoked
<1>. QED BY <1>6, <1>7, <1>8, <1>9 DEF OAuthInv

(* What a restart makes of a form. *)
LEMMA FormFound ==
  ASSUME NEW x \in FormRecords, NEW y, y = [x EXCEPT !.since = x.nonce]
  PROVE  y \in FormRecords /\ y.auth = x.auth /\ y.nonce = x.nonce /\ y.since = x.nonce
BY DEF FormRecords

LEMMA RestartKeeps ==
  ASSUME OAuthInv, Restart
  PROVE  OAuthInv'
<1>1. /\ forms' = {[x EXCEPT !.since = x.nonce] : x \in forms} /\ UNCHANGED <<begun, nonce>>
      /\ records' = <<>> /\ callback' = [c \in Callbacks |-> Waiting] /\ minted' = minted + 1 /\ active' = minted + 1
  BY DEF Restart
<1>2. nonce \in Nat /\ minted + 1 \in Nat /\ (\A x \in forms : x \in FormRecords /\ x.nonce <= nonce)
      /\ \A x, y \in forms : x.nonce = y.nonce => x = y
  BY DEF OAuthInv, FormsNumbered
<1>3. \A y \in forms' : \E x \in forms : y = [x EXCEPT !.since = x.nonce]
  BY <1>1
<1>4. ASSUME NEW y \in forms'
      PROVE  \E x \in forms : /\ y = [x EXCEPT !.since = x.nonce] /\ y \in FormRecords
                              /\ y.auth = x.auth /\ y.nonce = x.nonce /\ y.since = x.nonce
  BY <1>2, <1>3, FormFound
<1>5. FormsNumbered'
  <2>1. \A y \in forms' : y \in FormRecords /\ y.nonce <= nonce
    BY <1>2, <1>4
  <2>2. ASSUME NEW y \in forms', NEW z \in forms', y.nonce = z.nonce PROVE y = z
    BY <1>2, <1>4, <2>2
  <2>. QED BY <1>1, <1>2, <2>1, <2>2 DEF FormsNumbered
<1>6. OneUnrevoked'
  <2>1. ASSUME NEW y \in forms', NEW z \in forms', y.since = z.since PROVE y = z
    BY <1>2, <1>4, <2>1
  <2>. QED BY <2>1 DEF OneUnrevoked
<1>7. Waiting \in CallbackRecords /\ Waiting.pc = "idle"
  BY DEF Waiting, CallbackRecords, Pcs
<1>8. CallbacksOK(callback') /\ \A c \in Callbacks : ~Carries(c)'
  BY <1>1, <1>7 DEF CallbacksOK, Carries
<1>9. DOMAIN records' = {}
  BY <1>1
<1>10. OnePlace'
  <2>1. \A y \in forms' : y.auth \in begun
    BY <1>4 DEF OAuthInv, OnePlace
  <2>. QED BY <1>1, <1>8, <1>9, <2>1 DEF OnePlace
<1>11. OAuthTypeOK'
  BY <1>8, <1>9 DEF OAuthTypeOK
<1>. QED BY <1>5, <1>6, <1>10, <1>11 DEF OAuthInv

LEMMA OAuthInvStep ==
  ASSUME OAuthInv, [OAuthNext]_oauthVars
  PROVE  OAuthInv'
<1>1. CASE Clock
  <2>1. UNCHANGED <<records, begun, callback, ringVars>>
    BY <1>1 DEF Clock
  <2>2. OAuthTypeOK' /\ OnePlace'
    <3>1. UNCHANGED forms
      BY <2>1 DEF ringVars
    <3>. QED BY <2>1, <3>1, Zenon DEF OAuthInv, OAuthTypeOK, OnePlace, Carries
  <2>. QED BY <2>1, <2>2, RingKept, Zenon DEF OAuthInv
<1>2. CASE UNCHANGED oauthVars
  <2>1. UNCHANGED <<records, begun, callback, ringVars>>
    BY <1>2 DEF oauthVars, ringVars
  <2>2. OAuthTypeOK' /\ OnePlace'
    <3>1. UNCHANGED forms
      BY <2>1 DEF ringVars
    <3>. QED BY <2>1, <3>1, Zenon DEF OAuthInv, OAuthTypeOK, OnePlace, Carries
  <2>. QED BY <2>1, <2>2, RingKept, Zenon DEF OAuthInv
<1>. QED
  BY <1>1, <1>2, BeginFlowKeeps, ConsumeKeeps, ExchangeKeeps, SealKeeps, RotateKeyKeeps, RetainKeeps,
     RestartKeeps, RevokeKeeps, RotateTokenKeeps DEF OAuthNext

(* For any number of racing callbacks, key rotations, retained and evicted  *)
(* keys, revocations and restarts, and a clock that may step back: of the   *)
(* forms that an authorisation has had since the last restart, or that     *)
(* descend from one form that the restart found, at most one opens         *)
(* (Store.Consume and the keyring's Seal, RotateKey, AddRetainedKey,       *)
(* RotateToken and Revoke of pkg/oauthsecurity).                           *)
THEOREM OneFormOpens == OAuthSpec => []OneLiveForm
<1>1. OAuthInv => OneLiveForm
  BY DEF OAuthInv, OneUnrevoked, OneLiveForm, Opens
<1>. QED
  BY OAuthInvInit, OAuthInvStep, <1>1, PTL DEF OAuthSpec

(***************************************************************************)
(* Tickets: one terminal each, its owner's, in time.                       *)
(***************************************************************************)

Grants == [owner : {"alice", "bob", "nobody"}, expires : Nat]
Openings == [ticket : Tickets, by : Principals, at : Nat, on : Sockets]

(* What the registry holds is as it was granted, and a ticket that opened a *)
(* terminal was granted and is no longer held.                              *)
HeldAsGranted == \A t \in Tickets : registry[t] = NoTicket \/ registry[t] = granted[t]
OpenedSpent == \A a \in opened : registry[a.ticket] = NoTicket /\ granted[a.ticket] # NoTicket

LoginInv ==
  /\ clock \in Nat /\ registry \in [Tickets -> Grants] /\ granted \in [Tickets -> Grants]
  /\ opened \subseteq Openings
  /\ HeldAsGranted /\ OpenedSpent /\ TicketOnce

----------------------------------------------------------------------------
LEMMA NoTicketTyped == NoTicket \in Grants
BY Zenon DEF NoTicket, Grants

(* cleanupLocked only drops tickets. *)
LEMMA CleanedDrops ==
  ASSUME LoginInv
  PROVE  /\ Cleaned \in [Tickets -> Grants]
         /\ \A t \in Tickets : Cleaned[t] = NoTicket \/ (Cleaned[t] = registry[t] /\ clock < registry[t].expires)
<1>1. \A t \in Tickets : registry[t] \in Grants /\ registry[t].expires \in Nat
  BY Zenon DEF LoginInv, Grants
<1>2. Cleaned \in [Tickets -> Grants]
  BY <1>1, NoTicketTyped DEF Cleaned
<1>3. ASSUME NEW t \in Tickets
      PROVE  Cleaned[t] = NoTicket \/ (Cleaned[t] = registry[t] /\ clock < registry[t].expires)
  BY <1>1 DEF Cleaned, Expired, LoginInv
<1>. QED BY <1>2, <1>3

(* A step that grants nothing, opens nothing and only drops tickets. *)
LEMMA DropKeeps ==
  ASSUME LoginInv, registry' \in [Tickets -> Grants],
         \A t \in Tickets : registry'[t] = NoTicket \/ registry'[t] = registry[t],
         clock' \in Nat, UNCHANGED <<granted, opened>>
  PROVE  LoginInv'
<1>1. HeldAsGranted'
  BY Zenon DEF LoginInv, HeldAsGranted
<1>2. OpenedSpent'
  BY Zenon DEF LoginInv, OpenedSpent, Openings
<1>3. TicketOnce'
  BY Zenon DEF LoginInv, TicketOnce
<1>. QED BY <1>1, <1>2, <1>3 DEF LoginInv

LEMMA IssueKeeps ==
  ASSUME LoginInv, NEW t \in Tickets, NEW p \in Principals, IssueTicket(t, p)
  PROVE  LoginInv'
<1>. DEFINE g == [owner |-> p, expires |-> clock + Lifetime]
<1>1. g \in Grants
  BY LoginConstants DEF Grants, Principals, LoginInv
<1>2. CASE registry' = Cleaned /\ UNCHANGED granted
  BY <1>2, CleanedDrops, DropKeeps, Zenon DEF IssueTicket, LoginInv
<1>3. CASE registry' = [Cleaned EXCEPT ![t] = g] /\ granted' = [granted EXCEPT ![t] = g]
  <2>. HIDE DEF g
  <2>1. granted[t] = NoTicket /\ UNCHANGED <<clock, opened>>
    BY Zenon DEF IssueTicket
  <2>2. registry' \in [Tickets -> Grants] /\ granted' \in [Tickets -> Grants]
    BY <1>1, <1>3, CleanedDrops DEF LoginInv
  <2>3. /\ registry'[t] = granted'[t]
        /\ \A u \in Tickets : u # t => granted'[u] = granted[u] /\ registry'[u] = Cleaned[u]
    BY <1>3, CleanedDrops DEF LoginInv
  <2>4. HeldAsGranted'
    BY <2>3, CleanedDrops DEF LoginInv, HeldAsGranted
  <2>5. \A a \in opened : a.ticket \in Tickets /\ a.ticket # t
    BY <2>1, Zenon DEF LoginInv, OpenedSpent, Openings
  <2>6. OpenedSpent'
    BY <2>1, <2>3, <2>5, CleanedDrops DEF LoginInv, OpenedSpent
  <2>7. TicketOnce'
    BY <2>1, <2>3, <2>5 DEF LoginInv, TicketOnce
  <2>. QED BY <2>1, <2>2, <2>4, <2>6, <2>7, Zenon DEF LoginInv
<1>. QED BY <1>2, <1>3 DEF IssueTicket

LEMMA RedeemKeeps ==
  ASSUME LoginInv, NEW s \in Sockets, NEW t \in Tickets, NEW p \in Principals, ConsumeTicket(s, t, p)
  PROVE  LoginInv'
<1>1. registry' = [Cleaned EXCEPT ![t] = NoTicket] /\ UNCHANGED <<clock, granted>>
  BY Zenon DEF ConsumeTicket, Redeemed
<1>2. registry' \in [Tickets -> Grants]
  BY <1>1, CleanedDrops, NoTicketTyped
<1>3. \A u \in Tickets : registry'[u] = NoTicket \/ registry'[u] = registry[u]
  BY <1>1, CleanedDrops
<1>4. CASE ~Accepts(t, p)
  BY <1>1, <1>2, <1>3, <1>4, DropKeeps DEF ConsumeTicket, LoginInv
<1>5. CASE Accepts(t, p)
  <2>. DEFINE o == [ticket |-> t, by |-> p, at |-> clock, on |-> s]
  <2>1. opened' = opened \cup {o}
    BY <1>5 DEF ConsumeTicket
  <2>2. o \in Openings /\ o.ticket = t /\ o.by = p /\ o.at = clock
    BY Zenon DEF Openings, LoginInv
  <2>. HIDE DEF o
  <2>3. Cleaned[t] # NoTicket /\ registry[t].owner = p
    BY <1>5, Zenon DEF Accepts, Pending
  <2>4. registry[t] # NoTicket /\ clock < registry[t].expires
    BY <2>3, CleanedDrops
  <2>5. granted[t] = registry[t]
    BY <2>4 DEF LoginInv, HeldAsGranted
  <2>6. \A a \in opened : a.ticket \in Tickets /\ a.ticket # t
    BY <2>4 DEF LoginInv, OpenedSpent, Openings
  <2>7. HeldAsGranted'
    BY <1>1, <1>3 DEF LoginInv, HeldAsGranted
  <2>8. OpenedSpent'
    <3>1. registry'[t] = NoTicket
      BY <1>1, CleanedDrops
    <3>. QED BY <1>1, <1>3, <2>1, <2>2, <2>4, <2>5, <2>6, <3>1 DEF LoginInv, OpenedSpent
  <2>9. TicketOnce'
    BY <1>1, <2>1, <2>2, <2>3, <2>4, <2>5, <2>6 DEF LoginInv, TicketOnce
  <2>. QED BY <1>1, <1>2, <2>1, <2>2, <2>7, <2>8, <2>9 DEF LoginInv
<1>. QED BY <1>4, <1>5, Zenon

LEMMA LoginInvInit == LoginInit => LoginInv
<1>. SUFFICES ASSUME LoginInit PROVE LoginInv
  BY Zenon
<1>1. registry \in [Tickets -> Grants] /\ granted \in [Tickets -> Grants]
  BY NoTicketTyped, Zenon DEF LoginInit
<1>. QED BY <1>1, Zenon DEF LoginInit, LoginInv, HeldAsGranted, OpenedSpent, TicketOnce

LEMMA LoginInvStep ==
  ASSUME LoginInv, [LoginNext]_loginVars
  PROVE  LoginInv'
<1>1. ASSUME NEW t \in Tickets, Expire(t) PROVE LoginInv'
  <2>1. registry' \in [Tickets -> Grants] /\ \A u \in Tickets : registry'[u] \in {NoTicket, registry[u]}
    BY <1>1, NoTicketTyped DEF Expire, LoginInv
  <2>. QED BY <1>1, <2>1, DropKeeps DEF Expire, LoginInv
<1>2. ASSUME NEW s \in Sockets, WithoutTicket(s) \/ TakeSlot(s) \/ FreeSlot(s) PROVE LoginInv'
  <2>1. UNCHANGED <<clock, registry, granted, opened>>
    BY <1>2, Zenon DEF WithoutTicket, TakeSlot, FreeSlot
  <2>. QED BY <2>1, DropKeeps DEF LoginInv
<1>3. CASE LoginTick
  BY <1>3, DropKeeps DEF LoginTick, LoginInv
<1>4. CASE UNCHANGED loginVars
  BY <1>4, DropKeeps DEF loginVars, LoginInv
<1>. QED BY <1>1, <1>2, <1>3, <1>4, IssueKeeps, RedeemKeeps DEF LoginNext

(* For any tickets, requests, capacity and lifetime: whatever the order of  *)
(* requests, ticket timers and cleanups, a ticket opens at most one         *)
(* terminal, for the principal that logged in and within its lifetime       *)
(* (issue, consume and cleanupLocked of route/v1/ssh.go).                   *)
THEOREM TicketsOpenOnce == LoginSpec => []TicketOnce
<1>1. LoginInv => TicketOnce
  BY DEF LoginInv
<1>. QED
  BY LoginInvInit, LoginInvStep, <1>1, PTL DEF LoginSpec

(***************************************************************************)
(* Dialling the local SSH daemon.                                          *)
(***************************************************************************)

Handshaking == {"handshake", "clear", "clocked", "unclocked", "decide", "rejected", "reject"}

(* Once there is a connection, only the callback of a context that ended    *)
(* closes it; the reader fails over a closed connection or under a deadline *)
(* that passed, and a clock read in time rules the second out for good.     *)
DialInv ==
  /\ dial \in {"start", "keys", "connect"} => abortCall = "none"
  /\ dial \in Handshaking => connection = "open" \/ abortCall = "done"
  /\ dial \in {"handshake", "start", "keys", "connect"} => clientReader = "none"
  /\ dial \in {"clear", "clocked", "unclocked", "decide"} => clientReader \in {"reads", "failed"}
  /\ clientReader = "failed" => connection = "closed" \/ overdue
  /\ dial \in {"start", "keys", "connect", "handshake", "clear", "clocked"} => ~inTime
  /\ dial = "clocked" => ~timed
  /\ inTime /\ dial \in Handshaking =>
       ~timed /\ (clientReader = "failed" => connection = "closed")
  /\ dial = "client" => abortCall = "stopped"
  /\ inTime \in BOOLEAN /\ timed \in BOOLEAN /\ overdue \in BOOLEAN
  /\ ClientUsable

LEMMA DialInvStep == DialInv /\ [DialNext]_dialVars => DialInv'
<1>. SUFFICES ASSUME DialInv, [DialNext]_dialVars PROVE DialInv'
  BY Zenon
<1>. USE DEF DialInv, ClientUsable, Handshaking
<1>1. CASE Admit
  BY <1>1 DEF Admit, DialAt
<1>2. CASE LoadKeys
  BY <1>2 DEF LoadKeys, Leaves, DialAt
<1>3. CASE Connect
  BY <1>3, Zenon DEF Connect, Leaves, DialAt
<1>4. CASE Handshake
  BY <1>4 DEF Handshake, DialAt
<1>5. CASE ClearDeadline
  BY <1>5, Zenon DEF ClearDeadline, DialAt
<1>6. CASE ReadsClock
  BY <1>6 DEF ReadsClock, ReadClock, DialAt
<1>7. CASE StopCallback
  BY <1>7 DEF StopCallback, DialAt
<1>8. CASE Reject
  BY <1>8 DEF Reject, Leaves, DialAt
<1>9. CASE Decide
  BY <1>9 DEF Decide, Usable, Leaves, DialAt
<1>10. CASE DeadlinePasses \/ RequestCancelled
  <2>1. UNCHANGED <<dial, connection, timed, abortCall, clientReader, inTime>> /\ (overdue => overdue')
        /\ overdue' \in BOOLEAN
    BY <1>10, Zenon DEF DeadlinePasses, RequestCancelled
  <2>. QED BY <2>1
<1>11. CASE CallbackStarts \/ CallbackCloses
  BY <1>11 DEF CallbackStarts, CallbackCloses
<1>12. CASE ReaderFails
  BY <1>12 DEF ReaderFails
<1>13. CASE UNCHANGED dialVars
  BY <1>13 DEF dialVars
<1>. QED BY <1>1, <1>2, <1>3, <1>4, <1>5, <1>6, <1>7, <1>8, <1>9, <1>10, <1>11, <1>12, <1>13, Zenon
         DEF DialNext

(* However the deadline, a cancelled request, its callback and the client's *)
(* reader interleave with the handshake, a client that DialLocalContext     *)
(* returns has a live reader, no deadline and no callback that could still  *)
(* close its connection.                                                    *)
THEOREM ReturnedClientWorks == DialSpec => []ClientUsable
<1>1. DialInit => DialInv
  BY Zenon DEF DialInit, DialInv, ClientUsable, Handshaking
<1>2. DialInv => ClientUsable
  BY Zenon DEF DialInv
<1>. QED BY <1>1, <1>2, DialInvStep, PTL DEF DialSpec

=============================================================================

---------------------------- MODULE MCCredentials ----------------------------
(***************************************************************************)
(* Credentials and the connections they open: the key file, the cutover of *)
(* the database, the OAuth flow and its sealed tokens, the tickets of the  *)
(* terminal and the dial of its SSH client.  Each behaviour runs one of    *)
(* the five, so the state spaces add up instead of multiplying; the others *)
(* keep one initial state.                                                 *)
(***************************************************************************)
EXTENDS KeySource, CredentialCutover, OAuthFlow, TerminalLogin, TerminalDial

VARIABLE part

\* Rows, and keys that sealed nothing yet, are told apart by nothing: one initial
\* state of those that differ in their names only.
Rank(row) == IF row.kind = "absent" THEN 0 ELSE IF row.port = "" THEN 1 ELSE IF row.sound THEN 2 ELSE 3
UpToNames ==
  /\ Rank(db.rows["r1"]) >= Rank(db.rows["r2"]) /\ Rank(db.rows["r2"]) >= Rank(db.rows["r3"])
  /\ \A c \in Callers : keyring[c].active = CHOOSE k \in Keys : TRUE
CutoverStill == db.schema = "absent" /\ db.flaws = {}

MCInit ==
  /\ part \in {"keys", "cutover", "oauth", "login", "dial"}
  /\ KeyInit /\ LoginInit
  /\ CutoverInit /\ UpToNames /\ (part # "cutover" => CutoverStill)
  /\ OAuthInit /\ (part # "oauth" => flaws = {})
  /\ DialInit /\ (part # "dial" => admitted = 0)

MCNext ==
  \/ part = "keys" /\ KeyNext /\ UNCHANGED <<cutoverVars, oauthVars, loginVars, dialVars, part>>
  \/ part = "cutover" /\ CutoverNext /\ UNCHANGED <<keyVars, oauthVars, loginVars, dialVars, part>>
  \/ part = "oauth" /\ OAuthNext /\ UNCHANGED <<keyVars, cutoverVars, loginVars, dialVars, part>>
  \/ part = "login" /\ LoginNext /\ UNCHANGED <<keyVars, cutoverVars, oauthVars, dialVars, part>>
  \/ part = "dial" /\ DialNext /\ UNCHANGED <<keyVars, cutoverVars, oauthVars, loginVars, part>>

MCSpec == MCInit /\ [][MCNext]_<<keyVars, cutoverVars, oauthVars, loginVars, dialVars, part>>

=============================================================================

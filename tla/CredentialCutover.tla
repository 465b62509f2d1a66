-------------------------- MODULE CredentialCutover --------------------------
(***************************************************************************)
(* The passwords of the Samba connections: rows of o_connections, first    *)
(* plaintext ("legacy"), later sealed under the active key of a keyring.   *)
(* The expand-only start of the legacy service (pkg/sqlite/db.go and       *)
(* smb_credentials_schema.go), its contained writes                        *)
(* (service/connections.go) and the cutover that seals every row in one    *)
(* transaction (smb_credentials_cutover.go), over the keyring of           *)
(* pkg/smbcredentials.                                                     *)
(*                                                                         *)
(* SQLite is external: it has one writer, a transaction works on a copy    *)
(* that replaces the database at COMMIT, a reader that turned writer finds *)
(* out that its snapshot is stale, and closing a connection rolls back.    *)
(* Any statement may fail; BEGIN and COMMIT may fail after they took       *)
(* effect.  The process may die between any two statements.                *)
(***************************************************************************)
EXTENDS Integers, FiniteSets

CONSTANTS Rows,        \* identities of connection rows
          Callers,     \* goroutines that may call the cutover
          Keys,        \* key identities
          MaxRows,     \* maxSMBCredentialRows
          MaxKeys,     \* the largest number of keys of a keyring
          MaxFailures, \* bound: failing statements
          MaxEdits     \* bound: writes of the legacy service

NoKey == "no key"
Nobody == "nobody"

ASSUME CutoverConstants == MaxRows \in Nat /\ MaxKeys \in Nat /\ Keys # {} /\ Nobody \notin Callers

VARIABLES db,       \* what SQLite holds durably
          draft,    \* the copy the open transaction works on
          writer,   \* whose connection has the write transaction, or Nobody
          keyring,  \* caller -> its keyring
          cut,      \* caller -> its call of the cutover
          edit,     \* the write transaction of the legacy service, or NoEdit
          service,  \* the legacy service is "down" or "up"
          touched,  \* history: callers whose COMMIT changed the database
          failures, edits

cutoverVars == <<db, draft, writer, keyring, cut, edit, service,
                 touched, failures, edits>>

(***************************************************************************)
(* Rows.  "sound" stands for runtime fields that parse, and "pw" for a     *)
(* plaintext password in the row.                                          *)
(***************************************************************************)
Absent == [kind |-> "absent", port |-> "", sound |-> TRUE, pw |-> FALSE, key |-> NoKey]
LegacyRow(port, sound) ==
  [kind |-> "legacy", port |-> port, sound |-> sound, pw |-> TRUE, key |-> NoKey]
InitialRows == {Absent, LegacyRow("", TRUE), LegacyRow("139", TRUE), LegacyRow("445", FALSE)}

\* ParsePersistedSambaConnection: a row from before ports has the default.
NormalizedPort(row) == IF row.port = "" THEN "445" ELSE row.port
RuntimeFieldsValid(row) == row.sound /\ NormalizedPort(row) = "445"

NoDraft == [schema |-> "none"]

Present(d) == {r \in Rows : d.rows[r].kind # "absent"}
Legacy(d)  == {r \in Rows : d.rows[r].kind = "legacy"}
Sealed(d)  == {r \in Rows : d.rows[r].kind = "sealed"}

(***************************************************************************)
(* The keyring: immutable but for Destroy, after which every use fails.    *)
(***************************************************************************)
NewKeyring(k) == [active |-> k, keys |-> {k}, alive |-> TRUE]
ActiveID(ring) == IF ring.alive THEN ring.active ELSE NoKey
CanSeal(ring) == ring.alive
CanOpen(ring, row) == ring.alive /\ row.key \in ring.keys /\ row.sound

Flaws == {"column", "marker table", "index", "temp shadow", "foreign key", "constraint",
          "oversized", "huge row", "attachment"}

NoCut == [pc |-> "idle", id |-> NoKey, todo |-> {}, told |-> "nothing"]
NoEdit == [pc |-> "none", row |-> "none", op |-> "none", seen |-> {}]

CutoverInit ==
  /\ \E schema \in {"absent", "old", "partial", "expanded"},
        flaws \in {{}} \cup {{f} : f \in Flaws} :
       \E rows \in [Rows -> InitialRows] :
          /\ schema = "absent" => \A r \in Rows : rows[r] = Absent
          /\ flaws # {} => schema = "expanded" /\ \A r \in Rows : rows[r] = LegacyRow("", TRUE)
          /\ db = [schema |-> schema, flaws |-> flaws, controlTable |-> FALSE, control |-> NoKey,
                   marker |-> "none", rows |-> rows]
  /\ draft = NoDraft
  /\ writer = Nobody
  /\ \E k \in Keys : keyring = [c \in Callers |-> NewKeyring(k)]
  /\ cut = [c \in Callers |-> NoCut]
  /\ edit = NoEdit /\ service = "down"
  /\ touched = {} /\ failures = 0 /\ edits = 0

MayFail == failures < MaxFailures
Fault   == MayFail /\ failures' = failures + 1
NoFault == UNCHANGED failures

(***************************************************************************)
(* The legacy service: GetDb, then writes through the connection DAO.      *)
(***************************************************************************)
LegacyOnlyByRows(d) == Legacy(d) = Present(d)

\* verifyLegacyOnlySMBCredentialState and verifyLegacyConnectionMutationState.
LegacyOnly(d) == Legacy(d) = Present(d) /\ d.marker = "none"

\* What the expand-only start verifies of the tables.
ColumnsVerified(d) == "column" \notin d.flaws
MarkerTableVerified(d) == "marker table" \notin d.flaws
CredentialIndexVerified(d) == "index" \notin d.flaws
TablesVerified(d) == ColumnsVerified(d) /\ MarkerTableVerified(d) /\ CredentialIndexVerified(d)

\* ensureSMBCredentialColumns refuses a partly expanded table.
Expandable(d) == d.schema \in {"absent", "old", "expanded"} /\ TablesVerified(d)
Expanded(d) == [d EXCEPT !.schema = "expanded"]

\* expandSMBCredentialSchema runs in one transaction, and its failure stops the
\* start; so does a directory that is not safe before it, or a database file
\* after it.
DirectoryRefused == Fault /\ UNCHANGED <<db, service>>
ArtifactRefused  == Fault /\ db' = Expanded(db) /\ UNCHANGED service
ServiceStarts ==
  /\ service = "down" /\ writer = Nobody
  /\ Expandable(db) /\ LegacyOnly(db)
  /\ \/ db' = Expanded(db) /\ service' = "up" /\ NoFault
     \/ DirectoryRefused
     \/ ArtifactRefused
  /\ UNCHANGED <<draft, writer, keyring, cut, edit, touched, edits>>

\* runLegacyConnectionMutation first reads the rows and the marker.
EditBegins(op, r) ==
  /\ service = "up" /\ edit = NoEdit
  /\ edits < MaxEdits /\ edits' = edits + 1
  /\ LegacyOnly(db)
  /\ r \in IF op = "create" THEN Rows \ Present(db) ELSE Legacy(db)
  /\ edit' = [pc |-> "write", row |-> r, op |-> op, seen |-> {db}]
  /\ UNCHANGED <<db, draft, writer, keyring, cut, service, touched, failures>>

Edited(op, d, r) ==
  CASE op = "create" -> {[d EXCEPT !.rows[r] = LegacyRow("445", TRUE)]}
    [] op = "mounted" -> {[d EXCEPT !.rows[r].port = "445", !.rows[r].sound = TRUE]}
    [] op = "delete" -> {[d EXCEPT !.rows[r] = Absent]}

\* The write needs the write lock and a snapshot that is still current.
EditWrites ==
  /\ edit.pc = "write"
  /\ \/ /\ writer = Nobody /\ db \in edit.seen
        /\ db' \in Edited(edit.op, db, edit.row) /\ NoFault
     \/ (writer # Nobody \/ db \notin edit.seen) /\ UNCHANGED db /\ NoFault
     \/ UNCHANGED db /\ Fault
  /\ edit' = NoEdit
  /\ UNCHANGED <<draft, writer, keyring, cut, service, touched, edits>>

(***************************************************************************)
(* The keyring's other users.                                              *)
(***************************************************************************)
Rotate(c) ==
  /\ cut[c].pc = "idle" /\ keyring[c].alive
  /\ Cardinality(keyring[c].keys) < MaxKeys
  /\ \E k \in Keys \ keyring[c].keys :
        keyring' = [keyring EXCEPT ![c].active = k, ![c].keys = @ \cup {k}]
  /\ UNCHANGED <<db, draft, writer, cut, edit, service, touched, failures, edits>>

Destroy(c) ==
  /\ keyring[c].alive
  /\ keyring' = [keyring EXCEPT ![c].alive = FALSE]
  /\ UNCHANGED <<db, draft, writer, cut, edit, service, touched, failures, edits>>

(***************************************************************************)
(* The cutover.                                                            *)
(***************************************************************************)
Goes(c, pc) == cut' = [cut EXCEPT ![c].pc = pc]
Returns(c, told) == cut' = [cut EXCEPT ![c] = [NoCut EXCEPT !.told = told]]
EndsTransaction == writer' = Nobody /\ draft' = NoDraft

\* decodeSMBCredentialActiveKeyID, the pinned connection and BEGIN IMMEDIATE.
\* An error may hide a transaction that did begin: the connection is dropped.
ConnectionConfigured == "attachment" \notin db.flaws
CutoverBegins(c) ==
  /\ cut[c].pc = "idle"
  /\ \/ /\ keyring[c].alive /\ ConnectionConfigured /\ writer = Nobody
        /\ writer' = c /\ draft' = db
        /\ cut' = [cut EXCEPT ![c] = [NoCut EXCEPT !.pc = "inspect",
                                                   !.id = ActiveID(keyring[c])]]
        /\ NoFault
     \/ ~(keyring[c].alive /\ ConnectionConfigured)
        /\ Returns(c, "error") /\ UNCHANGED <<draft, writer>> /\ NoFault
     \/ Returns(c, "error") /\ UNCHANGED <<draft, writer>> /\ Fault
  /\ touched' = touched \ {c}
  /\ UNCHANGED <<db, keyring, edit, service, edits>>

\* The control table is created before the schema is verified; the switch.
WithControlTable(d) == [d EXCEPT !.controlTable = TRUE]
NoTempShadows(d) == "temp shadow" \notin d.flaws
NoForeignKeys(d) == "foreign key" \notin d.flaws
ConnectionDDLVerified(d) == "constraint" \notin d.flaws
ResourcesBounded(d) == "oversized" \notin d.flaws
SchemaVerified(d) ==
  /\ d.schema = "expanded" /\ d.controlTable
  /\ NoTempShadows(d) /\ ResourcesBounded(d) /\ TablesVerified(d)
  /\ ConnectionDDLVerified(d) /\ NoForeignKeys(d)
Classified(d) == Cardinality(Present(d)) <= MaxRows
ToMigrate(d) == Legacy(d) = Present(d) /\ d.marker = "none" /\ d.control = NoKey
ToAuthenticate(d, id) == Sealed(d) = Present(d) /\ d.marker = "pending" /\ d.control = id

Compatible(d, id) ==
  SchemaVerified(d) /\ Classified(d) /\ (ToMigrate(d) \/ ToAuthenticate(d, id))
CutoverInspects(c) ==
  LET d == WithControlTable(draft)
      id == cut[c].id
  IN /\ cut[c].pc = "inspect"
     /\ \/ Compatible(d, id) /\ ToMigrate(d) /\ Goes(c, "load") /\ draft' = d /\ NoFault
        \/ Compatible(d, id) /\ ~ToMigrate(d) /\ Goes(c, "authenticate") /\ draft' = d /\ NoFault
        \/ ~Compatible(d, id) /\ Goes(c, "rollback") /\ UNCHANGED draft /\ NoFault
        \/ Goes(c, "rollback") /\ UNCHANGED draft /\ Fault
     /\ UNCHANGED <<db, writer, keyring, edit, service, touched, edits>>

\* The two preflights, the load of the rows, then the marker and the control row.
RowsBounded(d) == "huge row" \notin d.flaws
LegacyRowsLoaded(d) == RowsBounded(d) /\ \A r \in Present(d) : RuntimeFieldsValid(d.rows[r])
MarkPending(c) ==
  /\ cut[c].pc = "load"
  /\ \/ /\ LegacyRowsLoaded(draft)
        /\ draft' = [draft EXCEPT !.marker = "pending", !.control = cut[c].id]
        /\ cut' = [cut EXCEPT ![c].pc = "seal", ![c].todo = Present(draft)]
        /\ NoFault
     \/ ~LegacyRowsLoaded(draft) /\ Goes(c, "rollback") /\ UNCHANGED draft /\ NoFault
     \/ Goes(c, "rollback") /\ UNCHANGED draft /\ Fault
  /\ UNCHANGED <<db, writer, keyring, edit, service, touched, edits>>

SealedRow(row, key) ==
  [row EXCEPT !.kind = "sealed", !.pw = FALSE, !.port = NormalizedPort(row), !.key = key]
\* sealLegacySMBCredentialRow: seal, open again, compare and update one row.
SealRow(c) ==
  /\ cut[c].pc = "seal" /\ cut[c].todo # {}
  /\ \/ /\ CanSeal(keyring[c])
        /\ \E r \in cut[c].todo :
             /\ draft' = [draft EXCEPT !.rows[r] = SealedRow(@, keyring[c].active)]
             /\ cut' = [cut EXCEPT ![c].todo = @ \ {r}]
        /\ NoFault
     \/ ~CanSeal(keyring[c]) /\ Goes(c, "rollback") /\ UNCHANGED draft /\ NoFault
     \/ Goes(c, "rollback") /\ UNCHANGED draft /\ Fault
  /\ UNCHANGED <<db, writer, keyring, edit, service, touched, edits>>

SealedAll(c) ==
  /\ cut[c].pc = "seal" /\ cut[c].todo = {}
  /\ Goes(c, "authenticate")
  /\ UNCHANGED <<db, draft, writer, keyring, edit, service, touched, failures, edits>>

\* authenticateSealedSMBCredentialRows and the keyring that must still be the one.
Authentic(d, ring, id) ==
  /\ Sealed(d) = Present(d) /\ Classified(d) /\ RowsBounded(d)
  /\ \A r \in Sealed(d) : CanOpen(ring, d.rows[r]) /\ d.rows[r].key = id
  /\ ActiveID(ring) = id

Authenticate(c) ==
  LET valid == Authentic(draft, keyring[c], cut[c].id)
  IN /\ cut[c].pc = "authenticate"
     /\ \/ valid /\ Goes(c, "commit") /\ NoFault
        \/ ~valid /\ Goes(c, "rollback") /\ NoFault
        \/ Goes(c, "rollback") /\ Fault
     /\ UNCHANGED <<db, draft, writer, keyring, edit, service, touched, edits>>

Touches(c) == touched' = IF draft # db THEN touched \cup {c} ELSE touched

CommitSucceeds(c) ==
  /\ cut[c].pc = "commit"
  /\ db' = draft /\ Touches(c)
  /\ EndsTransaction /\ Returns(c, "done")
  /\ UNCHANGED <<keyring, edit, service, failures, edits>>

\* An error of COMMIT: committed or not, or still open.  The connection is
\* discarded after the deferred ROLLBACK.
CommitFails(c) ==
  /\ cut[c].pc = "commit" /\ Fault
  /\ \/ db' = draft /\ Touches(c)
     \/ UNCHANGED <<db, touched>>
  /\ EndsTransaction /\ Returns(c, "unknown")
  /\ UNCHANGED <<keyring, edit, service, edits>>

RollbackSucceeds(c) ==
  /\ cut[c].pc = "rollback"
  /\ EndsTransaction /\ Returns(c, "error")
  /\ UNCHANGED <<db, keyring, edit, service, touched, failures, edits>>

\* The error is replaced by the unknown outcome and the connection discarded,
\* which ends its transaction.
RollbackFails(c) ==
  /\ cut[c].pc = "rollback" /\ Fault
  /\ EndsTransaction /\ Returns(c, "unknown")
  /\ UNCHANGED <<db, keyring, edit, service, touched, edits>>

\* The process dies: SQLite rolls back, memory is gone, keyrings are loaded anew.
CutoverCrash ==
  /\ EndsTransaction
  /\ cut' = [c \in Callers |-> NoCut] /\ touched' = {}
  /\ \E k \in Keys : keyring' = [c \in Callers |-> NewKeyring(k)]
  /\ edit' = NoEdit /\ service' = "down"
  /\ Fault /\ UNCHANGED <<db, edits>>

Cutover(c) ==
  \/ CutoverBegins(c) \/ CutoverInspects(c) \/ MarkPending(c) \/ SealRow(c) \/ SealedAll(c)
  \/ Authenticate(c) \/ CommitSucceeds(c) \/ CommitFails(c)
  \/ RollbackSucceeds(c) \/ RollbackFails(c)

CutoverNext ==
  \/ ServiceStarts \/ EditWrites \/ CutoverCrash
  \/ \E op \in {"create", "mounted", "delete"}, r \in Rows : EditBegins(op, r)
  \/ \E c \in Callers : Cutover(c) \/ Rotate(c) \/ Destroy(c)

CutoverSpec == CutoverInit /\ [][CutoverNext]_cutoverVars

(***************************************************************************)
(* Properties.                                                             *)
(***************************************************************************)
AllLegacy(d) == /\ d.marker = "none" /\ d.control = NoKey
                /\ \A r \in Present(d) : d.rows[r].kind = "legacy" /\ d.rows[r].pw
AllSealed(d, k) == /\ d.marker = "pending" /\ d.control = k /\ k \in Keys
                   /\ \A r \in Present(d) :
                        /\ d.rows[r].kind = "sealed" /\ ~d.rows[r].pw
                        /\ d.rows[r].key = k /\ d.rows[r].port = "445"

\* Whatever fails or dies, the durable database is either wholly legacy, every
\* password in plaintext and no trace of a migration, or wholly sealed: marker
\* pending, and every row without plaintext under the one key the control row
\* names.  The contained writes of the legacy service keep it so.
AllOrNothing == AllLegacy(db) \/ AllSealed(db, db.control)

\* A cutover that reports success finds the database sealed under the key its
\* keyring had active, and it stays so; one that reports a plain error has
\* changed nothing.  Only the "unknown outcome" leaves it open.
OutcomeTold ==
  \A c \in Callers :
     /\ cut[c].told = "done" => \E k \in Keys : AllSealed(db, k) /\ k \in keyring[c].keys
     /\ cut[c].told = "error" => c \notin touched

\* No write transaction outlives its call, whatever BEGIN, COMMIT or ROLLBACK
\* reported.
NoOrphanTransaction ==
  writer # Nobody => writer \in Callers /\ cut[writer].pc # "idle"

\* The cutover is one step of the database or none, its caller learns which, and
\* nothing of it stays open.
CutoverAtomic == AllOrNothing /\ OutcomeTold /\ NoOrphanTransaction

=============================================================================

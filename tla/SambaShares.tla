---------------------------- MODULE SambaShares -----------------------------
(***************************************************************************)
(* The Samba share service (service/shares.go, samba_legacy_config.go,     *)
(* samba_user.go): every operation changes database rows, the owner of the *)
(* share directory, the generated fragment and sometimes the main config,  *)
(* and tries to undo all of it when a later part fails.  The operations    *)
(* run one at a time (s.mu and the process lock).  Share accounts are      *)
(* managed by handlers that take neither lock, an editor may rewrite the   *)
(* fragment, and the process may die between any two steps.                *)
(*                                                                         *)
(* A share is its id; its path and name are functions of it.  The fragment *)
(* is the row set it renders.  Publishing a file is one step here, with    *)
(* the outcomes that SambaConfigPublish allows.                            *)
(***************************************************************************)
EXTENDS Naturals, FiniteSets

CONSTANTS Ids,         \* share directories
          Unsafe,      \* legacy directories that may not be rendered
          Accounts,    \* share accounts
          MaxShares,   \* maxManagedSambaShares
          InitMains,   \* states of smb.conf at installation
          MaxOps, MaxFaults, MaxEdits, MaxCrashes, MaxAccountOps

ASSUME SharesAssumption ==
  /\ Unsafe \subseteq Ids
  /\ InitMains \subseteq {"managed", "legacy", "external"}
  /\ {MaxShares, MaxOps, MaxFaults, MaxEdits, MaxCrashes, MaxAccountOps} \subseteq Nat

NoRow == "no row"
Open == "open"          \* a row without an account
Root == "root"
RowSets == [Ids -> Accounts \cup {Open, NoRow}]
NoRows == [i \in Ids |-> NoRow]
Present(r) == {i \in Ids : r[i] # NoRow}

FileKinds == {"missing", "managed", "legacy", "edited"}
Fragments == [kind : FileKinds, rows : RowSets]
Missing == [kind |-> "missing", rows |-> NoRows]
Managed(r) == [kind |-> "managed", rows |-> r]
Legacy(r) == [kind |-> "legacy", rows |-> r]
EditedFile == [kind |-> "edited", rows |-> NoRows]

Kinds == {"create", "user", "delete", "update", "init", "reconcile", "migrate"}
NoCapture == [main |-> "managed", frag |-> Missing]
NoOp == [kind |-> "update", id |-> "", account |-> Open]

VARIABLES
  rows, norm,       \* committed rows; whether legacy rows are normalised
  owner,            \* owner of each share directory
  main, mainBak,    \* smb.conf and whether its legacy backup exists
  frag, fragBak,    \* the shares fragment and its legacy backup
  residue,          \* a staging or quarantine entry awaits the administrator
  pc, op, txn, dup, \* the operation, its uncommitted rows, a duplicate path
  was,              \* owner of op.id before the operation
  cap, stale,       \* captured main and fragment; changed since by the editor
  mainW, fragW, bakC, \* mutation: main written, fragment written, backup created
  result,
  hits,             \* file-system failures met by this operation
  drift, adrift,    \* the fragment, and the owners, that a failure or crash may have left off
  accounts, apc,    \* existing share accounts; account deletion past its check
  ops, faults, edits, crashes, aops,
  origin            \* smb.conf at installation

fileVars == <<main, mainBak, frag, fragBak, residue>>
dbVars == <<rows, norm, owner>>
opVars == <<pc, op, txn, dup, was, cap, stale, mainW, fragW, bakC, result, hits, drift, adrift>>
accVars == <<accounts, apc, aops>>
vars == <<dbVars, fileVars, opVars, accVars, ops, faults, edits, crashes, origin>>

TypeOK ==
  /\ rows \in RowSets /\ norm \in BOOLEAN
  /\ owner \in [Ids -> Accounts \cup {Root}]
  /\ main \in {"managed", "legacy", "external"} /\ mainBak \in BOOLEAN
  /\ frag \in Fragments /\ fragBak \in Fragments
  /\ residue \in BOOLEAN
  /\ pc \in {"idle", "render", "main", "fragBackup", "mainPublish", "mainCheck", "mainCheckErr",
             "frag", "check", "checkErr", "restart", "commit", "undo", "undoFrag", "undoOwner"}
  /\ op \in [kind : Kinds, id : Ids \cup {""}, account : Accounts \cup {Open}]
  /\ txn \in RowSets /\ dup \in BOOLEAN
  /\ was \in Accounts \cup {Root}
  /\ cap \in [main : {"managed", "legacy", "external"}, frag : Fragments]
  /\ {stale, mainW, fragW, bakC, drift} \subseteq BOOLEAN
  /\ result \in {"none", "ok", "failed", "crashed", "reconciled", "refused"}
  /\ adrift \subseteq Ids
  /\ hits \in 0 .. MaxFaults
  /\ accounts \subseteq Accounts /\ apc \in Accounts \cup {"idle"}
  /\ ops \in 0 .. MaxOps /\ faults \in 0 .. MaxFaults /\ edits \in 0 .. MaxEdits
  /\ crashes \in 0 .. MaxCrashes /\ aops \in 0 .. MaxAccountOps
  /\ Cardinality(Present(rows)) <= MaxShares

(* A fresh managed installation, or a host migrating from CasaOS. *)
Init ==
  /\ main \in InitMains /\ origin = main
  /\ IF main = "legacy"
     THEN /\ rows \in [Ids -> {Open, NoRow}]
          /\ Cardinality(Present(rows)) <= MaxShares
          /\ norm = (rows = NoRows)
          /\ frag = IF rows = NoRows THEN Missing ELSE Legacy(rows)
     ELSE rows = NoRows /\ norm = TRUE /\ frag = Missing
  /\ owner = [i \in Ids |-> Root]
  /\ mainBak = FALSE /\ fragBak = Missing /\ residue = FALSE
  /\ pc = "idle" /\ op = NoOp /\ txn = NoRows /\ dup = FALSE /\ was = Root
  /\ cap = NoCapture /\ stale = FALSE
  /\ mainW = FALSE /\ fragW = FALSE /\ bakC = FALSE
  /\ result = "none" /\ hits = 0 /\ drift = FALSE /\ adrift = {}
  /\ accounts \in {{}, Accounts} /\ apc = "idle"
  /\ ops = 0 /\ faults = 0 /\ edits = 0 /\ crashes = 0 /\ aops = 0

----------------------------------------------------------------------------
(* File-system calls that fail, and other failures: testparm, smbd, SQLite. *)
Fault(k) == faults + k <= MaxFaults /\ faults' = faults + k /\ hits' = hits + k
Fails == faults < MaxFaults /\ faults' = faults + 1 /\ hits' = hits

(* Rows that may appear in the fragment, and whether rows can be rendered. *)
SafeRows(r) == [i \in Ids |-> IF i \in Unsafe THEN NoRow ELSE r[i]]
Renders(r) == ~dup /\ SafeRows(r) = r /\ (norm \/ r = NoRows)

(* The operation ends: nothing of it remains but what it changed. *)
End(r) ==
  /\ pc' = "idle" /\ result' = r
  /\ op' = NoOp /\ txn' = NoRows /\ dup' = FALSE /\ was' = Root
  /\ cap' = NoCapture /\ stale' = FALSE
  /\ mainW' = FALSE /\ fragW' = FALSE /\ bakC' = FALSE

GoTo(step) ==
  pc' = step /\ UNCHANGED <<op, txn, dup, was, cap, stale, bakC, result, drift, adrift>>

Begin(o, new, double, prev) ==
  /\ pc = "idle" /\ ops < MaxOps /\ ops' = ops + 1
  /\ op' = o /\ txn' = new /\ dup' = double /\ was' = prev
  /\ cap' = [main |-> main, frag |-> frag] /\ stale' = FALSE
  /\ mainW' = FALSE /\ fragW' = FALSE /\ bakC' = FALSE
  /\ result' = "none" /\ hits' = 0
  /\ UNCHANGED <<rows, norm, drift, adrift, fileVars, accVars, faults, edits, crashes>>

(* captureConfigStateLocked refuses a fragment without the marker. *)
Capturable == frag.kind # "legacy"

(* setShareDirectoryOwner: only an existing share account is handed a folder. *)
Handed(id, account) ==
  /\ account = Open \/ account \in accounts
  /\ owner' = [owner EXCEPT ![id] = IF account = Open THEN Root ELSE account]

(* CreateShares.  The handler looked for the path before the lock, so the   *)
(* row may exist by now; the renderer finds the duplicate.                  *)
CreateShares(id, account) ==
  /\ Capturable /\ id \notin Unsafe
  /\ Cardinality(Present(rows)) + 1 <= MaxShares
  /\ Begin([kind |-> "create", id |-> id, account |-> account],
           [rows EXCEPT ![id] = account], rows[id] # NoRow, owner[id])
  /\ IF account = Open THEN UNCHANGED owner ELSE Handed(id, account)
  /\ pc' = "render"

SetShareUsername(id, account) ==
  /\ Capturable /\ rows[id] # NoRow
  /\ Begin([kind |-> "user", id |-> id, account |-> account],
           [rows EXCEPT ![id] = account], FALSE, owner[id])
  /\ Handed(id, account)
  /\ pc' = "render"

DeleteShare(id) ==
  /\ Capturable /\ rows[id] # NoRow
  /\ Begin([kind |-> "delete", id |-> id, account |-> Open],
           [rows EXCEPT ![id] = NoRow], FALSE, owner[id])
  /\ IF rows[id] = Open THEN UNCHANGED owner ELSE Handed(id, Open)
  /\ pc' = "render"

UpdateConfigFile ==
  /\ Capturable
  /\ Begin([NoOp EXCEPT !.kind = "update"], rows, FALSE, Root)
  /\ pc' = "render" /\ UNCHANGED owner

(* InitSambaConfig touches the main config only. *)
InitSambaConfig ==
  /\ Capturable /\ frag.kind # "missing" /\ main # "external"
  /\ Begin([NoOp EXCEPT !.kind = "init"], rows, FALSE, Root)
  /\ pc' = "main" /\ UNCHANGED owner

RenderOk ==
  /\ pc = "render" /\ Renders(txn)
  /\ GoTo("main")
  /\ UNCHANGED <<dbVars, fileVars, mainW, fragW, hits, accVars, ops, faults, edits, crashes>>

(* Rendering, testparm or the size check fails: nothing was published. *)
RenderFails ==
  /\ pc = "render"
  /\ (~Renders(txn) /\ UNCHANGED <<faults, hits>>) \/ Fails
  /\ GoTo("undo")
  /\ UNCHANGED <<dbVars, fileVars, mainW, fragW, accVars, ops, edits, crashes>>

----------------------------------------------------------------------------
(* Reconcile.  A legacy pair is migrated; a pair that still matches the     *)
(* migration's backups is resumed or found complete; anything else managed  *)
(* is rewritten from the committed rows.                                    *)
LegacyMatches(f) ==
  \/ f.kind = "legacy" /\ Present(f.rows) = Present(rows)
  \/ f.kind = "missing" /\ rows = NoRows

NeedsMigration == main # "external" /\ (main = "legacy" \/ frag.kind = "legacy")
Inspected == main = "managed" /\ frag.kind # "legacy" /\ mainBak /\ LegacyMatches(fragBak)
Resumable == frag = Missing \/ (frag = Managed(SafeRows(rows)) /\ ~norm)

(* Once the fragment is managed its backup is what must match the rows; a   *)
(* managed main config must come with the backups of a migration.           *)
MigrationValid ==
  LET source == IF frag.kind \in {"managed", "edited"} THEN fragBak ELSE frag
  IN  /\ LegacyMatches(source)
      /\ main = "managed" => mainBak /\ fragBak.kind = source.kind

ReconcilePlan ==
  CASE main = "external" /\ frag.kind = "legacy" -> "refuse"
    [] NeedsMigration \/ (Inspected /\ Resumable) ->
         IF MigrationValid THEN "migrate" ELSE "refuse"
    [] Inspected /\ ~Resumable ->
         IF frag = Managed(SafeRows(rows)) THEN "completed" ELSE "refuse"
    [] OTHER -> IF Renders(rows) THEN "rewrite" ELSE "refuse"

ReconcileMigrates ==
  /\ ReconcilePlan = "migrate"
  /\ Begin([NoOp EXCEPT !.kind = "migrate"], rows, FALSE, Root)
  /\ pc' = "main" /\ UNCHANGED owner

ReconcileRewrites ==
  /\ ReconcilePlan = "rewrite"
  /\ Begin([NoOp EXCEPT !.kind = "reconcile"], rows, FALSE, Root)
  /\ pc' = "frag" /\ UNCHANGED owner

(* The migration was completed earlier, or the pair is not understood. *)
ReconcileReturns ==
  /\ pc = "idle" /\ ops < MaxOps /\ ops' = ops + 1
  /\ \/ ReconcilePlan = "completed" /\ result' = "reconciled" /\ drift' = FALSE
     \/ ReconcilePlan = "refuse" /\ result' = "refused" /\ UNCHANGED drift
  /\ hits' = 0
  /\ UNCHANGED <<dbVars, fileVars, pc, op, txn, dup, was, cap, stale, mainW, fragW, bakC,
                 adrift, accVars, faults, edits, crashes>>

----------------------------------------------------------------------------
(* One conditional publication: what happened to the file, whether the      *)
(* caller owns what is there now, and what the directory keeps.             *)
Outcomes ==
  [live : BOOLEAN, owned : BOOLEAN, err : BOOLEAN, left : BOOLEAN, cost : 0 .. 2]

Published == [live |-> TRUE, owned |-> TRUE, err |-> FALSE, left |-> FALSE, cost |-> 0]
PublishOutcomes(blocked, changed) ==
  {o \in Outcomes :
     CASE blocked -> ~o.live /\ ~o.owned /\ o.err /\ ~o.left /\ o.cost = 0
       [] ~blocked /\ changed ->
            \/ ~o.live /\ ~o.owned /\ o.err /\ o.cost < 2
            \/ o.live /\ ~o.owned /\ o.err /\ o.left /\ o.cost = 1
       [] OTHER ->
            \/ o = Published
            \/ o.live /\ o.owned /\ o.err /\ o.cost = 1
            \/ ~o.live /\ ~o.owned /\ o.err /\ o.cost = 1
            \/ o.live /\ ~o.owned /\ o.err /\ o.left /\ o.cost = 2}

(* publishCandidateLocked first verifies both snapshots, then turns a       *)
(* legacy main config into the managed one, after saving a backup of it.    *)
MainUnchanged ==
  /\ pc = "main" /\ main # "legacy" /\ ~stale
  /\ IF op.kind = "init" THEN End("ok") /\ UNCHANGED <<drift, adrift>>
     ELSE GoTo("frag") /\ UNCHANGED <<mainW, fragW>>
  /\ UNCHANGED <<dbVars, fileVars, hits, accVars, ops, faults, edits, crashes>>

MainStale ==
  /\ pc = "main" /\ stale
  /\ GoTo("undo")
  /\ UNCHANGED <<dbVars, fileVars, mainW, fragW, hits, accVars, ops, faults, edits, crashes>>

(* ensureSambaConfigBackup: the backup is a publication of its own, unless  *)
(* it exists already.  A migration keeps the backups for good and also      *)
(* saves the fragment; the other operations remember whether they made one. *)
SavesOnlyMain == FALSE

SavesFragment == op.kind = "migrate" /\ cap.frag # Missing

MainBackedUp ==
  /\ pc = "main" /\ main = "legacy" /\ ~stale /\ (residue => mainBak)
  /\ mainBak' = TRUE /\ bakC' = (op.kind # "migrate" /\ ~mainBak)
  /\ pc' = IF SavesFragment THEN "fragBackup" ELSE "mainPublish"
  /\ UNCHANGED <<dbVars, main, frag, fragBak, residue, op, txn, dup, was, cap, stale, mainW, fragW,
                 result, hits, drift, adrift, accVars, ops, faults, edits, crashes>>

FragmentBackedUp ==
  /\ pc = "fragBackup" /\ ~stale
  /\ fragBak = cap.frag \/ (fragBak = Missing /\ ~residue)
  /\ fragBak' = cap.frag
  /\ GoTo("mainPublish")
  /\ UNCHANGED <<dbVars, main, mainBak, frag, residue, mainW, fragW, hits, accVars, ops, faults,
                 edits, crashes>>

(* A failure may leave the new backup or its staging file behind. *)
BackupFails ==
  /\ \/ /\ pc = "main" /\ main = "legacy" /\ ~stale /\ UNCHANGED fragBak
        /\ \/ residue /\ ~mainBak /\ Fault(0) /\ UNCHANGED <<mainBak, residue>>
           \/ Fault(1) /\ mainBak' \in {mainBak, TRUE} /\ residue' \in {residue, TRUE}
     \/ /\ pc = "fragBackup" /\ UNCHANGED mainBak
        /\ \/ (stale \/ fragBak \notin {Missing, cap.frag} \/ (residue /\ fragBak = Missing))
              /\ Fault(0) /\ UNCHANGED <<fragBak, residue>>
           \/ /\ Fault(1) /\ residue' \in {residue, TRUE}
              /\ fragBak' \in {fragBak} \cup (IF fragBak = Missing THEN {cap.frag} ELSE {})
  /\ GoTo("undo")
  /\ UNCHANGED <<dbVars, main, frag, mainW, fragW, accVars, ops, edits, crashes>>

MainPublished ==
  /\ pc = "mainPublish"
  /\ \E o \in PublishOutcomes(residue, FALSE) :
       /\ Fault(o.cost)
       /\ main' = IF o.live THEN "managed" ELSE main
       /\ residue' = (residue \/ o.left)
       /\ GoTo(IF ~o.owned THEN "undo" ELSE IF o.err THEN "mainCheckErr" ELSE "mainCheck")
  /\ UNCHANGED <<dbVars, mainBak, frag, fragBak, mainW, fragW, accVars, ops, edits, crashes>>

(* writeTrackedSambaConfig reads the main config back; one that cannot be   *)
(* read is not counted as written and so stays.                             *)
MainChecked ==
  /\ pc \in {"mainCheck", "mainCheckErr"}
  /\ \/ /\ mainW' = TRUE /\ Fault(0)
        /\ GoTo(CASE pc = "mainCheckErr" -> "undo" [] op.kind = "init" -> "restart" [] OTHER -> "frag")
     \/ mainW' = FALSE /\ Fault(1) /\ GoTo("undo")
  /\ UNCHANGED <<dbVars, fileVars, fragW, accVars, ops, edits, crashes>>

(* The fragment.  A resumed migration finds its candidate already there,    *)
(* and a reconciliation rewrites only a fragment that differs.              *)
Candidate == IF op.kind = "migrate" THEN Managed(SafeRows(txn)) ELSE Managed(txn)
FragmentInPlace ==
  \/ op.kind = "migrate" /\ cap.frag.kind \in {"managed", "edited"}
  \/ op.kind = "reconcile" /\ cap.frag = Candidate

FragmentKept ==
  /\ pc = "frag" /\ FragmentInPlace
  /\ \/ cap.frag = Candidate /\ GoTo("restart")
     \/ (cap.frag # Candidate \/ (op.kind = "reconcile" /\ stale)) /\ GoTo("undo")
  /\ UNCHANGED <<dbVars, fileVars, mainW, fragW, hits, accVars, ops, faults, edits, crashes>>

FragmentPublished ==
  /\ pc = "frag" /\ ~FragmentInPlace
  /\ \E o \in PublishOutcomes(residue, stale) :
       /\ Fault(o.cost)
       /\ frag' = IF o.live THEN Candidate ELSE frag
       /\ residue' = (residue \/ o.left)
       /\ stale' = (stale /\ ~o.live)
       /\ pc' = IF ~o.owned THEN "undo" ELSE IF o.err THEN "checkErr" ELSE "check"
  /\ UNCHANGED <<dbVars, main, mainBak, fragBak, op, txn, dup, was, cap, mainW, fragW, bakC,
                 result, drift, adrift, accVars, ops, edits, crashes>>

FragmentCheckedForgets ==
  /\ pc \in {"check", "checkErr"}
  /\ fragW' = FALSE
  /\ GoTo(IF pc = "check" THEN "restart" ELSE "undo") /\ Fault(0)
  /\ UNCHANGED <<dbVars, fileVars, mainW, accVars, ops, edits, crashes>>

(* writeTrackedSambaConfig reads the file back: only what is still there    *)
(* and readable counts as written by this operation.                        *)
FragmentChecked ==
  /\ pc \in {"check", "checkErr"}
  /\ \/ /\ ~stale /\ fragW' = TRUE
        /\ GoTo(IF pc = "check" THEN "restart" ELSE "undo") /\ Fault(0)
     \/ stale /\ fragW' = FALSE /\ GoTo("undo") /\ Fault(0)
     \/ fragW' = FALSE /\ GoTo("undo") /\ Fault(1)
  /\ UNCHANGED <<dbVars, fileVars, mainW, accVars, ops, edits, crashes>>

RestartOk ==
  /\ pc = "restart"
  /\ IF op.kind = "init" THEN End("ok") /\ UNCHANGED <<drift, adrift>>
     ELSE GoTo("commit") /\ UNCHANGED <<mainW, fragW>>
  /\ UNCHANGED <<dbVars, fileVars, hits, accVars, ops, faults, edits, crashes>>

RestartFails ==
  /\ pc = "restart" /\ Fails
  /\ GoTo("undo")
  /\ UNCHANGED <<dbVars, fileVars, mainW, fragW, accVars, ops, edits, crashes>>

Commit ==
  /\ pc = "commit"
  /\ rows' = txn
  /\ norm' = (norm \/ op.kind = "migrate")
  /\ drift' = (drift /\ stale)
  /\ adrift' = IF op.account # Open \/ op.kind = "user" THEN adrift \ {op.id} ELSE adrift
  /\ End(IF op.kind \in {"reconcile", "migrate"} THEN "reconciled" ELSE "ok")
  /\ UNCHANGED <<owner, fileVars, hits, accVars, ops, faults, edits, crashes>>

CommitFails ==
  /\ pc = "commit" /\ op.kind # "update" /\ Fails
  /\ GoTo("undo")
  /\ UNCHANGED <<dbVars, fileVars, mainW, fragW, accVars, ops, edits, crashes>>

----------------------------------------------------------------------------
(* Undo.  The transaction is rolled back, then each file that was written   *)
(* is published back, a backup made by this operation is removed once the   *)
(* main config is safe, smbd is restarted, and the owner is restored.       *)
Untouched == [Published EXCEPT !.live = FALSE]
RestoreOutcomes(written, changed) ==
  IF written THEN PublishOutcomes(residue, changed) ELSE {Untouched}

UndoMain ==
  /\ pc = "undo"
  /\ \E o \in RestoreOutcomes(mainW, FALSE) :
       /\ Fault(o.cost)
       /\ main' = IF o.live THEN cap.main ELSE main
       /\ residue' = (residue \/ o.left)
       /\ mainW' = (mainW /\ o.err)
  /\ GoTo("undoFrag")
  /\ UNCHANGED <<dbVars, mainBak, frag, fragBak, fragW, accVars, ops, edits, crashes>>

(* The backup goes only when the main config it saved is in place again. *)
MainSafe == ~mainW /\ main = cap.main

UndoFragment ==
  /\ pc = "undoFrag"
  /\ \E o \in RestoreOutcomes(fragW, stale), failed \in 0 .. 1 :
       /\ Fault(o.cost + failed)
       /\ frag' = IF o.live THEN cap.frag ELSE frag
       /\ residue' = (residue \/ o.left)
       /\ mainBak' = IF bakC /\ MainSafe /\ ~residue' THEN failed = 1 ELSE mainBak
  /\ GoTo("undoOwner")
  /\ UNCHANGED <<dbVars, main, fragBak, mainW, fragW, accVars, ops, edits, crashes>>

UndoOwner ==
  /\ pc = "undoOwner"
  /\ \/ /\ owner' = IF op.id \in Ids THEN [owner EXCEPT ![op.id] = was] ELSE owner
        /\ Fault(0) /\ UNCHANGED adrift
     \/ op.id \in Ids /\ UNCHANGED owner /\ Fault(1) /\ adrift' = adrift \cup {op.id}
  /\ drift' = (drift \/ hits' > 0)
  /\ End("failed")
  /\ UNCHANGED <<rows, norm, fileVars, accVars, ops, edits, crashes>>

----------------------------------------------------------------------------
(* Account handlers: no lock, and the check and the removal are two steps. *)
CreateSambaUser(a) ==
  /\ a \notin accounts /\ aops < MaxAccountOps
  /\ aops' = aops + 1 /\ accounts' = accounts \cup {a}
  /\ UNCHANGED <<dbVars, fileVars, opVars, apc, ops, faults, edits, crashes>>

(* The pool has one connection: a query waits while a transaction is open.  *)
InTransaction ==
  /\ op.kind \notin {"update", "init"}
  /\ pc \notin {"idle", "undo", "undoFrag", "undoOwner"}

DeleteUserChecks(a) ==
  /\ ~InTransaction
  /\ apc = "idle" /\ a \in accounts /\ aops < MaxAccountOps
  /\ \A i \in Ids : rows[i] # a
  /\ aops' = aops + 1 /\ apc' = a
  /\ UNCHANGED <<dbVars, fileVars, opVars, accounts, ops, faults, edits, crashes>>

DeleteSambaUser ==
  /\ apc # "idle"
  /\ accounts' = accounts \ {apc} /\ apc' = "idle"
  /\ UNCHANGED <<dbVars, fileVars, opVars, aops, ops, faults, edits, crashes>>

(* An editor rewrites the fragment, keeping the marker. *)
EditFragment ==
  /\ edits < MaxEdits /\ edits' = edits + 1
  /\ frag' = EditedFile /\ stale' = (pc # "idle") /\ drift' = TRUE
  /\ UNCHANGED <<dbVars, main, mainBak, fragBak, residue, pc, op, txn, dup, was, cap,
                 mainW, fragW, bakC, result, hits, adrift, accVars, ops, faults, crashes>>

AdministratorReviews ==
  /\ pc = "idle" /\ residue
  /\ residue' = FALSE /\ drift' = TRUE
  /\ UNCHANGED <<dbVars, main, mainBak, frag, fragBak, pc, op, txn, dup, was, cap, stale,
                 mainW, fragW, bakC, result, hits, adrift, accVars, ops, faults, edits, crashes>>

(* The process dies: the transaction vanishes, files and owners stay. *)
Crash ==
  /\ pc # "idle" /\ crashes < MaxCrashes
  /\ crashes' = crashes + 1
  /\ drift' = TRUE /\ hits' = 0 /\ apc' = "idle"
  /\ adrift' = adrift \cup ({op.id} \cap Ids)
  /\ residue' \in IF pc \in {"main", "fragBackup", "mainPublish", "mainCheck", "mainCheckErr", "frag",
                               "check", "checkErr", "undo", "undoFrag", "undoOwner"}
                   THEN {residue, TRUE} ELSE {residue}
  /\ End("crashed")
  /\ UNCHANGED <<dbVars, main, frag, mainBak, fragBak, accounts, aops, ops, faults, edits>>

Step ==
  \/ \E id \in Ids, account \in Accounts \cup {Open} : CreateShares(id, account)
  \/ \E id \in Ids, account \in Accounts \cup {Open} : SetShareUsername(id, account)
  \/ \E id \in Ids : DeleteShare(id)
  \/ UpdateConfigFile
  \/ InitSambaConfig
  \/ RenderOk
  \/ RenderFails
  \/ ReconcileMigrates
  \/ ReconcileRewrites
  \/ ReconcileReturns
  \/ MainUnchanged
  \/ MainStale
  \/ MainBackedUp
  \/ FragmentBackedUp
  \/ BackupFails
  \/ MainPublished
  \/ MainChecked
  \/ FragmentKept
  \/ FragmentPublished
  \/ FragmentChecked
  \/ RestartOk
  \/ RestartFails
  \/ Commit
  \/ CommitFails
  \/ UndoMain
  \/ UndoFragment
  \/ UndoOwner
  \/ \E a \in Accounts : CreateSambaUser(a)
  \/ \E a \in Accounts : DeleteUserChecks(a)
  \/ DeleteSambaUser
  \/ EditFragment
  \/ AdministratorReviews
  \/ Crash

Next == Step /\ UNCHANGED origin

Spec == Init /\ [][Next]_vars
----------------------------------------------------------------------------
Agrees ==
  \/ frag = Missing /\ rows = NoRows
  \/ frag.kind = "legacy" /\ Present(frag.rows) = Present(rows)
  \/ frag = Managed(SafeRows(rows))

(* Rows and fragment move together: as long as no file-system call failed,  *)
(* nothing crashed and nobody edited the file since the last success, the   *)
(* fragment renders the committed rows whenever no operation runs, however  *)
(* many candidates testparm, smbd or SQLite refused on the way.             *)
RowsAndFragmentAgree == (pc = "idle" /\ ~drift) => Agrees

(* A folder belongs to the account its committed row names, and to root     *)
(* otherwise, unless a chown failed or the process died after handing it    *)
(* over: applyShareOwners is undone with the row.                           *)
OwnersFollowRows ==
  pc = "idle" => \A i \in Ids \ adrift :
    owner[i] = IF rows[i] \in Accounts THEN rows[i] ELSE Root

(* Migration never drops the only copy: a legacy main config is replaced    *)
(* only while its backup exists, also after any number of failed attempts.  *)
LegacyMainSaved == (origin = "legacy" /\ main = "managed") => mainBak

(* A legacy fragment leaves only with its backup in place. *)
LegacyFragmentSaved ==
  (frag.kind = "legacy" /\ frag' # frag /\ edits' = edits) => fragBak' = frag

(* Reconciliation restores a managed pair after a crash between publication *)
(* and commit: on an installation that never had a legacy config it refuses *)
(* nothing but an edited fragment.                                          *)
CrashReconciled ==
  result = "refused" => (edits > 0 \/ origin = "legacy")

(* "ReconcileSambaConfig treats committed database rows as the source of    *)
(* truth after a crash between config publication and database commit"      *)
(* (shares.go:415): it refuses only an edited fragment or rows it cannot    *)
(* render, wherever the installation came from.                             *)
RowsAreTruth ==
  result = "refused" => (edits > 0 \/ Present(rows) \cap Unsafe # {})

(* "DeleteSambaUser removes a share account, refusing while a share still   *)
(* names it" (route/v1/samba_user.go:61-63): the account of a committed     *)
(* share exists.                                                            *)
SharesNameAccounts == \A i \in Ids : rows[i] \in Accounts => rows[i] \in accounts

(* A share operation that returns leaves rows, fragment and folder owners in *)
(* agreement, and a crash in the middle of one is reconciled.               *)
SharesAgree == RowsAndFragmentAgree /\ OwnersFollowRows /\ CrashReconciled

(* The migration of a CasaOS host keeps both legacy files.                   *)
LegacySaved == [][LegacyMainSaved' /\ LegacyFragmentSaved]_vars

=============================================================================

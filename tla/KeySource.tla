------------------------------ MODULE KeySource ------------------------------
(***************************************************************************)
(* The key file that seals the Samba credentials: its one-time provision,  *)
(* backup, removal of the backup, and the structural audit                 *)
(* (pkg/smbcredentials/provision_linux.go, backup_linux.go,                *)
(* audit_linux.go).                                                        *)
(*                                                                         *)
(* Several operators run commands against one root-owned directory.  A     *)
(* directory entry reaches the disk when the directory is synced, or       *)
(* earlier; a power loss leaves what reached the disk.  Any call may fail, *)
(* a link or rename also after it took effect ("vague").  Checks that the  *)
(* code makes between two changing calls form one step with the first.     *)
(***************************************************************************)
EXTENDS Integers, FiniteSets

CONSTANTS Operators,    \* processes that run commands
          MaxCommands,  \* bound: commands, each with its own inode and key
          MaxKeyFaults  \* bound: failing calls, deaths and power losses

ASSUME KeyBounds == MaxCommands \in Nat /\ MaxKeyFaults \in Nat

Names == {"source", "staging", "backup", "backup staging"}
Target(kind)  == IF kind = "provision" THEN "source" ELSE "backup"
Staging(kind) == IF kind = "provision" THEN "staging" ELSE "backup staging"

None == 0
Commands == 1 .. MaxCommands

VARIABLES dir,       \* name -> inode, as processes see it
          disk,      \* name -> inode, what a power loss leaves
          content,   \* inode -> "empty", "written", "synced" or "torn"
          command,   \* operator -> its running command
          issued,    \* commands issued so far
          told,      \* command -> what it reported
          retired,   \* history: the backups that a removal took, or tried to
          keyFaults

keyVars == <<dir, disk, content, command, issued, told, retired, keyFaults>>

NotTold == [created |-> FALSE, unknown |-> FALSE, cleanup |-> FALSE, by |-> "nobody"]
NoCommand == [n |-> None, pinned |-> None, kind |-> "none", pc |-> "idle",
              created |-> FALSE, unknown |-> FALSE, cleanup |-> FALSE]

KeyInit ==
  /\ dir = [name \in Names |-> None] /\ disk = dir
  /\ content = [n \in Commands |-> "empty"]
  /\ command = [p \in Operators |-> NoCommand]
  /\ issued = 0
  /\ told = [n \in Commands |-> NotTold] /\ retired = {}
  /\ keyFaults = 0

KeyFault == keyFaults < MaxKeyFaults /\ keyFaults' = keyFaults + 1
NoKeyFault == UNCHANGED keyFaults
\* A condition of the code that may also appear as a failing call.
Unless(cond) == IF cond THEN NoKeyFault ELSE KeyFault

Step(p, pc) == command' = [command EXCEPT ![p].pc = pc]
At(p, pc) == command[p].pc = pc
Mine(p, name) == dir[name] = command[p].n
Free(name) == dir[name] = None
Sync == disk' = dir

\* The command returns: its result is what the operator acts on.
Reports(p, created, unknown, cleanup) ==
  /\ told' = [told EXCEPT ![command[p].n] =
                [created |-> created, unknown |-> unknown, cleanup |-> cleanup,
                 by |-> command[p].kind]]
  /\ command' = [command EXCEPT ![p] = NoCommand]

\* A path that does not open or no longer validates, or a call that fails
\* before there is anything to undo.
Refuses(p) == Reports(p, FALSE, FALSE, FALSE) /\ KeyFault

Reads(p, verdict) ==
  /\ told' = [told EXCEPT ![command[p].n] = [NotTold EXCEPT !.by = verdict]]
  /\ command' = [command EXCEPT ![p] = NoCommand]

(***************************************************************************)
(* Start.  A path that is not safe, or an error before the first object,   *)
(* reports nothing created.                                                *)
(***************************************************************************)
Issue(p, kind) ==
  /\ At(p, "idle") /\ issued < MaxCommands
  /\ issued' = issued + 1
  /\ command' = [command EXCEPT ![p] =
        [NoCommand EXCEPT !.n = issued + 1, !.kind = kind,
           !.pc = IF kind = "provision" THEN "namespace" ELSE kind]]
  /\ UNCHANGED <<dir, disk, content, told, retired, keyFaults>>

\* requireEmptySourceNamespace: a leftover asks for cleanup, and so does a
\* name that cannot be inspected.
CheckNamespace(p) ==
  /\ At(p, "namespace")
  /\ \/ Free("source") /\ Free("staging") /\ Step(p, "anonymous") /\ UNCHANGED told /\ NoKeyFault
     \/ ~(Free("source") /\ Free("staging"))
        /\ Reports(p, FALSE, FALSE, ~Free("staging")) /\ NoKeyFault
     \/ \E cleanup \in BOOLEAN : Reports(p, FALSE, FALSE, cleanup) /\ KeyFault
  /\ UNCHANGED <<dir, disk, content, issued, retired>>

(***************************************************************************)
(* The anonymous candidate: O_TMPFILE, then linkat.                        *)
(***************************************************************************)
\* Written, checked and synced before any name is tried; unavailable O_TMPFILE
\* falls back to the named candidate.
PrepareAnonymous(p) ==
  LET n == command[p].n
  IN /\ At(p, "anonymous")
     /\ \/ Step(p, "named") /\ UNCHANGED <<content, told>> /\ NoKeyFault
        \/ /\ content' = [content EXCEPT ![n] = "synced"]
           /\ \/ Free("source") /\ Step(p, "link") /\ UNCHANGED told
              \/ ~Free("source") /\ Reports(p, FALSE, FALSE, FALSE)
           /\ NoKeyFault
        \/ Refuses(p) /\ UNCHANGED content
     /\ UNCHANGED <<dir, disk, issued, retired>>

Publishes(p, unknown, cleanup) ==
  command' = [command EXCEPT ![p].pc = "finalize", ![p].created = TRUE,
                             ![p].unknown = unknown, ![p].cleanup = cleanup]

\* An error that the name does not refute, or a name that cannot be read.
Believed(p) == Reports(p, FALSE, FALSE, FALSE)
Disbelieved(p) == Publishes(p, TRUE, FALSE) /\ UNCHANGED told

LinkAnonymous(p) ==
  /\ At(p, "link")
  /\ \/ /\ Free("source")
        /\ dir' = [dir EXCEPT !["source"] = command[p].n]
        /\ \/ Publishes(p, FALSE, FALSE) /\ UNCHANGED told /\ NoKeyFault
           \/ Disbelieved(p) /\ KeyFault
     \/ /\ UNCHANGED dir
        /\ \/ ~Free("source") /\ Believed(p) /\ NoKeyFault        \* EEXIST
           \/ Free("source") /\ Step(p, "named") /\ UNCHANGED told /\ NoKeyFault  \* ENOENT
           \/ Free("source") /\ Believed(p) /\ KeyFault            \* definitive
           \/ Disbelieved(p) /\ KeyFault
  /\ UNCHANGED <<disk, content, issued, retired>>

(***************************************************************************)
(* The named candidate: O_EXCL staging, then RENAME_NOREPLACE.  The        *)
(* provision checks the namespace again before it reserves the name.       *)
(***************************************************************************)
ReservesStaging(p, clear) ==
  LET s == Staging(command[p].kind)
  IN /\ \/ /\ clear /\ Free(s)
           /\ dir' = [dir EXCEPT ![s] = command[p].n]
           /\ content' = [content EXCEPT ![command[p].n] = "written"]
           /\ Step(p, "prepare") /\ UNCHANGED told /\ NoKeyFault
        \/ /\ ~(clear /\ Free(s))
           /\ Reports(p, FALSE, FALSE, ~Free(s))
           /\ UNCHANGED <<dir, content>> /\ NoKeyFault
        \/ Refuses(p) /\ UNCHANGED <<dir, content>>
     /\ UNCHANGED <<disk, issued, retired>>

ReserveSource(p) == At(p, "named") /\ ReservesStaging(p, Free("source"))
ReserveBackup(p) == At(p, "backup") /\ ReservesStaging(p, TRUE)

\* Write, sync, revalidate, both names, sync of the directory.
Prepare(p) ==
  LET k == command[p].kind
      ready == Mine(p, Staging(k)) /\ Free(Target(k))
  IN /\ At(p, "prepare")
     /\ \/ /\ ready /\ content' = [content EXCEPT ![command[p].n] = "synced"]
           /\ Sync /\ Step(p, "rename") /\ NoKeyFault
        \/ /\ content' \in {content, [content EXCEPT ![command[p].n] = "synced"]}
           /\ UNCHANGED disk /\ Step(p, "cleanup") /\ Unless(~ready)
     /\ UNCHANGED <<dir, issued, told, retired>>

Moved(p) == LET k == command[p].kind
            IN [dir EXCEPT ![Target(k)] = command[p].n, ![Staging(k)] = None]

RenameSucceeds(p) ==
  /\ Free(Target(command[p].kind)) /\ dir' = Moved(p)
  /\ Publishes(p, FALSE, FALSE) /\ NoKeyFault
RenameRefused(p) ==
  /\ UNCHANGED dir /\ Step(p, "cleanup") /\ Unless(~Free(Target(command[p].kind)))

\* The provision inspects both names after renameat2: an error is believed
\* only when both say that nothing moved.
RenameSource(p) ==
  /\ At(p, "rename") /\ command[p].kind = "provision"
  /\ \/ RenameSucceeds(p) \/ RenameRefused(p)
     \/ /\ Free("source") /\ dir' = Moved(p) /\ KeyFault
        /\ \E dirty \in BOOLEAN : Publishes(p, TRUE, dirty)
     \/ UNCHANGED dir /\ Publishes(p, TRUE, TRUE) /\ KeyFault
  /\ UNCHANGED <<disk, content, issued, told, retired>>

\* The backup believes every error of renameat2.
RenameBackup(p) ==
  /\ At(p, "rename") /\ command[p].kind = "backup"
  /\ \/ RenameSucceeds(p) \/ RenameRefused(p)
     \/ Free("backup") /\ dir' = Moved(p) /\ Step(p, "cleanup") /\ KeyFault
  /\ UNCHANGED <<disk, content, issued, told, retired>>

\* cleanupNamedSourceCandidate and cleanupBackupStaging.
Cleanup(p) ==
  LET s == Staging(command[p].kind)
      gone == [dir EXCEPT ![s] = None]
  IN /\ At(p, "cleanup")
     /\ \/ Mine(p, s) /\ dir' = gone /\ disk' = gone
           /\ Reports(p, FALSE, FALSE, FALSE) /\ NoKeyFault
        \/ Mine(p, s) /\ dir' \in {dir, gone} /\ UNCHANGED disk
           /\ Reports(p, FALSE, FALSE, TRUE) /\ KeyFault
        \/ ~Mine(p, s) /\ UNCHANGED <<dir, disk>>
           /\ Reports(p, FALSE, FALSE, ~Free(s)) /\ NoKeyFault
     /\ UNCHANGED <<content, issued, retired>>

\* finalizePublishedSource: verify, sync, verify, whatever the one before said;
\* any error leaves durability unknown.
Doubts(p, pc) == command' = [command EXCEPT ![p].pc = pc, ![p].unknown = TRUE]
VerifySource(p) ==
  /\ At(p, "finalize") /\ command[p].kind = "provision"
  /\ \/ Mine(p, "source") /\ Step(p, "sync") /\ NoKeyFault
     \/ Doubts(p, "sync") /\ Unless(~Mine(p, "source"))
  /\ UNCHANGED <<dir, disk, content, issued, told, retired>>
SyncSource(p) ==
  /\ At(p, "sync") /\ command[p].kind = "provision"
  /\ \/ Sync /\ Step(p, "verify") /\ NoKeyFault
     \/ disk' \in {disk, dir} /\ Doubts(p, "verify") /\ KeyFault
  /\ UNCHANGED <<dir, content, issued, told, retired>>
\* The second look, and the close of the descriptors.
FinalizeSource(p) ==
  LET c == command[p]
  IN /\ At(p, "verify")
     /\ \/ Mine(p, "source") /\ Reports(p, TRUE, c.unknown, c.cleanup) /\ NoKeyFault
        \/ Reports(p, TRUE, TRUE, c.cleanup) /\ Unless(~Mine(p, "source"))
     /\ UNCHANGED <<dir, disk, content, issued, retired>>

\* The tail of backupKeyringAt looks at the two names before the sync only, and
\* returns at the first error.
VerifyBackup(p) ==
  LET free == Free("backup staging")
      bound == Mine(p, "backup") /\ free
  IN /\ At(p, "finalize") /\ command[p].kind = "backup"
     /\ \/ bound /\ Step(p, "sync") /\ UNCHANGED told /\ NoKeyFault
        \/ Reports(p, TRUE, TRUE, ~free) /\ Unless(~bound)
        \/ Reports(p, TRUE, TRUE, TRUE) /\ KeyFault
     /\ UNCHANGED <<dir, disk, content, issued, retired>>
FinalizeBackup(p) ==
  /\ At(p, "sync") /\ command[p].kind = "backup"
  /\ \/ Sync /\ Reports(p, TRUE, FALSE, FALSE) /\ NoKeyFault
     \/ disk' \in {disk, dir} /\ Reports(p, TRUE, TRUE, FALSE) /\ KeyFault
  /\ UNCHANGED <<dir, content, issued, retired>>

(***************************************************************************)
(* The other commands.                                                     *)
(***************************************************************************)
\* removeBackupAt.
RemoveBackup(p) ==
  /\ At(p, "remove")
  /\ \/ /\ dir' = [dir EXCEPT !["backup"] = None]
        /\ disk' = dir' /\ NoKeyFault
     \/ dir' \in {dir, [dir EXCEPT !["backup"] = None]} /\ UNCHANGED disk /\ KeyFault
  /\ retired' = retired \cup ({dir["backup"]} \ {None})
  /\ command' = [command EXCEPT ![p] = NoCommand]
  /\ UNCHANGED <<content, issued, told>>

\* The audit of the source and the restoration of the backup read a name: it
\* is pinned, read and bound again, or seen missing twice.
ReadName(p) == IF command[p].kind = "audit" THEN "source" ELSE "backup"
Undisturbed(p) == command[p].kind = "audit" => Free("staging")

Pins(p) ==
  /\ \/ /\ Undisturbed(p)
        /\ command' = [command EXCEPT ![p].pc = "bind", ![p].pinned = dir[ReadName(p)]]
        /\ UNCHANGED told /\ NoKeyFault
     \/ Reports(p, FALSE, FALSE, FALSE) /\ Unless(~Undisturbed(p))
  /\ UNCHANGED <<dir, disk, content, issued, retired>>

\* A file parses when it is whole: torn content fails its checks.
Binds(p) ==
  LET n == command[p].pinned
      same == Undisturbed(p) /\ dir[ReadName(p)] = n
      parses == n # None /\ content[n] # "torn"
  IN /\ At(p, "bind")
     /\ \/ same /\ Reads(p, IF n = None THEN "missing" ELSE IF parses THEN "whole" ELSE "unsafe")
           /\ NoKeyFault
        \/ Reads(p, "unsafe") /\ Unless(~same)
     /\ UNCHANGED <<dir, disk, content, issued, retired>>

AuditPins(p) == At(p, "audit") /\ Pins(p)
AuditBinds(p) == command[p].kind = "audit" /\ Binds(p)
RestorePins(p) == At(p, "restore") /\ Pins(p)
RestoreBinds(p) == command[p].kind = "restore" /\ Binds(p)

(***************************************************************************)
(* The machine.                                                            *)
(***************************************************************************)
Writeback ==
  /\ disk # dir /\ Sync
  /\ UNCHANGED <<dir, content, command, issued, told, retired, keyFaults>>

Dies(p) ==
  /\ command[p] # NoCommand /\ KeyFault
  /\ command' = [command EXCEPT ![p] = NoCommand]
  /\ UNCHANGED <<dir, disk, content, issued, told, retired>>

PowerLoss ==
  /\ KeyFault
  /\ dir' = disk
  /\ content' \in {content, [n \in Commands |-> IF content[n] = "written" THEN "torn"
                                                ELSE content[n]]}
  /\ command' = [p \in Operators |-> NoCommand]
  /\ UNCHANGED <<disk, issued, told, retired>>

\* Recovery by hand, which must not race a command.
OperatorClears(s) ==
  /\ s \in {"staging", "backup staging"} /\ ~Free(s)
  /\ \A p \in Operators : command[p] = NoCommand
  /\ dir' = [dir EXCEPT ![s] = None] /\ disk' = dir'
  /\ UNCHANGED <<content, command, issued, told, retired, keyFaults>>

KeyStep(p) ==
  \/ \E kind \in {"provision", "backup", "remove", "audit", "restore"} : Issue(p, kind)
  \/ CheckNamespace(p) \/ PrepareAnonymous(p) \/ LinkAnonymous(p)
  \/ ReserveSource(p) \/ ReserveBackup(p) \/ Prepare(p)
  \/ RenameSource(p) \/ RenameBackup(p) \/ Cleanup(p)
  \/ VerifySource(p) \/ SyncSource(p) \/ FinalizeSource(p) \/ VerifyBackup(p) \/ FinalizeBackup(p)
  \/ RemoveBackup(p) \/ AuditPins(p) \/ AuditBinds(p)
  \/ RestorePins(p) \/ RestoreBinds(p) \/ Dies(p)

KeyNext ==
  \/ \E p \in Operators : KeyStep(p)
  \/ Writeback \/ PowerLoss
  \/ \E s \in Names : OperatorClears(s)

KeySpec == KeyInit /\ [][KeyNext]_keyVars

(***************************************************************************)
(* Properties.                                                             *)
(***************************************************************************)
\* A command that reports Created without DurabilityUnknown has put its whole
\* key on the disk under the final name, and no concurrent provision, backup,
\* death or power loss takes it away again; only a removal of the backup does.
CreatedIsDurable ==
  \A n \in Commands \ retired :
     told[n].created /\ ~told[n].unknown =>
        /\ dir[Target(told[n].by)] = n /\ disk[Target(told[n].by)] = n
        /\ content[n] = "synced"

\* A provision that reports neither Created nor CleanupRequired left nothing of
\* its own under either name, now or after a power loss: only then may the
\* operator generate another key.
QuietMeansNothing ==
  \A n \in Commands :
     told[n].by = "provision" /\ ~told[n].created /\ ~told[n].cleanup =>
        \A name \in Names : dir[name] # n /\ disk[name] # n

\* The source name never shows a key that was not wholly written and synced,
\* after a power loss included.
SourceWhole ==
  \A d \in {dir, disk} : d["source"] # None => content[d["source"]] = "synced"

\* What a key command reports is true for good: its success, its clean failure,
\* and that a source, once visible, is whole.
KeyReportsTrue == CreatedIsDurable /\ QuietMeansNothing /\ SourceWhole

=============================================================================

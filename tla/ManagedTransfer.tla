--------------------------- MODULE ManagedTransfer ---------------------------
(***************************************************************************)
(* One CopyInto or MoveInto of pkg/filesecurity/managed_copy_linux.go.     *)
(*                                                                         *)
(* The transfer holds the mutation lease (ManagedInventory), so no other   *)
(* transfer runs, but the directories are shared with programs that know   *)
(* nothing of the lease: they write, replace, create and remove what the   *)
(* source name and the destination names stand for between any two system  *)
(* calls.  A system call may fail, and the process may die.                *)
(*                                                                         *)
(* An inode is identified by a number; its contents are a token, fresh     *)
(* with every write, so that two stat records agree exactly if inode and   *)
(* token do.  Directories are moved, not copied: a copied tree is not a    *)
(* snapshot and the code does not say it is.  The private transaction      *)
(* directory is entered by nobody else (mode 0700, trusted host).          *)
(***************************************************************************)
EXTENDS Integers, FiniteSets, Functions

CONSTANTS LastCandidate, \* names the rename policy tries: 0 .. LastCandidate
          MaxEdits,      \* acts of other programs
          MaxFaults      \* failing system calls

ASSUME TransferAssumption == {LastCandidate, MaxEdits, MaxFaults} \subseteq Nat

Candidates == 0 .. LastCandidate
NoObject == 0                       \* no inode
Source == 1                     \* the inode to transfer
Copy == 2                       \* the inode the transfer creates
Inodes == 1 .. 3 + MaxEdits
Empty == 0                      \* contents of an empty directory
Half == -1                      \* contents of an unfinished copy
Mixed == -2                     \* bytes of two versions of the source
Tokens == 1 .. 2 + MaxEdits
Contents == Tokens \cup {Empty, Half, Mixed}

Outcomes == {"none", "ok", "skipped", "failed", "broken"}
VARIABLES
  src,      \* inode of the source name
  dst,      \* inode of each destination name
  transaction, entry,      \* the transaction directory exists; inode of its "entry"
  kind, data,     \* of every inode
  objectsMade, stamp,    \* last inode and token in use
  job,      \* style, move, and the file systems of the two directories
  transferStep, candidate,         \* step, and the candidate in hand
  snap, old,      \* stat records of the source and of the target to replace
  seen,     \* token of the first half of the bytes read
  verdict,        \* outcome if the cleanup succeeds
  outcome,  \* result and error of the call: "ok", "skipped" (not changed, no
            \* error), "failed" (error, not changed), "broken" (error, changed)
  acted,          \* the transfer has changed the source or a destination name
  owed,           \* inodes somebody counts on: not removed by other programs,
                  \* nor replaced at the caller's request
  edits, faults

names == <<src, dst, transaction, entry>>
files == <<kind, data, objectsMade, stamp>>
memo == <<snap, old, seen>>
ghosts == <<acted, owed>>
transferVars == <<names, files, memo, ghosts, job, transferStep, candidate, verdict, outcome, edits, faults>>

NoStat == [ino |-> NoObject, tok |-> Empty]
StatOf(i) == [ino |-> i, tok |-> data[i]]

\* The names under which anything can be found.
Linked == ({src, entry} \cup Range(dst)) \ {NoObject}

TransferInit ==
  /\ job \in [style : {"skip", "rename", "replace"}, move : BOOLEAN,
              samefs : BOOLEAN, eligible : BOOLEAN]
  /\ \E k \in {"file", "dir"}, t \in {"free", "file", "dir"} :
       /\ k = "dir" => job.move
       /\ kind = [i \in Inodes |-> IF i = Source THEN k
                                   ELSE IF i = 3 THEN (IF t = "dir" THEN "dir" ELSE "file")
                                   ELSE "file"]
       /\ dst = [c \in Candidates |-> IF c = 0 /\ t # "free" THEN 3 ELSE NoObject]
       /\ data = [i \in Inodes |-> IF i = Source THEN 1
                                   ELSE IF i = 3 /\ t = "file" THEN 2 ELSE Empty]
       /\ owed = IF t = "free" THEN {Source} ELSE {Source, 3}
  /\ src = Source /\ transaction = FALSE /\ entry = NoObject /\ objectsMade = 3 /\ stamp = 2
  /\ transferStep = "begin" /\ candidate = 0 /\ snap = NoStat /\ old = NoStat /\ seen = Empty
  /\ verdict = "none" /\ outcome = "none" /\ acted = FALSE
  /\ edits = 0 /\ faults = 0

\* A system call works, or fails.
Works == UNCHANGED faults
Fails == faults < MaxFaults /\ faults' = faults + 1

Goto(s) == transferStep' = s /\ UNCHANGED <<verdict, outcome>>
Finish(o) == transferStep' = "done" /\ outcome' = o /\ UNCHANGED verdict
\* The transaction is removed, and the call then returns v.
Cleanup(v) == transferStep' = "clean" /\ verdict' = v /\ UNCHANGED outcome

\* sameManagedTransferStat and verifyManagedNameIdentity: the name holds the
\* inode of the stat record, and nobody has written to it since.
Is(name, s) == name = s.ino /\ data[s.ino] = s.tok
CopyStat == [ino |-> Copy, tok |-> snap.tok]

\* Resolution and validation of both ends; the source is pinned.
Begin ==
  LET Dirs == {i \in Inodes : kind[i] = "dir"}
      refused == \/ src = NoObject
                 \/ job.move /\ ~job.eligible
                 \/ src \in Dirs /\ (~job.samefs \/ job.style = "replace")
  IN
  /\ transferStep = "begin"
  /\ \/ /\ ~refused /\ Works /\ snap' = StatOf(src)
        /\ Goto(IF job.move /\ job.style # "replace" THEN "check" ELSE "mkdir")
     \/ /\ refused /\ Works /\ Finish("failed") /\ UNCHANGED snap
     \/ /\ Fails /\ Finish("failed") /\ UNCHANGED snap
  /\ UNCHANGED <<names, files, ghosts, job, candidate, old, seen, edits>>

\* What the conflict policy makes of an occupied name.
NextName(s) == candidate < LastCandidate /\ candidate' = candidate + 1 /\ Goto(s)
NamesSpent == candidate = LastCandidate /\ UNCHANGED candidate

\* renameManagedSourceNoReplace: the pinned source is still what was validated
CheckSource ==
  /\ transferStep = "check"
  /\ \/ Works /\ Is(src, snap) /\ Goto("rename")
     \/ Works /\ ~Is(src, snap) /\ Finish("failed")
     \/ Fails /\ Finish("failed")
  /\ UNCHANGED <<names, files, memo, ghosts, job, candidate, edits>>

\* ... and whatever now has its name is renamed, if the new name is free.
RenameSource ==
  /\ transferStep = "rename" /\ Works /\ job.samefs /\ src # NoObject /\ dst[candidate] = NoObject
  /\ dst' = [dst EXCEPT ![candidate] = src] /\ src' = NoObject /\ acted' = TRUE
  /\ Goto("renamed")
  /\ UNCHANGED <<transaction, entry, files, memo, owed, job, candidate, edits>>

RenameSourceFails ==
  /\ transferStep = "rename"
  /\ \/ Works /\ ~job.samefs /\ Goto("mkdir") /\ UNCHANGED candidate
     \/ Works /\ job.samefs /\ src = NoObject /\ Finish("failed") /\ UNCHANGED candidate
     \/ /\ Works /\ job.samefs /\ src # NoObject /\ dst[candidate] # NoObject
        /\ \/ job.style = "skip" /\ Finish("skipped") /\ UNCHANGED candidate
           \/ job.style = "rename" /\ NextName("check")
           \/ job.style = "rename" /\ NamesSpent /\ Finish("failed")
     \/ Fails /\ Finish("failed") /\ UNCHANGED candidate
  /\ UNCHANGED <<names, files, memo, ghosts, job, edits>>

\* The new name is the pinned source, before and after both directories are
\* synchronised.
RenamedSource ==
  /\ transferStep = "renamed"
  /\ \/ Works /\ Is(dst[candidate], snap) /\ Finish("ok")
     \/ Works /\ ~Is(dst[candidate], snap) /\ Finish("broken")
     \/ Fails /\ Finish("broken")
  /\ UNCHANGED <<names, files, memo, ghosts, job, candidate, edits>>

\* createManagedTransferTransaction: a failure after mkdir retains it, and a
\* failing mkdir is believed, though it may have happened on a file system
\* outside the allowlist.
CreateTransferTransaction ==
  /\ transferStep = "mkdir"
  /\ \/ Works /\ transaction' = TRUE /\ Goto("sync")
     \/ Fails /\ transaction' = FALSE /\ Finish("failed")
     \/ Fails /\ ~job.eligible /\ transaction' = TRUE /\ Finish("failed")
     \/ Fails /\ transaction' = TRUE /\ Finish("broken")
  /\ UNCHANGED <<src, dst, entry, files, memo, ghosts, job, candidate, edits>>

SyncTransaction ==
  /\ transferStep = "sync"
  /\ (Works /\ Goto("copy")) \/ (Fails /\ Finish("broken"))
  /\ UNCHANGED <<names, files, memo, ghosts, job, candidate, edits>>

\* copyManagedOpenedToNew: O_EXCL creation, and the first of the bytes.
CreateCopy ==
  /\ transferStep = "copy"
  /\ \/ /\ Works /\ entry' = Copy /\ data' = [data EXCEPT ![Copy] = Half]
        /\ seen' = data[snap.ino] /\ Goto("copy2")
     \/ Fails /\ Cleanup("failed") /\ UNCHANGED <<entry, data, seen>>
  /\ UNCHANGED <<src, dst, transaction, kind, objectsMade, stamp, snap, old, ghosts, job, candidate, edits>>

\* What a reader of a file that is written to meanwhile gets.
Bytes == IF seen = data[snap.ino] THEN seen ELSE Mixed

\* Mutant: the source is not compared after the copy.
FinishCopyUnchecked ==
  /\ transferStep = "copy2"
  /\ \/ Works /\ data' = [data EXCEPT ![Copy] = Bytes] /\ Goto("stage")
     \/ Fails /\ Cleanup("failed") /\ UNCHANGED data
  /\ UNCHANGED <<names, kind, objectsMade, stamp, memo, ghosts, job, candidate, edits>>

\* copyManagedRegular: the rest of the bytes, then the comparison that shows
\* whether the source was written to in the meantime.
FinishCopy ==
  /\ transferStep = "copy2"
  /\ \/ /\ Works /\ data' = [data EXCEPT ![Copy] = Bytes]
        /\ IF Is(src, snap) THEN Goto("stage") ELSE Cleanup("failed")
     \/ Fails /\ Cleanup("failed") /\ UNCHANGED data
  /\ UNCHANGED <<names, kind, objectsMade, stamp, memo, ghosts, job, candidate, edits>>

\* The staged copy is recorded (a failure cleans up) and synchronised (a
\* failure retains the transaction).
SyncStaged ==
  /\ transferStep = "stage"
  /\ (Works /\ Goto("publish")) \/ (Fails /\ (Cleanup("failed") \/ Finish("broken")))
  /\ UNCHANGED <<names, files, memo, ghosts, job, candidate, edits>>

\* publishManagedTransaction: RENAME_NOREPLACE out of the transaction.
PublishCopy ==
  /\ transferStep = "publish" /\ dst[candidate] = NoObject
  /\ \/ Works /\ Goto("published")
     \/ Fails /\ ~job.eligible /\ Goto("retain")    \* it failed, and happened
  /\ dst' = [dst EXCEPT ![candidate] = entry] /\ entry' = NoObject
  /\ acted' = TRUE /\ owed' = owed \cup {entry}
  /\ UNCHANGED <<src, transaction, files, memo, job, candidate, edits>>

\* classifyManagedNoReplacePublicationFailure: only on an allowlisted file
\* system does a failed rename prove that nothing was renamed.
PublishFails ==
  /\ transferStep = "publish"
  /\ \/ Fails /\ Finish("broken") /\ UNCHANGED candidate
     \/ Fails /\ dst[candidate] = NoObject /\ job.eligible /\ Cleanup("failed") /\ UNCHANGED candidate
     \/ Works /\ dst[candidate] # NoObject /\ ~job.eligible /\ Finish("broken") /\ UNCHANGED candidate
     \/ /\ Works /\ dst[candidate] # NoObject /\ job.eligible
        /\ \/ job.style = "skip" /\ Cleanup("skipped") /\ UNCHANGED candidate
           \/ job.style = "rename" /\ NextName("publish")
           \/ job.style = "rename" /\ NamesSpent /\ Cleanup("failed")
           \/ job.style = "replace" /\ Goto("target") /\ UNCHANGED candidate
  /\ UNCHANGED <<names, files, memo, ghosts, job, edits>>

\* A copy-first move keeps its source and says so with an error.
Success == IF job.move THEN "broken" ELSE "ok"

\* The published name is the staged copy, before and after the syncs.
Published ==
  /\ transferStep = "published"
  /\ \/ Works /\ Is(dst[candidate], CopyStat) /\ Cleanup(Success)
     \/ Works /\ ~Is(dst[candidate], CopyStat) /\ Finish("broken")
     \/ Fails /\ Finish("broken")
  /\ UNCHANGED <<names, files, memo, ghosts, job, candidate, edits>>

Retain ==
  /\ transferStep = "retain" /\ Finish("broken")
  /\ UNCHANGED <<names, files, memo, ghosts, job, candidate, edits, faults>>

\* validateManagedTransactionReplacementType.
Alike == {i \in Inodes : kind[i] = kind[entry]}

\* validateManagedReplacementAt: the file to replace is pinned.
PinTarget ==
  /\ transferStep = "target"
  /\ \/ Works /\ dst[candidate] \in Alike /\ old' = StatOf(dst[candidate]) /\ Goto("compare")
     \/ Works /\ dst[candidate] \notin Alike /\ Cleanup("failed") /\ UNCHANGED old
     \/ Fails /\ Cleanup("failed") /\ UNCHANGED old
  /\ UNCHANGED <<names, files, snap, seen, ghosts, job, candidate, edits>>

\* The copy is checked first (a failure retains the transaction), the target
\* last (a failure cleans up).
CompareTarget ==
  /\ transferStep = "compare"
  /\ \/ Works /\ Is(dst[candidate], old) /\ Goto("exchange")
     \/ Works /\ ~Is(dst[candidate], old) /\ Cleanup("failed")
     \/ Fails /\ (Finish("broken") \/ Cleanup("failed"))
  /\ UNCHANGED <<names, files, memo, ghosts, job, candidate, edits>>

\* RENAME_EXCHANGE of the copy with whatever now has the name.
Exchange ==
  /\ transferStep = "exchange"
  /\ \/ /\ Works /\ dst[candidate] # NoObject /\ Goto("exchanged")
        /\ dst' = [dst EXCEPT ![candidate] = entry] /\ entry' = dst[candidate]
        /\ acted' = TRUE /\ owed' = owed \cup {entry}
     \/ /\ Fails \/ (Works /\ dst[candidate] = NoObject)
        /\ Finish("broken") /\ UNCHANGED <<dst, entry, ghosts>>
  /\ UNCHANGED <<src, transaction, files, memo, job, candidate, edits>>

\* Both sides are what was compared, before and after the syncs.
Exchanged ==
  LET right == Is(dst[candidate], CopyStat) /\ Is(entry, old) IN
  /\ transferStep = "exchanged"
  /\ \/ Works /\ right /\ Goto("unlink")
     \/ Works /\ ~right /\ Finish("broken")
     \/ Fails /\ Finish("broken")
  /\ UNCHANGED <<names, files, memo, ghosts, job, candidate, edits>>

\* Mutant: the last comparison is left out.
UnlinkUnchecked ==
  LET gone == entry' = NoObject
              /\ owed' = IF Is(entry, old) THEN owed \ {entry} ELSE owed
  IN
  /\ transferStep = "unlink"
  /\ \/ Works /\ gone /\ Cleanup(Success)
     \/ Fails /\ Finish("broken") /\ UNCHANGED <<entry, owed>>
     \/ Fails /\ gone /\ Finish("broken")
  /\ UNCHANGED <<src, dst, transaction, files, memo, acted, job, candidate, edits>>

\* The last comparison and the unlink after it, in one step: a write through
\* a descriptor opened before the exchange and made between these two system
\* calls is lost, and nothing the code could do would show it.  The file the
\* caller asked to replace is no longer owed to anybody.
UnlinkReplaced ==
  LET right == Is(dst[candidate], CopyStat) /\ Is(entry, old)
      gone == entry' = NoObject
              /\ owed' = IF Is(entry, old) THEN owed \ {entry} ELSE owed
  IN
  /\ transferStep = "unlink"
  /\ \/ Works /\ right /\ gone /\ Cleanup(Success)
     \/ Works /\ ~right /\ Finish("broken") /\ UNCHANGED <<entry, owed>>
     \/ Fails /\ Finish("broken") /\ UNCHANGED <<entry, owed>>
     \/ Fails /\ right /\ gone /\ Finish("broken")
  /\ UNCHANGED <<src, dst, transaction, files, memo, acted, job, candidate, edits>>

\* cleanupManagedTransferTransaction removes the entry, if there is one,
RemoveEntry ==
  /\ transferStep = "clean"
  /\ \/ Works /\ entry' = NoObject /\ Goto("rmdir")
     \/ Fails /\ Finish("broken") /\ UNCHANGED entry
  /\ UNCHANGED <<src, dst, transaction, files, memo, ghosts, job, candidate, edits>>

\* ... and the proven empty directory.
RemoveTransferTransaction ==
  /\ transferStep = "rmdir"
  /\ \/ Works /\ entry = NoObject /\ transaction' = FALSE /\ Finish(verdict)
     \/ Fails /\ transaction' \in BOOLEAN /\ Finish("broken")
  /\ UNCHANGED <<src, dst, entry, files, memo, ghosts, job, candidate, edits>>

\* The process dies.  Nothing resumes a transfer.
Die ==
  /\ transferStep \notin {"done", "dead"} /\ transferStep' = "dead"
  /\ UNCHANGED <<names, files, memo, ghosts, job, candidate, verdict, outcome, edits, faults>>

-----------------------------------------------------------------------------
\* Other programs.

Edit ==
  /\ edits < MaxEdits /\ transferStep \notin {"done", "dead"} /\ edits' = edits + 1
  /\ UNCHANGED <<transaction, entry, memo, acted, job, transferStep, candidate, verdict, outcome, faults>>

\* A write in place, also to a replaced file that somebody still has open.
Write ==
  /\ Edit
  /\ \E i \in Linked \ (IF entry = Copy THEN {Copy} ELSE {}) :
       data' = [data EXCEPT ![i] = stamp + 1]
  /\ stamp' = stamp + 1 /\ UNCHANGED <<src, dst, kind, objectsMade, owed>>

\* A name is removed, or stands for a new file from now on.
Relink ==
  /\ Edit
  /\ \E fresh \in BOOLEAN :
       /\ objectsMade' = IF fresh THEN objectsMade + 1 ELSE objectsMade
       /\ stamp' = IF fresh THEN stamp + 1 ELSE stamp
       /\ data' = IF fresh THEN [data EXCEPT ![objectsMade + 1] = stamp + 1] ELSE data
       /\ LET new == IF fresh THEN objectsMade + 1 ELSE NoObject
              Keep(name) == owed' = (owed \ {name}) \cup ({new} \ {NoObject})
          IN \/ /\ src # new /\ src' = new /\ UNCHANGED dst /\ Keep(src)
             \/ \E c \in Candidates :
                  /\ dst[c] # new /\ dst' = [dst EXCEPT ![c] = new]
                  /\ UNCHANGED src /\ Keep(dst[c])
  /\ UNCHANGED kind

Transfer ==
  \/ Begin \/ CheckSource \/ RenameSource \/ RenameSourceFails \/ RenamedSource
  \/ CreateTransferTransaction \/ SyncTransaction \/ CreateCopy \/ FinishCopy \/ SyncStaged
  \/ PublishCopy \/ PublishFails \/ Published \/ Retain
  \/ PinTarget \/ CompareTarget \/ Exchange \/ Exchanged \/ UnlinkReplaced
  \/ RemoveEntry \/ RemoveTransferTransaction

TransferNext == Transfer \/ Die \/ Write \/ Relink

TransferSpec == TransferInit /\ [][TransferNext]_transferVars

-----------------------------------------------------------------------------
\* The answer can be believed.  A call that says "not changed" (with or
\* without an error) leaves no name changed and no private entry behind, and
\* at most an empty private directory that a file system outside the
\* allowlist denied having made; a success changed a name and left no
\* directory, and a successful move has taken the source away.
OutcomeHonest ==
  /\ outcome \in {"skipped", "failed"} => ~acted /\ entry = NoObject
  /\ outcome \in {"skipped", "failed"} /\ transaction => outcome = "failed" /\ ~job.eligible
  /\ outcome = "ok" => acted /\ ~transaction
  /\ outcome = "ok" /\ job.move => src # Source

\* Nobody's file is lost: what other programs keep is always under the source
\* name, a destination name or the entry of a retained transaction, also when
\* names changed hands between two checks, calls failed or the process died.
\* The one file removed is the one replaced at the caller's request, exactly
\* as it was when its replacement was validated.
NothingLost == owed \subseteq Linked

\* A transfer tells the truth and loses nothing.
TransferSafe == OutcomeHonest /\ NothingLost

\* What is visible under the names is one step of AtomicTransfer or none.
Absent == -3
Seen(i) == IF i = NoObject THEN Absent ELSE data[i]
Visible == [c \in Candidates |-> Seen(dst[c])]
Pinned == IF snap = NoStat THEN Absent ELSE snap.tok
Told == IF outcome = "none" THEN "none"
        ELSE IF outcome \in {"skipped", "failed"} THEN "unchanged" ELSE "changed"

Atomic == INSTANCE AtomicTransfer WITH
  source <- Seen(src), target <- Visible, began <- Pinned,
  policy <- job.style, moves <- job.move, answer <- Told

\* The transfer implements AtomicTransfer: no part of a copy is ever visible,
\* the names change in one step, to a whole copy of the pinned source or to
\* the moved source, an occupied name is taken only under the replace policy
\* and another name than the requested one only under the rename policy.
ImplementsAtomic == Atomic!Spec
=============================================================================

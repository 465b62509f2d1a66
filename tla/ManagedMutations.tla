-------------------------- MODULE ManagedMutations --------------------------
(***************************************************************************)
(* The mutating operations of the managed roots, system call by system     *)
(* call (pkg/filesecurity/managed_roots_linux.go and                       *)
(* managed_mutation_linux.go): exclusive creation, commit of an upload,    *)
(* rewrite, rename, directory creation, removals, and the removal of a     *)
(* held staging tree.                                                      *)
(*                                                                         *)
(* The mutation lease lets one of them run at a time.  Strangers (shells,  *)
(* SMB clients) do not take the lease: between any two calls they may edit *)
(* a file, take a name away or put something of their own in its place.    *)
(* Every call may fail.  The random names of the staging files and of the  *)
(* quarantine are not known to strangers.                                  *)
(***************************************************************************)
EXTENDS Integers, FiniteSets, Sequences

CONSTANTS MaxOps,      \* bound: operations started
          MaxStrange,  \* bound: steps of strangers
          MaxEntries   \* entries of a tree when it is created

ASSUME MutationConstants == MaxOps \in Nat /\ MaxStrange \in Nat /\ MaxEntries \in Nat

NoInode   == 0
Given  == 1           \* what "source" names at first: an upload's staging file or tree
Other  == 2           \* what a stranger has at "target", or nothing
MutationInodes == Given .. Other + MaxOps
Edited == -1          \* contents that are no inode's first
New    == -2
MutationNames  == {"source", "target", "staging", "quarantine"}

VARIABLES named,    \* name -> inode, the directory as it is seen
          disk,     \* inode -> [content, stamp, entries]
          op,       \* the operation that has the lease
          last,     \* what the last operation reported, with its history
          held,     \* the staging tree's inode, as the session opened it
          ops, strange

mutationVars == <<named, disk, op, last, held, ops, strange>>

\* One version of a file is a pair of equal halves; a copy is read in two.
Whole(c) == <<c, c>>
Idle == [kind |-> "none", pc |-> "idle", saw |-> <<NoInode, 0>>, todo |-> << >>, effect |-> FALSE, dirty |-> FALSE, hit |-> {}, bound |-> FALSE]
NoReport == [kind |-> "none", outcome |-> "none", effect |-> FALSE, dirty |-> FALSE, hit |-> {}]

MutationInit ==
  /\ named \in {[n \in MutationNames |-> IF n = "source" THEN Given ELSE IF n = "target" THEN t ELSE NoInode]
                   : t \in {NoInode, Other}}
  /\ disk = [i \in MutationInodes |-> [content |-> Whole(i), stamp |-> 0, entries |-> MaxEntries]]
  /\ op = Idle /\ last = NoReport /\ held = Given /\ ops = 0 /\ strange = 0

(***************************************************************************)
(* Calls and reports.                                                      *)
(***************************************************************************)
StatName(n) == <<named[n], IF named[n] = NoInode THEN 0 ELSE disk[named[n]].stamp>>
\* verifyManagedNameIdentity compares the whole snapshot, managedNameMatchesInode
\* only the inode.
SameIdentity(n, saw) == StatName(n) = saw
SameInode(n, saw) == named[n] = saw[1]

Running(kind, pc) == op.kind \in kind /\ op.pc = pc
StepTo(pc) == op' = [op EXCEPT !.pc = pc]
\* The lease is released with the report; names of staging files that could not
\* be unlinked stay behind.
Reports(outcome, o) ==
  /\ op' = Idle
  /\ last' = [kind |-> o.kind, outcome |-> outcome, effect |-> o.effect, dirty |-> o.dirty, hit |-> o.hit]
\* managedChangedMutationError, against an error as it is.
Failure(o) == IF o.effect THEN "changed" ELSE "plain"
\* The inode that the running operation stages.
Own == Other + ops
Keeps == UNCHANGED <<held, ops, strange>>

\* Deferred: the staging file is unlinked, or the unlink fails.
Abandons ==
  /\ Reports("plain", op)
  /\ named' \in {named, [named EXCEPT !["staging"] = NoInode]}
  /\ UNCHANGED disk

\* The checks made before anything is touched, and what they remember.
Begun(kind, pc) == [Idle EXCEPT !.kind = kind, !.pc = pc]
BeginsCreate == named["target"] = NoInode /\ op' = Begun("create", "stage")
BeginsCommit ==
  /\ named["source"] # NoInode
  /\ \E b \in BOOLEAN : /\ b => StatName("source") = <<Given, 0>>
                       /\ op' = [Begun("commit", "stage") EXCEPT !.saw = StatName("source"), !.bound = b]
BeginsRewrite == named["target"] # NoInode /\ op' = [Begun("rewrite", "stage") EXCEPT !.saw = StatName("target")]
BeginsRename == named["source"] # NoInode /\ op' = [Begun("rename", "verify") EXCEPT !.saw = StatName("source")]
BeginsMkdir == op' = [Begun("mkdir", "mkdir") EXCEPT !.todo = <<1, 2>>]
BeginsUnlink == named["source"] # NoInode /\ op' = Begun("unlink", "unlink")
BeginsHeld == op' = [Begun("held", "lookup") EXCEPT !.saw = <<held, 0>>]
\* RemoveAllBatch judges every tree before it removes the first.
BeginsRemove ==
  \E batch \in {<<"source">>, <<"source", "target">>} :
     /\ \A k \in DOMAIN batch : named[batch[k]] # NoInode
     /\ op' = [Begun("remove", "verify") EXCEPT !.todo = [k \in DOMAIN batch |-> <<batch[k], StatName(batch[k])>>]]

\* AcquireMutation.
BeginMutation ==
  /\ op.pc = "idle" /\ ops < MaxOps /\ ops' = ops + 1
  /\ \/ BeginsCreate \/ BeginsCommit \/ BeginsRewrite \/ BeginsRename
     \/ BeginsMkdir \/ BeginsUnlink \/ BeginsHeld \/ BeginsRemove
  /\ UNCHANGED <<named, disk, last, held, strange>>

(***************************************************************************)
(* Staging and publication.                                                *)
(***************************************************************************)
\* createManagedTemporary, O_EXCL.
Stage ==
  /\ op.pc = "stage"
  /\ \/ /\ named' = [named EXCEPT !["staging"] = Own]
        /\ disk' = [disk EXCEPT ![Own] = [content |-> << >>, stamp |-> 0, entries |-> 0]]
        /\ StepTo("write") /\ UNCHANGED last
     \/ Reports("plain", op) /\ UNCHANGED <<named, disk>>
  /\ Keeps

\* The bytes: the caller's, or the staged upload's, read in two pieces.
StagingSource == IF op.kind = "commit" THEN disk[op.saw[1]].content ELSE Whole(New)
WriteStaging ==
  /\ op.pc = "write"
  /\ \/ LET half == Len(disk[Own].content) + 1 IN
        /\ disk' = [disk EXCEPT ![Own].content = Append(@, StagingSource[half])]
        /\ StepTo(IF half = 2 THEN "sync" ELSE "write") /\ UNCHANGED <<named, last>>
     \/ Abandons
  /\ Keeps

\* ManagedWritableFile.Abort.
AbortCreate == Running({"create"}, "write") /\ Abandons /\ Keeps

\* The staged upload must be what it was when it was opened, by descriptor and
\* by name; a commit bound to an expected digest also hashes what it copied.
StagingStillNamed == SameInode("source", op.saw)
StagingUnchanged == disk[op.saw[1]].stamp = op.saw[2] /\ SameIdentity("source", op.saw)
DigestExpected == op.bound => disk[Own].content = Whole(Given)

SyncStaging ==
  /\ op.pc = "sync"
  /\ \/ (op.kind = "commit" => StagingUnchanged /\ DigestExpected) /\ StepTo("verify") /\ UNCHANGED <<named, disk, last>>
     \/ Abandons
  /\ Keeps

VerifyBeforePublish ==
  /\ Running({"create", "commit", "rewrite"}, "verify")
  /\ \/ /\ op.kind = "commit" => StagingUnchanged
        /\ op.kind = "rewrite" => SameIdentity("target", op.saw)
        /\ StepTo("publish") /\ UNCHANGED <<named, disk, last>>
     \/ Abandons
  /\ Keeps

\* renameat2: RENAME_NOREPLACE, except to rewrite.
Publishes == [named EXCEPT !["staging"] = NoInode, !["target"] = Own]
Publish ==
  /\ op.pc = "publish"
  /\ \/ /\ op.kind \in {"create", "commit"} => named["target"] = NoInode
        /\ named' = Publishes
        /\ op' = [op EXCEPT !.pc = IF op.kind \in {"create", "commit"} THEN "identity" ELSE "dirsync",
                            !.effect = TRUE, !.dirty = TRUE]
        /\ UNCHANGED <<disk, last>>
     \/ Abandons
  /\ Keeps

\* captureManagedPublishedIdentity.
BindIdentity ==
  /\ op.pc = "identity"
  /\ \/ named["target"] # NoInode /\ StepTo("dirsync") /\ UNCHANGED last
     \/ Reports("changed", op)
  /\ UNCHANGED <<named, disk>> /\ Keeps

\* syncManagedDirectory, whose failure says that the namespace did change.
SyncFailurePlain(o) == IF o.kind \in {"create", "commit"} THEN "changed" ELSE "plain"
SyncFailure(o) == "changed"
SyncDirectory ==
  /\ op.pc = "dirsync"
  /\ \/ Reports("ok", [op EXCEPT !.dirty = FALSE])
     \/ Reports(SyncFailure(op), op)
  /\ UNCHANGED <<named, disk>> /\ Keeps

(***************************************************************************)
(* RenameNoReplace.                                                        *)
(***************************************************************************)
Rename ==
  /\ Running({"rename"}, "verify")
  /\ \/ SameIdentity("source", op.saw) /\ StepTo("move") /\ UNCHANGED last
     \/ Reports("plain", op)
  /\ UNCHANGED <<named, disk>> /\ Keeps

RenameMoves ==
  /\ Running({"rename"}, "move")
  /\ \/ /\ named["source"] # NoInode /\ named["target"] = NoInode
        /\ named' = [named EXCEPT !["source"] = NoInode, !["target"] = named["source"]]
        /\ op' = [op EXCEPT !.pc = "dirsync", !.effect = TRUE, !.dirty = TRUE] /\ UNCHANGED last
     \/ Reports("plain", op) /\ UNCHANGED named
  /\ UNCHANGED disk /\ Keeps

(***************************************************************************)
(* MkdirAll: one component at a time, each synced when it was created and  *)
(* then opened; what fails after a creation says that something changed.   *)
(***************************************************************************)
MkdirComponent ==
  /\ Running({"mkdir"}, "mkdir")
  /\ \/ op.todo = << >> /\ Reports("ok", op)
     \/ /\ op.todo # << >>
        /\ \E created \in BOOLEAN :
              op' = [op EXCEPT !.todo = Tail(@), !.effect = @ \/ created, !.dirty = created,
                               !.pc = IF created THEN "mksync" ELSE "mkdir"]
        /\ UNCHANGED last
     \/ op.todo # << >> /\ Reports(Failure(op), op)
  /\ UNCHANGED <<named, disk>> /\ Keeps

MkdirSync ==
  /\ Running({"mkdir"}, "mksync")
  /\ \/ op' = [op EXCEPT !.dirty = FALSE, !.pc = "mkopen"] /\ UNCHANGED last
     \/ Reports("changed", op)
  /\ UNCHANGED <<named, disk>> /\ Keeps

MkdirOpen ==
  /\ Running({"mkdir"}, "mkopen")
  /\ \/ StepTo("mkdir") /\ UNCHANGED last
     \/ Reports("changed", op)
  /\ UNCHANGED <<named, disk>> /\ Keeps

(***************************************************************************)
(* Removal.                                                                *)
(***************************************************************************)
\* Remove and RemoveIn: whatever the name leads to by then, a directory apart.
UnlinkName ==
  /\ Running({"unlink"}, "unlink")
  /\ \/ /\ named["source"] # NoInode /\ named' = [named EXCEPT !["source"] = NoInode]
        /\ op' = [op EXCEPT !.pc = "dirsync", !.effect = TRUE, !.dirty = TRUE] /\ UNCHANGED last
     \/ Reports("plain", op) /\ UNCHANGED named
  /\ UNCHANGED disk /\ Keeps

\* Each tree is verified again when its turn comes.
RemoveNext ==
  /\ Running({"remove"}, "verify")
  /\ \/ op.todo = << >> /\ Reports("ok", op)
     \/ /\ op.todo # << >> /\ SameIdentity(Head(op.todo)[1], Head(op.todo)[2])
        /\ StepTo("delete") /\ UNCHANGED last
     \/ op.todo # << >> /\ Reports(Failure(op), op)
  /\ UNCHANGED <<named, disk>> /\ Keeps

\* removeManagedEntryAtPrevalidated: entries first, then the directory, each
\* unlink synced.
\* managedRemovalFailure: by what was unlinked, not by what was renamed.
RemovalFailure(o) == IF o.hit # {} THEN "changed" ELSE "plain"
Tree == IF op.kind = "held" THEN "quarantine" ELSE Head(op.todo)[1]
DeleteEntry ==
  /\ op.pc = "delete"
  /\ LET i == named[Tree] IN
     \/ /\ i # NoInode
        /\ op' = [op EXCEPT !.effect = TRUE, !.dirty = TRUE, !.hit = @ \cup {i}, !.pc = "delsync"]
        /\ IF disk[i].entries > 0
           THEN disk' = [disk EXCEPT ![i].entries = @ - 1, ![i].stamp = @ + 1] /\ UNCHANGED named
           ELSE named' = [named EXCEPT ![Tree] = NoInode] /\ UNCHANGED disk
        /\ UNCHANGED last
     \/ i = NoInode /\ StepTo("deleted") /\ UNCHANGED <<named, disk, last>>
     \/ Reports(RemovalFailure(op), op) /\ UNCHANGED <<named, disk>>
  /\ Keeps

DeleteSync ==
  /\ op.pc = "delsync"
  /\ \/ /\ op' = [op EXCEPT !.dirty = FALSE, !.pc = IF named[Tree] = NoInode THEN "deleted" ELSE "delete"]
        /\ UNCHANGED last
     \/ Reports("changed", op)
  /\ UNCHANGED <<named, disk>> /\ Keeps

Deleted ==
  /\ op.pc = "deleted"
  /\ op' = IF op.kind = "held" THEN [op EXCEPT !.pc = "dirsync"]
           ELSE [op EXCEPT !.pc = "verify", !.todo = Tail(@)]
  /\ UNCHANGED <<named, disk, last>> /\ Keeps

\* RemoveHeldTree: an absent name is taken for removed; the name must lead to
\* the held directory before it is quarantined, and the quarantine again.
HeldLookup ==
  /\ Running({"held"}, "lookup")
  /\ \/ named["source"] = NoInode /\ Reports("ok", op)
     \/ named["source"] # NoInode /\ SameInode("source", op.saw) /\ StepTo("quarantine") /\ UNCHANGED last
     \/ Reports("plain", op)
  /\ UNCHANGED <<named, disk>> /\ Keeps

Quarantine ==
  /\ Running({"held"}, "quarantine")
  /\ \/ /\ named["source"] # NoInode
        /\ named' = [named EXCEPT !["source"] = NoInode, !["quarantine"] = named["source"]]
        /\ op' = [op EXCEPT !.pc = "judge", !.effect = TRUE, !.dirty = TRUE] /\ UNCHANGED last
     \/ Reports("plain", op) /\ UNCHANGED named
  /\ UNCHANGED disk /\ Keeps

\* What was quarantined is not the held directory: it is put back, or kept.
QuarantineJudged ==
  \/ SameInode("quarantine", op.saw) /\ StepTo("delete") /\ UNCHANGED <<named, last>>
  \/ SameInode("quarantine", op.saw) /\ Reports("plain", op) /\ UNCHANGED named
  \/ /\ ~SameInode("quarantine", op.saw) /\ named["source"] = NoInode
     /\ named' = [named EXCEPT !["quarantine"] = NoInode, !["source"] = named["quarantine"]]
     /\ Reports("plain", [op EXCEPT !.effect = FALSE])
  \/ ~SameInode("quarantine", op.saw) /\ Reports("plain", op) /\ UNCHANGED named

JudgeQuarantine ==
  /\ Running({"held"}, "judge") /\ QuarantineJudged /\ UNCHANGED disk /\ Keeps

(***************************************************************************)
(* Strangers.                                                              *)
(***************************************************************************)
Strange == strange < MaxStrange /\ strange' = strange + 1 /\ UNCHANGED <<op, last, held, ops>>
StrangerEdits(i) ==
  /\ Strange /\ disk' = [disk EXCEPT ![i].content = Whole(Edited), ![i].stamp = @ + 1] /\ UNCHANGED named
StrangerUnlinks(n) == Strange /\ named' = [named EXCEPT ![n] = NoInode] /\ UNCHANGED disk
StrangerSwaps ==
  /\ Strange /\ UNCHANGED disk
  /\ named' = [named EXCEPT !["source"] = named["target"], !["target"] = named["source"]]

MutationNext ==
  \/ BeginMutation
  \/ Stage \/ WriteStaging \/ AbortCreate \/ SyncStaging \/ VerifyBeforePublish \/ Publish
  \/ BindIdentity \/ SyncDirectory \/ Rename \/ RenameMoves \/ MkdirComponent \/ MkdirSync \/ MkdirOpen
  \/ UnlinkName \/ RemoveNext \/ DeleteEntry \/ DeleteSync \/ Deleted \/ HeldLookup \/ Quarantine \/ JudgeQuarantine
  \/ \E i \in {Given, Other} : StrangerEdits(i)
  \/ \E n \in {"source", "target"} : StrangerUnlinks(n)
  \/ StrangerSwaps

MutationSpec == MutationInit /\ [][MutationNext]_mutationVars

(***************************************************************************)
(* Properties.                                                             *)
(***************************************************************************)
\* Whatever strangers do to its name, removing a held staging tree deletes
\* nothing that is not in the tree the session holds.
HeldTreeOnly ==
  /\ op.kind = "held" => op.hit \subseteq {held}
  /\ last.kind = "held" => last.hit \subseteq {held}

\* What a commit puts at the target is one whole version of the staged upload,
\* and with an expected identity and digest exactly the version that was
\* assembled, although strangers write the staging file during the copy.
CommitWhole ==
  op.kind = "commit" /\ op.effect =>
     /\ disk[Own].content \in {Whole(c) : c \in MutationInodes \cup {Edited, New}}
     /\ op.bound => disk[Own].content = Whole(Given)

\* An operation that reports success has synced all it changed, and one that
\* fails without saying that something changed has changed nothing, so that
\* its caller may try again.  The removal of a held tree is judged apart.
MutationReported ==
  last.kind # "held" =>
     /\ last.outcome = "ok" => ~last.dirty
     /\ last.outcome = "plain" => ~last.effect

\* The same of the removal of a held tree.
HeldRemovalReported ==
  last.kind = "held" /\ last.outcome = "plain" => ~last.effect

\* A mutation acts on the very objects it was asked to: it removes the tree it
\* held, and publishes the bytes it verified.
MutationsExact == HeldTreeOnly /\ CommitWhole

=============================================================================

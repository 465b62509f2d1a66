--------------------------- MODULE TransferProofs ---------------------------
(***************************************************************************)
(* One transfer of a file, for every number of candidate names, of acts of *)
(* other programs and of failing calls.                                    *)
(***************************************************************************)
EXTENDS ManagedTransfer, TLAPS

TransferSteps == {"begin", "check", "rename", "renamed", "mkdir", "sync", "copy", "copy2", "stage",
                  "publish", "published", "retain", "target", "compare", "exchange", "exchanged",
                  "unlink", "clean", "rmdir", "done", "dead"}
Jobs == [style : {"skip", "rename", "replace"}, move : BOOLEAN, samefs : BOOLEAN, eligible : BOOLEAN]

(* No copy exists yet; the copy is the private entry; the names changed.   *)
Early == {"begin", "check", "rename", "renamed", "mkdir", "sync", "copy"}
Staged == {"copy2", "stage", "publish", "target", "compare", "exchange"}
Acted == {"renamed", "published", "retain", "exchanged", "unlink"}

(* Of the inodes up to n, none has two of the names s, d[c] and e.         *)
Namespace(n, s, d, e) ==
  /\ s \in 0 .. n /\ e \in 0 .. n /\ d \in [Candidates -> 0 .. n]
  /\ s # NoObject => s # e /\ \A c \in Candidates : d[c] # s
  /\ e # NoObject => \A c \in Candidates : d[c] # e
  /\ \A b, c \in Candidates : d[b] = d[c] /\ d[b] # NoObject => b = c

(* What is in o has one of the names.                                      *)
Held(s, d, e, o) ==
  \A i \in o : i # NoObject /\ (i = s \/ i = e \/ \E c \in Candidates : d[c] = i)

TransferTypes ==
  /\ edits \in Nat /\ edits <= MaxEdits
  /\ objectsMade \in Nat /\ 3 <= objectsMade /\ objectsMade <= 3 + edits
  /\ stamp \in Nat /\ 2 <= stamp /\ stamp <= 2 + edits
  /\ data \in [Inodes -> Contents] /\ \A i \in Inodes : data[i] <= stamp
  /\ job \in Jobs /\ transferStep \in TransferSteps
  /\ candidate \in Candidates /\ (candidate = 0 \/ job.style = "rename")
  /\ snap \in [ino : 0 .. objectsMade, tok : Contents] /\ snap.tok <= stamp /\ snap.ino # Copy
  /\ transaction \in BOOLEAN /\ acted \in BOOLEAN
  /\ verdict \in Outcomes /\ outcome \in Outcomes

(* Until it is published the copy is nobody's and has no public name, and  *)
(* from the comparison on it is what the source was when it was pinned.    *)
CopyPrivate ==
  /\ transferStep \in Early => entry = NoObject
  /\ transferStep \in Staged => entry = Copy
  /\ transferStep \in Early \cup Staged =>
       src # Copy /\ Copy \notin owed /\ \A c \in Candidates : dst[c] # Copy
  /\ transferStep = "copy2" => (data[snap.ino] = snap.tok => seen = snap.tok)
  /\ transferStep \in Staged \ {"copy2"} => data[Copy] = snap.tok
  /\ transferStep = "published" => entry = NoObject
  /\ transferStep = "clean" => entry \notin owed

(* What the call knows of the namespace before it answers.                 *)
StepKnows ==
  /\ transferStep # "done" => outcome = "none"
  /\ transferStep = "begin" => snap = NoStat
  /\ transferStep \notin {"begin", "done", "dead"} => snap.ino # NoObject
  /\ transferStep \in {"check", "rename", "renamed"} => job.move
  /\ transferStep \in {"target", "compare", "exchange"} => job.style = "replace"
  /\ transferStep \in Early \ {"sync", "copy"} => ~transaction
  /\ transferStep \in (Early \cup Staged) \ {"renamed"} => ~acted
  /\ transferStep \in Acted => acted
  /\ transferStep = "renamed" => src # Source
  /\ transferStep \in {"clean", "rmdir"} =>
       /\ verdict \in {"failed", "skipped"} => ~acted
       /\ verdict = "ok" => acted /\ ~job.move

TransferInv ==
  /\ TransferTypes /\ Namespace(objectsMade, src, dst, entry) /\ Held(src, dst, entry, owed)
  /\ CopyPrivate /\ StepKnows /\ OutcomeHonest

(***************************************************************************)
(* Steps that touch no name and no file.                                   *)
(***************************************************************************)
Quiet == UNCHANGED <<src, dst, entry, data, objectsMade, stamp, snap, seen, owed, job, edits, acted>>

LEMMA QuietKeeps ==
  ASSUME TransferInv, Quiet,
         transferStep' \in TransferSteps, transaction' \in BOOLEAN, verdict' \in Outcomes, outcome' \in Outcomes,
         candidate' \in Candidates, candidate' = 0 \/ job.style = "rename",
         CopyPrivate', StepKnows', OutcomeHonest'
  PROVE  TransferInv'
<1>1. TransferTypes'
  BY Zenon DEF TransferInv, TransferTypes, Quiet
<1>2. Namespace(objectsMade, src, dst, entry)' /\ Held(src, dst, entry, owed)'
  BY Zenon DEF TransferInv, Quiet
<1>. QED BY <1>1, <1>2, Zenon DEF TransferInv

(* The call answers. *)
LEMMA FinishKeeps ==
  ASSUME TransferInv, Quiet, UNCHANGED <<candidate, verdict>>, transferStep' = "done",
         transaction' \in BOOLEAN, outcome' \in Outcomes, OutcomeHonest'
  PROVE  TransferInv'
<1>1. CopyPrivate' /\ StepKnows'
  BY Zenon DEF CopyPrivate, StepKnows, Early, Staged, Acted
<1>. QED BY <1>1, QuietKeeps, Zenon DEF TransferInv, TransferTypes, TransferSteps

(* The call gives up what it staged. *)
LEMMA CleanKeeps ==
  ASSUME TransferInv, Quiet, UNCHANGED <<candidate, transaction, outcome>>, transferStep' = "clean",
         transferStep \in (Early \ {"begin"}) \cup Staged \cup {"published"}, verdict' \in Outcomes,
         verdict' \in {"failed", "skipped"} => ~acted, verdict' = "ok" => acted /\ ~job.move
  PROVE  TransferInv'
<1>1. snap.ino # NoObject /\ outcome = "none"
  BY Zenon DEF TransferInv, StepKnows, Early, Staged
<1>2. entry = NoObject \/ (entry = Copy /\ Copy \notin owed)
  BY Zenon DEF TransferInv, CopyPrivate
<1>3. entry \notin owed
  BY <1>2, Zenon DEF TransferInv, Held
<1>4. CopyPrivate' /\ StepKnows'
  BY <1>1, <1>3, Zenon DEF Quiet, CopyPrivate, StepKnows, Early, Staged, Acted
<1>5. OutcomeHonest'
  BY <1>1, Zenon DEF OutcomeHonest
<1>. QED BY <1>4, <1>5, QuietKeeps, Zenon DEF TransferInv, TransferTypes, TransferSteps

(* The call goes on. *)
LEMMA GotoKeeps ==
  ASSUME TransferInv, Quiet, UNCHANGED <<verdict, outcome>>, transferStep # "done",
         transferStep' \in TransferSteps, transaction' \in BOOLEAN,
         candidate' \in Candidates, candidate' = 0 \/ job.style = "rename", CopyPrivate', StepKnows'
  PROVE  TransferInv'
<1>1. outcome' = "none"
  BY Zenon DEF TransferInv, StepKnows
<1>2. OutcomeHonest'
  BY <1>1, Zenon DEF OutcomeHonest
<1>. QED BY <1>2, QuietKeeps, Zenon DEF TransferInv, TransferTypes

(***************************************************************************)
(* The move by rename.                                                     *)
(***************************************************************************)
LEMMA CheckSourceKeeps ==
  ASSUME TransferInv, CheckSource
  PROVE  TransferInv'
<1>1. Quiet /\ transferStep = "check" /\ UNCHANGED <<transaction, candidate, verdict>>
  BY Zenon DEF CheckSource, Quiet, names, files, memo, ghosts, Goto, Finish
<1>2. \/ transferStep' = "rename" /\ UNCHANGED outcome
      \/ transferStep' = "done" /\ outcome' = "failed"
  BY Zenon DEF CheckSource, Goto, Finish
<1>3. CASE transferStep' = "rename" /\ UNCHANGED outcome
  <2>1. CopyPrivate' /\ StepKnows'
    BY <1>1, <1>3, Zenon DEF TransferInv, CopyPrivate, StepKnows, Quiet, Early, Staged, Acted
  <2>. QED BY <1>1, <1>3, <2>1, GotoKeeps, Zenon DEF TransferInv, TransferTypes, TransferSteps
<1>4. CASE transferStep' = "done" /\ outcome' = "failed"
  <2>1. OutcomeHonest'
    BY <1>1, <1>4, Zenon DEF TransferInv, CopyPrivate, StepKnows, OutcomeHonest, Quiet, Early
  <2>. QED BY <1>1, <1>4, <2>1, FinishKeeps, Zenon DEF TransferInv, TransferTypes, Outcomes
<1>. QED BY <1>2, <1>3, <1>4, Zenon

LEMMA RenameSourceFailsKeeps ==
  ASSUME TransferInv, RenameSourceFails
  PROVE  TransferInv'
<1>1. Quiet /\ transferStep = "rename" /\ UNCHANGED <<transaction, verdict>>
  BY Zenon DEF RenameSourceFails, Quiet, names, files, memo, ghosts, Goto, Finish, NextName, NamesSpent
<1>2. \/ transferStep' = "mkdir" /\ UNCHANGED outcome /\ UNCHANGED candidate
      \/ transferStep' = "done" /\ outcome' = "failed" /\ UNCHANGED candidate
      \/ transferStep' = "done" /\ outcome' = "skipped" /\ UNCHANGED candidate
      \/ transferStep' = "check" /\ UNCHANGED outcome /\ candidate' = candidate + 1 /\ candidate < LastCandidate /\ job.style = "rename"
  BY Zenon DEF RenameSourceFails, Goto, Finish, NextName, NamesSpent
<1>3. CASE transferStep' = "mkdir" /\ UNCHANGED outcome /\ UNCHANGED candidate
  <2>1. CopyPrivate' /\ StepKnows'
    BY <1>1, <1>3, Zenon DEF TransferInv, CopyPrivate, StepKnows, Quiet, Early, Staged, Acted
  <2>. QED BY <1>1, <1>3, <2>1, GotoKeeps, Zenon DEF TransferInv, TransferTypes, TransferSteps
<1>4. CASE transferStep' = "done" /\ outcome' = "failed" /\ UNCHANGED candidate
  <2>1. OutcomeHonest'
    BY <1>1, <1>4, Zenon DEF TransferInv, CopyPrivate, StepKnows, OutcomeHonest, Quiet, Early, Staged, Acted
  <2>. QED BY <1>1, <1>4, <2>1, FinishKeeps, Zenon DEF TransferInv, TransferTypes, Outcomes
<1>5. CASE transferStep' = "done" /\ outcome' = "skipped" /\ UNCHANGED candidate
  <2>1. OutcomeHonest'
    BY <1>1, <1>5, Zenon DEF TransferInv, CopyPrivate, StepKnows, OutcomeHonest, Quiet, Early, Staged, Acted
  <2>. QED BY <1>1, <1>5, <2>1, FinishKeeps, Zenon DEF TransferInv, TransferTypes, Outcomes
<1>6. CASE transferStep' = "check" /\ UNCHANGED outcome /\ candidate' = candidate + 1 /\ candidate < LastCandidate /\ job.style = "rename"
  <2>1. CopyPrivate' /\ StepKnows'
    BY <1>1, <1>6, Zenon DEF TransferInv, CopyPrivate, StepKnows, Quiet, Early, Staged, Acted
  <2>2. candidate' \in Candidates
    BY <1>6, TransferAssumption DEF TransferInv, TransferTypes, Candidates
  <2>. QED BY <1>1, <1>6, <2>1, <2>2, GotoKeeps, Zenon DEF TransferInv, TransferTypes, TransferSteps
<1>. QED BY <1>2, <1>3, <1>4, <1>5, <1>6, Zenon

LEMMA RenamedSourceKeeps ==
  ASSUME TransferInv, RenamedSource
  PROVE  TransferInv'
<1>1. Quiet /\ transferStep = "renamed" /\ UNCHANGED <<transaction, candidate, verdict>>
  BY Zenon DEF RenamedSource, Quiet, names, files, memo, ghosts, Finish
<1>2. \/ transferStep' = "done" /\ outcome' = "ok"
      \/ transferStep' = "done" /\ outcome' = "broken"
  BY Zenon DEF RenamedSource, Finish
<1>3. CASE transferStep' = "done" /\ outcome' = "ok"
  <2>1. OutcomeHonest'
    BY <1>1, <1>3, Zenon DEF TransferInv, CopyPrivate, StepKnows, OutcomeHonest, Quiet, Early, Staged, Acted
  <2>. QED BY <1>1, <1>3, <2>1, FinishKeeps, Zenon DEF TransferInv, TransferTypes, Outcomes
<1>4. CASE transferStep' = "done" /\ outcome' = "broken"
  <2>1. OutcomeHonest'
    BY <1>1, <1>4, Zenon DEF TransferInv, CopyPrivate, StepKnows, OutcomeHonest, Quiet, Early, Staged, Acted
  <2>. QED BY <1>1, <1>4, <2>1, FinishKeeps, Zenon DEF TransferInv, TransferTypes, Outcomes
<1>. QED BY <1>2, <1>3, <1>4, Zenon

(***************************************************************************)
(* The copy.                                                               *)
(***************************************************************************)
LEMMA SyncTransactionKeeps ==
  ASSUME TransferInv, SyncTransaction
  PROVE  TransferInv'
<1>1. Quiet /\ transferStep = "sync" /\ UNCHANGED <<transaction, candidate, verdict>>
  BY Zenon DEF SyncTransaction, Quiet, names, files, memo, ghosts, Goto, Finish
<1>2. \/ transferStep' = "copy" /\ UNCHANGED outcome
      \/ transferStep' = "done" /\ outcome' = "broken"
  BY Zenon DEF SyncTransaction, Goto, Finish
<1>3. CASE transferStep' = "copy" /\ UNCHANGED outcome
  <2>1. CopyPrivate' /\ StepKnows'
    BY <1>1, <1>3, Zenon DEF TransferInv, CopyPrivate, StepKnows, Quiet, Early, Staged, Acted
  <2>. QED BY <1>1, <1>3, <2>1, GotoKeeps, Zenon DEF TransferInv, TransferTypes, TransferSteps
<1>4. CASE transferStep' = "done" /\ outcome' = "broken"
  <2>1. OutcomeHonest'
    BY <1>1, <1>4, Zenon DEF TransferInv, CopyPrivate, StepKnows, OutcomeHonest, Quiet, Early, Staged, Acted
  <2>. QED BY <1>1, <1>4, <2>1, FinishKeeps, Zenon DEF TransferInv, TransferTypes, Outcomes
<1>. QED BY <1>2, <1>3, <1>4, Zenon

LEMMA SyncStagedKeeps ==
  ASSUME TransferInv, SyncStaged
  PROVE  TransferInv'
<1>1. Quiet /\ transferStep = "stage" /\ UNCHANGED <<transaction, candidate>>
  BY Zenon DEF SyncStaged, Quiet, names, files, memo, ghosts, Goto, Finish, Cleanup
<1>2. \/ transferStep' = "publish" /\ UNCHANGED <<outcome, verdict>>
      \/ transferStep' = "clean" /\ verdict' = "failed" /\ UNCHANGED outcome
      \/ transferStep' = "done" /\ outcome' = "broken" /\ UNCHANGED verdict
  BY Zenon DEF SyncStaged, Goto, Finish, Cleanup
<1>3. CASE transferStep' = "publish" /\ UNCHANGED <<outcome, verdict>>
  <2>1. CopyPrivate' /\ StepKnows'
    BY <1>1, <1>3, Zenon DEF TransferInv, CopyPrivate, StepKnows, Quiet, Early, Staged, Acted
  <2>. QED BY <1>1, <1>3, <2>1, GotoKeeps, Zenon DEF TransferInv, TransferTypes, TransferSteps
<1>4. CASE transferStep' = "clean" /\ verdict' = "failed" /\ UNCHANGED outcome
  BY <1>1, <1>4, CleanKeeps, Zenon DEF TransferInv, StepKnows, Early, Staged, Acted, Outcomes
<1>5. CASE transferStep' = "done" /\ outcome' = "broken" /\ UNCHANGED verdict
  <2>1. OutcomeHonest'
    BY <1>1, <1>5, Zenon DEF TransferInv, CopyPrivate, StepKnows, OutcomeHonest, Quiet, Early, Staged, Acted
  <2>. QED BY <1>1, <1>5, <2>1, FinishKeeps, Zenon DEF TransferInv, TransferTypes, Outcomes
<1>. QED BY <1>2, <1>3, <1>4, <1>5, Zenon

LEMMA PublishFailsKeeps ==
  ASSUME TransferInv, PublishFails
  PROVE  TransferInv'
<1>1. Quiet /\ transferStep = "publish" /\ UNCHANGED transaction
  BY Zenon DEF PublishFails, Quiet, names, files, memo, ghosts, Goto, Finish, Cleanup, NextName, NamesSpent
<1>2. \/ transferStep' = "done" /\ outcome' = "broken" /\ UNCHANGED verdict /\ UNCHANGED candidate
      \/ transferStep' = "clean" /\ verdict' = "failed" /\ UNCHANGED outcome /\ UNCHANGED candidate
      \/ transferStep' = "clean" /\ verdict' = "skipped" /\ UNCHANGED outcome /\ UNCHANGED candidate
      \/ transferStep' = "publish" /\ UNCHANGED <<outcome, verdict>> /\ candidate' = candidate + 1 /\ candidate < LastCandidate /\ job.style = "rename"
      \/ transferStep' = "target" /\ UNCHANGED <<outcome, verdict>> /\ job.style = "replace" /\ UNCHANGED candidate
  BY Zenon DEF PublishFails, Goto, Finish, Cleanup, NextName, NamesSpent
<1>3. CASE transferStep' = "done" /\ outcome' = "broken" /\ UNCHANGED verdict /\ UNCHANGED candidate
  <2>1. OutcomeHonest'
    BY <1>1, <1>3, Zenon DEF TransferInv, CopyPrivate, StepKnows, OutcomeHonest, Quiet, Early, Staged, Acted
  <2>. QED BY <1>1, <1>3, <2>1, FinishKeeps, Zenon DEF TransferInv, TransferTypes, Outcomes
<1>4. CASE transferStep' = "clean" /\ verdict' = "failed" /\ UNCHANGED outcome /\ UNCHANGED candidate
  BY <1>1, <1>4, CleanKeeps, Zenon DEF TransferInv, StepKnows, Early, Staged, Acted, Outcomes
<1>5. CASE transferStep' = "clean" /\ verdict' = "skipped" /\ UNCHANGED outcome /\ UNCHANGED candidate
  BY <1>1, <1>5, CleanKeeps, Zenon DEF TransferInv, StepKnows, Early, Staged, Acted, Outcomes
<1>6. CASE transferStep' = "publish" /\ UNCHANGED <<outcome, verdict>> /\ candidate' = candidate + 1 /\ candidate < LastCandidate /\ job.style = "rename"
  <2>1. CopyPrivate' /\ StepKnows'
    BY <1>1, <1>6, Zenon DEF TransferInv, CopyPrivate, StepKnows, Quiet, Early, Staged, Acted
  <2>2. candidate' \in Candidates
    BY <1>6, TransferAssumption DEF TransferInv, TransferTypes, Candidates
  <2>. QED BY <1>1, <1>6, <2>1, <2>2, GotoKeeps, Zenon DEF TransferInv, TransferTypes, TransferSteps
<1>7. CASE transferStep' = "target" /\ UNCHANGED <<outcome, verdict>> /\ job.style = "replace" /\ UNCHANGED candidate
  <2>1. CopyPrivate' /\ StepKnows'
    BY <1>1, <1>7, Zenon DEF TransferInv, CopyPrivate, StepKnows, Quiet, Early, Staged, Acted
  <2>. QED BY <1>1, <1>7, <2>1, GotoKeeps, Zenon DEF TransferInv, TransferTypes, TransferSteps
<1>. QED BY <1>2, <1>3, <1>4, <1>5, <1>6, <1>7, Zenon

LEMMA PublishedKeeps ==
  ASSUME TransferInv, Published
  PROVE  TransferInv'
<1>1. Quiet /\ transferStep = "published" /\ UNCHANGED <<transaction, candidate>>
  BY Zenon DEF Published, Quiet, names, files, memo, ghosts, Finish, Cleanup, Success
<1>2. \/ transferStep' = "clean" /\ verdict' = "ok" /\ UNCHANGED outcome /\ ~job.move
      \/ transferStep' = "clean" /\ verdict' = "broken" /\ UNCHANGED outcome
      \/ transferStep' = "done" /\ outcome' = "broken" /\ UNCHANGED verdict
  BY Zenon DEF Published, Finish, Cleanup, Success
<1>3. CASE transferStep' = "clean" /\ verdict' = "ok" /\ UNCHANGED outcome /\ ~job.move
  BY <1>1, <1>3, CleanKeeps, Zenon DEF TransferInv, StepKnows, Early, Staged, Acted, Outcomes
<1>4. CASE transferStep' = "clean" /\ verdict' = "broken" /\ UNCHANGED outcome
  BY <1>1, <1>4, CleanKeeps, Zenon DEF TransferInv, StepKnows, Early, Staged, Acted, Outcomes
<1>5. CASE transferStep' = "done" /\ outcome' = "broken" /\ UNCHANGED verdict
  <2>1. OutcomeHonest'
    BY <1>1, <1>5, Zenon DEF TransferInv, CopyPrivate, StepKnows, OutcomeHonest, Quiet, Early, Staged, Acted
  <2>. QED BY <1>1, <1>5, <2>1, FinishKeeps, Zenon DEF TransferInv, TransferTypes, Outcomes
<1>. QED BY <1>2, <1>3, <1>4, <1>5, Zenon

LEMMA RetainKeeps ==
  ASSUME TransferInv, Retain
  PROVE  TransferInv'
<1>1. Quiet /\ transferStep = "retain" /\ UNCHANGED <<transaction, candidate, verdict>>
  BY Zenon DEF Retain, Quiet, names, files, memo, ghosts, Finish
<1>2. transferStep' = "done" /\ outcome' = "broken"
  BY Zenon DEF Retain, Finish
<1>3. CASE transferStep' = "done" /\ outcome' = "broken"
  <2>1. OutcomeHonest'
    BY <1>1, <1>3, Zenon DEF TransferInv, CopyPrivate, StepKnows, OutcomeHonest, Quiet, Early, Staged, Acted
  <2>. QED BY <1>1, <1>3, <2>1, FinishKeeps, Zenon DEF TransferInv, TransferTypes, Outcomes
<1>. QED BY <1>2, <1>3, Zenon

LEMMA PinTargetKeeps ==
  ASSUME TransferInv, PinTarget
  PROVE  TransferInv'
<1>1. Quiet /\ transferStep = "target" /\ UNCHANGED <<transaction, candidate, outcome>>
  BY Zenon DEF PinTarget, Quiet, names, files, memo, ghosts, Goto, Cleanup
<1>2. \/ transferStep' = "compare" /\ UNCHANGED verdict
      \/ transferStep' = "clean" /\ verdict' = "failed"
  BY Zenon DEF PinTarget, Goto, Cleanup
<1>3. CASE transferStep' = "compare" /\ UNCHANGED verdict
  <2>1. CopyPrivate' /\ StepKnows'
    BY <1>1, <1>3, Zenon DEF TransferInv, CopyPrivate, StepKnows, Quiet, Early, Staged, Acted
  <2>. QED BY <1>1, <1>3, <2>1, GotoKeeps, Zenon DEF TransferInv, TransferTypes, TransferSteps
<1>4. CASE transferStep' = "clean" /\ verdict' = "failed"
  BY <1>1, <1>4, CleanKeeps, Zenon DEF TransferInv, StepKnows, Early, Staged, Acted, Outcomes
<1>. QED BY <1>2, <1>3, <1>4, Zenon

LEMMA CompareTargetKeeps ==
  ASSUME TransferInv, CompareTarget
  PROVE  TransferInv'
<1>1. Quiet /\ transferStep = "compare" /\ UNCHANGED <<transaction, candidate>>
  BY Zenon DEF CompareTarget, Quiet, names, files, memo, ghosts, Goto, Finish, Cleanup
<1>2. \/ transferStep' = "exchange" /\ UNCHANGED <<outcome, verdict>>
      \/ transferStep' = "clean" /\ verdict' = "failed" /\ UNCHANGED outcome
      \/ transferStep' = "done" /\ outcome' = "broken" /\ UNCHANGED verdict
  BY Zenon DEF CompareTarget, Goto, Finish, Cleanup
<1>3. CASE transferStep' = "exchange" /\ UNCHANGED <<outcome, verdict>>
  <2>1. CopyPrivate' /\ StepKnows'
    BY <1>1, <1>3, Zenon DEF TransferInv, CopyPrivate, StepKnows, Quiet, Early, Staged, Acted
  <2>. QED BY <1>1, <1>3, <2>1, GotoKeeps, Zenon DEF TransferInv, TransferTypes, TransferSteps
<1>4. CASE transferStep' = "clean" /\ verdict' = "failed" /\ UNCHANGED outcome
  BY <1>1, <1>4, CleanKeeps, Zenon DEF TransferInv, StepKnows, Early, Staged, Acted, Outcomes
<1>5. CASE transferStep' = "done" /\ outcome' = "broken" /\ UNCHANGED verdict
  <2>1. OutcomeHonest'
    BY <1>1, <1>5, Zenon DEF TransferInv, CopyPrivate, StepKnows, OutcomeHonest, Quiet, Early, Staged, Acted
  <2>. QED BY <1>1, <1>5, <2>1, FinishKeeps, Zenon DEF TransferInv, TransferTypes, Outcomes
<1>. QED BY <1>2, <1>3, <1>4, <1>5, Zenon

LEMMA ExchangedKeeps ==
  ASSUME TransferInv, Exchanged
  PROVE  TransferInv'
<1>1. Quiet /\ transferStep = "exchanged" /\ UNCHANGED <<transaction, candidate, verdict>>
  BY Zenon DEF Exchanged, Quiet, names, files, memo, ghosts, Goto, Finish
<1>2. \/ transferStep' = "unlink" /\ UNCHANGED outcome
      \/ transferStep' = "done" /\ outcome' = "broken"
  BY Zenon DEF Exchanged, Goto, Finish
<1>3. CASE transferStep' = "unlink" /\ UNCHANGED outcome
  <2>1. CopyPrivate' /\ StepKnows'
    BY <1>1, <1>3, Zenon DEF TransferInv, CopyPrivate, StepKnows, Quiet, Early, Staged, Acted
  <2>. QED BY <1>1, <1>3, <2>1, GotoKeeps, Zenon DEF TransferInv, TransferTypes, TransferSteps
<1>4. CASE transferStep' = "done" /\ outcome' = "broken"
  <2>1. OutcomeHonest'
    BY <1>1, <1>4, Zenon DEF TransferInv, CopyPrivate, StepKnows, OutcomeHonest, Quiet, Early, Staged, Acted
  <2>. QED BY <1>1, <1>4, <2>1, FinishKeeps, Zenon DEF TransferInv, TransferTypes, Outcomes
<1>. QED BY <1>2, <1>3, <1>4, Zenon

LEMMA DieKeeps ==
  ASSUME TransferInv, Die
  PROVE  TransferInv'
<1>1. Quiet /\ transferStep # "done" /\ transferStep' = "dead" /\ UNCHANGED <<transaction, candidate, verdict, outcome>>
  BY Zenon DEF Die, Quiet, names, files, memo, ghosts
<1>2. CopyPrivate' /\ StepKnows'
  BY <1>1, Zenon DEF TransferInv, CopyPrivate, StepKnows, Early, Staged, Acted
<1>. QED BY <1>1, <1>2, GotoKeeps, Zenon DEF TransferInv, TransferTypes, TransferSteps

LEMMA CreateTransferTransactionKeeps ==
  ASSUME TransferInv, CreateTransferTransaction
  PROVE  TransferInv'
<1>1. Quiet /\ transferStep = "mkdir" /\ UNCHANGED <<candidate, verdict>>
  BY Zenon DEF CreateTransferTransaction, Quiet, files, memo, ghosts, Goto, Finish
<1>2. \/ transferStep' = "sync" /\ transaction' = TRUE /\ UNCHANGED outcome
      \/ transferStep' = "done" /\ outcome' = "failed" /\ transaction' = FALSE
      \/ transferStep' = "done" /\ outcome' = "failed" /\ transaction' = TRUE /\ ~job.eligible
      \/ transferStep' = "done" /\ outcome' = "broken" /\ transaction' = TRUE
  BY Zenon DEF CreateTransferTransaction, Goto, Finish
<1>3. CASE transferStep' = "sync" /\ transaction' = TRUE /\ UNCHANGED outcome
  <2>1. CopyPrivate' /\ StepKnows'
    BY <1>1, <1>3, Zenon DEF TransferInv, CopyPrivate, StepKnows, Quiet, Early, Staged, Acted
  <2>. QED BY <1>1, <1>3, <2>1, GotoKeeps, Zenon DEF TransferInv, TransferTypes, TransferSteps
<1>4. CASE transferStep' = "done" /\ outcome' \in {"failed", "broken"} /\ (outcome' = "failed" /\ transaction' => ~job.eligible)
           /\ transaction' \in BOOLEAN
  <2>1. OutcomeHonest'
    BY <1>1, <1>4, Zenon DEF TransferInv, CopyPrivate, StepKnows, OutcomeHonest, Quiet, Early
  <2>. QED BY <1>1, <1>4, <2>1, FinishKeeps, Zenon DEF Outcomes
<1>. QED BY <1>2, <1>3, <1>4, Zenon

LEMMA RemoveTransferTransactionKeeps ==
  ASSUME TransferInv, RemoveTransferTransaction
  PROVE  TransferInv'
<1>1. /\ Quiet /\ transferStep = "rmdir" /\ transferStep' = "done" /\ UNCHANGED <<candidate, verdict>>
      /\ (outcome' = verdict /\ transaction' = FALSE /\ entry = NoObject) \/ (outcome' = "broken" /\ transaction' \in BOOLEAN)
  BY Zenon DEF RemoveTransferTransaction, Quiet, files, memo, ghosts, Finish
<1>2. OutcomeHonest'
  BY <1>1, Zenon DEF TransferInv, CopyPrivate, StepKnows, OutcomeHonest, Quiet
<1>. QED BY <1>1, <1>2, FinishKeeps, Zenon DEF TransferInv, TransferTypes, Outcomes

LEMMA BeginKeeps ==
  ASSUME TransferInv, Begin
  PROVE  TransferInv'
<1>1. /\ transferStep = "begin" /\ UNCHANGED <<src, dst, transaction, entry, data, objectsMade, stamp, seen, owed, acted, job, candidate, edits, verdict>>
      /\ \/ /\ src # NoObject /\ snap' = StatOf(src) /\ UNCHANGED outcome
            /\ transferStep' \in {"check", "mkdir"} /\ (transferStep' = "check" => job.move)
         \/ transferStep' = "done" /\ outcome' = "failed" /\ UNCHANGED snap
  BY Zenon DEF Begin, names, files, ghosts, Goto, Finish
<1>2. CASE /\ src # NoObject /\ snap' = StatOf(src) /\ UNCHANGED outcome
           /\ transferStep' \in {"check", "mkdir"} /\ (transferStep' = "check" => job.move)
  <2>1. src \in Inodes /\ src <= objectsMade /\ src # Copy
    BY <1>1, <1>2, TransferAssumption
       DEF TransferInv, TransferTypes, Namespace, NoObject, Inodes, CopyPrivate, Early
  <2>2. /\ snap' \in [ino : 0 .. objectsMade, tok : Contents] /\ snap'.ino = src /\ snap'.tok = data[src]
        /\ data[src] <= stamp
    BY <1>2, <2>1 DEF StatOf, TransferInv, TransferTypes, Inodes
  <2>3. TransferTypes'
    BY <1>1, <1>2, <2>1, <2>2, Zenon DEF TransferInv, TransferTypes, TransferSteps
  <2>4. CopyPrivate'
    BY <1>1, <1>2, Zenon DEF TransferInv, CopyPrivate, Early, Staged
  <2>5. StepKnows'
    BY <1>1, <1>2, <2>2, Zenon DEF TransferInv, StepKnows, Early, Staged, Acted
  <2>6. OutcomeHonest'
    BY <1>1, <1>2, Zenon DEF TransferInv, StepKnows, OutcomeHonest
  <2>. QED BY <1>1, <2>3, <2>4, <2>5, <2>6, Zenon DEF TransferInv
<1>3. CASE transferStep' = "done" /\ outcome' = "failed" /\ UNCHANGED snap
  <2>1. OutcomeHonest'
    BY <1>1, <1>3, Zenon DEF TransferInv, CopyPrivate, StepKnows, OutcomeHonest, Early
  <2>. QED BY <1>1, <1>3, <2>1, FinishKeeps, Zenon DEF TransferInv, TransferTypes, Outcomes, Quiet
<1>. QED BY <1>1, <1>2, <1>3, Zenon

(***************************************************************************)
(* Names change hands.                                                     *)
(***************************************************************************)
LEMMA EntrySwapped ==
  ASSUME NEW n \in Nat, NEW s, NEW d, NEW e, NEW o, NEW c \in Candidates,
         Namespace(n, s, d, e), e # NoObject, Held(s, d, e, o)
  PROVE  /\ Namespace(n, s, [d EXCEPT ![c] = e], d[c])
         /\ Held(s, [d EXCEPT ![c] = e], d[c], o \cup {e})
<1>. PICK f : f = [d EXCEPT ![c] = e]
  BY Zenon
<1>1. f \in [Candidates -> 0 .. n] /\ f[c] = e /\ \A b \in Candidates : b # c => f[b] = d[b]
  BY Zenon DEF Namespace
<1>2. Namespace(n, s, f, d[c])
  BY <1>1 DEF Namespace
<1>3. Held(s, f, d[c], o \cup {e})
  BY <1>1, Zenon DEF Held
<1>. QED BY <1>2, <1>3, Zenon

LEMMA SourceSwapped ==
  ASSUME NEW n \in Nat, NEW s, NEW d, NEW e, NEW o, NEW c \in Candidates,
         Namespace(n, s, d, e), s # NoObject, Held(s, d, e, o)
  PROVE  /\ Namespace(n, d[c], [d EXCEPT ![c] = s], e)
         /\ Held(d[c], [d EXCEPT ![c] = s], e, o)
<1>. PICK f : f = [d EXCEPT ![c] = s]
  BY Zenon
<1>1. f \in [Candidates -> 0 .. n] /\ f[c] = s /\ \A b \in Candidates : b # c => f[b] = d[b]
  BY Zenon DEF Namespace
<1>2. Namespace(n, d[c], f, e)
  BY <1>1 DEF Namespace
<1>3. Held(d[c], f, e, o)
  BY <1>1, Zenon DEF Held
<1>. QED BY <1>2, <1>3, Zenon

LEMMA RenameSourceKeeps ==
  ASSUME TransferInv, RenameSource
  PROVE  TransferInv'
<1>1. /\ transferStep = "rename" /\ src # NoObject /\ dst[candidate] = NoObject
      /\ dst' = [dst EXCEPT ![candidate] = src] /\ src' = NoObject /\ acted' = TRUE /\ transferStep' = "renamed"
      /\ UNCHANGED <<transaction, entry, data, objectsMade, stamp, snap, seen, owed, job, candidate, edits, verdict, outcome>>
  BY Zenon DEF RenameSource, files, memo, Goto
<1>2. TransferTypes'
  BY <1>1, Zenon DEF TransferInv, TransferTypes, TransferSteps
<1>3. Namespace(objectsMade, src, dst, entry)' /\ Held(src, dst, entry, owed)'
  BY <1>1, SourceSwapped, Zenon DEF TransferInv, TransferTypes
<1>4. src # Copy /\ Copy \notin owed /\ (\A c \in Candidates : dst[c] # Copy) /\ entry = NoObject /\ candidate \in Candidates
  BY <1>1, Zenon DEF TransferInv, TransferTypes, CopyPrivate, Early
<1>5. CopyPrivate'
  <2>1. \A c \in Candidates : dst'[c] # Copy
    BY <1>1, <1>4, Zenon DEF TransferInv, Namespace
  <2>. QED BY <1>1, <1>4, <2>1, Zenon DEF CopyPrivate, Early, Staged, NoObject, Copy
<1>6. StepKnows'
  BY <1>1 DEF TransferInv, StepKnows, Early, Staged, Acted, NoObject, Source
<1>7. OutcomeHonest'
  BY <1>1, Zenon DEF TransferInv, StepKnows, OutcomeHonest
<1>. QED BY <1>2, <1>3, <1>5, <1>6, <1>7, Zenon DEF TransferInv

LEMMA PublishCopyKeeps ==
  ASSUME TransferInv, PublishCopy
  PROVE  TransferInv'
<1>1. /\ transferStep = "publish" /\ dst[candidate] = NoObject /\ transferStep' \in {"published", "retain"}
      /\ dst' = [dst EXCEPT ![candidate] = entry] /\ entry' = NoObject /\ acted' = TRUE /\ owed' = owed \cup {entry}
      /\ UNCHANGED <<src, transaction, data, objectsMade, stamp, snap, seen, job, candidate, edits, verdict, outcome>>
  BY Zenon DEF PublishCopy, files, memo, Goto
<1>2. TransferTypes'
  BY <1>1, Zenon DEF TransferInv, TransferTypes, TransferSteps
<1>3. entry # NoObject
  BY <1>1 DEF TransferInv, CopyPrivate, Staged, NoObject, Copy
<1>4. Namespace(objectsMade, src, dst, entry)' /\ Held(src, dst, entry, owed)'
  BY <1>1, <1>3, EntrySwapped, Zenon DEF TransferInv, TransferTypes
<1>5. CopyPrivate'
  BY <1>1, Zenon DEF CopyPrivate, Early, Staged
<1>6. StepKnows'
  BY <1>1, Zenon DEF TransferInv, StepKnows, Early, Staged, Acted
<1>7. OutcomeHonest'
  BY <1>1, Zenon DEF TransferInv, StepKnows, OutcomeHonest
<1>. QED BY <1>2, <1>4, <1>5, <1>6, <1>7, Zenon DEF TransferInv

LEMMA ExchangeKeeps ==
  ASSUME TransferInv, Exchange
  PROVE  TransferInv'
<1>. DEFINE swaps == /\ dst[candidate] # NoObject /\ transferStep' = "exchanged" /\ UNCHANGED outcome
                     /\ dst' = [dst EXCEPT ![candidate] = entry] /\ entry' = dst[candidate]
                     /\ acted' = TRUE /\ owed' = owed \cup {entry}
            fails == transferStep' = "done" /\ outcome' = "broken" /\ UNCHANGED <<dst, entry, acted, owed>>
<1>1. /\ transferStep = "exchange"
      /\ UNCHANGED <<src, transaction, data, objectsMade, stamp, snap, seen, job, candidate, edits, verdict>>
  BY Zenon DEF Exchange, files, memo, Goto, Finish
<1>2. swaps \/ fails
  BY Zenon DEF Exchange, ghosts, Goto, Finish
<1>3. CASE swaps
  <2>1. TransferTypes'
    BY <1>1, <1>3, Zenon DEF TransferInv, TransferTypes, TransferSteps
  <2>2. entry # NoObject
    BY <1>1 DEF TransferInv, CopyPrivate, Staged, NoObject, Copy
  <2>3. Namespace(objectsMade, src, dst, entry)' /\ Held(src, dst, entry, owed)'
    BY <1>1, <1>3, <2>2, EntrySwapped, Zenon DEF TransferInv, TransferTypes
  <2>4. CopyPrivate'
    BY <1>3, Zenon DEF CopyPrivate, Early, Staged
  <2>5. StepKnows'
    BY <1>1, <1>3, Zenon DEF TransferInv, StepKnows, Early, Staged, Acted
  <2>6. OutcomeHonest'
    BY <1>1, <1>3, Zenon DEF TransferInv, StepKnows, OutcomeHonest
  <2>. QED BY <2>1, <2>3, <2>4, <2>5, <2>6, Zenon DEF TransferInv
<1>4. CASE fails
  <2>1. OutcomeHonest'
    BY <1>4, Zenon DEF OutcomeHonest
  <2>. QED BY <1>1, <1>4, <2>1, FinishKeeps, Zenon DEF TransferInv, TransferTypes, Outcomes, Quiet
<1>. QED BY <1>2, <1>3, <1>4, Zenon

LEMMA EntryGone ==
  ASSUME NEW n \in Nat, NEW s, NEW d, NEW e, NEW o, Namespace(n, s, d, e), Held(s, d, e, o)
  PROVE  Namespace(n, s, d, NoObject) /\ Held(s, d, NoObject, o \ {e})
<1>1. Namespace(n, s, d, NoObject)
  BY DEF Namespace, NoObject
<1>2. Held(s, d, NoObject, o \ {e})
  BY Zenon DEF Held
<1>. QED BY <1>1, <1>2, Zenon

LEMMA UnlinkReplacedKeeps ==
  ASSUME TransferInv, UnlinkReplaced
  PROVE  TransferInv'
<1>. DEFINE gone == entry' = NoObject /\ owed' = owed \ {entry}
<1>1. /\ transferStep = "unlink"
      /\ UNCHANGED <<src, dst, transaction, data, objectsMade, stamp, snap, seen, acted, job, candidate, edits>>
  BY Zenon DEF UnlinkReplaced, files, memo
<1>2. \/ gone /\ transferStep' = "clean" /\ verdict' = Success /\ UNCHANGED outcome
      \/ gone /\ transferStep' = "done" /\ outcome' = "broken" /\ UNCHANGED verdict
      \/ transferStep' = "done" /\ outcome' = "broken" /\ UNCHANGED <<entry, owed, verdict>>
  BY Zenon DEF UnlinkReplaced, Cleanup, Finish
<1>3. Success \in {"ok", "broken"} /\ (Success = "ok" => ~job.move) /\ outcome = "none" /\ acted
  BY <1>1, Zenon DEF Success, TransferInv, StepKnows, Acted
<1>4. CASE gone /\ transferStep' \in {"clean", "done"}
  <2>1. TransferTypes'
    BY <1>1, <1>2, <1>3, <1>4 DEF TransferInv, TransferTypes, TransferSteps, Outcomes
  <2>2. Namespace(objectsMade, src, dst, entry)' /\ Held(src, dst, entry, owed)'
    BY <1>1, <1>4, EntryGone, Zenon DEF TransferInv, TransferTypes
  <2>3. CopyPrivate'
    <3>1. entry' \notin owed'
      BY <1>4, <2>2, Zenon DEF Held
    <3>. QED BY <1>4, <3>1, Zenon DEF CopyPrivate, Early, Staged
  <2>4. StepKnows'
    BY <1>1, <1>2, <1>3, <1>4, Zenon DEF TransferInv, StepKnows, Early, Staged, Acted
  <2>5. OutcomeHonest'
    BY <1>2, <1>3, <1>4, Zenon DEF OutcomeHonest
  <2>. QED BY <2>1, <2>2, <2>3, <2>4, <2>5, Zenon DEF TransferInv
<1>5. CASE transferStep' = "done" /\ outcome' = "broken" /\ UNCHANGED <<entry, owed, verdict>>
  <2>1. OutcomeHonest'
    BY <1>5, Zenon DEF OutcomeHonest
  <2>. QED BY <1>1, <1>5, <2>1, FinishKeeps DEF TransferInv, TransferTypes, Outcomes, Quiet
<1>. QED BY <1>2, <1>4, <1>5, Zenon

LEMMA RemoveEntryKeeps ==
  ASSUME TransferInv, RemoveEntry
  PROVE  TransferInv'
<1>1. /\ transferStep = "clean" /\ UNCHANGED verdict
      /\ UNCHANGED <<src, dst, transaction, data, objectsMade, stamp, snap, seen, owed, acted, job, candidate, edits>>
      /\ \/ entry' = NoObject /\ transferStep' = "rmdir" /\ UNCHANGED outcome
         \/ transferStep' = "done" /\ outcome' = "broken" /\ UNCHANGED entry
  BY Zenon DEF RemoveEntry, files, memo, ghosts, Goto, Finish
<1>2. CASE entry' = NoObject /\ transferStep' = "rmdir" /\ UNCHANGED outcome
  <2>1. TransferTypes'
    BY <1>1, <1>2, Zenon DEF TransferInv, TransferTypes, TransferSteps
  <2>2. owed \ {entry} = owed
    BY <1>1, Zenon DEF TransferInv, CopyPrivate
  <2>3. Namespace(objectsMade, src, dst, entry)' /\ Held(src, dst, entry, owed)'
    BY <1>1, <1>2, <2>2, EntryGone DEF TransferInv, TransferTypes
  <2>4. CopyPrivate' /\ StepKnows'
    BY <1>1, <1>2, Zenon DEF TransferInv, CopyPrivate, StepKnows, Early, Staged, Acted
  <2>5. OutcomeHonest'
    BY <1>1, <1>2, Zenon DEF TransferInv, StepKnows, OutcomeHonest
  <2>. QED BY <2>1, <2>3, <2>4, <2>5, Zenon DEF TransferInv
<1>3. CASE transferStep' = "done" /\ outcome' = "broken" /\ UNCHANGED entry
  <2>1. OutcomeHonest'
    BY <1>3, Zenon DEF OutcomeHonest
  <2>. QED BY <1>1, <1>3, <2>1, FinishKeeps, Zenon DEF TransferInv, TransferTypes, Outcomes, Quiet
<1>. QED BY <1>1, <1>2, <1>3, Zenon

(***************************************************************************)
(* The bytes of the copy.                                                  *)
(***************************************************************************)
(* Copy, the pinned source and what has a name are inodes. *)
LEMMA KnownInodes ==
  ASSUME TransferInv
  PROVE  /\ Copy \in Inodes /\ Copy # NoObject /\ Copy \in 0 .. objectsMade
         /\ snap.ino # NoObject => snap.ino \in Inodes
         /\ \A i \in 0 .. objectsMade : i # NoObject => i \in Inodes
BY TransferAssumption DEF TransferInv, TransferTypes, Inodes, Copy, NoObject

LEMMA CreateCopyKeeps ==
  ASSUME TransferInv, CreateCopy
  PROVE  TransferInv'
<1>1. /\ transferStep = "copy"
      /\ UNCHANGED <<src, dst, transaction, objectsMade, stamp, snap, owed, acted, job, candidate, edits, outcome>>
      /\ \/ /\ entry' = Copy /\ data' = [data EXCEPT ![Copy] = Half] /\ seen' = data[snap.ino]
            /\ transferStep' = "copy2" /\ UNCHANGED verdict
         \/ transferStep' = "clean" /\ verdict' = "failed" /\ UNCHANGED <<entry, data, seen>>
  BY Zenon DEF CreateCopy, ghosts, Goto, Cleanup
<1>2. CASE /\ entry' = Copy /\ data' = [data EXCEPT ![Copy] = Half] /\ seen' = data[snap.ino]
           /\ transferStep' = "copy2" /\ UNCHANGED verdict
  <2>1. /\ entry = NoObject /\ src # Copy /\ Copy \notin owed /\ (\A c \in Candidates : dst[c] # Copy)
        /\ snap.ino # NoObject /\ snap.ino # Copy
    BY <1>1, Zenon DEF TransferInv, TransferTypes, CopyPrivate, StepKnows, Early
  <2>2. data' \in [Inodes -> Contents] /\ (\A i \in Inodes : data'[i] <= stamp) /\ data'[snap.ino] = data[snap.ino]
    BY <1>2, <2>1, KnownInodes DEF TransferInv, TransferTypes, Contents, Half
  <2>3. TransferTypes'
    BY <1>1, <1>2, <2>2, Zenon DEF TransferInv, TransferTypes, TransferSteps
  <2>4. Namespace(objectsMade, src, dst, entry)' /\ Held(src, dst, entry, owed)'
    BY <1>1, <1>2, <2>1, KnownInodes, Zenon DEF TransferInv, Namespace, Held
  <2>5. CopyPrivate'
    BY <1>1, <1>2, <2>1, <2>2, Zenon DEF CopyPrivate, Early, Staged
  <2>6. StepKnows' /\ OutcomeHonest'
    BY <1>1, <1>2, Zenon DEF TransferInv, StepKnows, OutcomeHonest, Early, Staged, Acted
  <2>. QED BY <2>3, <2>4, <2>5, <2>6, Zenon DEF TransferInv
<1>3. CASE transferStep' = "clean" /\ verdict' = "failed" /\ UNCHANGED <<entry, data, seen>>
  BY <1>1, <1>3, CleanKeeps, Zenon DEF TransferInv, StepKnows, Early, Staged, Outcomes, Quiet
<1>. QED BY <1>1, <1>2, <1>3, Zenon

(* A copy that was read from an unchanged source is the pinned source. *)
LEMMA FinishCopyKeeps ==
  ASSUME TransferInv, FinishCopy
  PROVE  TransferInv'
<1>1. /\ transferStep = "copy2"
      /\ UNCHANGED <<src, dst, entry, transaction, objectsMade, stamp, snap, seen, owed, acted, job, candidate, edits, outcome>>
      /\ \/ data' = [data EXCEPT ![Copy] = Bytes] /\ transferStep' = "stage" /\ Is(src, snap) /\ UNCHANGED verdict
         \/ data' = [data EXCEPT ![Copy] = Bytes] /\ transferStep' = "clean" /\ verdict' = "failed"
         \/ data' = data /\ transferStep' = "clean" /\ verdict' = "failed"
  BY Zenon DEF FinishCopy, names, memo, ghosts, Goto, Cleanup
<1>2. /\ entry = Copy /\ src # Copy /\ Copy \notin owed /\ (\A c \in Candidates : dst[c] # Copy) /\ ~acted
      /\ snap.ino # NoObject /\ (data[snap.ino] = snap.tok => seen = snap.tok)
  BY <1>1 DEF TransferInv, CopyPrivate, StepKnows, Staged
<1>3. CASE data' = [data EXCEPT ![Copy] = Bytes] /\ transferStep' \in {"stage", "clean"}
  <2>1. Bytes \in Contents /\ Bytes <= stamp
    <3>1. data[snap.ino] \in Contents /\ data[snap.ino] <= stamp
      BY <1>2, KnownInodes, Zenon DEF TransferInv, TransferTypes
    <3>. QED BY <3>1 DEF Bytes, Mixed, Contents, TransferInv, TransferTypes
  <2>2. data' \in [Inodes -> Contents] /\ (\A i \in Inodes : data'[i] <= stamp) /\ data'[Copy] = Bytes
    BY <1>3, <2>1, KnownInodes, Zenon DEF TransferInv, TransferTypes
  <2>3. TransferTypes'
    BY <1>1, <1>3, <2>2 DEF TransferInv, TransferTypes, TransferSteps, Outcomes
  <2>4. Namespace(objectsMade, src, dst, entry)' /\ Held(src, dst, entry, owed)'
    BY <1>1, Zenon DEF TransferInv
  <2>5. transferStep' = "stage" => Bytes = snap.tok
    BY <1>1, <1>2, Zenon DEF Bytes, Is
  <2>6. CopyPrivate'
    BY <1>1, <1>2, <1>3, <2>2, <2>5, Zenon DEF CopyPrivate, Early, Staged
  <2>7. StepKnows' /\ OutcomeHonest'
    BY <1>1, <1>2, <1>3 DEF TransferInv, StepKnows, OutcomeHonest, Early, Staged, Acted
  <2>. QED BY <2>3, <2>4, <2>6, <2>7, Zenon DEF TransferInv
<1>4. CASE data' = data /\ transferStep' = "clean" /\ verdict' = "failed"
  BY <1>1, <1>2, <1>4, CleanKeeps, Zenon DEF Early, Staged, Outcomes, Quiet
<1>. QED BY <1>1, <1>3, <1>4, Zenon

(***************************************************************************)
(* Other programs.                                                         *)
(***************************************************************************)
(* An act of another program that writes a fresh token to inode i. *)
LEMMA FreshToken ==
  ASSUME TransferInv, Edit, NEW i \in Inodes, data' = [data EXCEPT ![i] = stamp + 1], stamp' = stamp + 1,
         transferStep \in Staged => i # Copy, objectsMade' \in objectsMade .. objectsMade + 1
  PROVE  /\ TransferTypes'
         /\ transferStep = "copy2" => (data'[snap.ino] = snap.tok => seen = snap.tok)
         /\ transferStep \in Staged \ {"copy2"} => data'[Copy] = snap.tok
<1>1. /\ edits < MaxEdits /\ edits' = edits + 1 /\ transferStep \notin {"done", "dead"}
      /\ UNCHANGED <<transaction, entry, snap, seen, acted, job, transferStep, candidate, verdict, outcome>>
  BY Zenon DEF Edit, memo
<1>2. stamp + 1 \in Contents
  BY <1>1, TransferAssumption DEF TransferInv, TransferTypes, Contents, Tokens
<1>3. data' \in [Inodes -> Contents] /\ (\A j \in Inodes : data'[j] <= stamp + 1)
  BY <1>2, TransferAssumption DEF TransferInv, TransferTypes, Contents, Tokens, Empty, Half, Mixed
<1>4. TransferTypes'
  <2>1. /\ edits' \in Nat /\ edits' <= MaxEdits /\ stamp' \in Nat /\ 2 <= stamp' /\ stamp' <= 2 + edits'
        /\ objectsMade' \in Nat /\ 3 <= objectsMade' /\ objectsMade' <= 3 + edits'
    BY <1>1, TransferAssumption DEF TransferInv, TransferTypes
  <2>2. snap \in [ino : 0 .. objectsMade', tok : Contents] /\ snap.tok <= stamp + 1
    <3>1. snap.ino \in 0 .. objectsMade' /\ snap.tok \in Int /\ snap.tok <= stamp + 1
      BY <2>1 DEF TransferInv, TransferTypes, Contents, Tokens, Empty, Half, Mixed
    <3>. QED BY <3>1, Zenon DEF TransferInv, TransferTypes
  <2>. QED BY <1>1, <1>3, <2>1, <2>2 DEF TransferInv, TransferTypes
<1>5. transferStep = "copy2" => (data'[snap.ino] = snap.tok => seen = snap.tok)
  <2>1. ASSUME transferStep = "copy2", data'[snap.ino] = snap.tok PROVE data[snap.ino] = snap.tok
    <3>1. snap.ino \in Inodes /\ snap.tok < stamp + 1 /\ snap.tok \in Int
      BY <2>1, KnownInodes DEF TransferInv, TransferTypes, StepKnows, Contents, Tokens, Empty, Half, Mixed
    <3>. QED BY <2>1, <3>1 DEF TransferInv, TransferTypes
  <2>. QED BY <2>1, Zenon DEF TransferInv, CopyPrivate
<1>6. transferStep \in Staged \ {"copy2"} => data'[Copy] = snap.tok
  BY KnownInodes DEF TransferInv, TransferTypes, CopyPrivate
<1>. QED BY <1>4, <1>5, <1>6, Zenon

LEMMA WriteKeeps ==
  ASSUME TransferInv, Write
  PROVE  TransferInv'
<1>1. PICK i \in Linked \ (IF entry = Copy THEN {Copy} ELSE {}) :
           data' = [data EXCEPT ![i] = stamp + 1]
  BY Zenon DEF Write
<1>2. /\ Edit /\ stamp' = stamp + 1 /\ UNCHANGED <<src, dst, objectsMade, owed>>
      /\ transferStep \notin {"done", "dead"}
      /\ UNCHANGED <<transaction, entry, snap, seen, acted, job, transferStep, candidate, verdict, outcome>>
  BY Zenon DEF Write, Edit, memo
<1>3. i \in Inodes
  <2>1. i # NoObject /\ i \in 0 .. objectsMade
    BY <1>1 DEF Linked, Range, TransferInv, Namespace
  <2>. QED BY <2>1, KnownInodes, Zenon
<1>4. transferStep \in Staged => i # Copy
  BY <1>1 DEF TransferInv, CopyPrivate
<1>5. objectsMade' \in objectsMade .. objectsMade + 1
  BY <1>2 DEF TransferInv, TransferTypes
<1>6. /\ TransferTypes'
      /\ transferStep = "copy2" => (data'[snap.ino] = snap.tok => seen = snap.tok)
      /\ transferStep \in Staged \ {"copy2"} => data'[Copy] = snap.tok
  BY <1>1, <1>2, <1>3, <1>4, <1>5, FreshToken, Zenon
<1>7. Namespace(objectsMade, src, dst, entry)' /\ Held(src, dst, entry, owed)'
  BY <1>2, Zenon DEF TransferInv
<1>8. CopyPrivate'
  BY <1>2, <1>6 DEF TransferInv, CopyPrivate
<1>9. StepKnows' /\ OutcomeHonest'
  BY <1>2 DEF TransferInv, StepKnows, OutcomeHonest
<1>. QED BY <1>6, <1>7, <1>8, <1>9, Zenon DEF TransferInv

(* A name is given up, or given to an inode that had none. *)
LEMMA SourceRelinked ==
  ASSUME NEW n \in Nat, NEW m \in Nat, n <= m, NEW s, NEW d, NEW e, NEW o, NEW new \in 0 .. m,
         Namespace(n, s, d, e), Held(s, d, e, o), new = NoObject \/ new > n
  PROVE  Namespace(m, new, d, e) /\ Held(new, d, e, (o \ {s}) \cup ({new} \ {NoObject}))
<1>1. Namespace(m, new, d, e)
  <2>1. s \in 0 .. m /\ e \in 0 .. m /\ (\A c \in Candidates : d[c] \in 0 .. n /\ d[c] \in 0 .. m) /\ e \in 0 .. n
    BY DEF Namespace
  <2>2. d \in [Candidates -> 0 .. m]
    BY <2>1, Zenon DEF Namespace
  <2>3. new # NoObject => new # e /\ \A c \in Candidates : d[c] # new
    BY <2>1
  <2>. QED BY <2>1, <2>2, <2>3, Zenon DEF Namespace
<1>2. Held(new, d, e, (o \ {s}) \cup ({new} \ {NoObject}))
  BY Zenon DEF Held
<1>. QED BY <1>1, <1>2, Zenon

LEMMA TargetRelinked ==
  ASSUME NEW n \in Nat, NEW m \in Nat, n <= m, NEW s, NEW d, NEW e, NEW o, NEW new \in 0 .. m, NEW c \in Candidates,
         Namespace(n, s, d, e), Held(s, d, e, o), new = NoObject \/ new > n
  PROVE  /\ Namespace(m, s, [d EXCEPT ![c] = new], e)
         /\ Held(s, [d EXCEPT ![c] = new], e, (o \ {d[c]}) \cup ({new} \ {NoObject}))
<1>. PICK f : f = [d EXCEPT ![c] = new]
  BY Zenon
<1>1. /\ s \in 0 .. n /\ e \in 0 .. n /\ s \in 0 .. m /\ e \in 0 .. m
      /\ \A b \in Candidates : d[b] \in 0 .. n /\ d[b] \in 0 .. m
  BY DEF Namespace
<1>2. f \in [Candidates -> 0 .. m] /\ f[c] = new /\ \A b \in Candidates : b # c => f[b] = d[b]
  BY <1>1, Zenon DEF Namespace
<1>3. new # NoObject => new # s /\ new # e /\ \A b \in Candidates : d[b] # new
  BY <1>1
<1>4. Namespace(m, s, f, e)
  BY <1>1, <1>2, <1>3 DEF Namespace
<1>5. Held(s, f, e, (o \ {d[c]}) \cup ({new} \ {NoObject}))
  BY <1>2, Zenon DEF Held
<1>. QED BY <1>4, <1>5, Zenon

(* The name that changes is given up, or stands for a new inode. *)
LEMMA RelinkShape ==
  ASSUME TransferInv, Relink
  PROVE  \E new \in 0 .. objectsMade' :
           /\ \/ new = NoObject /\ UNCHANGED <<objectsMade, stamp, data>>
              \/ /\ new = objectsMade + 1 /\ objectsMade' = objectsMade + 1 /\ stamp' = stamp + 1
                 /\ data' = [data EXCEPT ![new] = stamp + 1]
           /\ \/ src' = new /\ UNCHANGED dst /\ owed' = (owed \ {src}) \cup ({new} \ {NoObject})
              \/ \E c \in Candidates : /\ dst' = [dst EXCEPT ![c] = new] /\ UNCHANGED src
                                       /\ owed' = (owed \ {dst[c]}) \cup ({new} \ {NoObject})
<1>. PICK fresh \in BOOLEAN :
       /\ objectsMade' = IF fresh THEN objectsMade + 1 ELSE objectsMade
       /\ stamp' = IF fresh THEN stamp + 1 ELSE stamp
       /\ data' = IF fresh THEN [data EXCEPT ![objectsMade + 1] = stamp + 1] ELSE data
       /\ LET new == IF fresh THEN objectsMade + 1 ELSE NoObject
              Keep(name) == owed' = (owed \ {name}) \cup ({new} \ {NoObject})
          IN \/ src # new /\ src' = new /\ UNCHANGED dst /\ Keep(src)
             \/ \E c \in Candidates :
                  dst[c] # new /\ dst' = [dst EXCEPT ![c] = new] /\ UNCHANGED src /\ Keep(dst[c])
  BY Zenon DEF Relink
<1>. DEFINE new == IF fresh THEN objectsMade + 1 ELSE NoObject
<1>1. new \in 0 .. objectsMade'
  BY DEF TransferInv, TransferTypes, NoObject
<1>2. \/ new = NoObject /\ UNCHANGED <<objectsMade, stamp, data>>
      \/ /\ new = objectsMade + 1 /\ objectsMade' = objectsMade + 1 /\ stamp' = stamp + 1
         /\ data' = [data EXCEPT ![new] = stamp + 1]
  BY Zenon
<1>3. \/ src' = new /\ UNCHANGED dst /\ owed' = (owed \ {src}) \cup ({new} \ {NoObject})
      \/ \E c \in Candidates : /\ dst' = [dst EXCEPT ![c] = new] /\ UNCHANGED src
                               /\ owed' = (owed \ {dst[c]}) \cup ({new} \ {NoObject})
  BY Zenon
<1>. QED BY <1>1, <1>2, <1>3, Zenon

LEMMA RelinkKeeps ==
  ASSUME TransferInv, Relink
  PROVE  TransferInv'
<1>1. /\ Edit /\ edits < MaxEdits /\ edits' = edits + 1 /\ transferStep \notin {"done", "dead"}
      /\ UNCHANGED <<transaction, entry, snap, seen, acted, job, transferStep, candidate, verdict, outcome>>
  BY Zenon DEF Relink, Edit, memo
<1>2. PICK new \in 0 .. objectsMade' :
        /\ \/ new = NoObject /\ UNCHANGED <<objectsMade, stamp, data>>
           \/ /\ new = objectsMade + 1 /\ objectsMade' = objectsMade + 1 /\ stamp' = stamp + 1
              /\ data' = [data EXCEPT ![new] = stamp + 1]
        /\ \/ src' = new /\ UNCHANGED dst /\ owed' = (owed \ {src}) \cup ({new} \ {NoObject})
           \/ \E c \in Candidates : /\ dst' = [dst EXCEPT ![c] = new] /\ UNCHANGED src
                                    /\ owed' = (owed \ {dst[c]}) \cup ({new} \ {NoObject})
  BY RelinkShape, Zenon
<1>3. /\ objectsMade \in Nat /\ objectsMade' \in Nat /\ objectsMade <= objectsMade' /\ objectsMade >= 3
      /\ objectsMade' \in objectsMade .. objectsMade + 1
  BY <1>2 DEF TransferInv, TransferTypes
<1>4. new # NoObject => new > objectsMade /\ new # Copy /\ new # Source
  BY <1>2, <1>3 DEF Copy, Source
<1>5. Namespace(objectsMade, src, dst, entry)' /\ Held(src, dst, entry, owed)'
  <2>1. CASE src' = new /\ UNCHANGED dst /\ owed' = (owed \ {src}) \cup ({new} \ {NoObject})
    BY <1>1, <1>3, <1>4, <2>1, SourceRelinked DEF TransferInv
  <2>2. ASSUME NEW c \in Candidates, dst' = [dst EXCEPT ![c] = new], UNCHANGED src,
               owed' = (owed \ {dst[c]}) \cup ({new} \ {NoObject})
        PROVE  Namespace(objectsMade, src, dst, entry)' /\ Held(src, dst, entry, owed)'
    BY <1>1, <1>3, <1>4, <2>2, TargetRelinked, Zenon DEF TransferInv
  <2>. QED BY <1>2, <2>1, <2>2
<1>6. /\ TransferTypes'
      /\ transferStep = "copy2" => (data'[snap.ino] = snap.tok => seen = snap.tok)
      /\ transferStep \in Staged \ {"copy2"} => data'[Copy] = snap.tok
  <2>1. CASE new = NoObject /\ UNCHANGED <<objectsMade, stamp, data>>
    <3>1. edits' \in Nat /\ edits' <= MaxEdits /\ objectsMade' <= 3 + edits' /\ stamp' <= 2 + edits'
      BY <1>1, <2>1, TransferAssumption DEF TransferInv, TransferTypes
    <3>2. TransferTypes'
      BY <1>1, <2>1, <3>1, Zenon DEF TransferInv, TransferTypes
    <3>. QED BY <2>1, <3>2, Zenon DEF TransferInv, CopyPrivate
  <2>2. CASE /\ new = objectsMade + 1 /\ objectsMade' = objectsMade + 1 /\ stamp' = stamp + 1
             /\ data' = [data EXCEPT ![new] = stamp + 1]
    <3>1. new \in Inodes /\ new # Copy
      BY <1>1, <1>3, <2>2, TransferAssumption DEF TransferInv, TransferTypes, Inodes, Copy
    <3>. QED BY <1>1, <1>3, <2>2, <3>1, FreshToken, Zenon
  <2>. QED BY <1>2, <2>1, <2>2, Zenon
<1>7. /\ src' = src \/ src' = new
      /\ \A c \in Candidates : dst'[c] = dst[c] \/ dst'[c] = new
      /\ owed' \subseteq owed \cup ({new} \ {NoObject})
  <2>1. dst \in [Candidates -> 0 .. objectsMade]
    BY DEF TransferInv, Namespace
  <2>. QED BY <1>2, <2>1, Zenon
<1>8. CopyPrivate'
  <2>1. Copy # NoObject /\ (entry \notin owed => entry \notin owed')
    <3>1. new # NoObject => new # entry
      BY <1>3, <1>4 DEF TransferInv, Namespace
    <3>. QED BY <1>7, <3>1 DEF Copy, NoObject
  <2>. QED BY <1>1, <1>4, <1>6, <1>7, <2>1 DEF TransferInv, CopyPrivate
<1>9. StepKnows' /\ OutcomeHonest'
  BY <1>1, <1>4, <1>7 DEF TransferInv, StepKnows, OutcomeHonest, NoObject, Source
<1>. QED BY <1>5, <1>6, <1>8, <1>9, Zenon DEF TransferInv

LEMMA TransferStarts == TransferInit => TransferInv
<1>. SUFFICES ASSUME TransferInit PROVE TransferInv
  BY Zenon
<1>1. PICK t \in {"free", "file", "dir"} :
        /\ dst = [c \in Candidates |-> IF c = 0 /\ t # "free" THEN 3 ELSE NoObject]
        /\ data = [i \in Inodes |-> IF i = Source THEN 1 ELSE IF i = 3 /\ t = "file" THEN 2 ELSE Empty]
        /\ owed = IF t = "free" THEN {Source} ELSE {Source, 3}
  BY Zenon DEF TransferInit
<1>2. /\ src = Source /\ transaction = FALSE /\ entry = NoObject /\ objectsMade = 3 /\ stamp = 2
      /\ transferStep = "begin" /\ candidate = 0 /\ snap = NoStat /\ verdict = "none" /\ outcome = "none"
      /\ acted = FALSE /\ edits = 0 /\ job \in Jobs
  BY Zenon DEF TransferInit, Jobs
<1>3. 0 \in Candidates /\ MaxEdits \in Nat /\ \A c \in Candidates : c \in Nat
  BY TransferAssumption DEF Candidates
<1>4. TransferTypes
  <2>1. data \in [Inodes -> Contents] /\ \A i \in Inodes : data[i] <= 2
    BY <1>1, <1>3 DEF Contents, Tokens, Empty
  <2>2. snap \in [ino : 0 .. objectsMade, tok : Contents] /\ snap.tok <= stamp /\ snap.ino # Copy
    BY <1>2 DEF NoStat, NoObject, Empty, Contents, Copy
  <2>3. /\ edits \in Nat /\ edits <= MaxEdits /\ objectsMade \in Nat /\ 3 <= objectsMade
        /\ objectsMade <= 3 + edits /\ stamp \in Nat /\ 2 <= stamp /\ stamp <= 2 + edits
    BY <1>2, <1>3
  <2>4. transferStep \in TransferSteps /\ verdict \in Outcomes /\ outcome \in Outcomes
    BY <1>2 DEF TransferSteps, Outcomes
  <2>. QED BY <1>2, <1>3, <2>1, <2>2, <2>3, <2>4, Zenon DEF TransferTypes
<1>5. Namespace(objectsMade, src, dst, entry)
  BY <1>1, <1>2, <1>3 DEF Namespace, NoObject, Source
<1>6. Held(src, dst, entry, owed)
  BY <1>1, <1>2, <1>3 DEF Held, NoObject, Source
<1>7. CopyPrivate
  BY <1>1, <1>2 DEF CopyPrivate, Early, Staged, NoObject, Source, Copy
<1>8. StepKnows /\ OutcomeHonest
  BY <1>2 DEF StepKnows, OutcomeHonest, Early, Staged, Acted
<1>. QED BY <1>4, <1>5, <1>6, <1>7, <1>8 DEF TransferInv

LEMMA TransferKeeps == TransferInv /\ [TransferNext]_transferVars => TransferInv'
<1>. SUFFICES ASSUME TransferInv, [TransferNext]_transferVars PROVE TransferInv'
  OBVIOUS
<1>1. CASE Transfer
  BY <1>1, BeginKeeps, CheckSourceKeeps, RenameSourceKeeps, RenameSourceFailsKeeps, RenamedSourceKeeps,
     CreateTransferTransactionKeeps, SyncTransactionKeeps, CreateCopyKeeps, FinishCopyKeeps, SyncStagedKeeps,
     PublishCopyKeeps, PublishFailsKeeps, PublishedKeeps, RetainKeeps, PinTargetKeeps, CompareTargetKeeps,
     ExchangeKeeps, ExchangedKeeps, UnlinkReplacedKeeps, RemoveEntryKeeps, RemoveTransferTransactionKeeps, Zenon
     DEF Transfer
<1>2. CASE UNCHANGED transferVars
  <2>1. Quiet /\ UNCHANGED <<transferStep, transaction, candidate, verdict, outcome>>
    BY <1>2 DEF transferVars, names, files, memo, ghosts, Quiet
  <2>2. CopyPrivate' /\ StepKnows' /\ OutcomeHonest'
    <3>1. CopyPrivate'
      BY <2>1, Zenon DEF TransferInv, Quiet, CopyPrivate
    <3>2. StepKnows'
      BY <2>1, Zenon DEF TransferInv, Quiet, StepKnows
    <3>3. OutcomeHonest'
      BY <2>1, Zenon DEF TransferInv, Quiet, OutcomeHonest
    <3>. QED BY <3>1, <3>2, <3>3
  <2>. QED BY <2>1, <2>2, QuietKeeps DEF TransferInv, TransferTypes
<1>. QED BY <1>1, <1>2, DieKeeps, WriteKeeps, RelinkKeeps DEF TransferNext

LEMMA TransferInvariant == TransferSpec => []TransferInv
BY TransferStarts, TransferKeeps, PTL DEF TransferSpec

(***************************************************************************)
(* CopyInto and MoveInto, for every number of candidate names, of acts of  *)
(* programs that do not hold the lease and of failing calls, and with the  *)
(* process dying at any point: an answer "not changed" means that no name  *)
(* changed and no transaction is left, a success that a name changed, and  *)
(* whatever somebody counts on still has a name.                           *)
(***************************************************************************)
THEOREM TransferIsSafe == TransferSpec => []TransferSafe
<1>1. TransferInv => TransferSafe
  <2>. SUFFICES ASSUME TransferInv PROVE TransferSafe
    OBVIOUS
  <2>1. DOMAIN dst = Candidates /\ Held(src, dst, entry, owed)
    BY Zenon DEF TransferInv, Namespace
  <2>2. NothingLost
    BY <2>1 DEF Held, NothingLost, Linked, Range
  <2>. QED BY <2>2 DEF TransferInv, TransferSafe
<1>. QED BY <1>1, TransferInvariant, PTL

(***************************************************************************)
(* A transfer, seen from outside, is AtomicTransfer.                       *)
(***************************************************************************)
(* A step that shows nothing new, but may answer. *)
LEMMA UnseenStep ==
  ASSUME TransferInv, TransferInv', UNCHANGED <<Seen(src), Visible, Pinned, job, acted>>,
         outcome = "none" \/ outcome' = outcome
  PROVE  [Atomic!Next]_Atomic!vars
<1>1. CASE outcome' = outcome
  <2>1. Told' = Told
    BY <1>1 DEF Told
  <2>. QED BY <2>1 DEF Atomic!vars, Atomic!job
<1>2. CASE outcome = "none" /\ outcome' # "none"
  <2>1. Told = "none" /\ Told' \in {"unchanged", "changed"} /\ (Told' = "unchanged" => ~acted')
    BY <1>2 DEF Told, TransferInv, OutcomeHonest
  <2>2. Atomic!Answer
    BY <2>1 DEF Atomic!Answer, Atomic!job
  <2>. QED BY <2>2 DEF Atomic!Next
<1>. QED BY <1>1, <1>2

(* Only what has a public name is seen. *)
LEMMA ViewKept ==
  ASSUME TransferInv, UNCHANGED <<src, dst>>, src # NoObject => data'[src] = data[src],
         \A c \in Candidates : dst[c] # NoObject => data'[dst[c]] = data[dst[c]]
  PROVE  UNCHANGED <<Seen(src), Visible>>
<1>1. Seen(src)' = Seen(src)
  BY DEF Seen
<1>2. \A c \in Candidates : Seen(dst[c])' = Seen(dst[c])
  BY Zenon DEF Seen
<1>3. Visible' = Visible
  BY <1>2, Zenon DEF Visible
<1>. QED BY <1>1, <1>3

LEMMA BeginSimulated ==
  ASSUME TransferInv, TransferInv', Begin
  PROVE  [Atomic!Next]_Atomic!vars
<1>1. /\ transferStep = "begin" /\ UNCHANGED <<src, dst, data, acted, job>>
      /\ \/ src # NoObject /\ snap' = StatOf(src) /\ UNCHANGED outcome
         \/ outcome' = "failed" /\ UNCHANGED snap
  BY Zenon DEF Begin, names, files, ghosts, Goto, Finish
<1>2. UNCHANGED <<Seen(src), Visible>>
  BY <1>1, ViewKept, Zenon
<1>3. CASE src # NoObject /\ snap' = StatOf(src) /\ UNCHANGED outcome
  <2>1. Pinned = Absent
    BY <1>1 DEF Pinned, TransferInv, StepKnows
  <2>2. snap' # NoStat /\ snap'.tok = data[src]
    BY <1>3 DEF StatOf, NoStat
  <2>3. Pinned' = Seen(src) /\ Told' = Told
    BY <1>3, <2>2 DEF Pinned, Seen, Told
  <2>4. Seen(src) # Absent
    BY <1>3, KnownInodes DEF Seen, Absent, TransferInv, TransferTypes, Namespace, Contents, Tokens,
       Empty, Half, Mixed
  <2>5. Atomic!Begin
    BY <1>1, <1>2, <2>1, <2>3, <2>4 DEF Atomic!Begin, Atomic!job
  <2>. QED BY <2>5 DEF Atomic!Next
<1>4. CASE outcome' = "failed" /\ UNCHANGED snap
  <2>1. Pinned' = Pinned /\ outcome = "none"
    BY <1>1, <1>4 DEF Pinned, TransferInv, StepKnows
  <2>. QED BY <1>1, <1>2, <2>1, UnseenStep
<1>. QED BY <1>1, <1>3, <1>4

(* What is seen of the destination when one of its names changes hands. *)
LEMMA TargetSeen ==
  ASSUME NEW c \in Candidates, NEW w, dst \in [Candidates -> Nat], dst' \in [Candidates -> Nat],
         w = IF dst'[c] = NoObject THEN Absent ELSE data'[dst'[c]],
         \A b \in Candidates \ {c} : dst'[b] = dst[b] /\ (dst[b] # NoObject => data'[dst[b]] = data[dst[b]])
  PROVE  Visible[c] = Seen(dst[c]) /\ Visible' = [Visible EXCEPT ![c] = w]
<1>1. Visible = [b \in Candidates |-> Seen(dst[b])] /\ Visible' = [b \in Candidates |-> Seen(dst[b])']
  BY Zenon DEF Visible
<1>3. w = Seen(dst[c])'
  BY DEF Seen
<1>2. \A b \in Candidates \ {c} : Seen(dst[b])' = Seen(dst[b])
  BY DEF Seen
<1>. QED BY <1>1, <1>2, <1>3

(* The call may act on the name it is at. *)
LEMMA MayAct ==
  ASSUME TransferInv, transferStep \in {"rename", "publish", "exchange"}
  PROVE  candidate \in Candidates /\ Atomic!May(candidate) /\ Pinned = snap.tok /\ Told = "none"
<1>1. outcome = "none" /\ snap.ino # NoObject /\ ~acted
  BY DEF TransferInv, StepKnows, Early, Staged
<1>2. snap # NoStat
  BY <1>1 DEF NoStat
<1>3. snap.tok # Absent
  BY DEF TransferInv, TransferTypes, Contents, Tokens, Empty, Half, Mixed, Absent
<1>4. candidate \in Candidates /\ (candidate = 0 \/ job.style = "rename")
  BY Zenon DEF TransferInv, TransferTypes
<1>. QED BY <1>1, <1>2, <1>3, <1>4 DEF Atomic!May, Pinned, Told

(* The names are numbers, and what they stand for is something. *)
LEMMA SeenTypes ==
  ASSUME TransferInv
  PROVE  /\ dst \in [Candidates -> Nat] /\ src \in Nat /\ entry \in Nat
         /\ \A i \in 0 .. objectsMade : i # NoObject => data[i] \in Contents /\ Seen(i) # Absent
<1>1. dst \in [Candidates -> Nat] /\ src \in Nat /\ entry \in Nat
  BY DEF TransferInv, Namespace
<1>2. ASSUME NEW i \in 0 .. objectsMade, i # NoObject PROVE data[i] \in Contents /\ Seen(i) # Absent
  <2>1. data[i] \in Contents
    BY <1>2, KnownInodes DEF TransferInv, TransferTypes
  <2>. QED BY <1>2, <2>1 DEF Seen, Contents, Tokens, Empty, Half, Mixed, Absent
<1>. QED BY <1>1, <1>2

LEMMA RenameSimulated ==
  ASSUME TransferInv, TransferInv', RenameSource
  PROVE  [Atomic!Next]_Atomic!vars
<1>1. /\ transferStep = "rename" /\ src # NoObject /\ dst[candidate] = NoObject
      /\ dst' = [dst EXCEPT ![candidate] = src] /\ src' = NoObject /\ acted' = TRUE
      /\ UNCHANGED <<data, snap, job, outcome>>
  BY Zenon DEF RenameSource, files, memo, Goto
<1>0. PICK c : c = candidate
  OBVIOUS
<1>2. c \in Candidates /\ Atomic!May(c) /\ Pinned' = Pinned /\ Told' = Told /\ job.move
  BY <1>0, <1>1, MayAct, Zenon DEF Pinned, Told, TransferInv, StepKnows
<1>3. dst \in [Candidates -> Nat] /\ dst' \in [Candidates -> Nat] /\ Seen(src) # Absent
  <2>1. dst \in [Candidates -> Nat] /\ src \in Nat /\ dst' \in [Candidates -> Nat]
    BY <1>1, <1>0, <1>2, SeenTypes
  <2>2. src \in 0 .. objectsMade
    BY Zenon DEF TransferInv, Namespace
  <2>. QED BY <1>1, <2>1, <2>2, SeenTypes
<1>4. dst'[c] = src /\ dst[c] = NoObject /\ \A b \in Candidates \ {c} : dst'[b] = dst[b]
  BY <1>0, <1>1, <1>2, <1>3
<1>5. Seen(src) = data'[src] /\ Seen(dst[c]) = Absent /\ Seen(src)' = Absent
  BY <1>1, <1>4 DEF Seen
<1>6. Visible[c] = Absent /\ Visible' = [Visible EXCEPT ![c] = Seen(src)]
  BY <1>1, <1>2, <1>3, <1>4, <1>5, TargetSeen
<1>7. Atomic!Move(c)
  BY <1>1, <1>2, <1>3, <1>5, <1>6, Zenon DEF Atomic!Move, Atomic!job
<1>. QED BY <1>2, <1>7 DEF Atomic!Next

LEMMA PublishSimulated ==
  ASSUME TransferInv, TransferInv', PublishCopy
  PROVE  [Atomic!Next]_Atomic!vars
<1>1. /\ transferStep = "publish" /\ dst[candidate] = NoObject
      /\ dst' = [dst EXCEPT ![candidate] = entry] /\ acted' = TRUE
      /\ UNCHANGED <<src, data, snap, job, outcome>>
  BY DEF PublishCopy, files, memo, Goto
<1>0. PICK c : c = candidate
  BY Zenon
<1>2. c \in Candidates /\ Atomic!May(c) /\ Pinned = snap.tok /\ Pinned' = Pinned /\ Told' = Told
  BY <1>0, <1>1, MayAct DEF Pinned, Told
<1>3. dst \in [Candidates -> Nat] /\ dst' \in [Candidates -> Nat] /\ entry = Copy /\ data[Copy] = snap.tok
  BY <1>1, SeenTypes, Zenon DEF TransferInv, CopyPrivate, Staged
<1>4. dst'[c] = Copy /\ dst[c] = NoObject /\ \A b \in Candidates \ {c} : dst'[b] = dst[b]
  BY <1>0, <1>1, <1>2, <1>3
<1>5. data'[Copy] = Pinned /\ Copy # NoObject /\ Seen(dst[c]) = Absent /\ Seen(src)' = Seen(src)
  BY <1>1, <1>2, <1>3, <1>4 DEF Seen, Copy, NoObject
<1>6. Visible[c] = Absent /\ Visible' = [Visible EXCEPT ![c] = Pinned]
  BY <1>1, <1>2, <1>3, <1>4, <1>5, TargetSeen, Zenon
<1>7. Atomic!Publish(c)
  BY <1>1, <1>2, <1>5, <1>6 DEF Atomic!Publish, Atomic!job
<1>. QED BY <1>2, <1>7 DEF Atomic!Next

LEMMA ExchangeSimulated ==
  ASSUME TransferInv, TransferInv', Exchange
  PROVE  [Atomic!Next]_Atomic!vars
<1>1. /\ transferStep = "exchange" /\ UNCHANGED <<src, data, snap, job>>
      /\ \/ /\ dst[candidate] # NoObject /\ dst' = [dst EXCEPT ![candidate] = entry]
            /\ acted' = TRUE /\ UNCHANGED outcome
         \/ UNCHANGED <<dst, acted>>
  BY DEF Exchange, files, memo, ghosts, Goto
<1>0. PICK c : c = candidate
  BY Zenon
<1>2. /\ c \in Candidates /\ Atomic!May(c) /\ Pinned = snap.tok /\ Pinned' = Pinned
      /\ Seen(src)' = Seen(src) /\ job.style = "replace" /\ outcome = "none"
  BY <1>0, <1>1, MayAct DEF Pinned, Seen, TransferInv, StepKnows
<1>3. CASE /\ dst[candidate] # NoObject /\ dst' = [dst EXCEPT ![candidate] = entry]
           /\ acted' = TRUE /\ UNCHANGED outcome
  <2>1. dst \in [Candidates -> Nat] /\ dst' \in [Candidates -> Nat] /\ entry = Copy /\ data[Copy] = snap.tok
    BY <1>1, SeenTypes DEF TransferInv, CopyPrivate, Staged
  <2>2. dst'[c] = Copy /\ dst[c] # NoObject /\ \A b \in Candidates \ {c} : dst'[b] = dst[b]
    BY <1>0, <1>2, <1>3, <2>1
  <2>3. data'[Copy] = Pinned /\ Copy # NoObject
    BY <1>1, <1>2, <2>1, <2>2 DEF Seen, Copy, NoObject
  <2>4. Seen(dst[c]) # Absent
    BY <1>2, <2>2, SeenTypes, Zenon DEF TransferInv, Namespace
  <2>5. Visible[c] # Absent /\ Visible' = [Visible EXCEPT ![c] = Pinned]
    BY <1>1, <1>2, <2>1, <2>2, <2>3, <2>4, TargetSeen, Zenon
  <2>6. Told' = Told
    BY <1>3, Zenon DEF Told
  <2>7. Atomic!Replace(c)
    BY <1>1, <1>2, <1>3, <2>5, <2>6, Zenon DEF Atomic!Replace, Atomic!job
  <2>. QED BY <1>2, <2>7 DEF Atomic!Next
<1>4. CASE UNCHANGED <<dst, acted>>
  <2>1. UNCHANGED <<Seen(src), Visible>>
    BY <1>1, <1>4, ViewKept, Zenon
  <2>. QED BY <1>1, <1>2, <1>4, <2>1, UnseenStep
<1>. QED BY <1>1, <1>3, <1>4, Zenon

(* The steps that change no name, no file and nothing that is remembered of *)
(* the source.                                                             *)
LEMMA UnseenSimulated ==
  ASSUME TransferInv, TransferInv', UNCHANGED <<src, dst, data, snap, job, acted>>,
         transferStep # "done" \/ UNCHANGED outcome
  PROVE  [Atomic!Next]_Atomic!vars
<1>1. UNCHANGED <<Seen(src), Visible>>
  BY ViewKept, Zenon
<1>2. Pinned' = Pinned /\ (outcome = "none" \/ outcome' = outcome)
  BY Zenon DEF Pinned, TransferInv, StepKnows
<1>. QED BY <1>1, <1>2, UnseenStep, Zenon

(* The copy is written where nobody sees it. *)
LEMMA CopySimulated ==
  ASSUME TransferInv, TransferInv', CreateCopy \/ FinishCopy
  PROVE  [Atomic!Next]_Atomic!vars
<1>1. /\ transferStep \in {"copy", "copy2"} /\ UNCHANGED <<src, dst, snap, job, acted, outcome>>
      /\ data' = data \/ \E w : data' = [data EXCEPT ![Copy] = w]
  BY Zenon DEF CreateCopy, FinishCopy, names, memo, ghosts, Goto, Cleanup
<1>2. src # Copy /\ \A c \in Candidates : dst[c] # Copy
  BY <1>1, Zenon DEF TransferInv, CopyPrivate, Early, Staged
<1>3. /\ src # NoObject => src \in Inodes
      /\ \A c \in Candidates : dst[c] # NoObject => dst[c] \in Inodes
  BY KnownInodes DEF TransferInv, Namespace
<1>4. \A i \in Inodes : i # Copy => data'[i] = data[i]
  BY <1>1 DEF TransferInv, TransferTypes
<1>5. UNCHANGED <<Seen(src), Visible>>
  BY <1>1, <1>2, <1>3, <1>4, ViewKept, Zenon
<1>6. Pinned' = Pinned
  BY <1>1 DEF Pinned
<1>. QED BY <1>1, <1>5, <1>6, UnseenStep

(* Another program changed what one name shows. *)
LEMMA OutsideSimulated ==
  ASSUME TransferInv, Edit,
         \/ Seen(src)' \in Contents \cup {Absent} /\ UNCHANGED Visible
         \/ UNCHANGED Seen(src) /\ \E c \in Candidates, w \in Contents \cup {Absent} : Visible' = [Visible EXCEPT ![c] = w]
  PROVE  [Atomic!Next]_Atomic!vars
<1>1. UNCHANGED <<job, acted, Pinned, Told>>
  BY Zenon DEF Edit, memo, Pinned, Told
<1>2. Atomic!Outside
  BY <1>1 DEF Atomic!Outside, Atomic!job
<1>. QED BY <1>2 DEF Atomic!Next

LEMMA WriteSimulated ==
  ASSUME TransferInv, TransferInv', Write
  PROVE  [Atomic!Next]_Atomic!vars
<1>1. PICK i \in Linked \ (IF entry = Copy THEN {Copy} ELSE {}) :
           data' = [data EXCEPT ![i] = stamp + 1]
  BY Zenon DEF Write
<1>2. Edit /\ UNCHANGED <<src, dst, snap, job, acted, outcome>>
  BY DEF Write, Edit, memo
<1>3. /\ i # NoObject /\ (i = src \/ i = entry \/ \E c \in Candidates : dst[c] = i)
      /\ src # NoObject => src \in Inodes
      /\ \A c \in Candidates : dst[c] # NoObject => dst[c] \in Inodes
  BY <1>1, KnownInodes, Zenon DEF Linked, Range, TransferInv, Namespace
<1>4. \A j \in Inodes : j # i => data'[j] = data[j]
  BY <1>1, Zenon DEF TransferInv, TransferTypes
<1>5. CASE i = src
  <2>1. \A c \in Candidates : dst[c] # i
    BY <1>3, <1>5, Zenon DEF TransferInv, Namespace
  <2>2. \A c \in Candidates : Seen(dst[c])' = Seen(dst[c])
    BY <1>2, <1>3, <1>4, <2>1 DEF Seen
  <2>3. Visible' = Visible
    BY <2>2, Zenon DEF Visible
  <2>4. Seen(src)' \in Contents \cup {Absent}
    BY <1>2, <1>3, <1>5 DEF Seen, TransferInv, TransferTypes
  <2>. QED BY <1>2, <2>3, <2>4, OutsideSimulated, Zenon
<1>6. CASE i # src /\ i = entry
  <2>1. \A c \in Candidates : dst[c] # i
    BY <1>3, <1>6, Zenon DEF TransferInv, Namespace
  <2>2. UNCHANGED <<Seen(src), Visible>>
    BY <1>2, <1>3, <1>4, <1>6, <2>1, ViewKept, Zenon
  <2>3. Pinned' = Pinned
    BY <1>2, Zenon DEF Pinned
  <2>. QED BY <1>2, <2>2, <2>3, UnseenStep, Zenon
<1>7. ASSUME i # src, NEW c \in Candidates, dst[c] = i PROVE [Atomic!Next]_Atomic!vars
  <2>1. \A b \in Candidates \ {c} : dst[b] # NoObject => data'[dst[b]] = data[dst[b]]
    BY <1>3, <1>4, <1>7, Zenon DEF TransferInv, Namespace
  <2>2. PICK w : w = IF dst'[c] = NoObject THEN Absent ELSE data'[dst'[c]]
    BY Zenon
  <2>3. Visible' = [Visible EXCEPT ![c] = w]
    BY <1>2, <2>1, <2>2, SeenTypes, TargetSeen
  <2>4. w \in Contents \cup {Absent}
    BY <1>2, <1>3, <2>2, Zenon DEF TransferInv, TransferTypes
  <2>5. UNCHANGED Seen(src)
    BY <1>2, <1>3, <1>4, <1>7, Zenon DEF Seen
  <2>. QED BY <1>2, <2>3, <2>4, <2>5, OutsideSimulated, Zenon
<1>. QED BY <1>3, <1>5, <1>6, <1>7

LEMMA RelinkSimulated ==
  ASSUME TransferInv, TransferInv', Relink
  PROVE  [Atomic!Next]_Atomic!vars
<1>1. Edit
  BY Zenon DEF Relink
<1>0. objectsMade' \in Nat /\ objectsMade' <= 3 + MaxEdits /\ MaxEdits \in Nat
  <2>1. objectsMade' \in Nat /\ edits' \in Nat /\ edits' <= MaxEdits /\ objectsMade' <= 3 + edits'
    BY Zenon DEF TransferInv, TransferTypes
  <2>2. MaxEdits \in Nat
    BY TransferAssumption, Zenon
  <2>3. ASSUME NEW m \in Nat, NEW e \in Nat, NEW o \in Nat, e <= m, o <= 3 + e PROVE o <= 3 + m
    BY <2>3
  <2>. QED BY <2>1, <2>2, <2>3, Zenon
<1>2. PICK new \in 0 .. objectsMade' :
        /\ \/ new = NoObject /\ UNCHANGED <<objectsMade, stamp, data>>
           \/ /\ new = objectsMade + 1 /\ objectsMade' = objectsMade + 1 /\ stamp' = stamp + 1
              /\ data' = [data EXCEPT ![new] = stamp + 1]
        /\ \/ src' = new /\ UNCHANGED dst /\ owed' = (owed \ {src}) \cup ({new} \ {NoObject})
           \/ \E c \in Candidates : /\ dst' = [dst EXCEPT ![c] = new] /\ UNCHANGED src
                                    /\ owed' = (owed \ {dst[c]}) \cup ({new} \ {NoObject})
  BY RelinkShape, Zenon
<1>3. /\ \A j \in Inodes \cap (0 .. objectsMade) : data'[j] = data[j]
      /\ new # NoObject => data'[new] \in Contents
  <2>1. new # NoObject => new \in Inodes
    BY <1>0, <1>2 DEF Inodes, NoObject
  <2>. QED BY <1>2, <2>1 DEF TransferInv, TransferTypes
<1>4. /\ src # NoObject => src \in Inodes \cap (0 .. objectsMade)
      /\ \A c \in Candidates : dst[c] # NoObject => dst[c] \in Inodes \cap (0 .. objectsMade)
  BY KnownInodes, Zenon DEF TransferInv, Namespace
<1>5. CASE src' = new /\ UNCHANGED dst
  <2>1. \A c \in Candidates : Seen(dst[c])' = Seen(dst[c])
    BY <1>3, <1>4, <1>5, Zenon DEF Seen
  <2>2. Visible' = Visible
    BY <2>1, Zenon DEF Visible
  <2>3. Seen(src)' \in Contents \cup {Absent}
    BY <1>3, <1>5 DEF Seen
  <2>. QED BY <1>1, <2>2, <2>3, OutsideSimulated, Zenon
<1>6. ASSUME NEW c \in Candidates, dst' = [dst EXCEPT ![c] = new], UNCHANGED src
      PROVE  [Atomic!Next]_Atomic!vars
  <2>1. dst \in [Candidates -> Nat] /\ dst' \in [Candidates -> Nat]
    BY <1>6, SeenTypes DEF TransferInv, TransferTypes
  <2>2. dst'[c] = new /\ \A b \in Candidates \ {c} : dst'[b] = dst[b] /\ (dst[b] # NoObject => data'[dst[b]] = data[dst[b]])
    BY <1>3, <1>4, <1>6, <2>1
  <2>3. PICK w : w = IF dst'[c] = NoObject THEN Absent ELSE data'[dst'[c]]
    BY Zenon
  <2>4. Visible' = [Visible EXCEPT ![c] = w]
    BY <2>1, <2>2, <2>3, TargetSeen, Zenon
  <2>5. w \in Contents \cup {Absent}
    BY <1>3, <2>2, <2>3, Zenon
  <2>6. UNCHANGED Seen(src)
    BY <1>3, <1>4, <1>6, Zenon DEF Seen
  <2>. QED BY <1>1, <2>4, <2>5, <2>6, OutsideSimulated, Zenon
<1>. QED BY <1>2, <1>5, <1>6

LEMMA StepSimulated ==
  ASSUME TransferInv, TransferInv', [TransferNext]_transferVars
  PROVE  [Atomic!Next]_Atomic!vars
<1>1. CASE CheckSource \/ RenameSourceFails \/ RenamedSource \/ CreateTransferTransaction \/ SyncTransaction
  BY <1>1, UnseenSimulated, Zenon
     DEF CheckSource, RenameSourceFails, RenamedSource, CreateTransferTransaction, SyncTransaction,
         names, files, memo, ghosts
<1>2. CASE SyncStaged \/ PublishFails \/ Published \/ Retain \/ PinTarget \/ CompareTarget
  BY <1>2, UnseenSimulated, Zenon
     DEF SyncStaged, PublishFails, Published, Retain, PinTarget, CompareTarget, names, files, memo, ghosts
<1>3. CASE Exchanged \/ UnlinkReplaced \/ RemoveEntry \/ RemoveTransferTransaction \/ Die
  BY <1>3, UnseenSimulated, Zenon
     DEF Exchanged, UnlinkReplaced, RemoveEntry, RemoveTransferTransaction, Die, names, files, memo, ghosts
<1>4. CASE UNCHANGED transferVars
  BY <1>4, UnseenSimulated, Zenon DEF transferVars, names, files, memo, ghosts
<1>. QED BY <1>1, <1>2, <1>3, <1>4, BeginSimulated, RenameSimulated, PublishSimulated, ExchangeSimulated,
            CopySimulated, WriteSimulated, RelinkSimulated, Zenon DEF TransferNext, Transfer

(***************************************************************************)
(* CopyInto and MoveInto, seen by whoever lists the two directories, are   *)
(* one step of the namespace or none: a transfer implements AtomicTransfer *)
(* whatever other programs do to the same names, whichever calls fail, and *)
(* wherever the process dies.                                              *)
(***************************************************************************)
THEOREM TransferIsAtomic == TransferSpec => ImplementsAtomic
<1>1. TransferInit => Atomic!Init
  <2>. SUFFICES ASSUME TransferInit PROVE Atomic!Init
    BY Zenon
  <2>1. TransferInv
    BY TransferStarts
  <2>2. /\ src = Source /\ snap = NoStat /\ outcome = "none" /\ acted = FALSE /\ job \in Jobs
        /\ src \in 0 .. objectsMade /\ dst \in [Candidates -> 0 .. objectsMade]
    BY <2>1 DEF TransferInit, Jobs, TransferInv, Namespace
  <2>3. Seen(src) \in Contents
    BY <2>1, <2>2, SeenTypes DEF Seen, Source, NoObject
  <2>4. \A c \in Candidates : Seen(dst[c]) \in Contents \cup {Absent}
    BY <2>1, <2>2, SeenTypes, Zenon DEF Seen
  <2>5. Visible \in [Candidates -> Contents \cup {Absent}]
    BY <2>4, Zenon DEF Visible
  <2>6. Pinned = Absent /\ Told = "none" /\ job.style \in {"skip", "rename", "replace"} /\ job.move \in BOOLEAN
    BY <2>2, Zenon DEF Pinned, Told, Jobs
  <2>. QED BY <2>2, <2>3, <2>5, <2>6 DEF Atomic!Init
<1>2. TransferInv /\ TransferInv' /\ [TransferNext]_transferVars => [Atomic!Next]_Atomic!vars
  BY StepSimulated, Zenon
<1>. QED BY <1>1, <1>2, TransferInvariant, PTL DEF TransferSpec, ImplementsAtomic, Atomic!Spec
=============================================================================

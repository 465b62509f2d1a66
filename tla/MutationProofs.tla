--------------------------- MODULE MutationProofs ---------------------------
EXTENDS ManagedMutations, TLAPS

(***************************************************************************)
(* The mutations of the managed roots.                                     *)
(***************************************************************************)
Publishing == {"create", "commit", "rewrite"}
MutationSteps(k) ==
  IF k = "none" THEN {"idle"}
  ELSE IF k \in Publishing THEN {"stage", "write", "sync", "verify", "publish", "identity", "dirsync"}
  ELSE IF k = "rename" THEN {"verify", "move", "dirsync"}
  ELSE IF k = "mkdir" THEN {"mkdir", "mksync", "mkopen"}
  ELSE IF k = "unlink" THEN {"unlink", "dirsync"}
  ELSE IF k = "remove" THEN {"verify", "delete", "delsync", "deleted"}
  ELSE IF k = "held" THEN {"lookup", "quarantine", "judge", "delete", "delsync", "deleted", "dirsync"}
  ELSE {}

(* The running operation o is a record, at a step of its kind.             *)
OpRecord(o) ==
  o = [kind |-> o.kind, pc |-> o.pc, saw |-> o.saw, todo |-> o.todo, effect |-> o.effect,
       dirty |-> o.dirty, hit |-> o.hit, bound |-> o.bound]
OpForm(o) == OpRecord(o) /\ o.pc \in MutationSteps(o.kind)

(* What o changed so far, by its step.                                     *)
Untouched(o) == ~o.effect /\ ~o.dirty /\ o.hit = {}
OpHistory(o) ==
  /\ o.kind \notin {"remove", "mkdir"} /\ o.pc \notin {"identity", "dirsync", "judge", "delete", "delsync", "deleted"}
       => Untouched(o)
  /\ o.kind \in {"remove", "mkdir"} /\ o.pc \in {"verify", "delete", "deleted", "mkdir", "mkopen"} => ~o.dirty
  /\ o.kind = "remove" /\ o.effect => o.hit # {}
  /\ o.kind = "held" => o.hit \subseteq {held} /\ o.saw[1] = held

FileRecord(r) == r = [content |-> r.content, stamp |-> r.stamp, entries |-> r.entries]
DiskForm ==
  /\ DOMAIN disk = MutationInodes /\ disk = [i \in MutationInodes |-> disk[i]]
  /\ \A i \in MutationInodes : FileRecord(disk[i]) /\ disk[i].stamp \in Nat

Wholes == {Whole(c) : c \in MutationInodes \cup {Edited, New}}
Public == MutationNames \ {"staging"}

(* A staged file has no public name before it is published, and whatever   *)
(* has one is whole.                                                       *)
Unpublished(o) == o.kind \in Publishing /\ o.pc \in {"stage", "write", "sync", "verify", "publish"}
NamesOK ==
  /\ named \in [MutationNames -> 0 .. Other + ops]
  /\ Unpublished(op) => \A n \in Public : named[n] < Own
  /\ \A n \in Public : named[n] # NoInode => disk[named[n]].content \in Wholes
  /\ op.kind = "held" /\ op.pc \in {"delete", "delsync"} => named["quarantine"] \in {NoInode, held}

(* What is copied is the start of the staged upload as long as the upload  *)
(* has the stamp that it was opened with.                                  *)
SourceKept == op.kind = "commit" => disk[op.saw[1]].stamp = op.saw[2]
CopyOK ==
  /\ op.kind = "commit" /\ Unpublished(op) =>
       /\ op.saw[1] \in Given .. Own - 1 /\ op.saw[2] \in Nat /\ op.saw[2] <= disk[op.saw[1]].stamp
       /\ disk[op.saw[1]].content \in Wholes
  /\ op.pc = "write" => \/ disk[Own].content = << >>
                        \/ /\ disk[Own].content = <<disk[Own].content[1]>>
                           /\ SourceKept => disk[Own].content[1] = StagingSource[1]
  /\ op.pc = "sync" => /\ disk[Own].content = <<disk[Own].content[1], disk[Own].content[2]>>
                       /\ SourceKept => /\ disk[Own].content[1] = StagingSource[1]
                                        /\ disk[Own].content[2] = StagingSource[2]
  /\ op.kind \in Publishing /\ op.pc \in {"verify", "publish", "identity", "dirsync"} =>
       /\ disk[Own].content \in Wholes
       /\ op.kind = "commit" /\ op.bound => disk[Own].content = Whole(Given)

MutationInv ==
  /\ ops \in 0 .. MaxOps /\ (op.kind # "none" => ops > 0)
  /\ OpForm(op) /\ OpHistory(op) /\ DiskForm /\ NamesOK /\ CopyOK
  /\ (last.kind = "held" => last.hit \subseteq {held}) /\ MutationReported

(***************************************************************************)
(* How the running operation changes.                                      *)
(***************************************************************************)
(* o goes on to step p. *)
LEMMA OpGoes ==
  ASSUME NEW o, OpRecord(o), NEW p
  PROVE  LET q == [o EXCEPT !.pc = p] IN
         /\ OpRecord(q) /\ q.pc = p /\ q.kind = o.kind /\ q.saw = o.saw /\ q.effect = o.effect /\ q.dirty = o.dirty
         /\ q.hit = o.hit /\ q.bound = o.bound
<1>. PICK q : q = [o EXCEPT !.pc = p]
  BY Zenon
<1>1. PICK k, p1, s, t, e, d, h, b :
        /\ o = [kind |-> k, pc |-> p1, saw |-> s, todo |-> t, effect |-> e, dirty |-> d, hit |-> h, bound |-> b]
  BY Zenon DEF OpRecord
<1>2. q = [kind |-> k, pc |-> p, saw |-> s, todo |-> t, effect |-> e, dirty |-> d, hit |-> h, bound |-> b]
  BY <1>1, Zenon
<1>. QED BY <1>1, <1>2, Zenon DEF OpRecord

(* o changed a name. *)
LEMMA OpActs ==
  ASSUME NEW o, OpRecord(o), NEW p
  PROVE  LET q == [o EXCEPT !.pc = p, !.effect = TRUE, !.dirty = TRUE] IN
         /\ OpRecord(q) /\ q.pc = p /\ q.kind = o.kind /\ q.saw = o.saw
         /\ q.hit = o.hit /\ (q.bound => o.bound)
<1>. PICK q : q = [o EXCEPT !.pc = p, !.effect = TRUE, !.dirty = TRUE]
  BY Zenon
<1>1. PICK k, p1, s, t, e, d, h, b :
        /\ o = [kind |-> k, pc |-> p1, saw |-> s, todo |-> t, effect |-> e, dirty |-> d, hit |-> h, bound |-> b]
  BY Zenon DEF OpRecord
<1>2. q = [kind |-> k, pc |-> p, saw |-> s, todo |-> t, effect |-> TRUE, dirty |-> TRUE, hit |-> h, bound |-> b]
  BY <1>1, Zenon
<1>. QED BY <1>1, <1>2, Zenon DEF OpRecord

(* o synced a directory. *)
LEMMA OpSyncs ==
  ASSUME NEW o, OpRecord(o), NEW p
  PROVE  LET q == [o EXCEPT !.dirty = FALSE, !.pc = p] IN
         /\ OpRecord(q) /\ q.pc = p /\ q.kind = o.kind /\ q.saw = o.saw /\ (q.effect => o.effect) /\ ~q.dirty
         /\ q.hit = o.hit
<1>. PICK q : q = [o EXCEPT !.dirty = FALSE, !.pc = p]
  BY Zenon
<1>1. PICK k, p1, s, t, e, d, h, b :
        /\ o = [kind |-> k, pc |-> p1, saw |-> s, todo |-> t, effect |-> e, dirty |-> d, hit |-> h, bound |-> b]
  BY Zenon DEF OpRecord
<1>2. q = [kind |-> k, pc |-> p, saw |-> s, todo |-> t, effect |-> e, dirty |-> FALSE, hit |-> h, bound |-> b]
  BY <1>1, Zenon
<1>. QED BY <1>1, <1>2, Zenon DEF OpRecord

(* o deleted an entry of the tree i. *)
LEMMA OpDeletes ==
  ASSUME NEW o, OpRecord(o), NEW i
  PROVE  LET q == [o EXCEPT !.effect = TRUE, !.dirty = TRUE, !.hit = @ \cup {i}, !.pc = "delsync"] IN
         /\ OpRecord(q) /\ q.pc = "delsync" /\ q.kind = o.kind /\ q.saw = o.saw /\ q.hit = o.hit \cup {i}
<1>. PICK q : q = [o EXCEPT !.effect = TRUE, !.dirty = TRUE, !.hit = @ \cup {i}, !.pc = "delsync"]
  BY Zenon
<1>1. PICK k, p1, s, t, e, d, h, b :
        /\ o = [kind |-> k, pc |-> p1, saw |-> s, todo |-> t, effect |-> e, dirty |-> d, hit |-> h, bound |-> b]
  BY Zenon DEF OpRecord
<1>2. q = [kind |-> k, pc |-> "delsync", saw |-> s, todo |-> t, effect |-> TRUE, dirty |-> TRUE, hit |-> h \cup {i}, bound |-> b]
  BY <1>1, Zenon
<1>. QED BY <1>1, <1>2, Zenon DEF OpRecord

(* o is done with a tree. *)
LEMMA OpTurns ==
  ASSUME NEW o, OpRecord(o), NEW p
  PROVE  LET q == [o EXCEPT !.pc = p, !.todo = Tail(@)] IN
         /\ OpRecord(q) /\ q.pc = p /\ q.kind = o.kind /\ q.saw = o.saw /\ (q.effect => o.effect) /\ (q.dirty => o.dirty)
         /\ q.hit = o.hit
<1>. PICK q : q = [o EXCEPT !.pc = p, !.todo = Tail(@)]
  BY Zenon
<1>1. PICK k, p1, s, t, e, d, h, b :
        /\ o = [kind |-> k, pc |-> p1, saw |-> s, todo |-> t, effect |-> e, dirty |-> d, hit |-> h, bound |-> b]
  BY Zenon DEF OpRecord
<1>2. PICK t2 : q = [kind |-> k, pc |-> p, saw |-> s, todo |-> t2, effect |-> e, dirty |-> d, hit |-> h, bound |-> b]
  BY <1>1, Zenon
<1>. QED BY <1>1, <1>2, Zenon DEF OpRecord

(***************************************************************************)
(* How the disk and the names change.                                      *)
(***************************************************************************)
LEMMA DiskSet ==
  ASSUME DiskForm, NEW i \in MutationInodes, NEW r, FileRecord(r), r.stamp \in Nat, disk' = [disk EXCEPT ![i] = r]
  PROVE  DiskForm' /\ disk'[i] = r /\ \A j \in MutationInodes \ {i} : disk'[j] = disk[j]
<1>1. disk'[i] = r /\ \A j \in MutationInodes \ {i} : disk'[j] = disk[j]
  BY Zenon DEF DiskForm
<1>2. DOMAIN disk' = MutationInodes /\ disk' = [j \in MutationInodes |-> disk'[j]]
  BY Zenon DEF DiskForm
<1>3. DiskForm'
  BY <1>1, <1>2, Zenon DEF DiskForm
<1>. QED BY <1>1, <1>3, Zenon

LEMMA FileWritten ==
  ASSUME NEW d, FileRecord(d), NEW c, NEW s
  PROVE  [d EXCEPT !.content = c, !.stamp = s] = [content |-> c, stamp |-> s, entries |-> d.entries]
<1>1. PICK c1, s1, e : d = [content |-> c1, stamp |-> s1, entries |-> e]
  BY Zenon DEF FileRecord
<1>2. d.entries = e
  BY <1>1, Zenon
<1>3. PICK r : r = [d EXCEPT !.content = c, !.stamp = s]
  BY Zenon
<1>4. r = [content |-> c, stamp |-> s, entries |-> e]
  BY <1>1, <1>3, Zenon
<1>. QED BY <1>2, <1>3, <1>4, Zenon

(* A write. *)
LEMMA DiskWritten ==
  ASSUME DiskForm, NEW i \in MutationInodes, NEW c, NEW s \in Nat,
         disk' = [disk EXCEPT ![i].content = c, ![i].stamp = s]
  PROVE  DiskForm' /\ disk'[i].content = c /\ disk'[i].stamp = s /\ \A j \in MutationInodes \ {i} : disk'[j] = disk[j]
<1>1. PICK r : r = [content |-> c, stamp |-> s, entries |-> disk[i].entries]
  BY Zenon
<1>2. FileRecord(r) /\ r.content = c /\ r.stamp = s
  BY <1>1, Zenon DEF FileRecord
<1>3. [disk[i] EXCEPT !.content = c, !.stamp = s] = r
  <2>1. FileRecord(disk[i])
    BY Zenon DEF DiskForm
  <2>. QED BY <1>1, <2>1, FileWritten, Zenon
<1>4. disk' = [disk EXCEPT ![i] = r]
  BY <1>3, Zenon DEF DiskForm
<1>. QED BY <1>2, <1>4, DiskSet, Zenon

(* Any inode of a public name has one still; the others may be forgotten. *)
NamesShuffled ==
  /\ named' \in [MutationNames -> 0 .. Other + ops]
  /\ \A n \in Public : named'[n] = NoInode \/ \E m \in Public : named'[n] = named[m]

LEMMA NamesKept ==
  ASSUME MutationInv, NamesShuffled, UNCHANGED <<ops, held>>,
         \A n \in Public : named[n] # NoInode => disk'[named[n]].content \in Wholes,
         Unpublished(op') => Unpublished(op),
         op'.kind = "held" /\ op'.pc \in {"delete", "delsync"} => named'["quarantine"] \in {NoInode, held'}
  PROVE  NamesOK'
<1>1. named' \in [MutationNames -> 0 .. Other + ops']
  BY Zenon DEF NamesShuffled
<1>2. \A n \in Public : named'[n] # NoInode => disk'[named'[n]].content \in Wholes
  BY Zenon DEF NamesShuffled
<1>3. Unpublished(op)' => \A n \in Public : named'[n] < Own'
  <2>. SUFFICES ASSUME Unpublished(op) PROVE \A n \in Public : named'[n] < Own'
    BY Zenon DEF Unpublished
  <2>1. (\A n \in Public : named[n] < Own) /\ Own' = Own /\ NoInode < Own
    BY DEF MutationInv, NamesOK, Own, Other, NoInode
  <2>. QED BY <2>1, Zenon DEF NamesShuffled
<1>. QED BY <1>1, <1>2, <1>3, Zenon DEF NamesOK

(* The lease is released with a report. *)
LEMMA ReportKeeps ==
  ASSUME MutationInv, NEW o, NEW out, Reports(out, o), UNCHANGED <<disk, held, ops>>, NamesShuffled,
         o.kind = op.kind, o.hit = op.hit,
         op.kind # "held" => (out = "ok" => ~o.dirty) /\ (out = "plain" => ~o.effect)
  PROVE  MutationInv'
<1>1. op' = Idle /\ Idle.kind = "none" /\ Idle.pc = "idle" /\ Untouched(Idle) /\ OpRecord(Idle)
  BY Zenon DEF Reports, Idle, Untouched, OpRecord
<1>2. OpForm(op)' /\ OpHistory(op)' /\ ~Unpublished(op')
  <2>1. OpForm(op)'
    BY <1>1, Zenon DEF OpForm, MutationSteps
  <2>. QED BY <1>1, <2>1, Zenon DEF OpHistory, Untouched, Unpublished, Publishing
<1>3. CopyOK'
  BY <1>1, Zenon DEF CopyOK, Unpublished, Publishing
<1>4. DiskForm' /\ \A n \in Public : named[n] # NoInode => disk'[named[n]].content \in Wholes
  BY Zenon DEF MutationInv, DiskForm, NamesOK
<1>5. NamesOK'
  BY <1>1, <1>2, <1>4, NamesKept, Zenon
<1>6. /\ last'.kind = op.kind /\ last'.hit = op.hit
      /\ last'.outcome = out /\ last'.effect = o.effect /\ last'.dirty = o.dirty
  BY Zenon DEF Reports
<1>7. (last'.kind = "held" => last'.hit \subseteq {held'}) /\ MutationReported'
  BY <1>6, Zenon DEF MutationInv, OpHistory, MutationReported
<1>. QED BY <1>1, <1>2, <1>3, <1>4, <1>5, <1>7, Zenon DEF MutationInv

LEMMA NamesStay ==
  ASSUME MutationInv, named' = named \/ \E n \in MutationNames : named' = [named EXCEPT ![n] = NoInode]
  PROVE  NamesShuffled
<1>1. named \in [MutationNames -> 0 .. Other + ops] /\ NoInode \in 0 .. Other + ops
  BY DEF MutationInv, NamesOK, NoInode, Other
<1>. QED BY <1>1, Zenon DEF NamesShuffled, Public

LEMMA NamesMoved ==
  ASSUME MutationInv, NEW m \in Public, NEW n \in Public, m # n,
         named' = [named EXCEPT ![m] = NoInode, ![n] = named[m]]
  PROVE  NamesShuffled /\ named'[n] = named[m]
<1>1. named \in [MutationNames -> 0 .. Other + ops] /\ NoInode \in 0 .. Other + ops
  BY DEF MutationInv, NamesOK, NoInode, Other
<1>2. /\ named' \in [MutationNames -> 0 .. Other + ops] /\ named'[m] = NoInode /\ named'[n] = named[m]
      /\ \A k \in MutationNames \ {m, n} : named'[k] = named[k]
  BY <1>1, Zenon DEF Public
<1>. QED BY <1>2, Zenon DEF NamesShuffled, Public

(* An operation goes on; what it staged, if anything, is as it was. *)
LEMMA GoesOn ==
  ASSUME MutationInv, UNCHANGED <<disk, last, held, ops>>, NamesShuffled, OpForm(op'), OpHistory(op)',
         op'.kind = op.kind, Unpublished(op') => Unpublished(op),
         op'.kind = "held" /\ op'.pc \in {"delete", "delsync"} => named'["quarantine"] \in {NoInode, held'},
         CopyOK'
  PROVE  MutationInv'
<1>1. DiskForm' /\ \A n \in Public : named[n] # NoInode => disk'[named[n]].content \in Wholes
  BY Zenon DEF MutationInv, DiskForm, NamesOK
<1>2. NamesOK'
  BY <1>1, NamesKept, Zenon
<1>3. (last'.kind = "held" => last'.hit \subseteq {held'}) /\ MutationReported'
  BY Zenon DEF MutationInv, MutationReported
<1>. QED BY <1>1, <1>2, <1>3, Zenon DEF MutationInv

(* An operation that stages nothing. *)
LEMMA UnstagedGoesOn ==
  ASSUME MutationInv, UNCHANGED <<disk, last, held, ops>>, NamesShuffled, OpForm(op'), OpHistory(op)',
         op'.kind = op.kind, op.kind \notin Publishing,
         op.kind = "held" /\ op'.pc \in {"delete", "delsync"} => named'["quarantine"] \in {NoInode, held'}
  PROVE  MutationInv'
<1>1. op'.pc \notin {"write", "sync"} /\ ~Unpublished(op') /\ op'.kind \notin Publishing
  BY Zenon DEF OpForm, MutationSteps, Unpublished
<1>2. CopyOK'
  BY <1>1, Zenon DEF CopyOK, Publishing
<1>. QED BY <1>1, <1>2, GoesOn, Zenon

(***************************************************************************)
(* Rename, mkdir and unlink.                                               *)
(***************************************************************************)
LEMMA RenameKeeps ==
  ASSUME MutationInv, Rename
  PROVE  MutationInv'
<1>1. op.kind = "rename" /\ op.pc = "verify" /\ UNCHANGED <<named, disk, held, ops>> /\ NamesShuffled
  BY NamesStay, Zenon DEF Rename, Running, Keeps
<1>2. OpRecord(op) /\ Untouched(op)
  BY <1>1, Zenon DEF MutationInv, OpForm, OpHistory
<1>3. CASE StepTo("move") /\ UNCHANGED last
  <2>1. OpRecord(op') /\ op'.pc = "move" /\ op'.kind = op.kind /\ Untouched(op')
    BY <1>2, <1>3, OpGoes DEF StepTo, Untouched
  <2>2. OpForm(op') /\ OpHistory(op)'
    BY <1>1, <2>1, Zenon DEF OpForm, MutationSteps, Publishing, OpHistory
  <2>. QED BY <1>1, <1>3, <2>1, <2>2, UnstagedGoesOn, Zenon DEF Publishing
<1>4. CASE Reports("plain", op)
  BY <1>1, <1>2, <1>4, ReportKeeps, Zenon DEF Untouched
<1>. QED BY <1>3, <1>4, Zenon DEF Rename

LEMMA RenameMovesKeeps ==
  ASSUME MutationInv, RenameMoves
  PROVE  MutationInv'
<1>1. op.kind = "rename" /\ op.pc = "move" /\ UNCHANGED <<disk, held, ops>>
  BY Zenon DEF RenameMoves, Running, Keeps
<1>2. OpRecord(op) /\ Untouched(op)
  BY <1>1, Zenon DEF MutationInv, OpForm, OpHistory
<1>3. CASE /\ named' = [named EXCEPT !["source"] = NoInode, !["target"] = named["source"]]
           /\ op' = [op EXCEPT !.pc = "dirsync", !.effect = TRUE, !.dirty = TRUE] /\ UNCHANGED last
  <2>1. NamesShuffled
    BY <1>3, NamesMoved, Zenon DEF Public, MutationNames
  <2>2. OpRecord(op') /\ op'.pc = "dirsync" /\ op'.kind = op.kind
    BY <1>2, <1>3, OpActs, Zenon
  <2>3. OpForm(op') /\ OpHistory(op)'
    BY <1>1, <2>2, Zenon DEF OpForm, MutationSteps, Publishing, OpHistory
  <2>. QED BY <1>1, <1>3, <2>1, <2>2, <2>3, UnstagedGoesOn, Zenon DEF Publishing
<1>4. CASE Reports("plain", op) /\ UNCHANGED named
  BY <1>1, <1>2, <1>4, NamesStay, ReportKeeps, Zenon DEF Untouched
<1>. QED BY <1>3, <1>4, Zenon DEF RenameMoves

LEMMA UnlinkNameKeeps ==
  ASSUME MutationInv, UnlinkName
  PROVE  MutationInv'
<1>1. op.kind = "unlink" /\ op.pc = "unlink" /\ UNCHANGED <<disk, held, ops>>
  BY Zenon DEF UnlinkName, Running, Keeps
<1>2. OpRecord(op) /\ Untouched(op)
  BY <1>1, Zenon DEF MutationInv, OpForm, OpHistory
<1>3. CASE /\ named' = [named EXCEPT !["source"] = NoInode]
           /\ op' = [op EXCEPT !.pc = "dirsync", !.effect = TRUE, !.dirty = TRUE] /\ UNCHANGED last
  <2>1. NamesShuffled
    BY <1>3, NamesStay, Zenon DEF MutationNames
  <2>2. OpRecord(op') /\ op'.pc = "dirsync" /\ op'.kind = op.kind
    BY <1>2, <1>3, OpActs, Zenon
  <2>3. OpForm(op') /\ OpHistory(op)'
    BY <1>1, <2>2, Zenon DEF OpForm, MutationSteps, Publishing, OpHistory
  <2>. QED BY <1>1, <1>3, <2>1, <2>2, <2>3, UnstagedGoesOn, Zenon DEF Publishing
<1>4. CASE Reports("plain", op) /\ UNCHANGED named
  BY <1>1, <1>2, <1>4, NamesStay, ReportKeeps, Zenon DEF Untouched
<1>. QED BY <1>3, <1>4, Zenon DEF UnlinkName

LEMMA MkdirComponentKeeps ==
  ASSUME MutationInv, MkdirComponent
  PROVE  MutationInv'
<1>1. op.kind = "mkdir" /\ op.pc = "mkdir" /\ UNCHANGED <<named, disk, held, ops>> /\ NamesShuffled
  BY NamesStay, Zenon DEF MkdirComponent, Running, Keeps
<1>2. OpRecord(op) /\ ~op.dirty
  BY <1>1, Zenon DEF MutationInv, OpForm, OpHistory
<1>3. ASSUME NEW created \in BOOLEAN, UNCHANGED last,
             op' = [op EXCEPT !.todo = Tail(@), !.effect = @ \/ created, !.dirty = created,
                              !.pc = IF created THEN "mksync" ELSE "mkdir"]
      PROVE  MutationInv'
  <2>1. PICK p : p = IF created THEN "mksync" ELSE "mkdir"
    BY Zenon
  <2>2. OpRecord(op') /\ op'.pc = p /\ op'.kind = op.kind /\ (~created => ~op'.dirty)
    <3>1. op' = [op EXCEPT !.todo = Tail(@), !.effect = @ \/ created, !.dirty = created, !.pc = p]
      BY <1>3, <2>1, Zenon
    <3>2. PICK k, p1, s, t, e, d, h, b :
            op = [kind |-> k, pc |-> p1, saw |-> s, todo |-> t, effect |-> e, dirty |-> d, hit |-> h, bound |-> b]
      BY <1>2, Zenon DEF OpRecord
    <3>3. PICK t2, e2 : op' = [kind |-> k, pc |-> p, saw |-> s, todo |-> t2, effect |-> e2, dirty |-> created, hit |-> h, bound |-> b]
      BY <3>1, <3>2, Zenon
    <3>. QED BY <3>2, <3>3, Zenon DEF OpRecord
  <2>3. OpForm(op') /\ OpHistory(op)'
    BY <1>1, <2>1, <2>2, Zenon DEF OpForm, MutationSteps, Publishing, OpHistory
  <2>. QED BY <1>1, <1>3, <2>2, <2>3, UnstagedGoesOn, Zenon DEF Publishing
<1>4. CASE Reports("ok", op) \/ Reports(Failure(op), op)
  <2>1. Failure(op) # "ok" /\ (Failure(op) = "plain" => ~op.effect)
    BY Zenon DEF Failure
  <2>. QED BY <1>1, <1>2, <1>4, <2>1, ReportKeeps, Zenon
<1>. QED BY <1>3, <1>4, Zenon DEF MkdirComponent

LEMMA MkdirSyncKeeps ==
  ASSUME MutationInv, MkdirSync
  PROVE  MutationInv'
<1>1. op.kind = "mkdir" /\ UNCHANGED <<named, disk, held, ops>> /\ NamesShuffled /\ OpRecord(op)
  BY NamesStay, Zenon DEF MkdirSync, Running, Keeps, MutationInv, OpForm
<1>2. CASE op' = [op EXCEPT !.dirty = FALSE, !.pc = "mkopen"] /\ UNCHANGED last
  <2>1. OpRecord(op') /\ op'.pc = "mkopen" /\ op'.kind = op.kind /\ ~op'.dirty
    <3>1. OpRecord(op)
      BY <1>1, Zenon
    <3>. QED BY <1>2, <3>1, OpSyncs, Zenon
  <2>2. OpForm(op') /\ OpHistory(op)'
    BY <1>1, <2>1, Zenon DEF OpForm, MutationSteps, Publishing, OpHistory
  <2>. QED BY <1>1, <1>2, <2>1, <2>2, UnstagedGoesOn, Zenon DEF Publishing
<1>3. CASE Reports("changed", op)
  BY <1>1, <1>3, ReportKeeps, Zenon
<1>. QED BY <1>2, <1>3, Zenon DEF MkdirSync

LEMMA MkdirOpenKeeps ==
  ASSUME MutationInv, MkdirOpen
  PROVE  MutationInv'
<1>1. op.kind = "mkdir" /\ op.pc = "mkopen" /\ UNCHANGED <<named, disk, held, ops>> /\ NamesShuffled
  BY NamesStay, Zenon DEF MkdirOpen, Running, Keeps
<1>2. OpRecord(op) /\ ~op.dirty
  BY <1>1, Zenon DEF MutationInv, OpForm, OpHistory
<1>3. CASE StepTo("mkdir") /\ UNCHANGED last
  <2>1. OpRecord(op') /\ op'.pc = "mkdir" /\ op'.kind = op.kind /\ ~op'.dirty
    BY <1>2, <1>3, OpGoes DEF StepTo
  <2>2. OpForm(op') /\ OpHistory(op)'
    BY <1>1, <2>1, Zenon DEF OpForm, MutationSteps, Publishing, OpHistory
  <2>. QED BY <1>1, <1>3, <2>1, <2>2, UnstagedGoesOn, Zenon DEF Publishing
<1>4. CASE Reports("changed", op)
  BY <1>1, <1>4, ReportKeeps, Zenon
<1>. QED BY <1>3, <1>4, Zenon DEF MkdirOpen

(***************************************************************************)
(* The reports after a directory was synced, or not.                       *)
(***************************************************************************)
LEMMA SyncDirectoryKeeps ==
  ASSUME MutationInv, SyncDirectory
  PROVE  MutationInv'
<1>1. UNCHANGED <<named, disk, held, ops>> /\ NamesShuffled /\ OpRecord(op)
  BY NamesStay, Zenon DEF SyncDirectory, Keeps, MutationInv, OpForm
<1>2. CASE Reports("ok", [op EXCEPT !.dirty = FALSE])
  <2>1. PICK o : o = [op EXCEPT !.dirty = FALSE]
    BY Zenon
  <2>2. o.kind = op.kind /\ o.hit = op.hit /\ ~o.dirty
    BY <1>1, <2>1, Zenon DEF OpRecord
  <2>. QED BY <1>1, <1>2, <2>1, <2>2, ReportKeeps, Zenon
<1>3. CASE Reports(SyncFailure(op), op)
  BY <1>1, <1>3, ReportKeeps, Zenon DEF SyncFailure
<1>. QED BY <1>2, <1>3, Zenon DEF SyncDirectory

(***************************************************************************)
(* The removals.                                                           *)
(***************************************************************************)
LEMMA RemoveNextKeeps ==
  ASSUME MutationInv, RemoveNext
  PROVE  MutationInv'
<1>1. op.kind = "remove" /\ op.pc = "verify" /\ UNCHANGED <<named, disk, held, ops>> /\ NamesShuffled
  BY NamesStay, Zenon DEF RemoveNext, Running, Keeps
<1>2. OpRecord(op) /\ ~op.dirty /\ (op.effect => op.hit # {})
  BY <1>1, Zenon DEF MutationInv, OpForm, OpHistory
<1>3. CASE StepTo("delete") /\ UNCHANGED last
  <2>1. /\ OpRecord(op') /\ op'.pc = "delete" /\ op'.kind = op.kind
        /\ op'.dirty = op.dirty /\ op'.effect = op.effect /\ op'.hit = op.hit
    BY <1>2, <1>3, OpGoes, Zenon DEF StepTo
  <2>2. OpForm(op') /\ OpHistory(op)'
    BY <1>1, <1>2, <2>1, Zenon DEF OpForm, MutationSteps, Publishing, OpHistory
  <2>. QED BY <1>1, <1>3, <2>1, <2>2, UnstagedGoesOn, Zenon DEF Publishing
<1>4. CASE Reports("ok", op) \/ Reports(Failure(op), op)
  <2>1. Failure(op) # "ok" /\ (Failure(op) = "plain" => ~op.effect)
    BY Zenon DEF Failure
  <2>. QED BY <1>1, <1>2, <1>4, <2>1, ReportKeeps, Zenon
<1>. QED BY <1>3, <1>4, Zenon DEF RemoveNext

LEMMA EntryDeleted ==
  ASSUME DiskForm, NEW i, disk' = [disk EXCEPT ![i].entries = @ - 1, ![i].stamp = @ + 1]
  PROVE  DiskForm' /\ \A j \in MutationInodes : disk'[j].content = disk[j].content
<1>1. CASE i \notin MutationInodes
  <2>1. disk' = disk
    BY <1>1, Zenon DEF DiskForm
  <2>. QED BY <2>1, Zenon DEF DiskForm
<1>2. CASE i \in MutationInodes
  <2>1. PICK c, s, e : disk[i] = [content |-> c, stamp |-> s, entries |-> e]
    <3>1. FileRecord(disk[i])
      BY <1>2, Zenon DEF DiskForm
    <3>. QED BY <3>1, Zenon DEF FileRecord
  <2>2. PICK r : r = [content |-> c, stamp |-> s + 1, entries |-> e - 1]
    BY Zenon
  <2>3. disk' = [disk EXCEPT ![i] = r]
    <3>1. [disk[i] EXCEPT !.entries = @ - 1, !.stamp = @ + 1] = r
      <4>1. PICK d : d = disk[i]
        BY Zenon
      <4>2. PICK q : q = [d EXCEPT !.entries = @ - 1, !.stamp = @ + 1]
        BY Zenon
      <4>3. d = [content |-> c, stamp |-> s, entries |-> e]
        BY <2>1, <4>1, Zenon
      <4>4. q = [content |-> c, stamp |-> s + 1, entries |-> e - 1]
        BY <4>2, <4>3, Zenon
      <4>. QED BY <2>2, <4>1, <4>2, <4>4, Zenon
    <3>. QED BY <1>2, <3>1, Zenon DEF DiskForm
  <2>4. s \in Nat /\ disk[i].content = c
    BY <1>2, <2>1 DEF DiskForm
  <2>5. FileRecord(r) /\ r.stamp \in Nat /\ r.content = c
    BY <2>2, <2>4 DEF FileRecord
  <2>6. DiskForm' /\ disk'[i] = r /\ \A j \in MutationInodes \ {i} : disk'[j] = disk[j]
    BY <1>2, <2>3, <2>5, DiskSet, Zenon
  <2>. QED BY <2>4, <2>5, <2>6, Zenon
<1>. QED BY <1>1, <1>2, Zenon

LEMMA DeleteEntryKeeps ==
  ASSUME MutationInv, DeleteEntry
  PROVE  MutationInv'
<1>1. op.kind \in {"remove", "held"} /\ op.pc = "delete" /\ OpRecord(op) /\ UNCHANGED <<held, ops>>
  BY Zenon DEF DeleteEntry, Keeps, MutationInv, OpForm, MutationSteps, Publishing
<1>2. PICK i : i = named[Tree]
  BY Zenon
<1>3. CASE /\ i # NoInode /\ UNCHANGED last
           /\ op' = [op EXCEPT !.effect = TRUE, !.dirty = TRUE, !.hit = @ \cup {i}, !.pc = "delsync"]
           /\ IF disk[i].entries > 0
              THEN disk' = [disk EXCEPT ![i].entries = @ - 1, ![i].stamp = @ + 1] /\ UNCHANGED named
              ELSE named' = [named EXCEPT ![Tree] = NoInode] /\ UNCHANGED disk
  <2>1. OpRecord(op') /\ op'.pc = "delsync" /\ op'.kind = op.kind /\ op'.saw = op.saw /\ op'.hit = op.hit \cup {i}
    BY <1>1, <1>3, OpDeletes, Zenon
  <2>2. op.kind = "held" => i = held /\ op.hit \subseteq {held} /\ op.saw[1] = held
    BY <1>1, <1>2, <1>3, Zenon DEF Tree, MutationInv, NamesOK, OpHistory
  <2>3. OpForm(op') /\ OpHistory(op)'
    BY <1>1, <2>1, <2>2, Zenon DEF OpForm, MutationSteps, Publishing, OpHistory
  <2>4. DiskForm' /\ \A j \in MutationInodes : disk'[j].content = disk[j].content
    <3>1. DiskForm
      BY Zenon DEF MutationInv
    <3>2. CASE disk' = disk
      BY <3>1, <3>2, Zenon DEF DiskForm
    <3>. QED BY <1>3, <3>1, <3>2, EntryDeleted, Zenon
  <2>5. NamesShuffled
    <3>1. CASE Tree \in MutationNames
      BY <1>3, <3>1, NamesStay, Zenon
    <3>2. CASE Tree \notin MutationNames
      <4>1. named' = named
        BY <1>3, <3>2, Zenon DEF MutationInv, NamesOK
      <4>. QED BY <4>1, NamesStay, Zenon
    <3>. QED BY <3>1, <3>2, Zenon
  <2>6. named'["quarantine"] \in {NoInode, named["quarantine"]}
    BY <1>3, Zenon DEF MutationInv, NamesOK, MutationNames
  <2>7. \A n \in Public : named[n] # NoInode => disk'[named[n]].content \in Wholes
    <3>1. \A n \in Public : named[n] # NoInode => named[n] \in MutationInodes /\ disk[named[n]].content \in Wholes
      BY MutationConstants DEF MutationInv, NamesOK, Public, MutationInodes, Given, Other, NoInode
    <3>. QED BY <2>4, <3>1, Zenon
  <2>8. ~Unpublished(op') /\ op'.pc \notin {"write", "sync"} /\ op'.kind \notin Publishing
    BY <1>1, <2>1, Zenon DEF Unpublished, Publishing
  <2>9. NamesOK'
    <3>1. op'.kind = "held" /\ op'.pc \in {"delete", "delsync"} => named'["quarantine"] \in {NoInode, held'}
      BY <1>1, <2>1, <2>6, Zenon DEF MutationInv, NamesOK
    <3>. QED BY <1>1, <2>5, <2>7, <2>8, <3>1, NamesKept, Zenon
  <2>10. CopyOK'
    BY <2>8, Zenon DEF CopyOK, Publishing
  <2>11. (last'.kind = "held" => last'.hit \subseteq {held'}) /\ MutationReported'
    BY <1>1, <1>3, Zenon DEF MutationInv, MutationReported
  <2>. QED BY <1>1, <2>1, <2>3, <2>4, <2>9, <2>10, <2>11, Zenon DEF MutationInv
<1>4. CASE StepTo("deleted") /\ UNCHANGED <<named, disk, last>>
  <2>1. /\ OpRecord(op') /\ op'.pc = "deleted" /\ op'.kind = op.kind /\ op'.saw = op.saw
        /\ op'.dirty = op.dirty /\ op'.effect = op.effect /\ op'.hit = op.hit
    BY <1>1, <1>4, OpGoes, Zenon DEF StepTo
  <2>2. OpForm(op') /\ OpHistory(op)'
    BY <1>1, <2>1, Zenon DEF OpForm, MutationSteps, Publishing, MutationInv, OpHistory
  <2>. QED BY <1>1, <1>4, <2>1, <2>2, NamesStay, UnstagedGoesOn, Zenon DEF Publishing
<1>5. CASE Reports(RemovalFailure(op), op) /\ UNCHANGED <<named, disk>>
  <2>1. RemovalFailure(op) # "ok" /\ (op.kind # "held" => (RemovalFailure(op) = "plain" => ~op.effect))
    BY <1>1, Zenon DEF RemovalFailure, MutationInv, OpHistory
  <2>. QED BY <1>1, <1>5, <2>1, NamesStay, ReportKeeps, Zenon
<1>. QED BY <1>2, <1>3, <1>4, <1>5, Zenon DEF DeleteEntry

LEMMA DeleteSyncKeeps ==
  ASSUME MutationInv, DeleteSync
  PROVE  MutationInv'
<1>1. /\ op.kind \in {"remove", "held"} /\ op.pc = "delsync" /\ OpRecord(op)
      /\ UNCHANGED <<named, disk, held, ops>> /\ NamesShuffled
  BY NamesStay, Zenon DEF DeleteSync, Keeps, MutationInv, OpForm, MutationSteps, Publishing
<1>2. ASSUME NEW p \in {"deleted", "delete"}, op' = [op EXCEPT !.dirty = FALSE, !.pc = p], UNCHANGED last
      PROVE  MutationInv'
  <2>1. /\ OpRecord(op') /\ op'.pc = p /\ op'.kind = op.kind /\ op'.saw = op.saw
        /\ ~op'.dirty /\ (op'.effect => op.effect) /\ op'.hit = op.hit
    <3>1. OpRecord(op)
      BY <1>1, Zenon
    <3>. QED BY <1>2, <3>1, OpSyncs, Zenon
  <2>2. OpForm(op') /\ OpHistory(op)'
    BY <1>1, <1>2, <2>1 DEF OpForm, MutationSteps, Publishing, MutationInv, OpHistory
  <2>3. op.kind = "held" => named["quarantine"] \in {NoInode, held}
    BY <1>1, Zenon DEF MutationInv, NamesOK
  <2>. QED BY <1>1, <1>2, <2>1, <2>2, <2>3, UnstagedGoesOn, Zenon DEF Publishing
<1>3. CASE Reports("changed", op)
  BY <1>1, <1>3, ReportKeeps, Zenon
<1>4. (IF named[Tree] = NoInode THEN "deleted" ELSE "delete") \in {"deleted", "delete"}
  BY Zenon
<1>. QED BY <1>2, <1>3, <1>4, Zenon DEF DeleteSync

LEMMA DeletedKeeps ==
  ASSUME MutationInv, Deleted
  PROVE  MutationInv'
<1>1. /\ op.kind \in {"remove", "held"} /\ op.pc = "deleted" /\ OpRecord(op)
      /\ UNCHANGED <<named, disk, last, held, ops>> /\ NamesShuffled
  BY NamesStay, Zenon DEF Deleted, Keeps, MutationInv, OpForm, MutationSteps, Publishing
<1>2. /\ OpRecord(op') /\ op'.pc = (IF op.kind = "held" THEN "dirsync" ELSE "verify") /\ op'.kind = op.kind /\ op'.saw = op.saw
      /\ (op'.effect => op.effect) /\ (op'.dirty => op.dirty) /\ op'.hit = op.hit
  <2>1. CASE op.kind = "held"
    <3>1. OpRecord(op) /\ op' = [op EXCEPT !.pc = "dirsync"]
      BY <1>1, <2>1, Zenon DEF Deleted
    <3>2. /\ OpRecord(op') /\ op'.pc = "dirsync" /\ op'.kind = op.kind /\ op'.saw = op.saw
          /\ op'.effect = op.effect /\ op'.dirty = op.dirty /\ op'.hit = op.hit
      BY <3>1, OpGoes
    <3>. QED BY <2>1, <3>2, Zenon
  <2>2. CASE op.kind # "held"
    <3>1. OpRecord(op) /\ op' = [op EXCEPT !.pc = "verify", !.todo = Tail(@)]
      BY <1>1, <2>2, Zenon DEF Deleted
    <3>2. /\ OpRecord(op') /\ op'.pc = "verify" /\ op'.kind = op.kind /\ op'.saw = op.saw
          /\ (op'.effect => op.effect) /\ (op'.dirty => op.dirty) /\ op'.hit = op.hit
      BY <3>1, OpTurns, Zenon
    <3>. QED BY <2>2, <3>2, Zenon
  <2>. QED BY <2>1, <2>2, Zenon
<1>3. OpForm(op') /\ OpHistory(op)'
  BY <1>1, <1>2, Zenon DEF OpForm, MutationSteps, Publishing, MutationInv, OpHistory
<1>. QED BY <1>1, <1>2, <1>3, UnstagedGoesOn, Zenon DEF Publishing

LEMMA HeldLookupKeeps ==
  ASSUME MutationInv, HeldLookup
  PROVE  MutationInv'
<1>1. op.kind = "held" /\ op.pc = "lookup" /\ UNCHANGED <<named, disk, held, ops>> /\ NamesShuffled
  BY NamesStay, Zenon DEF HeldLookup, Running, Keeps
<1>2. OpRecord(op) /\ Untouched(op) /\ op.saw[1] = held
  BY <1>1, Zenon DEF MutationInv, OpForm, OpHistory
<1>3. CASE StepTo("quarantine") /\ UNCHANGED last
  <2>1. OpRecord(op') /\ op'.pc = "quarantine" /\ op'.kind = op.kind /\ op'.saw = op.saw /\ Untouched(op')
    BY <1>2, <1>3, OpGoes DEF StepTo, Untouched
  <2>2. OpForm(op') /\ OpHistory(op)'
    BY <1>1, <1>2, <2>1, Zenon DEF OpForm, MutationSteps, Publishing, OpHistory, Untouched
  <2>. QED BY <1>1, <1>3, <2>1, <2>2, UnstagedGoesOn, Zenon DEF Publishing
<1>4. CASE Reports("ok", op) \/ Reports("plain", op)
  BY <1>1, <1>4, ReportKeeps, Zenon
<1>. QED BY <1>3, <1>4, Zenon DEF HeldLookup

LEMMA QuarantineKeeps ==
  ASSUME MutationInv, Quarantine
  PROVE  MutationInv'
<1>1. op.kind = "held" /\ op.pc = "quarantine" /\ UNCHANGED <<disk, held, ops>>
  BY Zenon DEF Quarantine, Running, Keeps
<1>2. OpRecord(op) /\ Untouched(op) /\ op.saw[1] = held
  BY <1>1, Zenon DEF MutationInv, OpForm, OpHistory
<1>3. CASE /\ named' = [named EXCEPT !["source"] = NoInode, !["quarantine"] = named["source"]]
           /\ op' = [op EXCEPT !.pc = "judge", !.effect = TRUE, !.dirty = TRUE] /\ UNCHANGED last
  <2>1. NamesShuffled
    BY <1>3, NamesMoved, Zenon DEF Public, MutationNames
  <2>2. OpRecord(op') /\ op'.pc = "judge" /\ op'.kind = op.kind /\ op'.saw = op.saw /\ op'.hit = op.hit
    BY <1>2, <1>3, OpActs, Zenon
  <2>3. OpForm(op') /\ OpHistory(op)'
    BY <1>1, <1>2, <2>2, Zenon DEF OpForm, MutationSteps, Publishing, OpHistory, Untouched
  <2>. QED BY <1>1, <1>3, <2>1, <2>2, <2>3, UnstagedGoesOn, Zenon DEF Publishing
<1>4. CASE Reports("plain", op) /\ UNCHANGED named
  BY <1>1, <1>4, NamesStay, ReportKeeps, Zenon
<1>. QED BY <1>3, <1>4, Zenon DEF Quarantine

LEMMA JudgeQuarantineKeeps ==
  ASSUME MutationInv, JudgeQuarantine
  PROVE  MutationInv'
<1>1. op.kind = "held" /\ op.pc = "judge" /\ UNCHANGED <<disk, held, ops>> /\ QuarantineJudged
  BY Zenon DEF JudgeQuarantine, Running, Keeps
<1>2. OpRecord(op) /\ op.hit \subseteq {held} /\ op.saw[1] = held
  BY <1>1, Zenon DEF MutationInv, OpForm, OpHistory
<1>3. CASE SameInode("quarantine", op.saw) /\ StepTo("delete") /\ UNCHANGED <<named, last>>
  <2>1. OpRecord(op') /\ op'.pc = "delete" /\ op'.kind = op.kind /\ op'.saw = op.saw /\ op'.hit = op.hit
    BY <1>2, <1>3, OpGoes, Zenon DEF StepTo
  <2>2. OpForm(op') /\ OpHistory(op)'
    BY <1>1, <1>2, <2>1, Zenon DEF OpForm, MutationSteps, Publishing, OpHistory
  <2>3. named'["quarantine"] = held
    BY <1>2, <1>3, Zenon DEF SameInode
  <2>. QED BY <1>1, <1>3, <2>1, <2>2, <2>3, NamesStay, UnstagedGoesOn, Zenon DEF Publishing
<1>4. CASE Reports("plain", op) /\ UNCHANGED named
  BY <1>1, <1>4, NamesStay, ReportKeeps, Zenon
<1>5. CASE /\ named' = [named EXCEPT !["quarantine"] = NoInode, !["source"] = named["quarantine"]]
           /\ Reports("plain", [op EXCEPT !.effect = FALSE])
  <2>1. NamesShuffled
    BY <1>5, NamesMoved, Zenon DEF Public, MutationNames
  <2>2. PICK o : o = [op EXCEPT !.effect = FALSE]
    BY Zenon
  <2>3. o.kind = op.kind /\ o.hit = op.hit
    BY <1>2, <2>2, Zenon DEF OpRecord
  <2>. QED BY <1>1, <1>5, <2>1, <2>2, <2>3, ReportKeeps, Zenon
<1>. QED BY <1>1, <1>3, <1>4, <1>5, Zenon DEF QuarantineJudged

(***************************************************************************)
(* Staging and publication.                                                *)
(***************************************************************************)
LEMMA OwnInode ==
  ASSUME MutationInv, op.kind # "none"
  PROVE  /\ Own \in MutationInodes /\ Own > Other
         /\ \A i \in Given .. Own - 1 : i \in MutationInodes \ {Own}
BY MutationConstants DEF MutationInv, MutationInodes, Own, Other, Given

LEMMA StagingBegins ==
  ASSUME MutationInv, op.pc \in {"stage", "write", "sync", "publish", "identity"}
  PROVE  op.kind \in Publishing
BY Zenon DEF MutationInv, OpForm, MutationSteps, Publishing

(* Writing the staging file leaves what has a public name alone. *)
LEMMA OwnWritten ==
  ASSUME MutationInv, Unpublished(op), \A j \in MutationInodes \ {Own} : disk'[j] = disk[j]
  PROVE  /\ \A n \in Public : named[n] # NoInode => disk'[named[n]].content \in Wholes
         /\ op.kind = "commit" => /\ op.saw[1] \in Given .. Own - 1 /\ op.saw[2] \in Nat
                                  /\ disk'[op.saw[1]] = disk[op.saw[1]]
<1>1. \A i \in Given .. Own - 1 : disk'[i] = disk[i]
  BY OwnInode, Zenon DEF Unpublished, Publishing
<1>2. \A n \in Public : named[n] # NoInode => named[n] \in Given .. Own - 1
  BY DEF MutationInv, NamesOK, Public, Own, Other, Given, NoInode
<1>3. \A n \in Public : named[n] # NoInode => disk'[named[n]].content \in Wholes
  BY <1>1, <1>2, Zenon DEF MutationInv, NamesOK
<1>4. op.kind = "commit" => op.saw[1] \in Given .. Own - 1 /\ op.saw[2] \in Nat
  BY Zenon DEF MutationInv, CopyOK
<1>. QED BY <1>1, <1>3, <1>4, Zenon

(* An operation that gives up unlinks its staging file. *)
LEMMA AbandonKeeps ==
  ASSUME MutationInv, Unpublished(op), Abandons, Keeps
  PROVE  MutationInv'
<1>1. Untouched(op) /\ op.kind # "held"
  BY Zenon DEF MutationInv, OpHistory, Unpublished, Publishing
<1>2. NamesShuffled
  BY NamesStay, Zenon DEF Abandons, MutationNames
<1>. QED BY <1>1, <1>2, ReportKeeps, Zenon DEF Abandons, Keeps, Untouched

(* A publication goes on before its rename. *)
LEMMA StagedGoesOn ==
  ASSUME MutationInv, Unpublished(op), Unpublished(op'), UNCHANGED <<last, held, ops>>, DiskForm', NamesShuffled,
         OpRecord(op'), op'.kind = op.kind, op'.saw = op.saw, Untouched(op'), CopyOK',
         \A n \in Public : named[n] # NoInode => disk'[named[n]].content \in Wholes
  PROVE  MutationInv'
<1>1. OpForm(op)'
  BY Zenon DEF Unpublished, OpForm, MutationSteps, Publishing
<1>2. OpHistory(op)'
  BY Zenon DEF Unpublished, OpHistory, Publishing, Untouched
<1>3. op'.kind \notin {"held", "none"} /\ op.kind # "none"
  BY Zenon DEF Unpublished, Publishing
<1>4. NamesOK'
  BY <1>3, NamesKept, Zenon
<1>5. (last'.kind = "held" => last'.hit \subseteq {held'}) /\ MutationReported'
  BY Zenon DEF MutationInv, MutationReported
<1>. QED BY <1>1, <1>2, <1>3, <1>4, <1>5, Zenon DEF MutationInv

LEMMA StageKeeps ==
  ASSUME MutationInv, Stage
  PROVE  MutationInv'
<1>1. op.kind \in Publishing /\ op.pc = "stage" /\ Unpublished(op) /\ UNCHANGED <<held, ops>>
  BY StagingBegins, Zenon DEF Stage, Keeps, Unpublished
<1>2. OpRecord(op) /\ Untouched(op)
  BY <1>1, Zenon DEF MutationInv, OpForm, OpHistory, Publishing
<1>3. CASE /\ named' = [named EXCEPT !["staging"] = Own]
           /\ disk' = [disk EXCEPT ![Own] = [content |-> << >>, stamp |-> 0, entries |-> 0]]
           /\ StepTo("write") /\ UNCHANGED last
  <2>1. OpRecord(op') /\ op'.pc = "write" /\ op'.kind = op.kind /\ op'.saw = op.saw /\ Untouched(op')
    BY <1>2, <1>3, OpGoes DEF StepTo, Untouched
  <2>2. PICK r : r = [content |-> << >>, stamp |-> 0, entries |-> 0]
    BY Zenon
  <2>3. FileRecord(r) /\ r.stamp \in Nat /\ r.content = << >>
    BY <2>2, Zenon DEF FileRecord
  <2>4. Own \in MutationInodes /\ Own' = Own
    BY <1>1, OwnInode, Zenon DEF Publishing, Own
  <2>5. DiskForm' /\ disk'[Own].content = << >> /\ \A j \in MutationInodes \ {Own} : disk'[j] = disk[j]
    <3>1. disk' = [disk EXCEPT ![Own] = r] /\ DiskForm
      BY <1>3, <2>2, Zenon DEF MutationInv
    <3>. QED BY <2>3, <2>4, <3>1, DiskSet, Zenon
  <2>6. NamesShuffled
    <3>1. named \in [MutationNames -> 0 .. Other + ops] /\ Own \in 0 .. Other + ops
      BY DEF MutationInv, NamesOK, Own, Other
    <3>2. \A n \in Public : named'[n] = named[n]
      BY <1>3, <3>1, Zenon DEF Public
    <3>. QED BY <1>3, <3>1, <3>2, Zenon DEF NamesShuffled
  <2>7. CopyOK'
    <3>1. op.kind = "commit" => /\ op.saw[1] \in Given .. Own - 1 /\ op.saw[2] \in Nat
                                /\ disk'[op.saw[1]] = disk[op.saw[1]]
                                /\ op.saw[2] <= disk[op.saw[1]].stamp /\ disk[op.saw[1]].content \in Wholes
      BY <1>1, <2>5, OwnWritten, Zenon DEF MutationInv, CopyOK
    <3>. QED BY <2>1, <2>4, <2>5, <3>1, Zenon DEF CopyOK
  <2>. QED BY <1>1, <1>3, <2>1, <2>5, <2>6, <2>7, OwnWritten, StagedGoesOn, Zenon DEF Unpublished
<1>4. CASE Reports("plain", op) /\ UNCHANGED <<named, disk>>
  BY <1>1, <1>2, <1>4, NamesStay, ReportKeeps, Zenon DEF Untouched, Publishing
<1>. QED BY <1>3, <1>4, Zenon DEF Stage

LEMMA FileCopied ==
  ASSUME NEW d, FileRecord(d), NEW c
  PROVE  [d EXCEPT !.content = c] = [content |-> c, stamp |-> d.stamp, entries |-> d.entries]
<1>1. PICK c1, s, e : d = [content |-> c1, stamp |-> s, entries |-> e]
  BY Zenon DEF FileRecord
<1>2. d.stamp = s /\ d.entries = e
  BY <1>1, Zenon
<1>3. PICK r : r = [d EXCEPT !.content = c]
  BY Zenon
<1>4. r = [content |-> c, stamp |-> s, entries |-> e]
  BY <1>1, <1>3, Zenon
<1>. QED BY <1>2, <1>3, <1>4, Zenon

(* A write that is not a stranger's: the stamp is judged of the source only. *)
LEMMA DiskCopied ==
  ASSUME DiskForm, NEW i \in MutationInodes, NEW c, disk' = [disk EXCEPT ![i].content = c]
  PROVE  DiskForm' /\ disk'[i].content = c /\ \A j \in MutationInodes \ {i} : disk'[j] = disk[j]
<1>1. PICK r : r = [content |-> c, stamp |-> disk[i].stamp, entries |-> disk[i].entries]
  BY Zenon
<1>2. FileRecord(disk[i]) /\ disk[i].stamp \in Nat
  BY Zenon DEF DiskForm
<1>3. FileRecord(r) /\ r.content = c /\ r.stamp = disk[i].stamp
  BY <1>1, Zenon DEF FileRecord
<1>4. [disk[i] EXCEPT !.content = c] = r
  BY <1>1, <1>2, FileCopied, Zenon
<1>5. disk' = [disk EXCEPT ![i] = r]
  BY <1>4, Zenon DEF DiskForm
<1>6. r.stamp \in Nat
  BY <1>2, <1>3, Zenon
<1>. QED BY <1>3, <1>5, <1>6, DiskSet, Zenon

(* The staging file after a piece of the source has been appended. *)
LEMMA FirstHalf ==
  ASSUME NEW c, NEW src, c = << >>
  PROVE  Len(c) + 1 = 1 /\ Append(c, src[Len(c) + 1]) = <<src[1]>>
OBVIOUS

LEMMA SecondHalf ==
  ASSUME NEW c, NEW src, NEW x, c = <<x>>
  PROVE  Len(c) + 1 = 2 /\ Append(c, src[Len(c) + 1]) = <<x, src[2]>>
<1>1. Len(c) + 1 = 2
  OBVIOUS
<1>2. PICK y : y = src[2]
  BY Zenon
<1>3. Append(<<x>>, y) = <<x, y>>
  <2>1. PICK S : x \in S /\ y \in S
    BY x \in {x, y} /\ y \in {x, y}, Zenon
  <2>2. PICK d : d = Append(<<x>>, y)
    BY Zenon
  <2>3. d \in Seq(S) /\ Len(d) = 2 /\ d[1] = x /\ d[2] = y
    BY <2>1, <2>2
  <2>4. DOMAIN d = 1 .. 2 /\ d = [i \in 1 .. 2 |-> d[i]]
    BY <2>3
  <2>5. DOMAIN <<x, y>> = 1 .. 2 /\ <<x, y>>[1] = x /\ <<x, y>>[2] = y /\ <<x, y>> = [i \in 1 .. 2 |-> <<x, y>>[i]]
    OBVIOUS
  <2>6. \A i \in 1 .. 2 : i = 1 \/ i = 2
    OBVIOUS
  <2>7. \A i \in 1 .. 2 : d[i] = <<x, y>>[i]
    BY <2>3, <2>5, <2>6, Zenon
  <2>. QED BY <2>2, <2>4, <2>5, <2>7, Zenon
<1>. QED BY <1>1, <1>2, <1>3, Zenon

LEMMA WriteStagingKeeps ==
  ASSUME MutationInv, WriteStaging
  PROVE  MutationInv'
<1>1. op.kind \in Publishing /\ op.pc = "write" /\ Unpublished(op) /\ UNCHANGED <<held, ops>>
  BY StagingBegins, Zenon DEF WriteStaging, Keeps, Unpublished
<1>2. OpRecord(op) /\ Untouched(op)
  BY <1>1, Zenon DEF MutationInv, OpForm, OpHistory, Publishing
<1>3. ASSUME disk' = [disk EXCEPT ![Own].content = Append(@, StagingSource[Len(disk[Own].content) + 1])],
             StepTo(IF Len(disk[Own].content) + 1 = 2 THEN "sync" ELSE "write"), UNCHANGED <<named, last>>
      PROVE  MutationInv'
  <2>1. /\ OpRecord(op') /\ op'.pc = (IF Len(disk[Own].content) + 1 = 2 THEN "sync" ELSE "write")
        /\ op'.kind = op.kind /\ op'.saw = op.saw /\ Untouched(op')
    BY <1>2, <1>3, OpGoes DEF StepTo, Untouched
  <2>2. PICK c, src : c = disk[Own].content /\ src = StagingSource
    BY Zenon
  <2>3. PICK d : d = Append(c, src[Len(c) + 1])
    BY Zenon
  <2>4. Own \in MutationInodes /\ Own' = Own
    BY <1>1, OwnInode, Zenon DEF Publishing, Own
  <2>5. DiskForm' /\ disk'[Own].content = d /\ \A j \in MutationInodes \ {Own} : disk'[j] = disk[j]
    <3>1. disk' = [disk EXCEPT ![Own].content = d] /\ DiskForm
      BY <1>3, <2>2, <2>3, Zenon DEF MutationInv
    <3>. QED BY <2>4, <3>1, DiskCopied, Zenon
  <2>6. op.kind = "commit" => /\ op.saw[1] \in Given .. Own - 1 /\ op.saw[2] \in Nat
                              /\ disk'[op.saw[1]] = disk[op.saw[1]]
                              /\ op.saw[2] <= disk[op.saw[1]].stamp /\ disk[op.saw[1]].content \in Wholes
    BY <1>1, <2>5, OwnWritten, Zenon DEF MutationInv, CopyOK
  <2>7. StagingSource' = src /\ (SourceKept' => SourceKept)
    BY <2>1, <2>2, <2>6, Zenon DEF StagingSource, SourceKept
  <2>8. \/ c = << >>
        \/ c = <<c[1]>> /\ (SourceKept => c[1] = src[1])
    BY <1>1, <2>2, Zenon DEF MutationInv, CopyOK
  <2>9. CopyOK'
    <3>1. CASE c = << >>
      <4>1. Len(c) + 1 = 1 /\ d = <<src[1]>>
        BY <2>3, <3>1, FirstHalf, Zenon
      <4>2. op'.pc = "write" /\ d = <<d[1]>> /\ d[1] = src[1]
        BY <2>1, <2>2, <4>1
      <4>. QED BY <2>1, <2>4, <2>5, <2>6, <2>7, <4>2, Zenon DEF CopyOK
    <3>2. CASE c = <<c[1]>> /\ (SourceKept => c[1] = src[1])
      <4>1. PICK x : x = c[1]
        BY Zenon
      <4>2. Len(c) + 1 = 2 /\ d = <<x, src[2]>>
        BY <2>3, <3>2, <4>1, SecondHalf, Zenon
      <4>3. op'.pc = "sync" /\ d = <<d[1], d[2]>> /\ d[1] = x /\ d[2] = src[2]
        BY <2>1, <2>2, <4>2, Zenon
      <4>. QED BY <2>1, <2>4, <2>5, <2>6, <2>7, <3>2, <4>1, <4>3, Zenon DEF CopyOK
    <3>. QED BY <2>8, <3>1, <3>2, Zenon
  <2>10. Unpublished(op') /\ NamesShuffled
    BY <1>1, <1>3, <2>1, NamesStay, Zenon DEF Unpublished
  <2>. QED BY <1>1, <1>3, <2>1, <2>5, <2>9, <2>10, OwnWritten, StagedGoesOn, Zenon
<1>4. CASE Abandons
  BY <1>1, <1>4, AbandonKeeps, Zenon DEF WriteStaging
<1>. QED BY <1>3, <1>4, Zenon DEF WriteStaging

LEMMA AbortCreateKeeps ==
  ASSUME MutationInv, AbortCreate
  PROVE  MutationInv'
BY AbandonKeeps, Zenon DEF AbortCreate, Running, Unpublished, Publishing

(* The staged upload is unchanged, hence so is every piece that was read. *)
LEMMA SyncStagingKeeps ==
  ASSUME MutationInv, SyncStaging
  PROVE  MutationInv'
<1>1. op.kind \in Publishing /\ op.pc = "sync" /\ Unpublished(op) /\ UNCHANGED <<held, ops>>
  BY StagingBegins, Zenon DEF SyncStaging, Keeps, Unpublished
<1>2. OpRecord(op) /\ Untouched(op)
  BY <1>1, Zenon DEF MutationInv, OpForm, OpHistory, Publishing
<1>3. ASSUME op.kind = "commit" => StagingUnchanged /\ DigestExpected, StepTo("verify"), UNCHANGED <<named, disk, last>>
      PROVE  MutationInv'
  <2>1. /\ OpRecord(op') /\ op'.pc = "verify" /\ op'.kind = op.kind /\ op'.saw = op.saw /\ Untouched(op')
        /\ op'.bound = op.bound
    BY <1>2, <1>3, OpGoes DEF StepTo, Untouched
  <2>2. PICK d, src : d = disk[Own].content /\ src = StagingSource
    BY Zenon
  <2>3. src \in Wholes
    <3>1. CASE op.kind = "commit"
      BY <1>1, <2>2, <3>1, Zenon DEF MutationInv, CopyOK, StagingSource
    <3>2. CASE op.kind # "commit"
      BY <2>2, <3>2, Zenon DEF Wholes, StagingSource
    <3>. QED BY <3>1, <3>2, Zenon
  <2>4. PICK c \in MutationInodes \cup {Edited, New} : src = <<c, c>>
    BY <2>3, Zenon DEF Wholes, Whole
  <2>5. SourceKept
    BY <1>3, Zenon DEF SourceKept, StagingUnchanged
  <2>6. d = <<d[1], d[2]>> /\ d[1] = src[1] /\ d[2] = src[2]
    BY <1>1, <2>2, <2>5, Zenon DEF MutationInv, CopyOK
  <2>7. src[1] = c /\ src[2] = c
    BY <2>4, Zenon
  <2>8. d \in Wholes
    BY <2>4, <2>6, <2>7, Zenon DEF Wholes, Whole
  <2>9. op.kind = "commit" /\ op.bound => d = Whole(Given)
    BY <1>3, <2>2, Zenon DEF DigestExpected
  <2>10. Own' = Own /\ disk' = disk /\ DiskForm' /\ NamesShuffled /\ Unpublished(op')
    BY <1>1, <1>3, <2>1, NamesStay, Zenon DEF Own, MutationInv, DiskForm, Unpublished
  <2>11. op.kind = "commit" =>
           /\ op.saw[1] \in Given .. Own - 1 /\ op.saw[2] \in Nat /\ op.saw[2] <= disk[op.saw[1]].stamp
           /\ disk[op.saw[1]].content \in Wholes
    BY <1>1, Zenon DEF MutationInv, CopyOK
  <2>12. CopyOK'
    BY <2>1, <2>2, <2>8, <2>9, <2>10, <2>11 DEF CopyOK
  <2>13. \A n \in Public : named[n] # NoInode => disk'[named[n]].content \in Wholes
    BY <2>10, Zenon DEF MutationInv, NamesOK
  <2>. QED BY <1>1, <1>3, <2>1, <2>10, <2>12, <2>13, StagedGoesOn, Zenon
<1>4. CASE Abandons
  BY <1>1, <1>4, AbandonKeeps, Zenon DEF SyncStaging
<1>. QED BY <1>3, <1>4, Zenon DEF SyncStaging

LEMMA VerifyBeforePublishKeeps ==
  ASSUME MutationInv, VerifyBeforePublish
  PROVE  MutationInv'
<1>1. op.kind \in Publishing /\ op.pc = "verify" /\ Unpublished(op) /\ UNCHANGED <<held, ops>>
  BY Zenon DEF VerifyBeforePublish, Running, Keeps, Unpublished, Publishing
<1>2. OpRecord(op) /\ Untouched(op)
  BY <1>1, Zenon DEF MutationInv, OpForm, OpHistory, Publishing
<1>3. ASSUME StepTo("publish"), UNCHANGED <<named, disk, last>>
      PROVE  MutationInv'
  <2>1. /\ OpRecord(op') /\ op'.pc = "publish" /\ op'.kind = op.kind /\ op'.saw = op.saw /\ Untouched(op')
        /\ op'.bound = op.bound
    BY <1>2, <1>3, OpGoes DEF StepTo, Untouched
  <2>2. Own' = Own /\ disk' = disk /\ DiskForm' /\ NamesShuffled /\ Unpublished(op')
    BY <1>1, <1>3, <2>1, NamesStay, Zenon DEF Own, MutationInv, DiskForm, Unpublished
  <2>3. CopyOK'
    BY <1>1, <2>1, <2>2, Zenon DEF MutationInv, CopyOK
  <2>4. \A n \in Public : named[n] # NoInode => disk'[named[n]].content \in Wholes
    BY <2>2, Zenon DEF MutationInv, NamesOK
  <2>. QED BY <1>1, <1>3, <2>1, <2>2, <2>3, <2>4, StagedGoesOn, Zenon
<1>4. CASE Abandons
  BY <1>1, <1>4, AbandonKeeps, Zenon DEF VerifyBeforePublish
<1>. QED BY <1>3, <1>4, Zenon DEF VerifyBeforePublish

(* What is published is whole. *)
LEMMA PublishKeeps ==
  ASSUME MutationInv, Publish
  PROVE  MutationInv'
<1>1. op.kind \in Publishing /\ op.pc = "publish" /\ Unpublished(op) /\ UNCHANGED <<held, ops>>
  BY StagingBegins, Zenon DEF Publish, Keeps, Unpublished
<1>2. OpRecord(op) /\ op.kind \notin {"none", "held"}
  BY <1>1, Zenon DEF MutationInv, OpForm, Publishing
<1>3. ASSUME NEW p \in {"identity", "dirsync"}, named' = Publishes, UNCHANGED <<disk, last>>,
             op' = [op EXCEPT !.pc = p, !.effect = TRUE, !.dirty = TRUE]
      PROVE  MutationInv'
  <2>1. OpRecord(op') /\ op'.pc = p /\ op'.kind = op.kind /\ op'.saw = op.saw /\ op'.hit = op.hit
    BY <1>2, <1>3, OpActs, Zenon
  <2>2. op'.bound => op.bound
    BY <1>2, <1>3, OpActs, Zenon
  <2>3. OpForm(op)' /\ OpHistory(op)' /\ ~Unpublished(op')
    BY <1>1, <1>2, <2>1, Zenon DEF OpForm, MutationSteps, OpHistory, Publishing, Unpublished
  <2>4. Own' = Own /\ disk' = disk /\ DiskForm'
    BY <1>1, <1>3, Zenon DEF Own, MutationInv, DiskForm
  <2>5. disk[Own].content \in Wholes
    BY <1>1, Zenon DEF MutationInv, CopyOK
  <2>6. CopyOK'
    BY <1>1, <2>1, <2>2, <2>3, <2>4 DEF MutationInv, CopyOK
  <2>7. NamesOK'
    <3>1. named \in [MutationNames -> 0 .. Other + ops] /\ NoInode \in 0 .. Other + ops /\ Own \in 0 .. Other + ops
      BY DEF MutationInv, NamesOK, NoInode, Other, Own
    <3>2. /\ named' \in [MutationNames -> 0 .. Other + ops'] /\ named'["target"] = Own
          /\ \A n \in Public \ {"target"} : named'[n] = named[n]
      BY <1>1, <1>3, <3>1, Zenon DEF Publishes, Public, MutationNames
    <3>3. \A n \in Public : named'[n] # NoInode => disk'[named'[n]].content \in Wholes
      BY <2>4, <2>5, <3>2, Zenon DEF MutationInv, NamesOK
    <3>. QED BY <1>2, <2>1, <2>3, <3>2, <3>3, Zenon DEF NamesOK
  <2>8. (last'.kind = "held" => last'.hit \subseteq {held'}) /\ MutationReported'
    BY <1>1, <1>3, Zenon DEF MutationInv, MutationReported
  <2>. QED BY <1>1, <1>2, <2>1, <2>3, <2>4, <2>6, <2>7, <2>8 DEF MutationInv
<1>4. CASE Abandons
  BY <1>1, <1>4, AbandonKeeps, Zenon DEF Publish
<1>5. (IF op.kind \in {"create", "commit"} THEN "identity" ELSE "dirsync") \in {"identity", "dirsync"}
  BY Zenon
<1>. QED BY <1>3, <1>4, <1>5, Zenon DEF Publish

LEMMA BindIdentityKeeps ==
  ASSUME MutationInv, BindIdentity
  PROVE  MutationInv'
<1>1. op.kind \in Publishing /\ op.pc = "identity" /\ UNCHANGED <<named, disk, held, ops>> /\ NamesShuffled
  BY StagingBegins, NamesStay, Zenon DEF BindIdentity, Keeps
<1>2. OpRecord(op) /\ op.kind # "held"
  BY <1>1, Zenon DEF MutationInv, OpForm, Publishing
<1>3. CASE StepTo("dirsync") /\ UNCHANGED last
  <2>1. OpRecord(op') /\ op'.pc = "dirsync" /\ op'.kind = op.kind /\ op'.bound = op.bound
    BY <1>2, <1>3, OpGoes DEF StepTo
  <2>2. OpForm(op') /\ OpHistory(op)' /\ ~Unpublished(op')
    BY <1>1, <2>1, Zenon DEF OpForm, MutationSteps, Publishing, OpHistory, Unpublished
  <2>3. Own' = Own /\ disk' = disk
    BY <1>1, Zenon DEF Own
  <2>4. CopyOK'
    BY <1>1, <2>1, <2>2, <2>3, Zenon DEF MutationInv, CopyOK
  <2>. QED BY <1>1, <1>2, <1>3, <2>1, <2>2, <2>4, GoesOn, Zenon
<1>4. CASE Reports("changed", op)
  BY <1>1, <1>4, ReportKeeps, Zenon
<1>. QED BY <1>3, <1>4, Zenon DEF BindIdentity

(***************************************************************************)
(* Strangers.                                                              *)
(***************************************************************************)
(* What a stranger does to names. *)
LEMMA StrangerShuffles ==
  ASSUME MutationInv, Strange, UNCHANGED disk, NamesShuffled, named'["quarantine"] = named["quarantine"]
  PROVE  MutationInv'
<1>1. UNCHANGED <<op, last, held, ops, disk>>
  BY Zenon DEF Strange
<1>2. OpForm(op') /\ OpHistory(op)' /\ CopyOK'
  <2>1. OpForm(op') /\ OpHistory(op)'
    BY <1>1, Zenon DEF MutationInv, OpHistory
  <2>2. Own' = Own /\ StagingSource' = StagingSource /\ (SourceKept' <=> SourceKept) /\ (Unpublished(op)' <=> Unpublished(op))
    BY <1>1, Zenon DEF Own, StagingSource, SourceKept, Unpublished
  <2>3. CopyOK'
    BY <1>1, <2>2 DEF MutationInv, CopyOK
  <2>. QED BY <2>1, <2>3, Zenon
<1>3. op'.kind = "held" /\ op'.pc \in {"delete", "delsync"} => named'["quarantine"] \in {NoInode, held'}
  BY <1>1, Zenon DEF MutationInv, NamesOK
<1>. QED BY <1>1, <1>2, <1>3, GoesOn, Zenon

LEMMA StrangerUnlinksKeeps ==
  ASSUME MutationInv, NEW n \in {"source", "target"}, StrangerUnlinks(n)
  PROVE  MutationInv'
<1>1. NamesShuffled
  BY NamesStay, Zenon DEF StrangerUnlinks, MutationNames
<1>2. named'["quarantine"] = named["quarantine"]
  BY Zenon DEF StrangerUnlinks, MutationInv, NamesOK, MutationNames
<1>. QED BY <1>1, <1>2, StrangerShuffles, Zenon DEF StrangerUnlinks

LEMMA StrangerSwapsKeeps ==
  ASSUME MutationInv, StrangerSwaps
  PROVE  MutationInv'
<1>1. named \in [MutationNames -> 0 .. Other + ops]
  BY Zenon DEF MutationInv, NamesOK
<1>2. /\ named' \in [MutationNames -> 0 .. Other + ops] /\ named'["source"] = named["target"]
      /\ named'["target"] = named["source"] /\ named'["quarantine"] = named["quarantine"]
  BY <1>1, Zenon DEF StrangerSwaps, MutationNames
<1>3. NamesShuffled
  BY <1>2, Zenon DEF NamesShuffled, Public, MutationNames
<1>. QED BY <1>2, <1>3, StrangerShuffles, Zenon DEF StrangerSwaps

(* A stranger's write is a version of its own, with a stamp of its own. *)
LEMMA StrangerEditsKeeps ==
  ASSUME MutationInv, NEW i \in {Given, Other}, StrangerEdits(i)
  PROVE  MutationInv'
<1>1. UNCHANGED <<op, last, held, ops, named>> /\ Own' = Own
  BY Zenon DEF StrangerEdits, Strange, Own
<1>2. i \in MutationInodes /\ DiskForm /\ disk[i].stamp \in Nat
  BY MutationConstants DEF MutationInv, DiskForm, MutationInodes, Given, Other
<1>3. PICK s \in Nat : s = disk[i].stamp + 1
  BY <1>2
<1>4. /\ DiskForm' /\ disk'[i].content = Whole(Edited) /\ disk'[i].stamp = s
      /\ \A j \in MutationInodes \ {i} : disk'[j] = disk[j]
  <2>1. disk' = [disk EXCEPT ![i].content = Whole(Edited), ![i].stamp = s]
    BY <1>3, Zenon DEF StrangerEdits
  <2>. QED BY <1>2, <2>1, DiskWritten, Zenon
<1>5. disk'[i].content \in Wholes
  BY <1>4, Zenon DEF Wholes
<1>6. \A n \in Public : named[n] # NoInode => disk'[named[n]].content \in Wholes
  <2>1. \A n \in Public : named[n] # NoInode => named[n] \in MutationInodes
    BY MutationConstants DEF MutationInv, NamesOK, Public, Other, Given, NoInode, MutationInodes
  <2>2. \A n \in Public : named[n] # NoInode => disk[named[n]].content \in Wholes
    BY Zenon DEF MutationInv, NamesOK
  <2>. QED BY <1>4, <1>5, <2>1, <2>2, Zenon
<1>7. op.kind # "none" => disk'[Own] = disk[Own]
  BY <1>4, OwnInode DEF Given, Other
<1>8. op.kind = "commit" /\ Unpublished(op) =>
        /\ op.saw[1] \in Given .. Own - 1 /\ op.saw[2] \in Nat /\ op.saw[2] <= disk'[op.saw[1]].stamp
        /\ disk'[op.saw[1]].content \in Wholes
        /\ disk'[op.saw[1]].stamp = op.saw[2] => disk'[op.saw[1]] = disk[op.saw[1]]
  <2>. SUFFICES ASSUME op.kind = "commit", Unpublished(op)
                PROVE  /\ op.saw[1] \in Given .. Own - 1 /\ op.saw[2] \in Nat /\ op.saw[2] <= disk'[op.saw[1]].stamp
                       /\ disk'[op.saw[1]].content \in Wholes
                       /\ disk'[op.saw[1]].stamp = op.saw[2] => disk'[op.saw[1]] = disk[op.saw[1]]
    BY Zenon
  <2>1. /\ op.saw[1] \in Given .. Own - 1 /\ op.saw[2] \in Nat /\ op.saw[2] <= disk[op.saw[1]].stamp
        /\ disk[op.saw[1]].content \in Wholes
    BY Zenon DEF MutationInv, CopyOK
  <2>2. op.saw[1] \in MutationInodes
    BY <2>1, OwnInode, Zenon
  <2>3. CASE op.saw[1] = i
    BY <1>2, <1>3, <1>4, <1>5, <2>1, <2>3
  <2>4. CASE op.saw[1] # i
    <3>1. disk'[op.saw[1]] = disk[op.saw[1]]
      BY <1>4, <2>2, <2>4, Zenon
    <3>. QED BY <2>1, <3>1, Zenon
  <2>. QED BY <2>3, <2>4, Zenon
<1>9. CopyOK'
  <2>1. op.pc \in {"write", "sync"} => Unpublished(op)
    BY StagingBegins, Zenon DEF Unpublished
  <2>2. Unpublished(op) /\ SourceKept' => SourceKept /\ StagingSource' = StagingSource
    BY <1>1, <1>8, Zenon DEF SourceKept, StagingSource
  <2>3. Unpublished(op) \/ op.kind \in Publishing => disk'[Own] = disk[Own]
    BY <1>7, Zenon DEF Unpublished, Publishing
  <2>4. op.pc = "write" => \/ disk'[Own].content = << >>
                           \/ /\ disk'[Own].content = <<disk'[Own].content[1]>>
                              /\ SourceKept' => disk'[Own].content[1] = StagingSource'[1]
    BY <2>1, <2>2, <2>3 DEF MutationInv, CopyOK
  <2>5. op.pc = "sync" => /\ disk'[Own].content = <<disk'[Own].content[1], disk'[Own].content[2]>>
                          /\ SourceKept' => /\ disk'[Own].content[1] = StagingSource'[1]
                                            /\ disk'[Own].content[2] = StagingSource'[2]
    BY <2>1, <2>2, <2>3 DEF MutationInv, CopyOK
  <2>6. op.kind \in Publishing /\ op.pc \in {"verify", "publish", "identity", "dirsync"} =>
          /\ disk'[Own].content \in Wholes
          /\ op.kind = "commit" /\ op.bound => disk'[Own].content = Whole(Given)
    BY <2>3 DEF MutationInv, CopyOK
  <2>. QED BY <1>1, <1>8, <2>4, <2>5, <2>6, Zenon DEF CopyOK, Unpublished
<1>10. OpForm(op') /\ OpHistory(op)'
  BY <1>1, Zenon DEF MutationInv, OpHistory
<1>11. NamesOK'
  <2>1. NamesShuffled
    BY <1>1, NamesStay, Zenon
  <2>2. op'.kind = "held" /\ op'.pc \in {"delete", "delsync"} => named'["quarantine"] \in {NoInode, held'}
    BY <1>1, Zenon DEF MutationInv, NamesOK
  <2>. QED BY <1>1, <1>6, <2>1, <2>2, NamesKept, Zenon
<1>12. (last'.kind = "held" => last'.hit \subseteq {held'}) /\ MutationReported'
  BY <1>1, Zenon DEF MutationInv, MutationReported
<1>. QED BY <1>1, <1>4, <1>9, <1>10, <1>11, <1>12, Zenon DEF MutationInv

(***************************************************************************)
(* The lease is taken.                                                     *)
(***************************************************************************)
Opened(k, p, s, t, b) ==
  [kind |-> k, pc |-> p, saw |-> s, todo |-> t, effect |-> FALSE, dirty |-> FALSE, hit |-> {}, bound |-> b]

LEMMA OpenedFields ==
  ASSUME NEW k, NEW p, NEW s, NEW t, NEW b
  PROVE  LET o == Opened(k, p, s, t, b) IN
         OpRecord(o) /\ o.kind = k /\ o.pc = p /\ o.saw = s /\ Untouched(o)
BY Zenon DEF Opened, OpRecord, Untouched

LEMMA BegunOpened ==
  ASSUME NEW k, NEW p
  PROVE  \E s, t, b : Begun(k, p) = Opened(k, p, s, t, b)
<1>1. PICK d : d = Idle
  BY Zenon
<1>2. d = Opened("none", "idle", <<NoInode, 0>>, << >>, FALSE)
  BY <1>1, Zenon DEF Idle, Opened
<1>3. PICK s, t, b : d = Opened("none", "idle", s, t, b)
  BY <1>2, Zenon
<1>4. PICK q : q = [d EXCEPT !.kind = k, !.pc = p]
  BY Zenon
<1>5. q = Opened(k, p, s, t, b)
  BY <1>3, <1>4, Zenon DEF Opened
<1>. QED BY <1>1, <1>4, <1>5, Zenon DEF Begun

LEMMA BegunSaw ==
  ASSUME NEW k, NEW p, NEW s,
         NEW q, q = [Begun(k, p) EXCEPT !.saw = s]
  PROVE  \E t, b : q = Opened(k, p, s, t, b)
<1>1. PICK d : d = Begun(k, p)
  BY Zenon
<1>2. PICK s1, t, b : d = Opened(k, p, s1, t, b)
  BY <1>1, BegunOpened, Zenon
<1>3. q = [d EXCEPT !.saw = s]
  BY <1>1, Zenon
<1>4. q = Opened(k, p, s, t, b)
  BY <1>2, <1>3, Zenon DEF Opened
<1>. QED BY <1>1, <1>3, <1>4, Zenon

LEMMA BegunTodo ==
  ASSUME NEW k, NEW p, NEW t,
         NEW q, q = [Begun(k, p) EXCEPT !.todo = t]
  PROVE  \E s, b : q = Opened(k, p, s, t, b)
<1>1. PICK d : d = Begun(k, p)
  BY Zenon
<1>2. PICK s, t1, b : d = Opened(k, p, s, t1, b)
  BY <1>1, BegunOpened, Zenon
<1>3. q = [d EXCEPT !.todo = t]
  BY <1>1, Zenon
<1>4. q = Opened(k, p, s, t, b)
  BY <1>2, <1>3, Zenon DEF Opened
<1>. QED BY <1>1, <1>3, <1>4, Zenon

(* The first step of each kind, and what it has looked up. *)
FirstStep(k, p, s) ==
  \/ k \in {"create", "rewrite"} /\ p = "stage"
  \/ k = "commit" /\ p = "stage" /\ named["source"] # NoInode /\ s = StatName("source")
  \/ k \in {"rename", "remove"} /\ p = "verify"
  \/ k = "mkdir" /\ p = "mkdir"
  \/ k = "unlink" /\ p = "unlink"
  \/ k = "held" /\ p = "lookup" /\ s = <<held, 0>>

LEMMA FirstSteps ==
  /\ \A s : \A k \in {"create", "rewrite"} : FirstStep(k, "stage", s)
  /\ \A s : \A k \in {"rename", "remove"} : FirstStep(k, "verify", s)
  /\ \A s : FirstStep("mkdir", "mkdir", s) /\ FirstStep("unlink", "unlink", s)
  /\ named["source"] # NoInode => FirstStep("commit", "stage", StatName("source"))
  /\ FirstStep("held", "lookup", <<held, 0>>)
BY Zenon DEF FirstStep

LEMMA BeginShape ==
  ASSUME BeginMutation
  PROVE  \E k, p, s, t, b : op' = Opened(k, p, s, t, b) /\ FirstStep(k, p, s)
<1>1. CASE BeginsCreate
  <2>1. \E s, t, b : op' = Opened("create", "stage", s, t, b)
    BY <1>1, BegunOpened, Zenon DEF BeginsCreate
  <2>. QED BY <1>1, <2>1, FirstSteps, Zenon
<1>2. CASE BeginsCommit
  <2>1. \E t, b : op' = Opened("commit", "stage", StatName("source"), t, b)
    <3>1. PICK x, b : x = StatName("source") /\ op' = [Begun("commit", "stage") EXCEPT !.saw = x, !.bound = b]
      BY <1>2, Zenon DEF BeginsCommit
    <3>2. PICK d : d = Begun("commit", "stage")
      BY Zenon
    <3>3. PICK s, t, c : d = Opened("commit", "stage", s, t, c)
      BY <3>2, BegunOpened, Zenon
    <3>4. op' = [d EXCEPT !.saw = x, !.bound = b]
      BY <3>1, <3>2, Zenon
    <3>5. op' = Opened("commit", "stage", x, t, b)
      BY <3>3, <3>4, Zenon DEF Opened
    <3>. QED BY <3>1, <3>5, Zenon
  <2>. QED BY <1>2, <2>1, FirstSteps, Zenon DEF BeginsCommit
<1>3. CASE BeginsRewrite
  <2>1. \E t, b : op' = Opened("rewrite", "stage", StatName("target"), t, b)
    <3>1. PICK x : x = StatName("target") /\ op' = [Begun("rewrite", "stage") EXCEPT !.saw = x]
      BY <1>3, Zenon DEF BeginsRewrite
    <3>. QED BY <3>1, BegunSaw
  <2>. QED BY <1>3, <2>1, FirstSteps, Zenon
<1>4. CASE BeginsRename
  <2>1. \E t, b : op' = Opened("rename", "verify", StatName("source"), t, b)
    <3>1. PICK x : x = StatName("source") /\ op' = [Begun("rename", "verify") EXCEPT !.saw = x]
      BY <1>4, Zenon DEF BeginsRename
    <3>. QED BY <3>1, BegunSaw
  <2>. QED BY <1>4, <2>1, FirstSteps, Zenon
<1>5. CASE BeginsMkdir
  <2>1. \E s, t, b : op' = Opened("mkdir", "mkdir", s, t, b)
    <3>1. PICK x : x = <<1, 2>> /\ op' = [Begun("mkdir", "mkdir") EXCEPT !.todo = x]
      BY <1>5, Zenon DEF BeginsMkdir
    <3>2. \E s, b : op' = Opened("mkdir", "mkdir", s, x, b)
      BY <3>1, BegunTodo
    <3>. QED BY <3>2, Zenon
  <2>. QED BY <1>5, <2>1, FirstSteps, Zenon
<1>6. CASE BeginsUnlink
  <2>1. \E s, t, b : op' = Opened("unlink", "unlink", s, t, b)
    BY <1>6, BegunOpened, Zenon DEF BeginsUnlink
  <2>. QED BY <1>6, <2>1, FirstSteps, Zenon
<1>7. CASE BeginsHeld
  <2>1. \E t, b : op' = Opened("held", "lookup", <<held, 0>>, t, b)
    <3>1. PICK x : x = <<held, 0>> /\ op' = [Begun("held", "lookup") EXCEPT !.saw = x]
      BY <1>7, Zenon DEF BeginsHeld
    <3>. QED BY <3>1, BegunSaw
  <2>. QED BY <1>7, <2>1, FirstSteps, Zenon
<1>8. CASE BeginsRemove
  <2>1. \E s, t, b : op' = Opened("remove", "verify", s, t, b)
    <3>1. PICK x : op' = [Begun("remove", "verify") EXCEPT !.todo = x]
      BY <1>8, Zenon DEF BeginsRemove
    <3>2. \E s, b : op' = Opened("remove", "verify", s, x, b)
      BY <3>1, BegunTodo
    <3>. QED BY <3>2, Zenon
  <2>. QED BY <1>8, <2>1, FirstSteps, Zenon
<1>. QED BY <1>1, <1>2, <1>3, <1>4, <1>5, <1>6, <1>7, <1>8, Zenon DEF BeginMutation

LEMMA BeginMutationKeeps ==
  ASSUME MutationInv, BeginMutation
  PROVE  MutationInv'
<1>1. UNCHANGED <<named, disk, last, held>> /\ ops' = ops + 1 /\ ops' \in 1 .. MaxOps /\ ops \in Nat
  BY MutationConstants DEF BeginMutation, MutationInv
<1>2. PICK k, p, s, t, b : op' = Opened(k, p, s, t, b) /\ FirstStep(k, p, s)
  BY BeginShape, Zenon
<1>3. OpRecord(op') /\ op'.kind = k /\ op'.pc = p /\ op'.saw = s /\ Untouched(op')
  BY <1>2, OpenedFields
<1>4. OpForm(op)'
  BY <1>2, <1>3, Zenon DEF FirstStep, OpForm, MutationSteps, Publishing
<1>5. OpHistory(op)'
  BY <1>1, <1>2, <1>3 DEF FirstStep, OpHistory, Untouched
<1>6. DiskForm' /\ (last'.kind = "held" => last'.hit \subseteq {held'}) /\ MutationReported'
  BY <1>1, Zenon DEF MutationInv, DiskForm, MutationReported
<1>7. named \in [MutationNames -> 0 .. Other + ops] /\ \A n \in MutationNames : named[n] \in 0 .. Own' - 1
  BY <1>1 DEF MutationInv, NamesOK, Own, Other
<1>8. NamesOK'
  <2>1. named' \in [MutationNames -> 0 .. Other + ops']
    BY <1>1, <1>7 DEF Other
  <2>2. \A n \in Public : named'[n] < Own'
    BY <1>1, <1>7 DEF Public, Own, Other
  <2>3. \A n \in Public : named'[n] # NoInode => disk'[named'[n]].content \in Wholes
    BY <1>1, Zenon DEF MutationInv, NamesOK
  <2>4. ~(op'.kind = "held" /\ op'.pc \in {"delete", "delsync"})
    BY <1>2, <1>3, Zenon DEF FirstStep
  <2>. QED BY <2>1, <2>2, <2>3, <2>4, Zenon DEF NamesOK
<1>9. CopyOK'
  <2>1. op'.pc \notin {"write", "sync"} /\ ~(op'.kind \in Publishing /\ op'.pc \in {"verify", "publish", "identity", "dirsync"})
    BY <1>2, <1>3, Zenon DEF FirstStep, Publishing
  <2>2. ASSUME op'.kind = "commit"
        PROVE  /\ op'.saw[1] \in Given .. Own' - 1 /\ op'.saw[2] \in Nat /\ op'.saw[2] <= disk'[op'.saw[1]].stamp
               /\ disk'[op'.saw[1]].content \in Wholes
    <3>1. named["source"] # NoInode /\ s = StatName("source")
      BY <1>2, <1>3, <2>2, Zenon DEF FirstStep
    <3>2. op'.saw[1] = named["source"] /\ op'.saw[2] = disk[named["source"]].stamp
      BY <1>3, <3>1 DEF StatName
    <3>3. named["source"] \in Given .. Own' - 1
      BY <1>7, <3>1 DEF MutationNames, Given, NoInode
    <3>4. named["source"] \in MutationInodes
      BY <1>1, <3>3, MutationConstants DEF Own, Other, Given, MutationInodes
    <3>5. disk[named["source"]].stamp \in Nat /\ disk[named["source"]].content \in Wholes
      BY <3>1, <3>4 DEF MutationInv, DiskForm, NamesOK, Public, MutationNames
    <3>. QED BY <1>1, <3>2, <3>3, <3>5
  <2>. QED BY <2>1, <2>2, Zenon DEF CopyOK
<1>10. ops' \in 0 .. MaxOps /\ ops' > 0
  BY <1>1
<1>. QED BY <1>4, <1>5, <1>6, <1>8, <1>9, <1>10, Zenon DEF MutationInv

(***************************************************************************)
(* The theorems.                                                           *)
(***************************************************************************)
LEMMA MutationStarts ==
  ASSUME MutationInit
  PROVE  MutationInv
<1>1. op = Idle /\ last = NoReport /\ held = Given /\ ops = 0
  BY Zenon DEF MutationInit
<1>2. Idle.kind = "none" /\ Idle.pc = "idle" /\ OpRecord(Idle) /\ Untouched(Idle)
  BY Zenon DEF Idle, OpRecord, Untouched
<1>3. OpForm(op) /\ OpHistory(op) /\ ~Unpublished(op)
  BY <1>1, <1>2, Zenon DEF OpForm, MutationSteps, OpHistory, Unpublished, Publishing
<1>4. \A i \in MutationInodes : disk[i] = [content |-> Whole(i), stamp |-> 0, entries |-> MaxEntries]
  BY Zenon DEF MutationInit
<1>5. \A i \in MutationInodes : FileRecord(disk[i]) /\ disk[i].stamp \in Nat /\ disk[i].content = Whole(i)
  <2>. TAKE i \in MutationInodes
  <2>1. PICK w, r : w = Whole(i) /\ r = disk[i]
    BY Zenon
  <2>2. r = [content |-> w, stamp |-> 0, entries |-> MaxEntries]
    BY <1>4, <2>1, Zenon
  <2>3. FileRecord(r) /\ r.stamp = 0 /\ r.content = w
    BY <2>2, Zenon DEF FileRecord
  <2>. QED BY <2>1, <2>3
<1>6. DiskForm
  <2>1. DOMAIN disk = MutationInodes /\ disk = [i \in MutationInodes |-> disk[i]]
    BY Zenon DEF MutationInit
  <2>. QED BY <1>5, <2>1, Zenon DEF DiskForm
<1>7. NamesOK
  <2>1. named \in [MutationNames -> 0 .. Other]
    BY DEF MutationInit, NoInode, Given, Other
  <2>2. \A n \in Public : named[n] # NoInode => named[n] \in MutationInodes
    BY <2>1, MutationConstants DEF Public, NoInode, Given, Other, MutationInodes
  <2>3. \A i \in MutationInodes : disk[i].content \in Wholes
    BY <1>5, Zenon DEF Wholes
  <2>4. named \in [MutationNames -> 0 .. Other + ops]
    BY <1>1, <2>1 DEF Other
  <2>. QED BY <1>1, <1>2, <1>3, <2>2, <2>3, <2>4 DEF NamesOK
<1>8. CopyOK
  BY <1>1, <1>2, <1>3, Zenon DEF CopyOK, Publishing
<1>9. (last.kind = "held" => last.hit \subseteq {held}) /\ MutationReported
  BY <1>1, Zenon DEF NoReport, MutationReported
<1>. QED BY <1>1, <1>2, <1>3, <1>6, <1>7, <1>8, <1>9, MutationConstants DEF MutationInv

LEMMA MutationStutters ==
  ASSUME MutationInv, UNCHANGED mutationVars
  PROVE  MutationInv'
<1>1. UNCHANGED <<named, disk, op, last, held, ops>>
  BY Zenon DEF mutationVars
<1>2. NamesShuffled
  BY <1>1, NamesStay
<1>3. OpForm(op') /\ OpHistory(op)'
  BY <1>1, Zenon DEF MutationInv, OpHistory
<1>4. Own' = Own /\ StagingSource' = StagingSource /\ (SourceKept' <=> SourceKept) /\ (Unpublished(op)' <=> Unpublished(op))
  BY <1>1, Zenon DEF Own, StagingSource, SourceKept, Unpublished
<1>5. CopyOK'
  BY <1>1, <1>4 DEF MutationInv, CopyOK
<1>6. op'.kind = "held" /\ op'.pc \in {"delete", "delsync"} => named'["quarantine"] \in {NoInode, held'}
  BY <1>1, Zenon DEF MutationInv, NamesOK
<1>. QED BY <1>1, <1>2, <1>3, <1>5, <1>6, GoesOn, Zenon

LEMMA MutationSteady == MutationSpec => []MutationInv
<1>1. MutationInit => MutationInv
  BY MutationStarts, Zenon
<1>2. MutationInv /\ [MutationNext]_mutationVars => MutationInv'
  <2>. SUFFICES ASSUME MutationInv, [MutationNext]_mutationVars PROVE MutationInv'
    BY Zenon
  <2>1. CASE BeginMutation \/ Stage \/ WriteStaging \/ AbortCreate \/ SyncStaging
    BY <2>1, BeginMutationKeeps, StageKeeps, WriteStagingKeeps, AbortCreateKeeps, SyncStagingKeeps, Zenon
  <2>2. CASE VerifyBeforePublish \/ Publish \/ BindIdentity \/ SyncDirectory \/ Rename \/ RenameMoves
    BY <2>2, VerifyBeforePublishKeeps, PublishKeeps, BindIdentityKeeps, SyncDirectoryKeeps, RenameKeeps,
       RenameMovesKeeps, Zenon
  <2>3. CASE MkdirComponent \/ MkdirSync \/ MkdirOpen \/ UnlinkName \/ RemoveNext \/ DeleteEntry \/ DeleteSync \/ Deleted
    BY <2>3, MkdirComponentKeeps, MkdirSyncKeeps, MkdirOpenKeeps, UnlinkNameKeeps, RemoveNextKeeps, DeleteEntryKeeps,
       DeleteSyncKeeps, DeletedKeeps, Zenon
  <2>4. CASE HeldLookup \/ Quarantine \/ JudgeQuarantine
    BY <2>4, HeldLookupKeeps, QuarantineKeeps, JudgeQuarantineKeeps, Zenon
  <2>5. CASE \/ \E i \in {Given, Other} : StrangerEdits(i)
             \/ \E n \in {"source", "target"} : StrangerUnlinks(n)
             \/ StrangerSwaps
    BY <2>5, StrangerEditsKeeps, StrangerUnlinksKeeps, StrangerSwapsKeeps, Zenon
  <2>6. CASE UNCHANGED mutationVars
    BY <2>6, MutationStutters, Zenon
  <2>. QED BY <2>1, <2>2, <2>3, <2>4, <2>5, <2>6, Zenon DEF MutationNext
<1>. QED BY <1>1, <1>2, PTL DEF MutationSpec

(* Whatever strangers do to the names and to the staged upload between two *)
(* system calls, RemoveHeldTree deletes nothing but the tree its session   *)
(* holds, and what CommitStaged publishes is one whole version of the      *)
(* upload, the one that was assembled when a digest is expected.           *)
THEOREM MutationsAreExact == MutationSpec => []MutationsExact
<1>1. MutationInv => MutationsExact
  <2>. SUFFICES ASSUME MutationInv PROVE MutationsExact
    BY Zenon
  <2>1. HeldTreeOnly
    BY DEF MutationInv, OpHistory, HeldTreeOnly
  <2>2. op.kind = "commit" /\ op.effect => op.pc \in {"identity", "dirsync"}
    BY DEF MutationInv, OpForm, MutationSteps, OpHistory, Untouched, Publishing
  <2>3. CommitWhole
    BY <2>2 DEF MutationInv, CopyOK, CommitWhole, Publishing, Wholes
  <2>. QED BY <2>1, <2>3, Zenon DEF MutationsExact
<1>. QED BY <1>1, MutationSteady, PTL

(* A mutation that reports success has synced the directories it changed,  *)
(* and one that fails without managedChangedMutationError changed no name. *)
THEOREM MutationsReportTruly == MutationSpec => []MutationReported
<1>1. MutationInv => MutationReported
  BY Zenon DEF MutationInv
<1>. QED BY <1>1, MutationSteady, PTL
=============================================================================

---------------------------- MODULE SambaProofs -----------------------------
(***************************************************************************)
(* Proofs about the Samba configuration, for any number of publications,   *)
(* edits, failing system calls and process deaths.  PublishInv adds to     *)
(* PublicationSafe that no inode has two names, what is at the temporary   *)
(* names in every step, and that a discard only ever empties the file that *)
(* was captured or one that is nobody's edit.                              *)
(***************************************************************************)
EXTENDS SambaConfigPublish, TLAPS

Texts == [by : {"editor", "nobody", "casa"}, n : Nat]
Snapshots == [inode : Nat, text : Texts]
Publications == [kind : PublishKinds, expected : Snapshots]
Results == {"none", "refused", "owned", "ownedErr", "removed", "crashed"}
Discards == [base : {"staging", "target"}, snap : Snapshots, temp : BOOLEAN, ok : Results, bad : Results]

PublishTypeOK ==
  /\ wants \in 0 .. PublishOps /\ editsMade \in 0 .. PublishEdits
  /\ inodesMade <= 1 + wants + editsMade
  /\ publishStep = "captured" => inodesMade <= wants + editsMade
  /\ publishStep \in PublishSteps /\ publishResult \in Results
  /\ want \in Publications /\ disc \in Discards
  /\ cand \in Snapshots /\ cand.inode <= inodesMade /\ (cand # NoFile => cand.inode # Nowhere)

(* The directory with entries f and quarantine q: no inode has two names.  *)
Directory(f, q) ==
  /\ f \in [PublishNames -> 0 .. inodesMade] /\ q \subseteq 1 .. inodesMade
  /\ f["target"] # Nowhere => f["target"] # f["staging"] /\ f["target"] # f["tomb"]
  /\ f["staging"] # Nowhere => f["staging"] # f["tomb"]
  /\ \A n \in PublishNames : f[n] \notin q
Held(f, q) == (q \cup {f["target"], f["staging"], f["tomb"]}) \ {Nowhere}
Empty(f, q) == f["staging"] = Nowhere /\ f["tomb"] = Nowhere /\ q = {}

(* What is owed to the editor is in the directory.                         *)
EditsHeld == \A t \in owedTexts : \E i \in Held(name, quar) : bytes[i] = t

WholeText(t) == t \notin {EmptyText, Partial}

(* The directory is sound whoever acts on it.                              *)
Disk ==
  /\ bytes \in [PublishInodes -> Texts]
  /\ inodesMade \in Nat /\ inodesMade >= 1
  /\ \A t \in owedTexts : t \in Texts /\ t.by = "editor"
  /\ Directory(name, quar) /\ EditsHeld /\ TargetWhole

(* While a candidate is staged there is nothing else beside the target, and *)
(* what was displaced from it is as whole as it was.                        *)
StagedKnows ==
  /\ publishStep \in {"captured", "staged", "gone"} => cand = NoFile
  /\ publishStep \in {"staged", "written", "exchanged", "conflict", "rollback", "rolledback"} =>
       name["staging"] # Nowhere /\ name["tomb"] = Nowhere /\ quar = {}
  /\ publishStep \in {"written", "exchanged", "conflict", "rollback", "rolledback"} => cand.text.by = "casa"
  /\ publishStep = "written" => cand.inode = name["staging"] /\ cand.text = bytes[name["staging"]]
  /\ publishStep = "staged" => bytes[name["staging"]] = Partial
  /\ publishStep \in {"exchanged", "conflict", "rollback"} => WholeText(bytes[name["staging"]])
  /\ publishStep = "gone" => name["staging"] = Nowhere /\ name["tomb"] = Nowhere /\ quar = {}

(* What is discarded was captured as the file to replace or is nobody's     *)
(* edit, and a candidate that is given up is not at the target.             *)
DiscardKnows ==
  publishStep \in {"check", "move", "verify", "truncate", "unlink"} =>
    /\ quar = {} /\ disc.base = (IF disc.temp THEN "staging" ELSE "target")
    /\ disc.snap = want.expected \/ disc.snap.text.by # "editor"
    /\ disc.temp => <<disc.ok, disc.bad>> \in {<<"owned", "ownedErr">>, <<"refused", "refused">>}
    /\ ~disc.temp => /\ disc.ok = "removed" /\ disc.bad = "refused"
                     /\ cand = NoFile /\ name["staging"] = Nowhere
    /\ disc.bad = "refused" /\ cand # NoFile => name["target"] # cand.inode
    /\ publishStep \in {"check", "move"} =>
         name["tomb"] = Nowhere /\ (disc.temp => name["staging"] # Nowhere)
    /\ publishStep \in {"verify", "truncate", "unlink"} =>
         name["tomb"] # Nowhere /\ name["staging"] = Nowhere
    /\ publishStep = "verify" /\ ~disc.temp => WholeText(bytes[name["tomb"]])
    /\ publishStep = "truncate" => bytes[name["tomb"]] = disc.snap.text
    /\ publishStep = "unlink" => bytes[name["tomb"]] = EmptyText

PublishInv ==
  /\ PublishTypeOK /\ Disk
  /\ StagedKnows /\ DiscardKnows /\ SuccessLeavesNothing /\ DisownedNotLive

(***************************************************************************)
(* Facts about the directory.                                              *)
(***************************************************************************)
LEMMA HeldNames ==
  ASSUME NEW f, NEW q
  PROVE  (q \cup {f[n] : n \in PublishNames}) \ {Nowhere} = Held(f, q)
  BY Zenon DEF PublishNames, Held

LEMMA TextsTyped ==
  /\ EmptyText \in Texts /\ Partial \in Texts /\ EmptyText.by = "nobody" /\ Partial.by = "nobody"
  /\ \A n \in Nat : /\ Text("editor", n) \in Texts /\ Text("editor", n).by = "editor"
                    /\ Text("casa", n) \in Texts /\ Text("casa", n).by = "casa"
  /\ NoFile \in Snapshots /\ NoFile.inode = Nowhere /\ NoFile.text = EmptyText
  /\ NoWant \in Publications /\ NoDisc \in Discards
<1>1. EmptyText \in Texts /\ Partial \in Texts /\ EmptyText.by = "nobody" /\ Partial.by = "nobody"
  BY Zenon DEF EmptyText, Partial, Text, Texts
<1>2. NoFile \in Snapshots /\ NoFile.inode = Nowhere /\ NoFile.text = EmptyText
  BY <1>1, Zenon DEF NoFile, Snapshots, Nowhere
<1>3. NoWant \in Publications /\ NoDisc \in Discards
  BY <1>2, Zenon DEF NoWant, NoDisc, Publications, Discards, PublishKinds, Results
<1>4. \A n \in Nat : /\ Text("editor", n) \in Texts /\ Text("editor", n).by = "editor"
                     /\ Text("casa", n) \in Texts /\ Text("casa", n).by = "casa"
  BY Zenon DEF Text, Texts
<1>. QED BY <1>1, <1>2, <1>3, <1>4, Zenon

LEMMA WholeByAuthor ==
  ASSUME NEW t \in Texts, t.by \in {"editor", "casa"}
  PROVE  WholeText(t)
  BY TextsTyped, Zenon DEF WholeText

(* The files of the directory.                                             *)
LEMMA InodesKnown ==
  ASSUME PublishInv
  PROVE  /\ \A i \in 1 .. inodesMade : i \in PublishInodes
         /\ inodesMade \in Nat /\ bytes \in [PublishInodes -> Texts]
         /\ \A n \in PublishNames : name[n] \in 0 .. inodesMade
         /\ \A n \in PublishNames : name[n] # Nowhere => name[n] \in PublishInodes /\ bytes[name[n]] \in Texts
  BY PublishBounds DEF PublishInv, PublishTypeOK, Disk, Directory, PublishInodes, Nowhere

LEMMA SnapTyped ==
  ASSUME PublishInv, NEW n \in PublishNames
  PROVE  /\ Snap(n) \in Snapshots
         /\ name[n] # Nowhere => Snap(n).inode = name[n] /\ Snap(n).text = bytes[name[n]]
         /\ name[n] = Nowhere => Snap(n) = NoFile
  BY InodesKnown, TextsTyped DEF Snap, Snapshots

(* A temporary entry that cannot be discarded is put aside, or stays.      *)
LEMMA QuarantineKeeps ==
  ASSUME NEW f, Directory(f, quar), inodesMade \in Nat, NEW k, Quarantined("staging", f, k)
  PROVE  /\ Directory(name', quar') /\ Held(name', quar') = Held(f, quar)
         /\ name'["target"] = f["target"]
         /\ f["staging"] # Nowhere => ~ Empty(name', quar')
<1>1. CASE name' = f /\ quar' = quar
  BY <1>1, Zenon DEF Empty
<1>2. CASE name' = [f EXCEPT !["staging"] = Nowhere] /\ quar' = quar \cup ({f["staging"]} \ {Nowhere})
  <2>1. /\ name' \in [PublishNames -> 0 .. inodesMade]
        /\ name'["target"] = f["target"] /\ name'["staging"] = Nowhere /\ name'["tomb"] = f["tomb"]
    BY <1>2 DEF Directory, PublishNames, Nowhere
  <2>a. f["staging"] \in 0 .. inodesMade /\ f["target"] \notin quar /\ f["staging"] \notin quar /\ f["tomb"] \notin quar
    BY Zenon DEF Directory, PublishNames
  <2>b. quar' \subseteq 1 .. inodesMade
    <3>1. f["staging"] # Nowhere => f["staging"] \in 1 .. inodesMade
      BY <2>a DEF Nowhere
    <3>2. quar \subseteq 1 .. inodesMade
      BY Zenon DEF Directory
    <3>. QED BY <1>2, <3>1, <3>2, Zenon
  <2>c. \A n \in PublishNames : name'[n] \notin quar'
    BY <1>2, <2>1, <2>a, <2>b DEF Directory, PublishNames, Nowhere
  <2>2. Directory(name', quar')
    BY <2>1, <2>b, <2>c, Zenon DEF Directory, Nowhere
  <2>3. Held(name', quar') = Held(f, quar)
    BY <1>2, <2>1, Zenon DEF Held
  <2>. QED BY <1>2, <2>1, <2>2, <2>3, Zenon DEF Empty
<1>. QED BY <1>1, <1>2, Zenon DEF Quarantined

(* A step that leaves the files alone and only moves entries.              *)
LEMMA DiskMoves ==
  ASSUME NEW f, \A t \in owedTexts' : \E i \in Held(f, quar) : bytes'[i] = t,
         \A t \in owedTexts' : t \in Texts /\ t.by = "editor",
         bytes' \in [PublishInodes -> Texts], inodesMade \in Nat, inodesMade >= 1, inodesMade' = inodesMade,
         Directory(name', quar'), Held(f, quar) \subseteq Held(name', quar'),
         name'["target"] # Nowhere => WholeText(bytes'[name'["target"]])
  PROVE  Disk'
<1>1. Directory(name, quar)'
  BY Zenon DEF Directory
<1>2. EditsHeld'
  BY Zenon DEF EditsHeld, Held
<1>3. TargetWhole'
  BY Zenon DEF TargetWhole, WholeText
<1>. QED BY <1>1, <1>2, <1>3, Zenon DEF Disk

LEMMA DiskSame ==
  ASSUME PublishInv, UNCHANGED <<dirVars, owedTexts>>
  PROVE  Disk'
<1>1. Directory(name, quar)'
  BY Zenon DEF PublishInv, Disk, Directory, dirVars
<1>2. EditsHeld'
  BY Zenon DEF PublishInv, Disk, EditsHeld, Held, dirVars
<1>3. TargetWhole'
  BY Zenon DEF PublishInv, Disk, TargetWhole, dirVars
<1>. QED BY <1>1, <1>2, <1>3, Zenon DEF PublishInv, Disk, dirVars

(* A publication that returns.                                             *)
LEMMA Returned ==
  ASSUME PublishInv, Disk', NEW r \in Results, ReturnsPublish(r), UNCHANGED <<inodesMade, wants, editsMade>>,
         r \in {"owned", "removed"} => Empty(name', quar'),
         r = "refused" /\ cand # NoFile /\ name'["target"] = cand.inode => ~ Empty(name', quar')
  PROVE  PublishInv'
<1>1. PublishTypeOK'
  BY TextsTyped, Zenon DEF PublishInv, PublishTypeOK, ReturnsPublish, PublishSteps
<1>2. StagedKnows' /\ DiscardKnows'
  BY Zenon DEF StagedKnows, DiscardKnows, ReturnsPublish
<1>3. Residue' <=> ~ Empty(name', quar')
  BY Zenon DEF Residue, Empty
<1>4. SuccessLeavesNothing' /\ DisownedNotLive'
  BY <1>3, Zenon DEF SuccessLeavesNothing, DisownedNotLive, ReturnsPublish
<1>. QED BY <1>1, <1>2, <1>4, Zenon DEF PublishInv

(* A publication that goes on.                                             *)
LEMMA Advanced ==
  ASSUME PublishInv, Disk', publishStep' \in PublishSteps \ {"idle", "captured"},
         disc' \in Discards, UNCHANGED <<want, cand, publishResult, inodesMade, wants, editsMade>>,
         StagedKnows', DiscardKnows'
  PROVE  PublishInv'
<1>1. PublishTypeOK'
  BY Zenon DEF PublishInv, PublishTypeOK
<1>2. SuccessLeavesNothing' /\ DisownedNotLive'
  BY Zenon DEF SuccessLeavesNothing, DisownedNotLive
<1>. QED BY <1>1, <1>2, Zenon DEF PublishInv

(* A discard that fails puts a temporary file aside; a target stays.       *)
LEMMA DiscardFailed ==
  ASSUME PublishInv, publishStep \in {"check", "move", "verify", "truncate", "unlink"},
         NEW f, NEW k, Directory(f, quar), DiscardFails(f, k),
         \A t \in owedTexts' : \E i \in Held(f, quar) : bytes'[i] = t, owedTexts' \subseteq owedTexts,
         bytes' \in [PublishInodes -> Texts],
         f["target"] # Nowhere => WholeText(bytes'[f["target"]]),
         disc.temp => f["target"] = name["target"],
         UNCHANGED <<inodesMade, wants, editsMade>>
  PROVE  PublishInv'
<1>1. inodesMade \in Nat /\ inodesMade >= 1 /\ \A t \in owedTexts' : t \in Texts /\ t.by = "editor"
  BY Zenon DEF PublishInv, Disk
<1>2. /\ Directory(name', quar') /\ Held(name', quar') = Held(f, quar) /\ name'["target"] = f["target"]
  <2>1. CASE disc.temp
    <3>1. Quarantined("staging", f, k)
      BY <2>1, Zenon DEF PublishInv, DiscardKnows, DiscardFails
    <3>. QED BY <3>1, <1>1, QuarantineKeeps, Zenon
  <2>2. CASE ~ disc.temp
    BY <2>2, Zenon DEF DiscardFails
  <2>. QED BY <2>1, <2>2, Zenon
<1>3. Disk'
  BY <1>1, <1>2, DiskMoves, Zenon
<1>4. /\ disc.bad \in {"ownedErr", "refused"} /\ disc.bad \in Results
      /\ ReturnsPublish(disc.bad)
      /\ disc.bad = "refused" /\ cand # NoFile => name'["target"] # cand.inode
  BY <1>2, Zenon DEF PublishInv, DiscardKnows, DiscardFails, Results
<1>5. PICK r \in Results : r = disc.bad
  BY <1>4, Zenon
<1>. QED BY <1>3, <1>4, <1>5, Returned, Zenon

(* A publication that leaves its staging entry for review.                 *)
LEMMA LeftForReview ==
  ASSUME PublishInv, publishStep \in {"written", "conflict", "rollback", "rolledback"},
         NEW k, Quarantined("staging", name, k), ReturnsPublish("refused"),
         UNCHANGED <<bytes, inodesMade, owedTexts, wants, editsMade>>
  PROVE  PublishInv'
<1>1. /\ Directory(name', quar') /\ Held(name', quar') = Held(name, quar) /\ name'["target"] = name["target"]
      /\ ~ Empty(name', quar')
  BY QuarantineKeeps, Zenon DEF PublishInv, Disk, StagedKnows
<1>2. Disk'
  <2>1. /\ inodesMade \in Nat /\ inodesMade >= 1 /\ \A t \in owedTexts' : t \in Texts /\ t.by = "editor"
        /\ bytes' \in [PublishInodes -> Texts]
        /\ \A t \in owedTexts' : \E i \in Held(name, quar) : bytes'[i] = t
        /\ name'["target"] # Nowhere => WholeText(bytes'[name'["target"]])
    BY <1>1, Zenon DEF PublishInv, Disk, EditsHeld, TargetWhole, WholeText
  <2>. QED BY <1>1, <2>1, DiskMoves, Zenon
<1>. QED BY <1>1, <1>2, Returned, Zenon DEF Results

(***************************************************************************)
(* The start of a publication.                                             *)
(***************************************************************************)
LEMMA PublishInitOK == PublishInit => PublishInv
<1>. SUFFICES ASSUME PublishInit PROVE PublishInv
  BY Zenon
<1>1. bytes \in [PublishInodes -> Texts] /\ inodesMade = 1 /\ 1 \in PublishInodes /\ bytes[1] = Text("editor", 0)
  BY TextsTyped, PublishBounds DEF PublishInit, PublishInodes
<1>2. name["target"] \in {0, 1} /\ name["staging"] = 0 /\ name["tomb"] = 0 /\ quar = {}
  BY Zenon DEF PublishInit, PublishNames, Nowhere
<1>3. Directory(name, quar)
  BY <1>1, <1>2 DEF Directory, PublishInit, Nowhere
<1>4. EditsHeld
  BY <1>1, <1>2, Zenon DEF EditsHeld, Held, PublishInit, Nowhere
<1>5. TargetWhole
  BY <1>1, <1>2, TextsTyped, Zenon DEF TargetWhole, Nowhere
<1>6. Disk
  BY <1>1, <1>3, <1>4, <1>5, TextsTyped DEF Disk, PublishInit
<1>7. PublishTypeOK
  BY <1>1, TextsTyped, PublishBounds DEF PublishTypeOK, PublishInit, PublishSteps, Results, Nowhere
<1>8. StagedKnows /\ DiscardKnows /\ SuccessLeavesNothing /\ DisownedNotLive
  BY Zenon DEF StagedKnows, DiscardKnows, SuccessLeavesNothing, DisownedNotLive, PublishInit
<1>. QED BY <1>6, <1>7, <1>8, Zenon DEF PublishInv

LEMMA CaptureKeeps ==
  ASSUME PublishInv, NEW kind \in PublishKinds, Capture(kind)
  PROVE  PublishInv'
<1>1. Disk'
  BY DiskSame, Zenon DEF Capture
<1>2. Snap("target") \in Snapshots
  BY SnapTyped, Zenon DEF PublishNames
<1>3. want' \in Publications
  BY <1>2, Zenon DEF Capture, Publications
<1>4. PublishTypeOK'
  BY <1>3, TextsTyped, PublishBounds DEF PublishInv, PublishTypeOK, Disk, Capture, PublishSteps, Results, Nowhere, dirVars
<1>5. StagedKnows' /\ DiscardKnows' /\ SuccessLeavesNothing' /\ DisownedNotLive'
  BY Zenon DEF StagedKnows, DiscardKnows, SuccessLeavesNothing, DisownedNotLive, Capture
<1>. QED BY <1>1, <1>4, <1>5, Zenon DEF PublishInv

LEMMA RefuseKeeps ==
  ASSUME PublishInv, RefuseQuarantine \/ CreateStagingFails \/ PublishCrash \/ RemoveChecksGone
  PROVE  PublishInv'
<1>1. Disk' /\ UNCHANGED <<inodesMade, wants, editsMade, name, quar>>
  BY DiskSame, Zenon DEF RefuseQuarantine, CreateStagingFails, PublishCrash, RemoveChecksGone, dirVars, publishBounds
<1>2. CASE ReturnsPublish("refused") /\ publishStep \in {"captured", "gone"}
  BY <1>1, <1>2, Returned, Zenon DEF PublishInv, StagedKnows, Results
<1>3. CASE ReturnsPublish("crashed")
  BY <1>1, <1>3, Returned, Zenon DEF Results
<1>4. CASE ReturnsPublish("removed") /\ publishStep = "gone"
  <2>1. Empty(name', quar')
    BY <1>1, <1>4, Zenon DEF PublishInv, StagedKnows, Empty
  <2>. QED BY <1>1, <1>4, <2>1, Returned, Zenon DEF Results
<1>. QED BY <1>2, <1>3, <1>4, Zenon DEF RefuseQuarantine, CreateStagingFails, PublishCrash, RemoveChecksGone

(***************************************************************************)
(* Staging, exchanging and rolling back.                                   *)
(***************************************************************************)
LEMMA CreateStagingKeeps ==
  ASSUME PublishInv, CreateStaging
  PROVE  PublishInv'
<1>. DEFINE new == inodesMade + 1
<1>1. /\ new \in PublishInodes /\ inodesMade \in Nat /\ bytes \in [PublishInodes -> Texts]
      /\ bytes' = [bytes EXCEPT ![new] = Partial] /\ inodesMade' = new
      /\ name["target"] \in 0 .. inodesMade /\ name["staging"] = 0 /\ name["tomb"] = 0 /\ quar = {}
  BY PublishBounds DEF PublishInv, PublishTypeOK, Disk, Directory, CreateStaging, PublishInodes, PublishNames,
     Residue, Nowhere
<1>2. /\ name' \in [PublishNames -> 0 .. new] /\ quar' = {}
      /\ name'["target"] = name["target"] /\ name'["staging"] = new /\ name'["tomb"] = 0
  BY <1>1 DEF PublishInv, Disk, Directory, CreateStaging, PublishNames, Nowhere
<1>3. \A i \in PublishInodes : i # new => bytes'[i] = bytes[i]
  BY <1>1, Zenon
<1>4. bytes' \in [PublishInodes -> Texts]
  BY <1>1, TextsTyped, Zenon
<1>5. Directory(name, quar)'
  BY <1>1, <1>2 DEF Directory, PublishNames, Nowhere
<1>6. name["target"] # 0 => name["target"] \in PublishInodes /\ name["target"] # new
  BY <1>1, PublishBounds DEF PublishInodes
<1>7. EditsHeld'
  BY <1>1, <1>2, <1>3, <1>6 DEF PublishInv, Disk, EditsHeld, Held, CreateStaging, Nowhere
<1>8. TargetWhole'
  BY <1>2, <1>3, <1>6, Zenon DEF PublishInv, Disk, TargetWhole, Nowhere
<1>9. Disk'
  BY <1>1, <1>4, <1>5, <1>7, <1>8 DEF PublishInv, Disk, CreateStaging
<1>10. PublishTypeOK'
  BY <1>1 DEF PublishInv, PublishTypeOK, CreateStaging, GoToStep, PublishSteps, publishBounds, Snapshots
<1>11. StagedKnows' /\ DiscardKnows' /\ SuccessLeavesNothing' /\ DisownedNotLive'
  BY <1>1, <1>2 DEF PublishInv, StagedKnows, DiscardKnows, SuccessLeavesNothing, DisownedNotLive, CreateStaging, GoToStep, Nowhere
<1>. QED BY <1>9, <1>10, <1>11, Zenon DEF PublishInv

(* Filling the staging file disturbs no other file, and nothing is owed    *)
(* from it.                                                                *)
LEMMA StagingFilled ==
  ASSUME PublishInv, publishStep = "staged", NEW t \in Texts,
         bytes' = [bytes EXCEPT ![name["staging"]] = t], UNCHANGED <<name, quar, inodesMade, owedTexts>>
  PROVE  Disk' /\ bytes'[name["staging"]] = t
<1>. DEFINE s == name["staging"]
<1>1. s \in PublishInodes /\ bytes \in [PublishInodes -> Texts] /\ s # Nowhere /\ inodesMade \in Nat /\ inodesMade >= 1
  BY InodesKnown, Zenon DEF PublishInv, StagedKnows, PublishNames, Disk
<1>2. bytes' \in [PublishInodes -> Texts] /\ bytes'[s] = t /\ \A i \in PublishInodes : i # s => bytes'[i] = bytes[i]
  BY <1>1, Zenon
<1>3. \A i \in Held(name, quar) : i \in PublishInodes
  BY InodesKnown DEF PublishInv, Disk, Directory, Held, PublishNames
<1>4. \A u \in owedTexts' : \E i \in Held(name, quar) : bytes'[i] = u
  BY <1>2, <1>3, TextsTyped DEF PublishInv, Disk, EditsHeld, StagedKnows
<1>5. name["target"] # Nowhere => name["target"] # s /\ name["target"] \in PublishInodes /\ WholeText(bytes[name["target"]])
  BY InodesKnown, Zenon DEF PublishInv, Disk, Directory, PublishNames, TargetWhole, WholeText
<1>6. name'["target"] # Nowhere => WholeText(bytes'[name'["target"]])
  BY <1>2, <1>5, Zenon
<1>7. Directory(name', quar') /\ Held(name, quar) \subseteq Held(name', quar')
      /\ \A u \in owedTexts' : u \in Texts /\ u.by = "editor"
  BY Zenon DEF PublishInv, Disk
<1>8. Disk'
  BY <1>1, <1>2, <1>4, <1>6, <1>7, DiskMoves, Zenon
<1>. QED BY <1>2, <1>8, Zenon

LEMMA WriteStagingFileKeeps ==
  ASSUME PublishInv, WriteStagingFile
  PROVE  PublishInv'
<1>. DEFINE t == Text("casa", wants)
<1>1. t \in Texts /\ t.by = "casa"
  BY TextsTyped DEF PublishInv, PublishTypeOK
<1>. HIDE DEF t
<1>2. Disk' /\ bytes'[name["staging"]] = t
  BY <1>1, StagingFilled, Zenon DEF WriteStagingFile, t
<1>3. /\ name["staging"] \in 0 .. inodesMade /\ name["staging"] # Nowhere /\ inodesMade \in Nat
      /\ name["tomb"] = Nowhere /\ quar = {}
  BY InodesKnown, Zenon DEF PublishInv, StagedKnows, PublishNames, WriteStagingFile
<1>4. cand' = [inode |-> name["staging"], text |-> t] /\ cand'.inode = name["staging"] /\ cand'.text = t /\ cand' \in Snapshots
  BY <1>1, <1>3 DEF WriteStagingFile, t, Snapshots
<1>5. PublishTypeOK'
  BY <1>3, <1>4 DEF PublishInv, PublishTypeOK, WriteStagingFile, PublishSteps, publishBounds
<1>6. StagedKnows' /\ DiscardKnows' /\ SuccessLeavesNothing' /\ DisownedNotLive'
  BY <1>1, <1>2, <1>3, <1>4, Zenon DEF StagedKnows, DiscardKnows, SuccessLeavesNothing, DisownedNotLive, WriteStagingFile
<1>. QED BY <1>2, <1>5, <1>6, Zenon DEF PublishInv

(* Entering a discard.                                                     *)
LEMMA DiscardTyped ==
  ASSUME NEW base \in {"staging", "target"}, NEW snap \in Snapshots, NEW temp \in BOOLEAN,
         NEW ok \in Results, NEW bad \in Results, Discard(base, snap, temp, ok, bad)
  PROVE  /\ disc' \in Discards /\ disc'.base = base /\ disc'.snap = snap /\ disc'.temp = temp
         /\ disc'.ok = ok /\ disc'.bad = bad
         /\ publishStep' = "check" /\ UNCHANGED <<want, cand, publishResult>>
<1>1. disc' = [base |-> base, snap |-> snap, temp |-> temp, ok |-> ok, bad |-> bad]
  BY Zenon DEF Discard
<1>2. /\ disc' \in Discards /\ disc'.base = base /\ disc'.snap = snap /\ disc'.temp = temp
      /\ disc'.ok = ok /\ disc'.bad = bad
  BY <1>1, Zenon DEF Discards
<1>. QED BY <1>2, Zenon DEF Discard

(* Discarding the staging file.                                            *)
LEMMA StagingDiscarded ==
  ASSUME PublishInv, Disk', publishStep \in {"staged", "written", "exchanged", "rolledback"},
         NEW snap \in Snapshots, snap = want.expected \/ snap.text.by # "editor",
         NEW ok \in Results, NEW bad \in Results, Discard("staging", snap, TRUE, ok, bad),
         <<ok, bad>> \in {<<"owned", "ownedErr">>, <<"refused", "refused">>},
         bad = "refused" /\ cand # NoFile => name["target"] # cand.inode,
         UNCHANGED <<name, quar, inodesMade, wants, editsMade>>
  PROVE  PublishInv'
<1>1. /\ disc' \in Discards /\ disc'.base = "staging" /\ disc'.snap = snap /\ disc'.temp
      /\ disc'.ok = ok /\ disc'.bad = bad
      /\ publishStep' = "check" /\ UNCHANGED <<want, cand, publishResult>>
  BY DiscardTyped, Zenon
<1>2. name["staging"] # Nowhere /\ name["tomb"] = Nowhere /\ quar = {}
  BY Zenon DEF PublishInv, StagedKnows
<1>3. DiscardKnows'
  BY <1>1, <1>2, Zenon DEF DiscardKnows
<1>4. StagedKnows'
  BY <1>1, Zenon DEF StagedKnows
<1>. QED BY <1>1, <1>3, <1>4, Advanced, Zenon DEF PublishSteps

LEMMA WriteStagingFailsKeeps ==
  ASSUME PublishInv, WriteStagingFails
  PROVE  PublishInv'
<1>1. Disk' /\ UNCHANGED <<name, quar, inodesMade, wants, editsMade>>
  BY StagingFilled, TextsTyped, Zenon DEF WriteStagingFails
<1>2. cand = NoFile /\ name["staging"] \in Nat
  BY InodesKnown DEF PublishInv, StagedKnows, WriteStagingFails, PublishNames
<1>3. CASE ReturnsPublish("refused")
  BY <1>1, <1>2, <1>3, Returned, Zenon DEF Results
<1>4. CASE Discard("staging", [inode |-> name["staging"], text |-> EmptyText], TRUE, "refused", "refused")
  <2>. DEFINE e == [inode |-> name["staging"], text |-> EmptyText]
  <2>1. e \in Snapshots /\ e.text.by # "editor"
    BY <1>2, TextsTyped, Zenon DEF Snapshots
  <2>. HIDE DEF e
  <2>2. Discard("staging", e, TRUE, "refused", "refused")
    BY <1>4, Zenon DEF e
  <2>. QED BY <1>1, <1>2, <2>1, <2>2, StagingDiscarded, Zenon DEF WriteStagingFails, Results
<1>. QED BY <1>3, <1>4, Zenon DEF WriteStagingFails

LEMMA CloseStagingFailsKeeps ==
  ASSUME PublishInv, CloseStagingFails \/ TargetChangedAgain \/ RollBackFails \/ RolledBackDiffers
  PROVE  PublishInv'
  BY LeftForReview, Zenon DEF CloseStagingFails, TargetChangedAgain, RollBackFails, RolledBackDiffers

(* The candidate becomes the target.                                       *)
LEMMA PublishNewKeeps ==
  ASSUME PublishInv, PublishNew
  PROVE  PublishInv'
<1>1. /\ name["target"] = Nowhere /\ name["staging"] # Nowhere /\ name["tomb"] = Nowhere /\ quar = {} /\ quar' = {}
      /\ bytes[name["staging"]] \in Texts /\ bytes[name["staging"]].by = "casa"
  BY InodesKnown, Zenon DEF PublishInv, StagedKnows, PublishNew, PublishNames
<1>2. /\ name' \in [PublishNames -> 0 .. inodesMade]
      /\ name'["target"] = name["staging"] /\ name'["staging"] = Nowhere /\ name'["tomb"] = Nowhere
  BY <1>1, Zenon DEF PublishInv, Disk, Directory, PublishNames, PublishNew, Nowhere
<1>3. Directory(name', quar') /\ Held(name, quar) \subseteq Held(name', quar') /\ Empty(name', quar')
  BY <1>1, <1>2, Zenon DEF Directory, Held, Empty, PublishNames
<1>4. Disk'
  <2>1. /\ inodesMade \in Nat /\ inodesMade >= 1 /\ \A t \in owedTexts' : t \in Texts /\ t.by = "editor"
        /\ bytes' \in [PublishInodes -> Texts] /\ inodesMade' = inodesMade
        /\ \A t \in owedTexts' : \E i \in Held(name, quar) : bytes'[i] = t
    BY Zenon DEF PublishInv, Disk, EditsHeld, PublishNew
  <2>2. name'["target"] # Nowhere => WholeText(bytes'[name'["target"]])
    BY <1>1, <1>2, WholeByAuthor, Zenon DEF PublishNew
  <2>. QED BY <1>3, <2>1, <2>2, DiskMoves, Zenon
<1>5. UNCHANGED <<inodesMade, wants, editsMade>> /\ (ReturnsPublish("owned") \/ ReturnsPublish("ownedErr"))
  BY Zenon DEF PublishNew
<1>. QED BY <1>3, <1>4, <1>5, Returned, Zenon DEF Results

LEMMA PublishConflictKeeps ==
  ASSUME PublishInv, PublishConflict
  PROVE  PublishInv'
<1>1. Disk' /\ UNCHANGED <<name, quar, inodesMade, wants, editsMade>>
  BY DiskSame, Zenon DEF PublishConflict, dirVars
<1>2. /\ cand \in Snapshots /\ cand.text.by # "editor" /\ name["target"] # cand.inode
  BY Zenon DEF PublishInv, PublishTypeOK, Disk, Directory, StagedKnows, PublishConflict, PublishNames
<1>. QED BY <1>1, <1>2, StagingDiscarded, Zenon DEF PublishConflict, Results

(* Both names keep a file when they are exchanged.                         *)
LEMMA Exchanged ==
  ASSUME PublishInv, name' = NamesExchanged, UNCHANGED <<quar, bytes, inodesMade, owedTexts>>,
         name["staging"] # Nowhere, WholeText(bytes[name["staging"]])
  PROVE  /\ Disk' /\ name'["target"] = name["staging"] /\ name'["staging"] = name["target"]
         /\ name'["tomb"] = name["tomb"]
<1>1. /\ name' \in [PublishNames -> 0 .. inodesMade]
      /\ name'["target"] = name["staging"] /\ name'["staging"] = name["target"] /\ name'["tomb"] = name["tomb"]
  BY Zenon DEF PublishInv, Disk, Directory, PublishNames, NamesExchanged
<1>2. Directory(name', quar') /\ Held(name, quar) \subseteq Held(name', quar')
  BY <1>1, Zenon DEF PublishInv, Disk, Directory, Held, PublishNames
<1>3. /\ inodesMade \in Nat /\ inodesMade >= 1 /\ \A t \in owedTexts' : t \in Texts /\ t.by = "editor"
      /\ bytes' \in [PublishInodes -> Texts]
      /\ \A t \in owedTexts' : \E i \in Held(name, quar) : bytes'[i] = t
  BY Zenon DEF PublishInv, Disk, EditsHeld
<1>4. name'["target"] # Nowhere => WholeText(bytes'[name'["target"]])
  BY <1>1, Zenon
<1>5. Disk'
  BY <1>2, <1>3, <1>4, DiskMoves, Zenon
<1>. QED BY <1>1, <1>5, Zenon

LEMMA ExchangeKeeps ==
  ASSUME PublishInv, ExchangeNames \/ RollBack
  PROVE  PublishInv'
<1>1. /\ name' = NamesExchanged /\ UNCHANGED <<quar, bytes, inodesMade, owedTexts, wants, editsMade>>
      /\ publishStep' \in {"exchanged", "rolledback"} /\ UNCHANGED <<want, cand, disc, publishResult>>
      /\ (publishStep' = "exchanged" => publishStep = "written")
      /\ (publishStep' = "rolledback" => publishStep = "rollback")
      /\ name["target"] # Nowhere
  BY Zenon DEF ExchangeNames, RollBack, GoToStep, publishBounds
<1>2. /\ name["staging"] # Nowhere /\ name["tomb"] = Nowhere /\ quar = {} /\ cand.text.by = "casa"
      /\ name["staging"] \in PublishInodes /\ bytes[name["staging"]] \in Texts
      /\ publishStep = "written" => bytes[name["staging"]] = cand.text
      /\ publishStep = "rollback" => WholeText(bytes[name["staging"]])
  BY <1>1, InodesKnown, Zenon DEF PublishInv, StagedKnows, PublishNames
<1>3. WholeText(bytes[name["staging"]]) /\ WholeText(bytes[name["target"]])
  BY <1>1, <1>2, WholeByAuthor, Zenon DEF PublishInv, Disk, TargetWhole, WholeText
<1>4. /\ Disk' /\ name'["target"] = name["staging"] /\ name'["staging"] = name["target"]
      /\ name'["tomb"] = name["tomb"]
  BY <1>1, <1>2, <1>3, Exchanged, Zenon
<1>5. StagedKnows' /\ DiscardKnows' /\ disc' \in Discards
  BY <1>1, <1>2, <1>3, <1>4, Zenon DEF PublishInv, PublishTypeOK, StagedKnows, DiscardKnows
<1>. QED BY <1>1, <1>4, <1>5, Advanced, Zenon DEF PublishSteps

LEMMA DisplacedKeeps ==
  ASSUME PublishInv, DisplacedAsExpected
  PROVE  PublishInv'
<1>1. Disk' /\ UNCHANGED <<name, quar, inodesMade, wants, editsMade>>
  BY DiskSame, Zenon DEF DisplacedAsExpected, dirVars, publishBounds
<1>2. Snap("staging") \in Snapshots
  BY SnapTyped, Zenon DEF PublishNames
<1>3. PICK e \in Snapshots : e = Snap("staging")
  BY <1>2, Zenon
<1>. QED BY <1>1, <1>3, StagingDiscarded, Zenon DEF DisplacedAsExpected, Results

LEMMA JudgedKeeps ==
  ASSUME PublishInv, DisplacedDiffers \/ CandidateStillLive
  PROVE  PublishInv'
<1>1. Disk' /\ UNCHANGED <<name, quar, bytes, inodesMade, wants, editsMade>>
  BY DiskSame, Zenon DEF DisplacedDiffers, CandidateStillLive, dirVars, publishBounds
<1>2. /\ publishStep \in {"exchanged", "conflict"} /\ publishStep' \in {"conflict", "rollback"}
      /\ UNCHANGED <<want, cand, disc, publishResult>>
  BY Zenon DEF DisplacedDiffers, CandidateStillLive, GoToStep
<1>3. StagedKnows' /\ DiscardKnows' /\ disc' \in Discards
  BY <1>1, <1>2, Zenon DEF PublishInv, PublishTypeOK, StagedKnows, DiscardKnows
<1>. QED BY <1>1, <1>2, <1>3, Advanced, Zenon DEF PublishSteps

LEMMA RolledBackKeeps ==
  ASSUME PublishInv, RolledBack
  PROVE  PublishInv'
<1>1. Disk' /\ UNCHANGED <<name, quar, inodesMade, wants, editsMade>>
  BY DiskSame, Zenon DEF RolledBack, dirVars, publishBounds
<1>2. cand \in Snapshots /\ cand.text.by # "editor" /\ name["staging"] # Nowhere /\ name["target"] # name["staging"]
  BY Zenon DEF PublishInv, PublishTypeOK, StagedKnows, RolledBack, Disk, Directory
<1>3. cand.inode = name["staging"]
  BY <1>2, SnapTyped, Zenon DEF RolledBack, PublishNames
<1>. QED BY <1>1, <1>2, <1>3, StagingDiscarded, Zenon DEF RolledBack, Results

(***************************************************************************)
(* Discarding.                                                             *)
(***************************************************************************)
LEMMA StartRemoveKeeps ==
  ASSUME PublishInv, StartRemove
  PROVE  PublishInv'
<1>1. Disk' /\ UNCHANGED <<name, quar, inodesMade, wants, editsMade>>
  BY DiskSame, Zenon DEF StartRemove, dirVars, publishBounds
<1>2. want.expected \in Snapshots /\ cand = NoFile
  BY Zenon DEF PublishInv, PublishTypeOK, StagedKnows, StartRemove, Publications
<1>3. /\ disc' \in Discards /\ disc'.base = "target" /\ disc'.snap = want.expected /\ ~ disc'.temp
      /\ disc'.ok = "removed" /\ disc'.bad = "refused"
      /\ publishStep' = "check" /\ UNCHANGED <<want, cand, publishResult>>
  BY <1>2, DiscardTyped, Zenon DEF StartRemove, Results
<1>4. StagedKnows' /\ DiscardKnows'
  BY <1>1, <1>2, <1>3, Zenon DEF StartRemove, Residue, StagedKnows, DiscardKnows
<1>. QED BY <1>1, <1>3, <1>4, Advanced, Zenon DEF PublishSteps

(* A discard that fails without touching a file.                           *)
LEMMA DiscardGivenUp ==
  ASSUME PublishInv, publishStep \in {"check", "move", "verify", "truncate", "unlink"},
         NEW f, NEW k, Directory(f, quar), DiscardFails(f, k), Held(name, quar) \subseteq Held(f, quar),
         f["target"] = name["target"] \/ (~ disc.temp /\ WholeText(bytes[f["target"]])),
         UNCHANGED <<bytes, inodesMade, owedTexts, wants, editsMade>>
  PROVE  PublishInv'
<1>1. /\ \A t \in owedTexts' : \E i \in Held(f, quar) : bytes'[i] = t
      /\ owedTexts' \subseteq owedTexts /\ bytes' \in [PublishInodes -> Texts]
  BY Zenon DEF PublishInv, Disk, EditsHeld
<1>2. f["target"] # Nowhere => WholeText(bytes'[f["target"]])
  BY Zenon DEF PublishInv, Disk, TargetWhole, WholeText
<1>. QED BY <1>1, <1>2, DiscardFailed, Zenon

LEMMA DiscardStays ==
  ASSUME PublishInv, publishStep \in {"check", "move", "verify", "truncate", "unlink"},
         NEW k, DiscardFails(name, k), UNCHANGED <<bytes, inodesMade, owedTexts, wants, editsMade>>
  PROVE  PublishInv'
<1>1. Directory(name, quar)
  BY Zenon DEF PublishInv, Disk
<1>. QED BY <1>1, DiscardGivenUp, Zenon

LEMMA DiscardCheckKeeps ==
  ASSUME PublishInv, DiscardCheck
  PROVE  PublishInv'
<1>1. CASE GoToStep("move") /\ UNCHANGED <<name, quar>>
  <2>1. Disk' /\ UNCHANGED <<inodesMade, wants, editsMade>>
    BY <1>1, DiskSame, Zenon DEF DiscardCheck, dirVars
  <2>2. StagedKnows' /\ DiscardKnows' /\ disc' \in Discards
    BY <1>1, Zenon DEF PublishInv, PublishTypeOK, StagedKnows, DiscardKnows, DiscardCheck, GoToStep
  <2>. QED BY <1>1, <2>1, <2>2, Advanced, Zenon DEF PublishSteps, GoToStep
<1>2. CASE \E k \in {0, 1} : DiscardFails(name, k)
  BY <1>2, DiscardStays, Zenon DEF DiscardCheck
<1>. QED BY <1>1, <1>2, Zenon DEF DiscardCheck

(* The entry that is discarded goes to the retained name.                  *)
LEMMA DiscardMoveKeeps ==
  ASSUME PublishInv, DiscardMove
  PROVE  PublishInv'
<1>1. CASE name[disc.base] # Nowhere /\ name' = Moved /\ GoToStep("verify") /\ UNCHANGED quar
  <2>1. /\ name["tomb"] = Nowhere /\ quar = {} /\ quar' = {} /\ disc.temp \in BOOLEAN
        /\ disc.base = (IF disc.temp THEN "staging" ELSE "target")
        /\ ~ disc.temp => name["staging"] = Nowhere
        /\ UNCHANGED <<bytes, inodesMade, owedTexts, wants, editsMade>>
    BY <1>1, Zenon DEF PublishInv, PublishTypeOK, Discards, DiscardKnows, DiscardMove
  <2>2. /\ name' \in [PublishNames -> 0 .. inodesMade]
        /\ name'["tomb"] = name[disc.base] /\ name'["staging"] = Nowhere
        /\ name'["target"] = IF disc.temp THEN name["target"] ELSE Nowhere
    BY <1>1, <2>1, Zenon DEF PublishInv, Disk, Directory, PublishNames, Moved, Nowhere
  <2>3. Directory(name', quar') /\ Held(name, quar) \subseteq Held(name', quar')
    BY <2>1, <2>2, Zenon DEF PublishInv, Disk, Directory, Held, PublishNames
  <2>4. /\ inodesMade \in Nat /\ inodesMade >= 1 /\ \A t \in owedTexts' : t \in Texts /\ t.by = "editor"
        /\ bytes' \in [PublishInodes -> Texts]
        /\ \A t \in owedTexts' : \E i \in Held(name, quar) : bytes'[i] = t
    BY <2>1, Zenon DEF PublishInv, Disk, EditsHeld
  <2>5. name'["target"] # Nowhere => WholeText(bytes'[name'["target"]])
    BY <2>1, <2>2, Zenon DEF PublishInv, Disk, TargetWhole, WholeText
  <2>6. Disk' /\ inodesMade' = inodesMade
    BY <2>1, <2>3, <2>4, <2>5, DiskMoves, Zenon
  <2>7. ~ disc.temp => WholeText(bytes[name["target"]])
    BY <1>1, <2>1, Zenon DEF PublishInv, Disk, TargetWhole, WholeText
  <2>8. StagedKnows'
    BY <1>1, Zenon DEF StagedKnows, GoToStep
  <2>9. disc.bad = "refused" /\ cand # NoFile => name'["target"] # cand.inode
    BY <2>2, Zenon DEF PublishInv, DiscardKnows, DiscardMove, PublishTypeOK
  <2>10. DiscardKnows' /\ disc' \in Discards
    BY <1>1, <2>1, <2>2, <2>7, <2>9, Zenon DEF PublishInv, PublishTypeOK, DiscardKnows, DiscardMove, GoToStep
  <2>. QED BY <1>1, <2>1, <2>6, <2>8, <2>10, Advanced, Zenon DEF PublishSteps, GoToStep
<1>2. CASE \E k \in {0, 1} : DiscardFails(name, k)
  BY <1>2, DiscardStays, Zenon DEF DiscardMove
<1>. QED BY <1>1, <1>2, Zenon DEF DiscardMove

(* A retained file that is not the expected one returns to its name, unless *)
(* the editor has used that name.                                           *)
LEMMA PutBackKeeps ==
  ASSUME PublishInv, publishStep = "verify"
  PROVE  /\ Directory(PutBack, quar) /\ Held(name, quar) \subseteq Held(PutBack, quar)
         /\ PutBack["target"] = name["target"] \/ (~ disc.temp /\ WholeText(bytes[PutBack["target"]]))
<1>1. /\ name["staging"] = Nowhere /\ name["tomb"] # Nowhere /\ quar = {} /\ disc.temp \in BOOLEAN
      /\ disc.base = (IF disc.temp THEN "staging" ELSE "target")
      /\ ~ disc.temp => WholeText(bytes[name["tomb"]])
      /\ Directory(name, quar) /\ inodesMade \in Nat
  BY Zenon DEF PublishInv, PublishTypeOK, Discards, DiscardKnows, Disk
<1>2. CASE name[disc.base] # Nowhere
  BY <1>1, <1>2, Zenon DEF PutBack
<1>3. CASE name[disc.base] = Nowhere
  <2>. DEFINE f == [name EXCEPT ![disc.base] = name["tomb"], !["tomb"] = Nowhere]
  <2>1. /\ f \in [PublishNames -> 0 .. inodesMade] /\ f["tomb"] = Nowhere /\ f[disc.base] = name["tomb"]
        /\ f["target"] = IF disc.temp THEN name["target"] ELSE name["tomb"]
        /\ f["staging"] = IF disc.temp THEN name["tomb"] ELSE Nowhere
    BY <1>1, Zenon DEF Directory, PublishNames, Nowhere
  <2>. HIDE DEF f
  <2>2. Directory(f, quar) /\ Held(name, quar) \subseteq Held(f, quar)
    BY <1>1, <1>3, <2>1, Zenon DEF Directory, Held, PublishNames
  <2>3. f["target"] = name["target"] \/ (~ disc.temp /\ WholeText(bytes[f["target"]]))
    BY <1>1, <2>1, Zenon
  <2>4. PutBack = f
    BY <1>3, Zenon DEF PutBack, f
  <2>. QED BY <2>2, <2>3, <2>4, Zenon
<1>. QED BY <1>2, <1>3, Zenon

LEMMA DiscardVerifyKeeps ==
  ASSUME PublishInv, DiscardVerify
  PROVE  PublishInv'
<1>1. UNCHANGED <<bytes, inodesMade, owedTexts, wants, editsMade>> /\ publishStep = "verify"
  BY Zenon DEF DiscardVerify
<1>2. CASE Snap("tomb") = disc.snap /\ GoToStep("truncate") /\ UNCHANGED <<name, quar>>
  <2>1. Disk'
    BY <1>1, <1>2, DiskSame, Zenon DEF dirVars
  <2>2. bytes[name["tomb"]] = disc.snap.text
    BY <1>1, <1>2, SnapTyped, Zenon DEF PublishInv, DiscardKnows, PublishNames
  <2>3. StagedKnows' /\ DiscardKnows' /\ disc' \in Discards
    BY <1>1, <1>2, <2>2, Zenon DEF PublishInv, PublishTypeOK, StagedKnows, DiscardKnows, GoToStep
  <2>. QED BY <1>1, <1>2, <2>1, <2>3, Advanced, Zenon DEF PublishSteps, GoToStep
<1>3. CASE \E k \in {1, 2} : DiscardFails(name, k)
  BY <1>1, <1>3, DiscardStays, Zenon
<1>4. CASE \E k \in {0, 1} : DiscardFails(PutBack, k)
  <2>1. PICK f : f = PutBack
    BY Zenon
  <2>2. PICK k \in {0, 1} : DiscardFails(f, k)
    BY <1>4, <2>1, Zenon
  <2>. QED BY <1>1, <2>1, <2>2, PutBackKeeps, DiscardGivenUp, Zenon
<1>. QED BY <1>2, <1>3, <1>4, Zenon DEF DiscardVerify

(* Emptying the retained file destroys no edit but the replaced one.       *)
LEMMA DiscardTruncateKeeps ==
  ASSUME PublishInv, DiscardTruncate
  PROVE  PublishInv'
<1>1. UNCHANGED <<inodesMade, wants, editsMade>> /\ publishStep = "truncate"
  BY Zenon DEF DiscardTruncate
<1>2. CASE DiscardFails(name, 1) /\ UNCHANGED <<bytes, owedTexts>>
  BY <1>1, <1>2, DiscardStays, Zenon
<1>3. CASE /\ bytes' = [bytes EXCEPT ![name["tomb"]] = EmptyText]
           /\ owedTexts' = owedTexts \ ({disc.snap.text} \cap {want.expected.text})
           /\ \/ GoToStep("unlink") /\ UNCHANGED <<name, quar>>
              \/ DiscardFails(name, 1)
  <2>. DEFINE b == name["tomb"]
  <2>1. /\ b # Nowhere /\ b \in PublishInodes /\ bytes \in [PublishInodes -> Texts]
        /\ bytes[b] = disc.snap.text /\ (disc.snap = want.expected \/ disc.snap.text.by # "editor")
    BY <1>1, InodesKnown, Zenon DEF PublishInv, DiscardKnows, PublishNames
  <2>2. bytes' \in [PublishInodes -> Texts] /\ bytes'[b] = EmptyText /\ \A i \in PublishInodes : i # b => bytes'[i] = bytes[i]
    BY <1>3, <2>1, TextsTyped, Zenon
  <2>3. \A i \in Held(name, quar) : i \in PublishInodes
    BY InodesKnown DEF PublishInv, Disk, Directory, Held, PublishNames
  <2>4. \A t \in owedTexts' : t # bytes[b]
    BY <1>3, <2>1, Zenon DEF PublishInv, Disk
  <2>5. \A t \in owedTexts' : \E i \in Held(name, quar) : bytes'[i] = t
    BY <1>3, <2>2, <2>3, <2>4 DEF PublishInv, Disk, EditsHeld
  <2>6. name["target"] # Nowhere => name["target"] # b /\ name["target"] \in PublishInodes /\ WholeText(bytes[name["target"]])
    BY InodesKnown, Zenon DEF PublishInv, Disk, Directory, PublishNames, TargetWhole, WholeText
  <2>7. name["target"] # Nowhere => WholeText(bytes'[name["target"]])
    BY <2>2, <2>6, Zenon
  <2>8. Directory(name, quar) /\ owedTexts' \subseteq owedTexts
    BY <1>3, Zenon DEF PublishInv, Disk
  <2>9. CASE DiscardFails(name, 1)
    BY <1>1, <2>2, <2>5, <2>7, <2>8, <2>9, DiscardFailed, Zenon
  <2>10. CASE GoToStep("unlink") /\ UNCHANGED <<name, quar>>
    <3>1. /\ inodesMade \in Nat /\ inodesMade >= 1 /\ \A t \in owedTexts' : t \in Texts /\ t.by = "editor"
          /\ name'["target"] # Nowhere => WholeText(bytes'[name'["target"]])
          /\ Directory(name', quar') /\ Held(name, quar) \subseteq Held(name', quar')
      BY <2>7, <2>8, <2>10, Zenon DEF PublishInv, Disk
    <3>2. Disk'
      BY <1>1, <2>2, <2>5, <3>1, DiskMoves, Zenon
    <3>3. StagedKnows' /\ DiscardKnows' /\ disc' \in Discards
      BY <1>1, <2>2, <2>10, Zenon DEF PublishInv, PublishTypeOK, StagedKnows, DiscardKnows, GoToStep
    <3>. QED BY <1>1, <2>10, <3>2, <3>3, Advanced, Zenon DEF PublishSteps, GoToStep
  <2>. QED BY <1>3, <2>9, <2>10, Zenon
<1>. QED BY <1>2, <1>3, Zenon DEF DiscardTruncate

LEMMA DiscardUnlinkKeeps ==
  ASSUME PublishInv, DiscardUnlink
  PROVE  PublishInv'
<1>1. UNCHANGED <<bytes, inodesMade, owedTexts, wants, editsMade>> /\ publishStep = "unlink"
  BY Zenon DEF DiscardUnlink
<1>2. CASE DiscardFails(name, 1)
  BY <1>1, <1>2, DiscardStays, Zenon
<1>3. PICK f : f = [name EXCEPT !["tomb"] = Nowhere]
  BY Zenon
<1>4. /\ name["staging"] = Nowhere /\ name["tomb"] # Nowhere /\ quar = {} /\ bytes[name["tomb"]] = EmptyText
      /\ Directory(name, quar) /\ inodesMade \in Nat /\ inodesMade >= 1
  BY <1>1, Zenon DEF PublishInv, DiscardKnows, Disk
<1>5. /\ f \in [PublishNames -> 0 .. inodesMade] /\ f["tomb"] = Nowhere /\ f["staging"] = Nowhere
      /\ f["target"] = name["target"]
  BY <1>3, <1>4, Zenon DEF Directory, PublishNames, Nowhere
<1>6. Directory(f, quar) /\ Empty(f, quar)
  BY <1>4, <1>5, Zenon DEF Directory, PublishNames, Empty
<1>7. \A i \in Held(name, quar) : i \in Held(f, quar) \/ bytes[i] = EmptyText
  BY <1>4, <1>5, Zenon DEF Held
<1>8. /\ \A t \in owedTexts' : \E i \in Held(f, quar) : bytes'[i] = t
      /\ owedTexts' \subseteq owedTexts /\ bytes' \in [PublishInodes -> Texts]
      /\ \A t \in owedTexts' : t \in Texts /\ t.by = "editor"
  BY <1>1, <1>7, TextsTyped, Zenon DEF PublishInv, Disk, EditsHeld
<1>9. f["target"] # Nowhere => WholeText(bytes'[f["target"]])
  BY <1>1, <1>5, Zenon DEF PublishInv, Disk, TargetWhole, WholeText
<1>10. CASE DiscardFails(f, 1)
  BY <1>1, <1>5, <1>6, <1>8, <1>9, <1>10, DiscardFailed, Zenon
<1>11. CASE name' = f /\ UNCHANGED quar /\ DiscardDone
  <2>1. Disk'
    BY <1>1, <1>4, <1>6, <1>8, <1>9, <1>11, DiskMoves, Zenon
  <2>2. /\ disc.temp => disc.ok \in {"owned", "refused"} /\ (disc.ok = "refused" => disc.bad = "refused")
        /\ ~ disc.temp => cand = NoFile
        /\ disc.bad = "refused" /\ cand # NoFile => name["target"] # cand.inode
        /\ disc \in Discards
    BY <1>1, Zenon DEF PublishInv, PublishTypeOK, DiscardKnows
  <2>3. CASE disc.temp
    <3>1. PICK r \in Results : r = disc.ok
      BY <2>2, Zenon DEF Discards
    <3>. QED BY <1>1, <1>5, <1>6, <1>11, <2>1, <2>2, <2>3, <3>1, Returned, Zenon DEF DiscardDone
  <2>4. CASE ~ disc.temp
    <3>1. StagedKnows' /\ DiscardKnows' /\ disc' \in Discards
      BY <1>4, <1>5, <1>11, <2>2, <2>4, Zenon DEF StagedKnows, DiscardKnows, DiscardDone, GoToStep
    <3>. QED BY <1>1, <1>11, <2>1, <2>4, <3>1, Advanced, Zenon DEF PublishSteps, DiscardDone, GoToStep
  <2>. QED BY <2>3, <2>4, Zenon
<1>. QED BY <1>2, <1>3, <1>10, <1>11, Zenon DEF DiscardUnlink

(***************************************************************************)
(* The editor and the administrator.                                       *)
(***************************************************************************)
LEMMA EditorKeeps ==
  ASSUME PublishInv, EditedText, Disk', inodesMade' \in {inodesMade, inodesMade + 1},
         name'["staging"] = name["staging"], name'["tomb"] = name["tomb"],
         name'["target"] \in {name["target"], 0, inodesMade + 1},
         \A n \in {"staging", "tomb"} : name[n] # Nowhere => bytes'[name[n]] = bytes[name[n]]
  PROVE  PublishInv'
<1>1. /\ editsMade' = editsMade + 1 /\ editsMade < PublishEdits
      /\ UNCHANGED <<quar, publishStep, want, cand, disc, publishResult, wants>>
  BY Zenon DEF EditedText
<1>2. inodesMade \in Nat /\ cand.inode \in Nat
  BY Zenon DEF PublishInv, PublishTypeOK, Disk, Snapshots
<1>3. PublishTypeOK'
  BY <1>1, <1>2, PublishBounds DEF PublishInv, PublishTypeOK
<1>4. cand # NoFile /\ name'["target"] = cand.inode => name["target"] = cand.inode
  BY <1>2 DEF PublishInv, PublishTypeOK, Nowhere
<1>5. StagedKnows'
  BY <1>1, Zenon DEF PublishInv, StagedKnows
<1>6. DiscardKnows'
  BY <1>1, <1>4, Zenon DEF PublishInv, DiscardKnows
<1>7. SuccessLeavesNothing' /\ DisownedNotLive'
  BY <1>1, <1>4, Zenon DEF PublishInv, SuccessLeavesNothing, DisownedNotLive, Residue
<1>. QED BY <1>3, <1>5, <1>6, <1>7, Zenon DEF PublishInv

LEMMA EditorTextOK ==
  ASSUME PublishInv
  PROVE  EditorText \in Texts /\ EditorText.by = "editor" /\ WholeText(EditorText)
<1>1. editsMade + 1 \in Nat
  BY PublishBounds DEF PublishInv, PublishTypeOK
<1>2. EditorText \in Texts /\ EditorText.by = "editor"
  BY <1>1, TextsTyped, Zenon DEF EditorText
<1>. QED BY <1>2, WholeByAuthor, Zenon

(* What is held beside the target stays when the target changes.           *)
LEMMA EditorReplacesKeeps ==
  ASSUME PublishInv, EditorReplaces
  PROVE  PublishInv'
<1>. DEFINE new == inodesMade + 1
<1>1. /\ new \in PublishInodes /\ inodesMade \in Nat /\ inodesMade' = new /\ quar' = quar
      /\ bytes \in [PublishInodes -> Texts] /\ bytes' = [bytes EXCEPT ![new] = EditorText]
  BY PublishBounds DEF PublishInv, PublishTypeOK, Disk, EditorReplaces, EditedText, PublishInodes
<1>2. /\ name' \in [PublishNames -> 0 .. new]
      /\ name'["target"] = new /\ name'["staging"] = name["staging"] /\ name'["tomb"] = name["tomb"]
      /\ name["staging"] \in 0 .. inodesMade /\ name["tomb"] \in 0 .. inodesMade
  BY <1>1 DEF PublishInv, Disk, Directory, EditorReplaces, PublishNames
<1>3. bytes' \in [PublishInodes -> Texts] /\ bytes'[new] = EditorText /\ \A i \in PublishInodes : i # new => bytes'[i] = bytes[i]
  BY <1>1, EditorTextOK, Zenon
<1>4. \A i \in Held(name, quar) : i \in 1 .. inodesMade /\ i \in PublishInodes /\ i # new
  BY <1>1, <1>2, InodesKnown DEF PublishInv, Disk, Directory, Held, PublishNames, Nowhere
<1>5. Directory(name, quar)'
  BY <1>1, <1>2 DEF PublishInv, Disk, Directory, PublishNames, Nowhere
<1>6. /\ owedTexts' = (owedTexts \ {Snap("target").text}) \cup {EditorText}
      /\ name["target"] # Nowhere => Snap("target").text = bytes[name["target"]]
  BY SnapTyped, Zenon DEF EditorReplaces, PublishNames
<1>7. EditsHeld'
  <2>1. \A t \in owedTexts' : t = EditorText \/ \E i \in Held(name, quar) : bytes[i] = t /\ i # name["target"]
    BY <1>6, Zenon DEF PublishInv, Disk, EditsHeld, Held
  <2>2. new \in Held(name', quar') /\ \A i \in Held(name, quar) : i # name["target"] => i \in Held(name', quar')
    BY <1>1, <1>2 DEF Held, Nowhere
  <2>3. \A t \in owedTexts' : \E i \in Held(name', quar') : bytes'[i] = t
    BY <1>3, <1>4, <2>1, <2>2, Zenon
  <2>. QED BY <2>3, Zenon DEF EditsHeld, Held
<1>8. TargetWhole'
  BY <1>2, <1>3, EditorTextOK, Zenon DEF TargetWhole, WholeText
<1>9. Disk'
  BY <1>1, <1>3, <1>5, <1>6, <1>7, <1>8, EditorTextOK DEF PublishInv, Disk
<1>10. \A n \in {"staging", "tomb"} : name[n] # Nowhere => bytes'[name[n]] = bytes[name[n]]
  BY <1>3, <1>4, Zenon DEF Held
<1>. QED BY <1>1, <1>2, <1>9, <1>10, EditorKeeps, Zenon DEF EditorReplaces

LEMMA EditorWritesKeeps ==
  ASSUME PublishInv, EditorWrites
  PROVE  PublishInv'
<1>. DEFINE g == name["target"]
<1>1. /\ g # Nowhere /\ g \in PublishInodes /\ inodesMade \in Nat /\ inodesMade >= 1
      /\ UNCHANGED <<name, inodesMade, quar>>
      /\ bytes \in [PublishInodes -> Texts] /\ bytes' = [bytes EXCEPT ![g] = EditorText]
  BY InodesKnown, Zenon DEF PublishInv, Disk, EditorWrites, EditedText, PublishNames
<1>2. bytes' \in [PublishInodes -> Texts] /\ bytes'[g] = EditorText /\ \A i \in PublishInodes : i # g => bytes'[i] = bytes[i]
  BY <1>1, EditorTextOK, Zenon
<1>3. \A i \in Held(name, quar) : i \in PublishInodes
  BY InodesKnown DEF PublishInv, Disk, Directory, Held, PublishNames
<1>4. owedTexts' = (owedTexts \ {bytes[g]}) \cup {EditorText}
  BY <1>1, SnapTyped, Zenon DEF EditorWrites, PublishNames
<1>5. \A t \in owedTexts' : t = EditorText \/ \E i \in Held(name, quar) : bytes[i] = t /\ i # g
  BY <1>4, Zenon DEF PublishInv, Disk, EditsHeld
<1>6. g \in Held(name, quar)
  BY <1>1, Zenon DEF Held
<1>7. \A t \in owedTexts' : \E i \in Held(name, quar) : bytes'[i] = t
  BY <1>2, <1>3, <1>5, <1>6, Zenon
<1>8. /\ \A t \in owedTexts' : t \in Texts /\ t.by = "editor"
      /\ Directory(name', quar') /\ Held(name, quar) \subseteq Held(name', quar')
      /\ name'["target"] # Nowhere => WholeText(bytes'[name'["target"]])
  BY <1>1, <1>2, <1>4, EditorTextOK, Zenon DEF PublishInv, Disk
<1>9. Disk'
  BY <1>1, <1>2, <1>7, <1>8, DiskMoves, Zenon
<1>10. \A n \in {"staging", "tomb"} : name[n] # Nowhere => name[n] # g /\ name[n] \in PublishInodes
  BY <1>1, InodesKnown, Zenon DEF PublishInv, Disk, Directory, PublishNames
<1>. QED BY <1>1, <1>2, <1>9, <1>10, EditorKeeps, Zenon DEF EditorWrites

LEMMA EditorDeletesKeeps ==
  ASSUME PublishInv, EditorDeletes
  PROVE  PublishInv'
<1>. DEFINE g == name["target"]
<1>1. /\ g # Nowhere /\ inodesMade \in Nat /\ inodesMade >= 1 /\ UNCHANGED <<bytes, inodesMade, quar>>
      /\ bytes \in [PublishInodes -> Texts]
  BY Zenon DEF PublishInv, Disk, EditorDeletes, EditedText
<1>2. /\ name' \in [PublishNames -> 0 .. inodesMade]
      /\ name'["target"] = 0 /\ name'["staging"] = name["staging"] /\ name'["tomb"] = name["tomb"]
  BY <1>1 DEF PublishInv, Disk, Directory, EditorDeletes, PublishNames, Nowhere
<1>3. Directory(name, quar)'
  BY <1>1, <1>2 DEF PublishInv, Disk, Directory, PublishNames, Nowhere
<1>4. owedTexts' = owedTexts \ {bytes[g]}
  BY <1>1, SnapTyped, Zenon DEF EditorDeletes, PublishNames
<1>5. \A t \in owedTexts' : \E i \in Held(name, quar) : bytes[i] = t /\ i # g
  BY <1>4, Zenon DEF PublishInv, Disk, EditsHeld
<1>6. \A i \in Held(name, quar) : i # g => i \in Held(name', quar')
  BY <1>1, <1>2, Zenon DEF Held
<1>7. EditsHeld'
  <2>1. \A t \in owedTexts' : \E i \in Held(name', quar') : bytes'[i] = t
    BY <1>1, <1>5, <1>6, Zenon
  <2>. QED BY <2>1, Zenon DEF EditsHeld, Held
<1>8. TargetWhole'
  BY <1>2, Zenon DEF TargetWhole, Nowhere
<1>9. Disk'
  BY <1>1, <1>3, <1>4, <1>7, <1>8, Zenon DEF PublishInv, Disk
<1>. QED BY <1>1, <1>2, <1>9, EditorKeeps, Zenon DEF EditorDeletes

LEMMA ReviewKeeps ==
  ASSUME PublishInv, AdministratorReviewsFile
  PROVE  PublishInv'
<1>1. /\ inodesMade \in Nat /\ inodesMade >= 1 /\ quar' = {} /\ publishStep' = "idle" /\ publishResult' = "none"
      /\ UNCHANGED <<bytes, inodesMade, publishStep, want, cand, disc, wants, editsMade>>
      /\ bytes \in [PublishInodes -> Texts]
      /\ owedTexts' = owedTexts \ {bytes[i] : i \in (quar \cup {name["staging"], name["tomb"]}) \ {Nowhere}}
  BY Zenon DEF PublishInv, Disk, AdministratorReviewsFile, publishBounds
<1>2. /\ name' \in [PublishNames -> 0 .. inodesMade]
      /\ name'["target"] = name["target"] /\ name'["staging"] = 0 /\ name'["tomb"] = 0
  BY <1>1 DEF PublishInv, Disk, Directory, AdministratorReviewsFile, PublishNames, Nowhere
<1>3. Directory(name, quar)'
  BY <1>1, <1>2, Zenon DEF PublishInv, Disk, Directory, PublishNames, Nowhere
<1>4. \A t \in owedTexts' : name["target"] # Nowhere /\ bytes[name["target"]] = t
  BY <1>1 DEF PublishInv, Disk, EditsHeld, Held
<1>5. EditsHeld'
  BY <1>1, <1>2, <1>4, Zenon DEF EditsHeld, Held
<1>6. TargetWhole'
  BY <1>1, <1>2, Zenon DEF PublishInv, Disk, TargetWhole
<1>7. Disk'
  BY <1>1, <1>3, <1>5, <1>6, Zenon DEF PublishInv, Disk
<1>8. PublishTypeOK'
  BY <1>1, Zenon DEF PublishInv, PublishTypeOK, Results, PublishSteps
<1>9. StagedKnows' /\ DiscardKnows' /\ SuccessLeavesNothing' /\ DisownedNotLive'
  BY <1>1, Zenon DEF StagedKnows, DiscardKnows, SuccessLeavesNothing, DisownedNotLive
<1>. QED BY <1>7, <1>8, <1>9, Zenon DEF PublishInv

LEMMA PublishInvNext == PublishInv /\ [PublishNext]_publishVars => PublishInv'
<1>. SUFFICES ASSUME PublishInv, [PublishNext]_publishVars PROVE PublishInv'
  BY Zenon
<1>1. CASE UNCHANGED publishVars
  <2>1. Disk'
    BY <1>1, DiskSame, Zenon DEF publishVars, dirVars
  <2>2. PublishTypeOK' /\ StagedKnows' /\ DiscardKnows'
    BY <1>1, Zenon DEF PublishInv, PublishTypeOK, StagedKnows, DiscardKnows, publishVars
  <2>3. SuccessLeavesNothing' /\ DisownedNotLive'
    BY <1>1, Zenon DEF PublishInv, SuccessLeavesNothing, DisownedNotLive, Residue, publishVars
  <2>. QED BY <2>1, <2>2, <2>3, Zenon DEF PublishInv
<1>2. CASE \E kind \in PublishKinds : Capture(kind)
  BY <1>2, CaptureKeeps, Zenon
<1>3. CASE RefuseQuarantine \/ CreateStagingFails \/ PublishCrash \/ RemoveChecksGone
  BY <1>3, RefuseKeeps, Zenon
<1>4. CASE CreateStaging \/ WriteStagingFile \/ WriteStagingFails
  BY <1>4, CreateStagingKeeps, WriteStagingFileKeeps, WriteStagingFailsKeeps, Zenon
<1>5. CASE CloseStagingFails \/ TargetChangedAgain \/ RollBackFails \/ RolledBackDiffers
  BY <1>5, CloseStagingFailsKeeps, Zenon
<1>6. CASE PublishNew \/ PublishConflict \/ ExchangeNames \/ RollBack
  BY <1>6, PublishNewKeeps, PublishConflictKeeps, ExchangeKeeps, Zenon
<1>7. CASE DisplacedAsExpected \/ DisplacedDiffers \/ CandidateStillLive \/ RolledBack
  BY <1>7, DisplacedKeeps, JudgedKeeps, RolledBackKeeps, Zenon
<1>8. CASE StartRemove \/ DiscardCheck \/ DiscardMove
  BY <1>8, StartRemoveKeeps, DiscardCheckKeeps, DiscardMoveKeeps, Zenon
<1>9. CASE DiscardVerify \/ DiscardTruncate \/ DiscardUnlink
  BY <1>9, DiscardVerifyKeeps, DiscardTruncateKeeps, DiscardUnlinkKeeps, Zenon
<1>10. CASE EditorReplaces \/ EditorWrites \/ EditorDeletes \/ AdministratorReviewsFile
  BY <1>10, EditorReplacesKeeps, EditorWritesKeeps, EditorDeletesKeeps, ReviewKeeps, Zenon
<1>. QED BY <1>1, <1>2, <1>3, <1>4, <1>5, <1>6, <1>7, <1>8, <1>9, <1>10, Zenon DEF PublishNext

(***************************************************************************)
(* publishSambaConfigCAS and removeSambaConfigCAS against an editor that   *)
(* takes no lock, for every number of publications, edits, failing calls   *)
(* and process deaths: no edit is lost that was not captured and proven to *)
(* be the replaced file, smbd never finds a partial or truncated file at   *)
(* the target, success leaves no entry behind, and a disowned candidate is *)
(* not live unless an entry is retained that blocks the next publication.  *)
(***************************************************************************)
THEOREM PublicationLosesNoEdit == PublishSpec => []PublicationSafe
<1>1. PublishInv => PublicationSafe
  <2>1. ASSUME PublishInv PROVE EditsPreserved
    BY <2>1, HeldNames, Zenon DEF PublishInv, Disk, EditsHeld, EditsPreserved
  <2>. QED BY <2>1, Zenon DEF PublishInv, Disk, PublicationSafe
<1>. QED BY <1>1, PublishInitOK, PublishInvNext, PTL DEF PublishSpec
=============================================================================

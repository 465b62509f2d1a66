------------------------- MODULE SambaConfigPublish -------------------------
(***************************************************************************)
(* Compare-and-swap publication of one Samba configuration file            *)
(* (service/samba_config_publish_linux.go), at the grain of the system     *)
(* calls that change the pinned directory.  The publisher holds s.mu and   *)
(* the process lock, so there is one publication at a time; an editor      *)
(* that respects no lock may rewrite, replace or delete the target at any  *)
(* moment.  The editor does not know the random staging and retained       *)
(* names (samba_config_publish_linux.go:254 puts that outside the trusted  *)
(* host).  An inode is a number, a snapshot is its identity and content;   *)
(* permissions travel with the content.                                    *)
(***************************************************************************)
EXTENDS Naturals, FiniteSets

CONSTANTS PublishOps,      \* publications and removals
          PublishEdits,    \* changes by the editor
          PublishFaults,   \* failing system calls
          PublishCrashes   \* process deaths

ASSUME PublishBounds == {PublishOps, PublishEdits, PublishFaults, PublishCrashes} \subseteq Nat

Nowhere == 0
PublishInodes == 1 .. (1 + PublishOps + PublishEdits)
PublishNames == {"target", "staging", "tomb"}

Text(who, n) == [by |-> who, n |-> n]
EmptyText == Text("nobody", 0)
Partial == Text("nobody", 1)
Edits == {Text("editor", n) : n \in 0 .. PublishEdits}
NoFile == [inode |-> Nowhere, text |-> EmptyText]

VARIABLES
  name,      \* directory entries: the target, the staging name, the retained name
  quar,      \* inodes under quarantine names, waiting for the administrator
  bytes,      \* content of each inode
  inodesMade,      \* inodes allocated so far
  publishStep,        \* the step the publisher is about to take
  want,        \* kind and expected snapshot of the publication
  cand,      \* snapshot of the staged candidate
  disc,      \* the discard in progress: base, snapshot, temporary or not, results
  publishResult,    \* how the last publication ended
  owedTexts,      \* editor contents that nobody but a proven replacement may destroy
  wants, editsMade, faultsMade, crashesMade

publishVars == <<name, quar, bytes, inodesMade, publishStep, want, cand, disc, publishResult, owedTexts,
          wants, editsMade, faultsMade, crashesMade>>
dirVars == <<name, quar, bytes, inodesMade>>
publishBounds == <<wants, editsMade, faultsMade, crashesMade>>

PublishKinds == {"publish", "remove"}
NoWant == [kind |-> "publish", expected |-> NoFile]
NoDisc == [base |-> "staging", snap |-> NoFile, temp |-> TRUE, ok |-> "none", bad |-> "none"]
PublishSteps == {"idle", "captured", "staged", "written", "exchanged", "conflict",
          "rollback", "rolledback", "check", "move", "verify", "truncate",
          "unlink", "gone"}

(* The configuration the administrator installed, or none at all. *)
PublishInit ==
  /\ name \in [PublishNames -> {Nowhere, 1}]
  /\ name["staging"] = Nowhere /\ name["tomb"] = Nowhere
  /\ quar = {}
  /\ bytes = [i \in PublishInodes |-> Text("editor", 0)]
  /\ inodesMade = 1
  /\ publishStep = "idle"
  /\ want = NoWant /\ cand = NoFile /\ disc = NoDisc
  /\ publishResult = "none"
  /\ owedTexts = IF name["target"] = Nowhere THEN {} ELSE {Text("editor", 0)}
  /\ wants = 0 /\ editsMade = 0 /\ faultsMade = 0 /\ crashesMade = 0

Snap(base) ==
  IF name[base] = Nowhere THEN NoFile
  ELSE [inode |-> name[base], text |-> bytes[name[base]]]

Residue == name["staging"] # Nowhere \/ name["tomb"] # Nowhere \/ quar # {}

(* The step meets k failing calls, as often as the bound allows. *)
Faults(k) == faultsMade + k <= PublishFaults /\ faultsMade' = faultsMade + k
PublishFault == Faults(1)
NoFault == Faults(0)

ReturnsPublish(r) ==
  /\ publishStep' = "idle" /\ publishResult' = r
  /\ want' = NoWant /\ cand' = cand /\ disc' = NoDisc

GoToStep(step) == publishStep' = step /\ UNCHANGED <<want, cand, disc, publishResult>>

(* Enter discardSambaConfigSnapshotIfOwned, or its temporary form. *)
Discard(base, snap, temp, ok, bad) ==
  /\ publishStep' = "check"
  /\ disc' = [base |-> base, snap |-> snap, temp |-> temp, ok |-> ok, bad |-> bad]
  /\ UNCHANGED <<want, cand, publishResult>>

(* quarantineUnknown: the entry moves to a reserved name, or stays where it *)
(* is when that rename fails as well; either way it blocks later publishes. *)
(* before counts the failed calls that led here.                            *)
Quarantined(base, entries, before) ==
  \/ /\ name' = [entries EXCEPT ![base] = Nowhere]
     /\ quar' = quar \cup ({entries[base]} \ {Nowhere})
     /\ Faults(before)
  \/ name' = entries /\ quar' = quar /\ Faults(before + 1)

----------------------------------------------------------------------------
(* The share service captures the current file and later publishes over it. *)
Capture(kind) ==
  /\ publishStep = "idle" /\ wants < PublishOps
  /\ kind = "remove" => name["target"] # Nowhere
  /\ wants' = wants + 1
  /\ want' = [kind |-> kind, expected |-> Snap("target")]
  /\ cand' = NoFile /\ disc' = NoDisc /\ publishResult' = "none"
  /\ publishStep' = "captured"
  /\ UNCHANGED <<dirVars, owedTexts, editsMade, faultsMade, crashesMade>>

RefuseQuarantine ==
  /\ publishStep = "captured" /\ Residue
  /\ ReturnsPublish("refused")
  /\ UNCHANGED <<dirVars, owedTexts, publishBounds>>

CreateStaging ==
  /\ publishStep = "captured" /\ want.kind = "publish" /\ ~Residue
  /\ inodesMade' = inodesMade + 1
  /\ name' = [name EXCEPT !["staging"] = inodesMade + 1]
  /\ bytes' = [bytes EXCEPT ![inodesMade + 1] = Partial]
  /\ GoToStep("staged")
  /\ UNCHANGED <<quar, owedTexts, publishBounds>>

CreateStagingFails ==
  /\ publishStep = "captured" /\ want.kind = "publish" /\ ~Residue
  /\ PublishFault /\ ReturnsPublish("refused")
  /\ UNCHANGED <<dirVars, owedTexts, wants, editsMade, crashesMade>>

WriteStagingFile ==
  /\ publishStep = "staged"
  /\ bytes' = [bytes EXCEPT ![name["staging"]] = Text("casa", wants)]
  /\ cand' = [inode |-> name["staging"], text |-> Text("casa", wants)]
  /\ publishStep' = "written"
  /\ UNCHANGED <<name, quar, inodesMade, want, disc, publishResult, owedTexts, publishBounds>>

(* closeRetained: the partial staging file is emptied and discarded; without *)
(* its identity it can only be left behind.                                  *)
WriteStagingFails ==
  /\ publishStep = "staged" /\ PublishFault
  /\ bytes' = [bytes EXCEPT ![name["staging"]] = EmptyText]
  /\ \/ Discard("staging", [inode |-> name["staging"], text |-> EmptyText],
                TRUE, "refused", "refused")
     \/ ReturnsPublish("refused")
  /\ UNCHANGED <<name, quar, inodesMade, owedTexts, wants, editsMade, crashesMade>>

CloseStagingFails ==
  /\ publishStep = "written"
  /\ Quarantined("staging", name, 1) /\ ReturnsPublish("refused")
  /\ UNCHANGED <<bytes, inodesMade, owedTexts, wants, editsMade, crashesMade>>

PublishNew ==
  /\ publishStep = "written" /\ want.expected = NoFile /\ name["target"] = Nowhere
  /\ name' = [name EXCEPT !["target"] = name["staging"], !["staging"] = Nowhere]
  /\ \/ NoFault /\ ReturnsPublish("owned")
     \/ PublishFault /\ ReturnsPublish("ownedErr")
  /\ UNCHANGED <<quar, bytes, inodesMade, owedTexts, wants, editsMade, crashesMade>>

(* The rename finds the target present, absent, or fails for another reason. *)
PublishConflict ==
  /\ publishStep = "written"
  /\ \/ NoFault /\ (want.expected = NoFile) = (name["target"] # Nowhere)
     \/ PublishFault
  /\ Discard("staging", cand, TRUE, "refused", "refused")
  /\ UNCHANGED <<dirVars, owedTexts, wants, editsMade, crashesMade>>

NamesExchanged == [name EXCEPT !["target"] = name["staging"], !["staging"] = name["target"]]

ExchangeNames ==
  /\ publishStep = "written" /\ want.expected # NoFile /\ name["target"] # Nowhere
  /\ name' = NamesExchanged
  /\ GoToStep("exchanged")
  /\ UNCHANGED <<quar, bytes, inodesMade, owedTexts, publishBounds>>

DisplacedUnchecked ==
  /\ publishStep = "exchanged"
  /\ Discard("staging", Snap("staging"), TRUE, "owned", "ownedErr")
  /\ UNCHANGED <<dirVars, owedTexts, publishBounds>>

DisplacedAsExpected ==
  /\ publishStep = "exchanged" /\ Snap("staging") = want.expected
  /\ Discard("staging", Snap("staging"), TRUE, "owned", "ownedErr")
  /\ UNCHANGED <<dirVars, owedTexts, publishBounds>>

DisplacedDiffers ==
  /\ publishStep = "exchanged"
  /\ \/ NoFault /\ Snap("staging") # want.expected
     \/ PublishFault
  /\ GoToStep("conflict")
  /\ UNCHANGED <<dirVars, owedTexts, wants, editsMade, crashesMade>>

CandidateStillLive ==
  /\ publishStep = "conflict" /\ Snap("target") = cand
  /\ GoToStep("rollback")
  /\ UNCHANGED <<dirVars, owedTexts, publishBounds>>

(* The target changed again or cannot be read: keep the displaced file. *)
TargetChangedAgain ==
  /\ publishStep = "conflict"
  /\ \/ Snap("target") # cand /\ Quarantined("staging", name, 0)
     \/ Quarantined("staging", name, 1)
  /\ ReturnsPublish("refused")
  /\ UNCHANGED <<bytes, inodesMade, owedTexts, wants, editsMade, crashesMade>>

RollBack ==
  /\ publishStep = "rollback" /\ name["target"] # Nowhere
  /\ name' = NamesExchanged
  /\ GoToStep("rolledback")
  /\ UNCHANGED <<quar, bytes, inodesMade, owedTexts, publishBounds>>

RollBackFails ==
  /\ publishStep = "rollback"
  /\ \/ name["target"] = Nowhere /\ Quarantined("staging", name, 0)
     \/ Quarantined("staging", name, 1)
  /\ ReturnsPublish("refused")
  /\ UNCHANGED <<bytes, inodesMade, owedTexts, wants, editsMade, crashesMade>>

RolledBack ==
  /\ publishStep = "rolledback" /\ Snap("staging") = cand
  /\ Discard("staging", cand, TRUE, "refused", "refused")
  /\ UNCHANGED <<dirVars, owedTexts, publishBounds>>

RolledBackDiffers ==
  /\ publishStep = "rolledback"
  /\ \/ Snap("staging") # cand /\ Quarantined("staging", name, 0)
     \/ Quarantined("staging", name, 1)
  /\ ReturnsPublish("refused")
  /\ UNCHANGED <<bytes, inodesMade, owedTexts, wants, editsMade, crashesMade>>

----------------------------------------------------------------------------
(* removeSambaConfigCAS discards the target itself. *)
StartRemove ==
  /\ publishStep = "captured" /\ want.kind = "remove" /\ ~Residue
  /\ Discard("target", want.expected, FALSE, "removed", "refused")
  /\ UNCHANGED <<dirVars, owedTexts, publishBounds>>

(* A failed discard quarantines a temporary file; a target stays in place. *)
DiscardFails(entries, before) ==
  /\ IF disc.temp THEN Quarantined(disc.base, entries, before)
     ELSE name' = entries /\ quar' = quar /\ Faults(before)
  /\ ReturnsPublish(disc.bad)

DiscardCheck ==
  /\ publishStep = "check"
  /\ \/ /\ Snap(disc.base) = disc.snap
        /\ NoFault /\ GoToStep("move") /\ UNCHANGED <<name, quar>>
     \/ Snap(disc.base) # disc.snap /\ DiscardFails(name, 0)
     \/ DiscardFails(name, 1)
  /\ UNCHANGED <<bytes, inodesMade, owedTexts, wants, editsMade, crashesMade>>

Moved == [name EXCEPT ![disc.base] = Nowhere, !["tomb"] = name[disc.base]]

DiscardMove ==
  /\ publishStep = "move"
  /\ \/ /\ name[disc.base] # Nowhere
        /\ name' = Moved
        /\ NoFault /\ GoToStep("verify") /\ UNCHANGED quar
     \/ name[disc.base] = Nowhere /\ DiscardFails(name, 0)
     \/ DiscardFails(name, 1)
  /\ UNCHANGED <<bytes, inodesMade, owedTexts, wants, editsMade, crashesMade>>

PutBack ==
  IF name[disc.base] = Nowhere
  THEN [name EXCEPT ![disc.base] = name["tomb"], !["tomb"] = Nowhere]
  ELSE name

DiscardVerify ==
  /\ publishStep = "verify"
  /\ \/ /\ Snap("tomb") = disc.snap
        /\ NoFault /\ GoToStep("truncate") /\ UNCHANGED <<name, quar>>
     \/ Snap("tomb") # disc.snap /\ DiscardFails(PutBack, 0)
     \/ Snap("tomb") # disc.snap /\ DiscardFails(name, 1)
     \/ DiscardFails(PutBack, 1)
     \/ DiscardFails(name, 2)
  /\ UNCHANGED <<bytes, inodesMade, owedTexts, wants, editsMade, crashesMade>>

(* Open the retained inode and empty it, or fail before or after that. *)
DiscardTruncate ==
  /\ publishStep = "truncate"
  /\ \/ DiscardFails(name, 1) /\ UNCHANGED <<bytes, owedTexts>>
     \/ /\ bytes' = [bytes EXCEPT ![name["tomb"]] = EmptyText]
        /\ owedTexts' = owedTexts \ ({disc.snap.text} \cap {want.expected.text})
        /\ \/ NoFault /\ GoToStep("unlink") /\ UNCHANGED <<name, quar>>
           \/ DiscardFails(name, 1)
  /\ UNCHANGED <<inodesMade, wants, editsMade, crashesMade>>

DiscardDone ==
  IF disc.temp THEN ReturnsPublish(disc.ok) ELSE GoToStep("gone")

DiscardUnlink ==
  /\ publishStep = "unlink"
  /\ \/ /\ name' = [name EXCEPT !["tomb"] = Nowhere]
        /\ NoFault /\ UNCHANGED quar /\ DiscardDone
     \/ DiscardFails(name, 1)
     \/ DiscardFails([name EXCEPT !["tomb"] = Nowhere], 1)
  /\ UNCHANGED <<bytes, inodesMade, owedTexts, wants, editsMade, crashesMade>>

RemoveChecksGone ==
  /\ publishStep = "gone"
  /\ \/ name["target"] = Nowhere /\ NoFault /\ ReturnsPublish("removed")
     \/ name["target"] # Nowhere /\ NoFault /\ ReturnsPublish("refused")
     \/ PublishFault /\ ReturnsPublish("refused")
  /\ UNCHANGED <<dirVars, owedTexts, wants, editsMade, crashesMade>>

----------------------------------------------------------------------------
(* An editor that takes no lock.  What it overwrites itself is not owed. *)
EditorText == Text("editor", editsMade + 1)
EditedText == /\ editsMade < PublishEdits /\ editsMade' = editsMade + 1
          /\ UNCHANGED <<quar, publishStep, want, cand, disc, publishResult, wants, faultsMade, crashesMade>>

EditorReplaces ==
  /\ EditedText
  /\ inodesMade' = inodesMade + 1
  /\ name' = [name EXCEPT !["target"] = inodesMade + 1]
  /\ bytes' = [bytes EXCEPT ![inodesMade + 1] = EditorText]
  /\ owedTexts' = (owedTexts \ {Snap("target").text}) \cup {EditorText}

EditorWrites ==
  /\ EditedText
  /\ name["target"] # Nowhere
  /\ bytes' = [bytes EXCEPT ![name["target"]] = EditorText]
  /\ owedTexts' = (owedTexts \ {Snap("target").text}) \cup {EditorText}
  /\ UNCHANGED <<name, inodesMade>>

EditorDeletes ==
  /\ EditedText
  /\ name["target"] # Nowhere
  /\ name' = [name EXCEPT !["target"] = Nowhere]
  /\ owedTexts' = owedTexts \ {Snap("target").text}
  /\ UNCHANGED <<bytes, inodesMade>>

(* The administrator settles what the publisher left for review. *)
AdministratorReviewsFile ==
  /\ publishStep = "idle" /\ Residue
  /\ name' = [name EXCEPT !["staging"] = Nowhere, !["tomb"] = Nowhere]
  /\ quar' = {}
  /\ owedTexts' = owedTexts \ {bytes[i] : i \in (quar \cup {name["staging"], name["tomb"]}) \ {Nowhere}}
  /\ publishResult' = "none"
  /\ UNCHANGED <<bytes, inodesMade, publishStep, want, cand, disc, publishBounds>>

PublishCrash ==
  /\ publishStep # "idle" /\ crashesMade < PublishCrashes
  /\ crashesMade' = crashesMade + 1
  /\ ReturnsPublish("crashed")
  /\ UNCHANGED <<dirVars, owedTexts, wants, editsMade, faultsMade>>

PublishNext ==
  \/ \E kind \in PublishKinds : Capture(kind)
  \/ RefuseQuarantine
  \/ CreateStaging
  \/ CreateStagingFails
  \/ WriteStagingFile
  \/ WriteStagingFails
  \/ CloseStagingFails
  \/ PublishNew
  \/ PublishConflict
  \/ ExchangeNames
  \/ DisplacedAsExpected
  \/ DisplacedDiffers
  \/ CandidateStillLive
  \/ TargetChangedAgain
  \/ RollBack
  \/ RollBackFails
  \/ RolledBack
  \/ RolledBackDiffers
  \/ StartRemove
  \/ DiscardCheck
  \/ DiscardMove
  \/ DiscardVerify
  \/ DiscardTruncate
  \/ DiscardUnlink
  \/ RemoveChecksGone
  \/ EditorReplaces
  \/ EditorWrites
  \/ EditorDeletes
  \/ AdministratorReviewsFile
  \/ PublishCrash

PublishSpec == PublishInit /\ [][PublishNext]_publishVars

----------------------------------------------------------------------------
(* No edit is lost: whatever the editor wrote last, and did not overwrite    *)
(* itself, is still in the directory (at the target, a staging name or a     *)
(* quarantine name) unless it was captured and proven to be the file that    *)
(* the publication replaces.  This is what the exchange, the comparison of   *)
(* the displaced file and the double rollback of publishSambaConfigCAS and   *)
(* discardSambaConfigSnapshotIfOwned are for.                                *)
EditsPreserved ==
  \A text \in owedTexts :
    \E i \in (quar \cup {name[n] : n \in PublishNames}) \ {Nowhere} : bytes[i] = text

(* smbd may read the target at any moment: it never finds a half-written or  *)
(* truncated file there, not after a failed call or a crash either.          *)
TargetWhole == name["target"] # Nowhere => bytes[name["target"]] \notin {EmptyText, Partial}

(* A publication that reports success leaves no staging or quarantine entry, *)
(* so it never blocks the next one ("ordinary successful updates do not      *)
(* accumulate directory entries").                                           *)
SuccessLeavesNothing ==
  (publishStep = "idle" /\ publishResult \in {"owned", "removed"}) => ~Residue

(* A publication that disowns its candidate (the caller will not restore the *)
(* old file) has not left it at the target, unless an entry is retained that *)
(* stops every later publication.                                            *)
DisownedNotLive ==
  (publishStep = "idle" /\ publishResult = "refused" /\ cand # NoFile /\ name["target"] = cand.inode)
     => Residue

(* A publication loses no edit, leaves the target readable at every moment,  *)
(* and its result tells the caller what it left behind.                      *)
PublicationSafe == EditsPreserved /\ TargetWhole /\ SuccessLeavesNothing /\ DisownedNotLive

=============================================================================

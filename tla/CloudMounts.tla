---------------------------- MODULE CloudMounts ----------------------------
(***************************************************************************)
(* Cloud storages (service/storage.go): one remote, its rclone             *)
(* configuration and its mount point.  The service's mutex lets one        *)
(* operation run at a time.  Two authorities tell whether the remote is    *)
(* mounted, the kernel and rclone's list; rclone performs requests when it *)
(* will, perhaps after the operation that sent them has given up, and the  *)
(* answer to a request may be lost.  A state is believed once two frames   *)
(* in a row show it, a frame being a kernel sample between two equal lists.*)
(*                                                                         *)
(* Other privileged programs change mounts and configurations as they      *)
(* like; file operations of this process fill the mount directory, but not *)
(* while the managed roots' mutation lease is held.                        *)
(***************************************************************************)
EXTENDS Integers, FiniteSets

CONSTANTS CloudCalls,     \* bound: operations
          CloudStrange,   \* bound: steps of other programs and file operations
          Frames          \* frames that fit the settle deadline

ASSUME CloudConstants == CloudCalls \in Nat /\ CloudStrange \in Nat /\ Frames \in Nat \ {0}

CloudKinds == {"mount", "unmount", "remove", "delete", "create", "check"}
FirstStep(kind) == CASE kind = "create" -> "names" [] kind = "delete" -> "confirm" [] OTHER -> "config"

VARIABLES config,    \* "absent", "managed" (our mapping) or "foreign"
          kernel,    \* who is mounted at the mount point: "none", "ours", "alien"
          listed,    \* rclone's record of it: "none", "ours", "alien"
          files,     \* the mount directory has entries of its own
          pending,   \* requests that rclone holds, <<what, sent by the running operation>>
          call,      \* the operation that has the mutex
          answer,    \* what the last operation reported
          cloudCalls, meddled

cloudVars == <<config, kernel, listed, files, pending, call, answer, cloudCalls, meddled>>

NoCall == [kind |-> "none", pc |-> "idle", want |-> "none", list |-> "none", sample |-> "none",
           agreed |-> 0, left |-> 0, lease |-> FALSE, calm |-> TRUE]
NoAnswer == [kind |-> "none", ok |-> FALSE]

CloudInit ==
  /\ config \in {"absent", "managed", "foreign"}
  /\ kernel \in {"none", "ours", "alien"} /\ listed \in {"none", "ours", "alien"}
  /\ files \in BOOLEAN
  /\ pending = {} /\ call = NoCall /\ answer = NoAnswer /\ cloudCalls = 0 /\ meddled = 0

World == <<config, kernel, listed, files, pending>>
Goes(pc) == call' = [call EXCEPT !.pc = pc] /\ UNCHANGED answer
\* The mutex and the lease are released; what rclone still holds is nobody's.
Ends(ok) ==
  /\ call' = NoCall /\ answer' = [kind |-> call.kind, ok |-> ok]
  /\ pending' = {<<p[1], FALSE>> : p \in pending}
Answers(ok) == Ends(ok) /\ UNCHANGED <<config, kernel, listed, files>>
In(kinds, pc) == call.kind \in kinds /\ call.pc = pc
Counts == UNCHANGED <<cloudCalls, meddled>>
Refuses == Answers(FALSE) /\ Counts

CloudBegin(kind) ==
  /\ call.pc = "idle" /\ cloudCalls < CloudCalls /\ cloudCalls' = cloudCalls + 1
  /\ call' = [NoCall EXCEPT !.kind = kind, !.pc = FirstStep(kind)]
  /\ answer' = NoAnswer /\ UNCHANGED <<World, meddled>>

(***************************************************************************)
(* Reads before the request.                                               *)
(***************************************************************************)
\* getConfigByNameLocked: the mapping must be ours; a scan of all remotes passes
\* over the others.
ReadConfig ==
  /\ call.pc = "config"
  /\ \/ /\ config = "managed"
        /\ Goes(IF call.kind = "check" THEN "present" ELSE IF call.kind = "mount" THEN "mkdir" ELSE "lease")
        /\ UNCHANGED World /\ Counts
     \/ call.kind = "check" /\ config # "managed" /\ Answers(TRUE) /\ Counts
     \/ Refuses

\* checkAndMountByNameLocked and CheckAndMountAll: nothing to do for a remote
\* that is listed and mounted.
CheckPresent ==
  /\ In({"check"}, "present")
  /\ \/ listed = "ours" /\ kernel # "none" /\ Answers(TRUE) /\ Counts
     \/ /\ listed # "ours" \/ kernel = "none"
        /\ call' = [call EXCEPT !.kind = "mount", !.pc = "config"]
        /\ UNCHANGED <<World, answer>> /\ Counts
     \/ Refuses

MakeMountDirectory ==
  /\ In({"mount"}, "mkdir")
  /\ \/ Goes("lease") /\ UNCHANGED World /\ Counts
     \/ Refuses

TakeLeaseNot ==
  /\ call.pc = "lease" /\ Goes("reread") /\ UNCHANGED World /\ Counts
\* acquireCloudMutation.
TakeLease ==
  /\ call.pc = "lease"
  /\ \/ call' = [call EXCEPT !.pc = "reread", !.lease = TRUE] /\ UNCHANGED <<World, answer>> /\ Counts
     \/ Refuses

RereadConfig ==
  /\ call.pc = "reread"
  /\ \/ config = "managed" /\ Goes("list") /\ UNCHANGED World /\ Counts
     \/ Refuses

\* mountListContains refuses a mount of another remote at our mount point.
ReadList ==
  /\ call.pc = "list"
  /\ \/ /\ listed # "alien" /\ call' = [call EXCEPT !.pc = "kernel", !.list = listed]
        /\ UNCHANGED <<World, answer>> /\ Counts
     \/ Refuses

\* managedMountState; a dead mount that is listed may still be unmounted.
ReadKernel ==
  /\ call.pc = "kernel"
  /\ \/ /\ call.kind = "mount" /\ call.list = "none" /\ kernel = "none"
        /\ Goes("empty") /\ UNCHANGED World /\ Counts
     \/ /\ call.kind # "mount" /\ (call.list = "none" => kernel = "none")
        /\ Goes("request") /\ UNCHANGED World /\ Counts
     \/ Refuses

\* requireEmptyManagedDirectory.
RequireEmpty ==
  /\ In({"mount"}, "empty")
  /\ \/ ~files /\ Goes("request") /\ UNCHANGED World /\ Counts
     \/ Refuses

(***************************************************************************)
(* The request, made once, and the settlement.                             *)
(***************************************************************************)
Settles(want) == [call EXCEPT !.pc = "before", !.want = want, !.agreed = 0, !.left = Frames]
\* What an error means is left to the settlement.
RequestMount ==
  /\ call.kind = "mount" /\ call' = Settles("ours")
  /\ UNCHANGED pending \/ pending' = pending \cup {<<"mount", TRUE>>}
RequestUnmount ==
  /\ call.kind # "mount" /\ call' = Settles("none")
  /\ UNCHANGED pending \/ (call.list = "ours" /\ pending' = pending \cup {<<"unmount", TRUE>>})
Request ==
  /\ call.pc = "request" /\ (RequestMount \/ RequestUnmount)
  /\ UNCHANGED <<config, kernel, listed, files, answer>> /\ Counts

ObserveBefore ==
  /\ call.pc = "before" /\ call' = [call EXCEPT !.pc = "sample", !.list = listed]
  /\ UNCHANGED <<World, answer>> /\ Counts

\* The kernel knows a mount point, not whose it is.
ObserveKernel ==
  /\ call.pc = "sample"
  /\ call' = [call EXCEPT !.pc = "after", !.sample = IF kernel = "none" THEN "none" ELSE "ours"]
  /\ UNCHANGED <<World, answer>> /\ Counts

FrameAgreesKernelOnly(c) == c.sample = c.want
FrameAgrees(c) == c.list = listed /\ c.list = c.want /\ c.sample = c.want
Deadline(c) == c.left = 0
NextPc == CASE call.kind = "remove" -> "confirm" [] call.kind = "delete" -> "delete" [] OTHER -> "done"
\* observeCloudMountState and the loop of settleCloudMountState: an unexpected
\* mount ends it, errors and disagreement start the count again.
ObserveAfter ==
  /\ call.pc = "after" /\ Counts
  /\ LET seen == [call EXCEPT !.left = IF @ > 0 THEN @ - 1 ELSE 0, !.pc = "before"] IN
     \/ (listed = "alien" \/ call.list = "alien") /\ Answers(FALSE)
     \/ /\ FrameAgrees(call) /\ call.agreed = 1
        /\ call' = [call EXCEPT !.pc = NextPc, !.lease = FALSE] /\ UNCHANGED <<World, answer>>
     \/ /\ FrameAgrees(call) /\ call.agreed = 0 /\ ~Deadline(seen)
        /\ call' = [seen EXCEPT !.agreed = 1] /\ UNCHANGED <<World, answer>>
     \/ ~Deadline(seen) /\ call' = [seen EXCEPT !.agreed = 0] /\ UNCHANGED <<World, answer>>
     \/ Deadline(seen) /\ Answers(FALSE)

Done == call.pc = "done" /\ Answers(TRUE) /\ Counts

(***************************************************************************)
(* RemoveStorage goes on without the lease, DeleteConfigByName starts here;*)
(* createConfigLocked.                                                     *)
(***************************************************************************)
ConfirmConfig ==
  /\ call.pc = "confirm"
  /\ \/ /\ config = "managed" /\ call' = [Settles("none") EXCEPT !.kind = "delete"]
        /\ UNCHANGED <<World, answer>> /\ Counts
     \/ Refuses

\* The answer may be lost: then the list of configurations decides.
DeleteConfig ==
  /\ In({"delete"}, "delete") /\ Counts
  /\ \/ config' = "absent" /\ Ends(TRUE)
     \/ config' \in {config, "absent"} /\ Goes("gone") /\ UNCHANGED pending
  /\ UNCHANGED <<kernel, listed, files>>
ConfigGone ==
  /\ In({"delete"}, "gone")
  /\ \/ config = "absent" /\ Answers(TRUE) /\ Counts
     \/ Refuses

NamesBeforeCreate ==
  /\ In({"create"}, "names")
  /\ \/ config = "absent" /\ Goes("create") /\ UNCHANGED World /\ Counts
     \/ Refuses
CreateConfig ==
  /\ In({"create"}, "create") /\ Counts
  /\ \/ config' = "managed" /\ Ends(TRUE)
     \/ config' \in {config, "managed"} /\ Goes("created") /\ UNCHANGED pending
  /\ UNCHANGED <<kernel, listed, files>>
ConfigCreated ==
  /\ In({"create"}, "created")
  /\ \/ config = "managed" /\ Answers(TRUE) /\ Counts
     \/ Refuses

Service ==
  \/ ReadConfig \/ CheckPresent \/ MakeMountDirectory \/ TakeLease \/ RereadConfig \/ ReadList
  \/ ReadKernel \/ RequireEmpty \/ Request \/ ObserveBefore \/ ObserveKernel \/ ObserveAfter \/ Done
  \/ ConfirmConfig \/ DeleteConfig \/ ConfigGone \/ NamesBeforeCreate \/ CreateConfig \/ ConfigCreated

(***************************************************************************)
(* rclone, other programs and file operations.                             *)
(***************************************************************************)
Still == UNCHANGED <<config, files, answer, cloudCalls, meddled>>
\* A request of an operation that has ended disturbs the one that runs.
Performs(what, next) ==
  \E own \in BOOLEAN :
     /\ <<what, own>> \in pending
     /\ pending' = (pending \ {<<what, own>>}) \cup {<<n, own>> : n \in next}
     /\ call' = [call EXCEPT !.calm = @ /\ (own \/ call.pc = "idle")]
RcloneMounts   == Performs("mount", {"record"}) /\ kernel = "none" /\ kernel' = "ours" /\ UNCHANGED listed /\ Still
RcloneRecords  == Performs("record", {}) /\ listed' = "ours" /\ UNCHANGED kernel /\ Still
RcloneUnmounts == Performs("unmount", {"erase"}) /\ kernel' = "none" /\ UNCHANGED listed /\ Still
RcloneErases   == Performs("erase", {}) /\ listed' = "none" /\ UNCHANGED kernel /\ Still
RcloneDrops    == \E what \in {"mount", "unmount"} : Performs(what, {}) /\ UNCHANGED <<kernel, listed>> /\ Still

Meddles == meddled < CloudStrange /\ meddled' = meddled + 1 /\ UNCHANGED <<pending, answer, cloudCalls>>
Disturbs == Meddles /\ call' = [call EXCEPT !.calm = @ /\ call.pc = "idle"]
StrangerMounts == Disturbs /\ \E k \in {"none", "alien"} : kernel' = k /\ listed' \in {"none", k} /\ UNCHANGED <<config, files>>
StrangerConfigures == Disturbs /\ config' \in {"absent", "managed", "foreign"} /\ UNCHANGED <<kernel, listed, files>>
\* A managed file operation, which needs the lease.
FileOperation == Meddles /\ ~call.lease /\ kernel = "none" /\ files' \in BOOLEAN /\ UNCHANGED <<config, kernel, listed, call>>

CloudNext ==
  \/ \E kind \in CloudKinds : CloudBegin(kind)
  \/ Service
  \/ RcloneMounts \/ RcloneRecords \/ RcloneUnmounts \/ RcloneErases \/ RcloneDrops
  \/ StrangerMounts \/ StrangerConfigures \/ FileOperation

CloudSpec == CloudInit /\ [][CloudNext]_cloudVars

(***************************************************************************)
(* Properties.                                                             *)
(***************************************************************************)
\* A configuration is deleted only while its remote is unmounted, for the
\* kernel and for rclone, unless another program or a request left over from an
\* earlier operation interfered: unmounting, confirming and deleting are one
\* operation, though the list and the kernel follow the request late.
DeletedUnmounted ==
  [][call.pc = "delete" /\ config' # config /\ call.calm => kernel = "none" /\ listed = "none"]_cloudVars

\* An undisturbed mount that reports success has mounted the remote, rclone
\* lists it, and it hides no file: the directory was empty when the request was
\* made and nothing could be put there until the mount was seen.
MountedHidesNothing ==
  call.kind = "mount" /\ call.pc = "done" /\ call.calm => kernel = "ours" /\ listed = "ours" /\ ~files

=============================================================================

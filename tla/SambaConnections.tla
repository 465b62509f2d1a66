--------------------------- MODULE SambaConnections ---------------------------
(***************************************************************************)
(* Remote Samba shares mounted under /mnt/<host>: creation and deletion of *)
(* a connection (route/v1/samba.go), the restoration of persisted          *)
(* connections after a start (route/init.go), and the identity by which    *)
(* the service recognises its own mounts (service/connections*.go).        *)
(*                                                                         *)
(* One host.  sambaConnectionLifecycleMu lets one job run at a time, but   *)
(* an administrator mounts and unmounts at any moment between two steps of *)
(* a job, the server or the kernel may fail any call, the service may die  *)
(* between any two steps with its mounts left in place, and a reboot       *)
(* removes every mount and starts the kernel's numbering anew.  A mount,   *)
(* an unmount and the identity checks before and after it are steps of     *)
(* their own.  No system call compares and unmounts at once, so what is    *)
(* done between the last check and the unmount, or between a mount and the *)
(* first look at it, cannot be noticed: raced has the directories where    *)
(* the administrator did so.                                               *)
(***************************************************************************)
EXTENDS Integers, Sequences, SequencesExt

CONSTANTS Shares,       \* the shares of the host, in the order it lists them
          Hidden,       \* the administrative ones, whose name ends in "$"
          MaxBoot,      \* bound: boots of the machine
          MaxId,        \* bound: mounts made in one boot
          ConnectionCrashes,   \* bound: deaths of the service
          ConnectionFaults,    \* bound: failures of the server, kernel or database
          MaxAdmin      \* bound: acts of the administrator

ASSUME SharesDistinct == /\ Shares \in Seq(STRING)
                         /\ IsInjective(Shares)
                         /\ Hidden \subseteq ToSet(Shares)
ASSUME BoundsNatural == MaxBoot \in Nat /\ MaxId \in Nat

VARIABLES boot,      \* the current boot ID; 0 stands for the empty one
          mounts,    \* share -> what is mounted on its directory, top last
          nextId,    \* the kernel's next mount ID
          row,       \* the persisted connection, or NoConnection
          up,        \* the service runs
          restoring, \* InitNetworkMount has not taken the lock yet
          job,       \* the holder of the lifecycle lock, or NoJob
          abandoned, \* history: mounts a rollback protected or a crash left
          struck,    \* history: directories where the service unmounted others' mounts
          raced,     \* history: directories changed between a check and its call
          deaths, failures, acts

connectionVars == <<boot, mounts, nextId, row, up, restoring, job, abandoned, struck,
          raced, deaths, failures, acts>>
bounds == <<raced, deaths, failures, acts>>

Dirs == ToSet(Shares)
Mount(id, by, theirs) == [id |-> id, by |-> by, theirs |-> theirs]
Unrecorded == [d \in Dirs |-> 0]

\* FilterSambaMountableShares, and the directories kept of a legacy row.
Mountable(dirs) == SelectSeq(dirs, LAMBDA d : d \notin Hidden)

NoConnection == [boot |-> -1, dirs |-> << >>, ids |-> Unrecorded]
LegacyRow(r) == r.boot = 0

NoJob == [kind |-> "idle", pc |-> "idle", dirs |-> << >>, i |-> 1,
         ids |-> Unrecorded, own |-> << >>]
Job(kind, pc, dirs) ==
  [kind |-> kind, pc |-> pc, dirs |-> dirs, i |-> 1, ids |-> Unrecorded,
   own |-> << >>]

-----------------------------------------------------------------------------
\* inspectSambaMountEntries over the whole mount table: nothing there, exactly
\* one mount of the expected share with its ID, or an error.
Inspect(d) ==
  CASE mounts[d] = << >> -> [found |-> FALSE, err |-> FALSE, id |-> 0]
    [] Len(mounts[d]) = 1 /\ mounts[d][1].theirs ->
         [found |-> TRUE, err |-> FALSE, id |-> mounts[d][1].id]
    [] OTHER -> [found |-> FALSE, err |-> TRUE, id |-> 0]

\* The mount ID of a descriptor opened through the path: the topmost mount.
Descriptor(d) == IF mounts[d] = << >> THEN 0 ELSE Last(mounts[d]).id

\* validateSambaMountEntries together with the descriptor comparison.
Absent(d)     == ~Inspect(d).found /\ ~Inspect(d).err
Proven(d, id) == Inspect(d).found /\ Inspect(d).id = id /\ Descriptor(d) = id

\* The row's record of d may be trusted: it was written in this boot.
Trusted(d) == row.boot = boot /\ row.ids[d] # 0

MayFail == failures < ConnectionFaults /\ failures' = failures + 1
Return  == job' = NoJob
Current == job.dirs[job.i]
Advance(next) == [job EXCEPT !.i = job.i + 1,
                             !.pc = IF job.i = Len(job.dirs) THEN next ELSE job.pc]

\* ValidateSambaBaseMountDirectory: no administrative directory is mounted.
BaseClean == \A d \in Hidden : mounts[d] = << >>

\* failWithRollback and fail: undo what this job mounted, last first.
Undo(j) == [j EXCEPT !.pc = "undo"]
-----------------------------------------------------------------------------
\* A new installation, or the row of a release that recorded no ownership.
ConnectionsInit ==
  /\ boot = 1 /\ nextId = 1 /\ mounts = [d \in Dirs |-> << >>]
  /\ row \in {NoConnection, [boot |-> 0, dirs |-> Shares, ids |-> Unrecorded]}
  /\ up = FALSE /\ restoring = FALSE /\ job = NoJob
  /\ abandoned = {} /\ struck = {} /\ raced = {}
  /\ deaths = 0 /\ failures = 0 /\ acts = 0

\* PostSambaConnectionsCreate up to the mutation lock; a host that is already
\* persisted is refused, as is one without a mountable share.
CreateBegins ==
  /\ up /\ job = NoJob /\ row = NoConnection
  /\ Mountable(Shares) # << >> /\ BaseClean
  /\ job' = Job("create", "check", Mountable(Shares))
  /\ UNCHANGED <<boot, mounts, nextId, row, up, restoring, abandoned, struck,
                 bounds>>

\* restoreSambaConnectionMounts: a legacy row is touched only when no boundary
\* of any kind exists under its directories, the administrative ones included.
RestoreBegins ==
  /\ up /\ job = NoJob /\ restoring
  /\ restoring' = FALSE
  /\ IF \/ row = NoConnection \/ ~BaseClean
        \/ Mountable(row.dirs) = << >>
        \/ LegacyRow(row) /\ \E d \in ToSet(row.dirs) : mounts[d] # << >>
     THEN UNCHANGED job
     ELSE job' = Job("restore", "check", Mountable(row.dirs))
  /\ UNCHANGED <<boot, mounts, nextId, row, up, abandoned, struck, bounds>>

\* The directory must be unmounted before a creation mounts it.
CheckForCreate ==
  /\ job.kind = "create" /\ job.pc = "check"
  /\ job' = IF Absent(Current) THEN [job EXCEPT !.pc = "mount"] ELSE Undo(job)
  /\ UNCHANGED <<boot, mounts, nextId, row, up, restoring, abandoned, struck,
                 bounds>>

CheckForRestore ==
  /\ job.kind = "restore" /\ job.pc = "check"
  /\ LET d == Current IN
     job' = CASE Absent(d) -> [job EXCEPT !.pc = "mount"]
              [] ~Absent(d) /\ Trusted(d) /\ Proven(d, row.ids[d]) ->
                   [Advance("commit") EXCEPT !.ids[d] = row.ids[d]]
              [] OTHER -> Undo(job)
  /\ UNCHANGED <<boot, mounts, nextId, row, up, restoring, abandoned, struck,
                 bounds>>

\* MountSmaba; the new mount is remembered with no ID yet.
MountShare ==
  /\ job.pc = "mount" /\ nextId <= MaxId
  /\ mounts' = [mounts EXCEPT ![Current] = Append(@, Mount(nextId, "casa", TRUE))]
  /\ nextId' = nextId + 1
  /\ job' = [job EXCEPT !.pc = "inspect",
                        !.own = Append(@, [dir |-> Current, id |-> 0, made |-> nextId])]
  /\ UNCHANGED <<boot, row, up, restoring, abandoned, struck, bounds>>

\* InspectSambaMount and the descriptor.  Without a clean inspection the mount
\* keeps no ID, which protects it.
Captured(id) == [job EXCEPT !.own[Len(job.own)].id = id]
InspectMounted ==
  /\ job.pc = "inspect"
  /\ LET d    == Current
         seen == Inspect(d)
         next == IF job.i = Len(job.dirs) THEN "commit" ELSE "check"
     IN \/ /\ seen.found /\ UNCHANGED failures
           /\ job' = [Captured(seen.id) EXCEPT !.ids[d] = seen.id, !.i = @ + 1, !.pc = next]
        \/ ~seen.found /\ job' = Undo(job) /\ UNCHANGED failures
        \/ MayFail /\ \E id \in {0, seen.id} : job' = Undo(Captured(id))
  /\ UNCHANGED <<boot, mounts, nextId, row, up, restoring, abandoned, struck, deaths, acts, raced>>

\* The server is unreachable, the directory is not empty any more, or the
\* kernel has no room for another mount.
MountFails ==
  /\ job.pc = "mount"
  /\ MayFail \/ (nextId > MaxId /\ UNCHANGED failures)
  /\ job' = Undo(job)
  /\ UNCHANGED <<boot, mounts, nextId, row, up, restoring, abandoned, struck,
                 deaths, acts, raced>>

\* CreateConnection or UpdateConnectionMountState, the last step of either job.
CommitRow ==
  /\ job.pc = "commit"
  /\ \/ /\ row' = [boot |-> boot, dirs |-> job.dirs, ids |-> job.ids]
        /\ Return /\ UNCHANGED failures
     \/ MayFail /\ job' = Undo(job) /\ UNCHANGED row
  /\ UNCHANGED <<boot, mounts, nextId, up, restoring, abandoned, struck, deaths,
                 acts, raced>>
-----------------------------------------------------------------------------
\* UnmountSmaba takes the topmost mount away.
Unmounted(d) == [mounts EXCEPT ![d] = Front(@)]
Strike(d) == IF Last(mounts[d]).by = "admin" THEN struck \union {d} ELSE struck
UnmountTop(d) == mounts[d] # << >> /\ mounts' = Unmounted(d) /\ struck' = Strike(d)

\* rollbackSambaMounts and rollbackRestoredSambaMounts, one entry at a time: it
\* is unmounted when it is proven to be the captured mount, else protected.
Protects(e) ==
  /\ job' = [job EXCEPT !.own = Front(@), !.pc = "undo"] /\ abandoned' = abandoned \union {e.made}
UndoLast ==
  /\ job.pc = "undo" /\ job.own # << >>
  /\ LET e == Last(job.own)
         proven == e.id # 0 /\ Proven(e.dir, e.id)
     IN \/ proven /\ job' = [job EXCEPT !.pc = "undoing"] /\ UNCHANGED <<abandoned, failures>>
        \/ ~proven /\ Protects(e) /\ UNCHANGED failures
        \/ proven /\ Protects(e) /\ MayFail
  /\ UNCHANGED <<boot, mounts, nextId, row, up, restoring, struck, deaths, acts, raced>>
UndoUnmounts ==
  /\ job.pc = "undoing"
  /\ LET e == Last(job.own)
     IN \/ /\ UnmountTop(e.dir) /\ job' = [job EXCEPT !.pc = "undone"]
           /\ UNCHANGED <<abandoned, failures>>
        \/ mounts[e.dir] = << >> /\ Protects(e) /\ UNCHANGED <<mounts, struck, failures>>
        \/ Protects(e) /\ MayFail /\ UNCHANGED <<mounts, struck>>
  /\ UNCHANGED <<boot, nextId, row, up, restoring, deaths, acts, raced>>
UndoSeen ==
  /\ job.pc = "undone"
  /\ LET e == Last(job.own)
     IN \/ /\ Absent(e.dir) /\ job' = [job EXCEPT !.own = Front(@), !.pc = "undo"]
           /\ UNCHANGED <<abandoned, failures>>
        \/ ~Absent(e.dir) /\ Protects(e) /\ UNCHANGED failures
        \/ Protects(e) /\ MayFail
  /\ UNCHANGED <<boot, mounts, nextId, row, up, restoring, struck, deaths, acts, raced>>

\* The rollback is complete and the error goes to the caller or the log.
UndoEnds ==
  /\ job.pc = "undo" /\ job.own = << >> /\ Return
  /\ UNCHANGED <<boot, mounts, nextId, row, up, restoring, abandoned, struck,
                 bounds>>
-----------------------------------------------------------------------------
\* DeleteSambaConnections of a legacy row: nothing is unmounted, and the row
\* goes only when no boundary exists under any of its directories.
DeleteLegacy ==
  /\ up /\ job = NoJob /\ row # NoConnection /\ LegacyRow(row)
  /\ \A d \in ToSet(row.dirs) : mounts[d] = << >>
  /\ row' = NoConnection
  /\ UNCHANGED <<boot, mounts, nextId, up, restoring, job, abandoned, struck,
                 bounds>>

\* DeleteSambaConnections of an owned row.
DeleteBegins ==
  /\ up /\ job = NoJob /\ row # NoConnection /\ ~LegacyRow(row)
  /\ job' = Job("delete", "preflight", row.dirs)
  /\ UNCHANGED <<boot, mounts, nextId, row, up, restoring, abandoned, struck,
                 bounds>>

\* The next step once every directory was examined.
Examined(j) ==
  IF j.pc = "preflight" THEN j
  ELSE IF j.own = << >> THEN [j EXCEPT !.pc = "drop"]
  ELSE [j EXCEPT !.pc = "unmount"]

\* One directory of the preflight: empty ones need nothing, the recorded mount
\* of this boot is to be unmounted, anything else ends the request.
PreflightNeedsAll ==
  /\ job.pc = "preflight"
  /\ LET d == Current
         entry == [dir |-> d, id |-> row.ids[d], made |-> row.ids[d]]
     IN job' = IF Trusted(d) /\ Proven(d, row.ids[d])
               THEN Examined([Advance("examined") EXCEPT !.own = Append(@, entry)])
               ELSE NoJob
  /\ UNCHANGED <<boot, mounts, nextId, row, up, restoring, abandoned, struck,
                 bounds>>
PreflightAnyBoot ==
  /\ job.pc = "preflight"
  /\ LET d == Current
         entry == [dir |-> d, id |-> row.ids[d], made |-> row.ids[d]]
     IN job' = CASE Absent(d) -> Examined(Advance("examined"))
                 [] ~Absent(d) /\ Proven(d, row.ids[d]) ->
                      Examined([Advance("examined") EXCEPT !.own = Append(@, entry)])
                 [] OTHER -> NoJob
  /\ UNCHANGED <<boot, mounts, nextId, row, up, restoring, abandoned, struck,
                 bounds>>
Preflight ==
  /\ job.pc = "preflight"
  /\ LET d == Current
         entry == [dir |-> d, id |-> row.ids[d], made |-> row.ids[d]]
     IN job' = CASE Absent(d) -> Examined(Advance("examined"))
                 [] ~Absent(d) /\ Trusted(d) /\ Proven(d, row.ids[d]) ->
                      Examined([Advance("examined") EXCEPT !.own = Append(@, entry)])
                 [] OTHER -> NoJob
  /\ UNCHANGED <<boot, mounts, nextId, row, up, restoring, abandoned, struck,
                 bounds>>

\* One owned mount: proven again, unmounted, and seen to be gone.  Any failure
\* returns with the earlier ones unmounted and the row kept for another try.
UnmountOwned ==
  /\ job.pc = "unmount"
  /\ LET e == Head(job.own)
     IN \/ /\ Proven(e.dir, e.id) /\ job' = [job EXCEPT !.pc = "unmounting"]
           /\ UNCHANGED failures
        \/ ~Proven(e.dir, e.id) /\ Return /\ UNCHANGED failures
        \/ Return /\ MayFail
  /\ UNCHANGED <<boot, mounts, nextId, row, up, restoring, abandoned, struck, deaths, acts, raced>>
DeleteUnmounts ==
  /\ job.pc = "unmounting"
  /\ LET d == Head(job.own).dir
     IN \/ UnmountTop(d) /\ job' = [job EXCEPT !.pc = "unmounted"] /\ UNCHANGED failures
        \/ mounts[d] = << >> /\ Return /\ UNCHANGED <<mounts, struck, failures>>
        \/ Return /\ MayFail /\ UNCHANGED <<mounts, struck>>
  /\ UNCHANGED <<boot, nextId, row, up, restoring, abandoned, deaths, acts, raced>>
UnmountSeen ==
  /\ job.pc = "unmounted"
  /\ LET rest == Tail(job.own)
         next == IF rest = << >> THEN "drop" ELSE "unmount"
     IN \/ /\ Absent(Head(job.own).dir) /\ job' = [job EXCEPT !.own = rest, !.pc = next]
           /\ UNCHANGED failures
        \/ ~Absent(Head(job.own).dir) /\ Return /\ UNCHANGED failures
        \/ Return /\ MayFail
  /\ UNCHANGED <<boot, mounts, nextId, row, up, restoring, abandoned, struck, deaths, acts, raced>>

\* DeleteConnection, after every owned mount is gone.
DropRow ==
  /\ job.pc = "drop" /\ Return
  /\ \/ row' = NoConnection /\ UNCHANGED failures
     \/ MayFail /\ UNCHANGED row
  /\ UNCHANGED <<boot, mounts, nextId, up, restoring, abandoned, struck, deaths,
                 acts, raced>>
-----------------------------------------------------------------------------
\* InitFunction starts InitNetworkMount, which waits ten seconds.
Start ==
  /\ ~up /\ up' = TRUE /\ restoring' = TRUE
  /\ UNCHANGED <<boot, mounts, nextId, row, job, abandoned, struck, bounds>>

\* The service dies between two steps; the kernel keeps the mounts.
ServiceDies ==
  /\ up /\ deaths < ConnectionCrashes /\ deaths' = deaths + 1
  /\ up' = FALSE /\ restoring' = FALSE /\ Return
  /\ abandoned' = IF job.kind = "delete" THEN abandoned
                  ELSE abandoned \union {e.made : e \in ToSet(job.own)}
  /\ UNCHANGED <<boot, mounts, nextId, row, struck, failures, acts, raced>>

\* A reboot clears the mount table; mount IDs start again from the beginning.
Reboot ==
  /\ boot < MaxBoot /\ boot' = boot + 1
  /\ mounts' = [d \in Dirs |-> << >>] /\ nextId' = 1
  /\ up' = FALSE /\ restoring' = FALSE /\ Return
  /\ abandoned' = {} /\ struck' = {} /\ raced' = {}
  /\ UNCHANGED <<row, deaths, failures, acts>>

\* Between a check and the call that relies on it, or a mount and the look at it.
Exposed(d) ==
  \/ job.pc = "inspect" /\ d = Current
  \/ job.pc = "undoing" /\ d = Last(job.own).dir
  \/ job.pc = "unmounting" /\ d = Head(job.own).dir
Acts(d) ==
  /\ acts < MaxAdmin /\ acts' = acts + 1
  /\ raced' = IF Exposed(d) THEN raced \union {d} ELSE raced
  /\ UNCHANGED <<boot, row, up, restoring, job, abandoned, struck, deaths, failures>>

\* The administrator mounts the same share or something else on a directory.
AdminMounts(d) ==
  /\ Acts(d) /\ nextId <= MaxId /\ nextId' = nextId + 1
  /\ \E theirs \in {t \in BOOLEAN : t => d \notin Hidden} :
       mounts' = [mounts EXCEPT ![d] = Append(@, Mount(nextId, "admin", theirs))]

\* The administrator unmounts whatever is topmost, the service's mounts too.
AdminUnmounts(d) == Acts(d) /\ mounts[d] # << >> /\ mounts' = Unmounted(d) /\ UNCHANGED nextId

JobRuns ==
  \/ CheckForCreate \/ CheckForRestore \/ MountShare \/ MountFails \/ InspectMounted \/ CommitRow
  \/ UndoLast \/ UndoUnmounts \/ UndoSeen \/ UndoEnds
  \/ Preflight \/ UnmountOwned \/ DeleteUnmounts \/ UnmountSeen \/ DropRow
ConnectionsNext == \/ CreateBegins \/ RestoreBegins \/ JobRuns
        \/ DeleteLegacy \/ DeleteBegins
        \/ Start \/ ServiceDies \/ Reboot
        \/ \E d \in Dirs : AdminMounts(d) \/ AdminUnmounts(d)

ConnectionsSpec == ConnectionsInit /\ [][ConnectionsNext]_connectionVars
-----------------------------------------------------------------------------
\* The mounts the row records for this boot, and those the running job holds.
Recorded(d) == IF row.boot = boot THEN {row.ids[d]} ELSE {}
Held        == {e.made : e \in ToSet(job.own)}

\* The service never unmounts what an administrator mounted: not in a rollback,
\* not in a deletion, not when a mount of this boot bears the number a mount
\* of the service had before a reboot.  Only where the administrator acted
\* between the last check and its unmount can it happen.
StrangersSpared == struck \subseteq raced

\* A row of this boot never records a mount of somebody else as the service's,
\* whatever was found on the directories when it was created or restored, but
\* for one that took the place of the service's before it was first looked at.
RecordedAreOurs ==
  \A d \in Dirs \ raced : \A k \in DOMAIN mounts[d] :
    mounts[d][k].by = "admin" => mounts[d][k].id \notin Recorded(d)

\* Whatever the service mounted is in the row of this boot, in the hands of the
\* running job, or was left by a crash or by a rollback that reported it: no
\* failed creation, failed restoration or successful deletion loses a mount.
NothingOrphaned ==
  \A d \in Dirs : \A k \in DOMAIN mounts[d] :
    mounts[d][k].by = "casa" =>
      mounts[d][k].id \in Recorded(d) \union Held \union abandoned

\* The service is started and its goroutines run, and the user repeats the
\* deletion until it succeeds.
ServiceRuns == Start \/ RestoreBegins \/ JobRuns
UserDeletes == DeleteLegacy \/ DeleteBegins
LiveSpec == ConnectionsSpec /\ WF_connectionVars(ServiceRuns) /\ WF_connectionVars(UserDeletes)

\* A deletion that failed halfway, some mounts gone and the row kept, does not
\* get in its own way: repeated, it removes the row, unless an administrator
\* has mounted something of their own in between, or a crash has left mounts
\* that no row records.
RetriesFinish == job.kind = "delete" ~> (row = NoConnection \/ acts > 0 \/ abandoned # {})

\* Every mount is accounted for: the service's own in a row, a job or a report,
\* nobody else's in a row, and nobody else's ever unmounted.
MountsAccounted == StrangersSpared /\ RecordedAreOurs /\ NothingOrphaned

=============================================================================

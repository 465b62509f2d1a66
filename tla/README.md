# ReCasaOS in TLA+

A verification project for ReCasaOS, the hardened fork of the CasaOS management
daemon. The modules model the parts of the Go program whose correctness depends
on the order in which things happen: goroutines and locks, child processes,
file-system transactions, databases and configuration files that have to agree,
external services that act late, crashes and restarts. TLC checks each module on
small instances; TLAPS proves the central invariants of about half of them for
every size.

Paths below are relative to the root of the repository.

## The system

ReCasaOS runs as two programs.

* `main.go` starts the **management daemon**. It serves the v1 and v2 HTTP APIs
  (`route/`), which call services (`service/`) that keep their state in a SQLite
  database (`pkg/sqlite`), in files under managed roots (`pkg/filesecurity`), in
  two Samba configuration files, in kernel mounts, and in memory.
* `cmd/recasaos-public-files` is the **public-files portal**
  (`pkg/publicfiles`): an internet-facing, read-only server which performs every
  storage access in a disposable child process.

| Part | Module | What makes it hard |
| --- | --- | --- |
| Start of the service, gateway client, port migration (`main.go`, `pkg/gatewayclient`, `service/gateway_port.go`, `pkg/config/persist.go`) | GatewayStartup | a gateway that restarts, acts late and whose answers are lost; power loss between two stores |
| Storage worker pool (`pkg/publicfiles/worker_parent_linux.go`) | StorageWorkers | several goroutines per child, a pidfd closed by one while another signals, slots given back before the kernel reports the exit |
| A worker and its parent (`worker_child_linux.go`, `worker_protocol.go`) | WorkerDialogue | descriptors handed over, frames cut short, a file that shrinks |
| Portal server (`cmd/recasaos-public-files/serve.go`, `pkg/publicfiles/portal.go`, `server.go`) | PortalService | order of shutdown, hanging handlers, slow readers |
| Verifier file (`pkg/publicfiles/fs_linux.go`) | VerifierLoad | a file replaced or edited while it is read |
| Mutation lease and inventory (`pkg/filesecurity/managed_mutation_linux.go`, `managed_recovery_linux.go`) | ManagedInventory | a reader without a lock that must notice every overlapping writer |
| Single mutations (`pkg/filesecurity/managed_roots_linux.go`, `managed_mutation_linux.go`) | ManagedMutations | strangers in the same directories, failing calls |
| Managed transfers (`pkg/filesecurity/managed_copy_linux.go`) | ManagedTransfer, AtomicTransfer | checks that are stale when used, ambiguous failures, death between exchange and removal |
| Resumable uploads (`service/file_upload.go`) | UploadSessions | lock hand-over, expiry during a request, restart |
| Version 1 uploads (`route/v1/file.go`) | LegacyUploads | requests that wait for a session that is already gone |
| Space admission (`pkg/filesecurity/upload_space.go`) | UploadSpace | several writers, one counter for all disks |
| File operations (`service/file.go`, `service/notify.go`) | FileOperations | a worker that stops while work arrives, coalesced notifications, panics |
| Batch validation (`service/file.go`) | FileOperationBatch | aliasing between the items of one batch |
| Peer hub (`route/v1/file.go`) | PeerHub | bounded channels in a circle |
| Samba configuration files (`service/samba_config_publish_linux.go`) | SambaConfigPublish | editors that take no lock, failures between system calls |
| Samba shares and accounts (`service/shares.go`, `samba_legacy_config.go`, `samba_user.go`) | SambaShares | several stores updated together with roll-back |
| Samba connections (`route/v1/samba.go`, `service/connections*.go`) | SambaConnections | mounts made by others, reboots that renumber mounts |
| Cloud storages (`service/storage.go`) | CloudMounts | two authorities about one mount, requests performed after their caller gave up |
| SMB key file (`pkg/smbcredentials`) | KeySource | power loss between link, sync and report |
| SMB credential cutover (`pkg/sqlite/smb_credentials_cutover.go`) | CredentialCutover | commits with unknown outcome, legacy writers |
| OAuth flow (`pkg/oauthsecurity`) | OAuthFlow | concurrent callbacks, rotation of keys and tokens |
| Terminal (`route/v1/ssh.go`, `pkg/sshsecurity`) | TerminalLogin, TerminalDial, TerminalSession | one-use tickets, a deadline under a reader, five goroutines per session |

Interactions: share operations publish configuration through the compare-and-swap
protocol; uploads, file operations and connections take the mutation lease for
their namespace changes; the inventory runs beside all of them; file operations
announce themselves on the message bus, an external service. A file operation
executes its batch item by item, each item a managed transfer. The portal's
requests run on the worker pool, whose dialogue with one child is a module of
its own. A terminal is opened by a ticket, then dialled, then served by a session.

`PROJECT.json` lists every component, modelled or not, and every hazard.

## The runs

Components that do not share state share a run: the MC module of such a run
extends them all, its first state chooses the component (`part`), and the others
keep one initial state. The state spaces add up instead of multiplying, and every
behaviour of a run is a behaviour of one component. Fairness is stated so that it
asks for nothing of the components that are idle.

| Run | Components | Invariants and action properties | Liveness |
| --- | --- | --- | --- |
| `lifecycles` | GatewayStartup, StorageWorkers, TerminalSession, PeerHub | `StartupSafe`, `UnreapedBound`, `DescriptorsKept`, `CloseReachesEveryChild` | `StartsAgain`, `CloseDrains`, `SessionDrains`, `DepartureTold` |
| `network` | SambaConnections, CloudMounts, WorkerDialogue, PortalService, VerifierLoad | `MountsAccounted`, `MountedHidesNothing`, `DeletedUnmounted`, `DialogueFaithful`, `PortalOrderly`, `VerifierCurrent` | `RetriesFinish`, `TermEnds` |
| `inventory` | ManagedInventory | `CompleteIsSnapshot` | `CloseCompletes` |
| `uploads` | UploadSessions, LegacyUploads, UploadSpace | `StagingKept`, `LegacyUploadKept`, `SpaceKept` | |
| `samba` | SambaShares, SambaConfigPublish | `PublicationSafe`, `SharesAgree`, `LegacySaved` | |
| `fileops` | FileOperations | `OperationsHonest`, `NoStrandedTask`, `NeverForgotten`, `NeverRegresses` | `RequestServed` |
| `file_changes` | ManagedTransfer (over AtomicTransfer), ManagedMutations, FileOperationBatch, UploadSessions | `TransferSafe`, `ImplementsAtomic`, `MutationsExact`, `MutationReported`, `BatchOrderFree`, `UploadHonest` | |
| `credentials` | KeySource, CredentialCutover, OAuthFlow, TerminalLogin, TerminalDial | `KeyReportsTrue`, `CutoverAtomic`, `OneLiveForm`, `TicketOnce`, `ClientUsable` | |
| `shares_crash_migrated`, `account_deleted` | SambaShares | violations: `RowsAreTruth`, `SharesNameAccounts` | |
| `fileops_outage` | FileOperations | violation: `FailuresStopNothing` | |
| `held_removal` | ManagedMutations | violation: `HeldRemovalReported` | |

Many of these are conjunctions of named parts, described with their component
below. Deadlock is not checked: in every component the bounds on operations,
failures and time let a behaviour stop, and what must not get stuck is stated as
a liveness property instead.

## The proofs

Each proof is an induction: an invariant that implies the property, holds in the
first states and survives every step, with one lemma per action. TLC checked every
such invariant on the run's instance before it was proved. The constants are
assumed to be natural numbers, positive where a zero would make no sense, and the
sets of requests or processes to be any sets (finite where the proof counts them);
each assumption is named in the module that declares the constant. A proof module
about several components extends them all; each has its own variables, its own
invariant and its own part of the module, and no invariant mentions another's state.

| Module | About | Theorems |
| --- | --- | --- |
| StartupProofs | GatewayStartup, CredentialCutover, VerifierLoad | `StartupIsSafe`, `CutoverIsAtomic`, `VerifierIsCurrent` |
| PortalProofs | StorageWorkers, PortalService | `TypeCorrect`, `ChildrenBounded`, `SlotsAccounted`, `DescriptorsSafe`, `NoChildMissed`, `PortalStopsInOrder` |
| AccessProofs | OAuthFlow, TerminalLogin, TerminalDial | `OneFormOpens`, `TicketsOpenOnce`, `ReturnedClientWorks` |
| ManagedInventoryProofs | ManagedInventory | `CompleteInventoryIsSnapshot`, `CompleteNotOvertaken`, `LeaseDiscipline` |
| MutationProofs | ManagedMutations | `MutationsAreExact`, `MutationsReportTruly` |
| TransferProofs | ManagedTransfer over AtomicTransfer | `TransferIsSafe`, `TransferIsAtomic` |
| FileOperationsProofs | FileOperations | `WorkerDiscipline`, `NoTaskStranded`, `TasksAnnounced`, `AnnouncementsOrdered`, `OperationsAreHonest` |
| SambaProofs | SambaConfigPublish | `PublicationLosesNoEdit` |

Only model-checked: every liveness property (it needs fairness and ENABLED, which
the prover does not handle); `BatchOrderFree`, whose executions are folds over
sequences, that is, induction over data; `SpaceKept`, which is about sums over
the writers in unsigned words; and, not proved here, `MountsAccounted`,
`MountedHidesNothing`, `DeletedUnmounted`, `DialogueFaithful`, `StagingKept`,
`LegacyUploadKept`, `UploadHonest`, `KeyReportsTrue`, `SharesAgree` and `LegacySaved`.

## The models

### GatewayStartup: the start of the service

`GatewayStartup.tla` models `main.go` from the credential to the notification of
readiness, with the gateway client (`pkg/gatewayclient`), `EnsureGatewayPort`
(`service/gateway_port.go`) and the replacement of `HttpPort` in the configuration
file (`pkg/config/persist.go` over `ReplaceRegularFileWithCommit`, whose rename and
sync are the two steps that matter). A management call reads the gateway's address and
token, sends, and is answered, refused or left unanswered; the gateway may
restart with another address or token between any two of these, apply a change
after its caller gave up, or be moved by an administrator. A panic ends the
process, systemd starts it again (`Restart=always`), and a power loss takes back
what was not synced. `confFile` and `confSafe` are the file as it is read and as
it is on disk; `owed` is history: the legacy port is not yet the gateway's.

Run `lifecycles`: `StartupSafe`, that a legacy port is not forgotten before the
gateway has it (`PortRemembered`) and that the service announces itself only when
file, memory and gateway agree and every route is registered
(`ReadyMeansMigrated`); `StartsAgain`, that a start which has begun ends with a
service that is ready, perhaps after restarts. If only the sync after the rename
fails, the file is cleared and the disk may not be: a later power loss brings the
marker back, the next start finds the port in place and clears it again, which is
why `PortRemembered` speaks of ports that are still owed.

Bounds: two ports, two routes, two tries of the message bus, and three failures,
restarts or power losses in all, so that a failure, the failure of its repair and
a power loss can meet. Fairness: the service's steps run, and the gateway comes
back after a restart; failures are bounded.

Proved (`StartupProofs.tla`), for any ports, number of routes, tries and
failures: `StartupIsSafe`. `StartupInv` adds which call may be under way at each
step of `main` (`CallPlace`) and, in `MigrationOrder`, that memory holds what the
file holds until the port is cleared, that it is cleared only once the port is no
longer owed, and that the routes were registered before.

### StorageWorkers: the storage worker pool

`StorageWorkers.tla` models `pkg/publicfiles/worker_parent_linux.go`. The
variables are the coordinator's fields (`closed`, `root`, `signalFailure`,
`quarantine`, `slots`, `workers`, the mutex `mMu`) and, for each request, the
place of its three goroutines: the handler (`req`), whoever runs `abort`
(`abort`) and the reaper (`reap`), with the child's state (`child`), `finished`,
`quarantined` and the two `sync.Once` bodies. Each critical section is one
step; the ones that do something else in the middle are split. What a frame says
is abstracted to success or failure. Timers are the nondeterministic choice of
an abort.

Run `lifecycles`: two requests on one slot with a quarantine limit of one,
against context aborts, refused signals and close. The number of unreaped
children never exceeds the documented capacity + limit - 1 (`UnreapedBound`), no
closed pidfd is signalled, a refused signal keeps its slot and the root is not
closed while it is sent (`DescriptorsKept`), close misses no child
(`CloseReachesEveryChild`) and returns with every slot and quarantine place back
(`CloseDrains`).

Bounds: a second request is the least that finds the slot taken or the
quarantine full, and that can overtake another between its check and its start;
larger pools are the theorems' business. Fairness: every goroutine runs
(`WF`), `sync.Mutex` lets a waiter in eventually (`SF` on the release section),
and a child whose connection was closed or that was killed exits.

Proved (`PortalProofs.tla`), for every set of requests, capacity and
limit: `TypeCorrect`, `ChildrenBounded`, `SlotsAccounted`, `DescriptorsSafe` and
`NoChildMissed`.
The inductive invariant `PoolInv` adds to the safety properties what connects
the three goroutines of a request (`Coherent`), that the quarantine counter is
the number of requests counted in it, that a request past the admission check
still has one place below the limit, and that the children for which the pool is
liable are at most capacity + limit - 1. The bound itself is not inductive,
because it says nothing about a request between its admission check and its
start; the last two conjuncts close that gap. That every slot token has an owner
(`SlotAccounting`) and that neither counter goes negative (`TypeOK`) is proved
only. `NoChildMissed` needs a second invariant on top of `PoolInv`, `Reachable`:
a child without a kill is still in the list close copies, or its handler is at
the step that finds the pool closed. `CloseDrains` is checked by TLC only.

### ManagedInventory: the mutation lease and the lock-free inventory

`ManagedInventory.tla` models `AcquireMutation` and its release
(`pkg/filesecurity/managed_mutation_linux.go`), `ManagedRoots.Close`, the
reader/writer mutex between them, and the inventory of retained transfer
transactions (`managed_recovery_linux.go`), which holds no lock while it reads a
directory that may be on a stalled mount. A lease makes the generation counter
odd; the inventory reports `Complete` only if the generation was even at the
start and is the same at the end.

Run `inventory`: two transactions and a plain entry, scanned in batches of two
against leases that create, fill, empty and remove transactions and against Close.
A complete inventory is an exact snapshot (`CompleteIsSnapshot`), and Close ends
although a scan may stall for ever (`CloseCompletes`).

Bounds: the generation allows two leases, or a lease and Close, around one scan;
two entries per scan and one candidate make both limits stop it. That a result
cut short by the candidate limit alone is incomplete needs a third name and is
left to the theorem. Fairness: lease holders finish and the scheduler is fair;
nothing is assumed of the scan.

Proved (`ManagedInventoryProofs.tla`), for any number of mutators, inventories,
names and any limits: `CompleteInventoryIsSnapshot`, `LeaseDiscipline`,
`CompleteNotOvertaken`. `CompleteNotOvertaken` says that an inventory overtaken by
a lease is never complete (`OvertakenIsIncomplete`), `LeaseDiscipline` that the
generation is odd exactly while a mutation is in flight and that no lease spans
Close (`OddWhileMutating`, `LeaseOnOpenRoots`). The invariant `InventoryInv`
records, for a running scan, that while the generation has not moved since the
sample the directory is as it was then (`at`), that the names read so far are
real, and what the candidate under inspection looked like.

### UploadSessions: resumable uploads

`UploadSessions.tla` models `service/file_upload.go`: the table of sessions
under `sessionsMu`, one lock per session that a holder of `sessionsMu` only
tries, the sweep that every request begins with, chunk writes, reconciliation
with the staging directory, assembly, publication without replacement and the
tombstones of completed sessions. A directory inode is named by the session
that created it, so that a late cleanup of one session that meets the tree of
another is visible. Bodies stand for chunks and digests.

Run `uploads` has two requests at a time on two keys that share a target, with
expiry, eviction, failing removals and a restart. `StagingKept`: the caps hold
(`CapacityBound`), no directory outlives its session unowned (`StagingOwned`),
and no cleanup touches the chunks of the live session (`LiveChunksStaged`).

Run `file_changes` has a two-chunk upload with two possible bodies whose staged
chunks or target are changed from outside at any moment. `UploadHonest`: what is
published is what was received (`PublishedIsRecorded`), and a client told of
success for every chunk finds the file published (`ToldMeansPublished`).

Bounds: two concurrent requests are what the lock protocol distinguishes (a
third can only wait); two keys are needed for eviction and for a shared target;
one restart and one outside change are enough to meet every stage of a session.

### LegacyUploads: the version 1 upload

`LegacyUploads.tla` models `GetFileUpload` and `PostFileUpload` of
`route/v1/file.go` for one target: the registry of sessions under its mutex, the
lock of a session that covers a chunk's request, the questions with which a client
finds out where to resume (tombstone, then target, then staged chunk), sweeping,
completion with its tombstone, failing and partial removals, a restart that
forgets the registry but leaves the directory, and strangers at the target.
`LegacyUploadKept` in run `uploads`: a published file is made of chunks of its own
generation only and is there once every chunk was acknowledged
(`LegacyUploadWhole`); an acknowledged chunk, and one that a question found in the
registered generation, stays as long as that generation takes chunks
(`LegacyChunksKept`). More is not claimed of a question: it looks at the directory
only, and a leftover of an earlier process or a chunk whose assembly was refused
for lack of space is reported like any other. Two posters, two chunks, two
generations and four requests reach a request that waits for a generation which
another one ends.

### UploadSpace: space admission

`UploadSpace.tla` models `pkg/filesecurity/upload_space.go`: writers reserve their
size against the free space of their disk, write, and give the reservation back;
other programs take space meanwhile. Sizes and free space are unsigned words that
wrap (`Minus`, modulo `Word`), so that each comparison of `Reserve` guards the
subtraction after it. `SpaceKept` in run `uploads`: the uploads
alone never take a disk below its headroom (`HeadroomKept`) and an idle service
has nothing reserved (`NothingReserved`). With three writers of one or two blocks on
two disks, two can compete for one disk while the third holds a reservation on
the other; with `Word` at 16 a difference that wrapped would let every size through.

### SambaConfigPublish: compare-and-swap publication of a file

`SambaConfigPublish.tla` models `service/samba_config_publish_linux.go` at the
grain of system calls: capture, stage, write, exchange, verify, and the discard
of what was displaced, each of which may fail and between any two of which the
process may die or an editor may rewrite, replace or delete the target.

Run `samba`: two operations, three edits, two failing calls and a crash.
`PublicationSafe`: smbd never finds a partial file (`TargetWhole`), an edit that
the publisher had not read is never destroyed (`EditsPreserved`), an operation
that reports no change leaves no candidate live (`DisownedNotLive`), success
leaves no residue (`SuccessLeavesNothing`). Three edits are the least that make
every comparison fail at least once.

Proved (`SambaProofs.tla`), for any number of publications, edits, failing calls
and deaths: `PublicationLosesNoEdit`. The invariant adds, for each step, which of
the names hold the candidate and the displaced file and what the publisher has
proven of their bytes, that no inode has two names, and that every edit not yet
captured is under a name.

### SambaShares: shares, rows and configuration together

`SambaShares.tla` models `service/shares.go`, `samba_legacy_config.go` and the
account handlers of `samba_user.go`: the database transaction, the ownership of
the folder, the main configuration, the generated fragment and the legacy
backups, with roll-back, reconciliation at start and migration from CasaOS. A
publication is one step with the outcomes that SambaConfigPublish allows; the
backups, the two publications of a migration and the check of the main file after
its publication are steps of their own. The database has one connection, so the
check of an account against the committed shares waits for an open transaction.

Run `samba`: three operations, two failures, an edit, a crash and account changes,
on a managed, an externally configured and a legacy host with an unsafe row.
`SharesAgree`: rows and fragment agree whenever no operation is in progress and
nothing reported drift (`RowsAndFragmentAgree`), owners follow rows
(`OwnersFollowRows`), and a start refuses its files only where somebody edited them
or the host was migrated (`CrashReconciled`). `LegacySaved`: no legacy file is dropped
without its backup; that an interrupted migration can be taken up again is not
stated. The runs `shares_crash_migrated` and
`account_deleted` are violations, see Findings.

Bounds: one managed share at a time out of three names is what distinguishes a
name that is free, taken, or blocked by the legacy row; two failures are needed
for a roll-back that fails itself. `CrashReconciled` is about hosts that were
never migrated; `shares_crash_migrated` is about the others.

### ManagedMutations: the mutations below uploads and transfers

`ManagedMutations.tla` models the mutating operations of
`pkg/filesecurity/managed_roots_linux.go` and `managed_mutation_linux.go`, system
call by system call: exclusive creation, commit of a staged upload, rewrite, rename,
directory creation component by component (create, sync, open), removals and
removal of a held staging tree. One runs at a time, under the lease; strangers
edit, take away and replace names between any two calls, and any call may fail, in
which case it had no effect. The replacement of a service file takes no lease and
is part of GatewayStartup.

Run `file_changes`: a mutation acts on the objects it was asked to
(`MutationsExact`: only the held tree is removed, and a commit publishes one whole
version, the verified one if a digest was given); success has synced all it
changed, and a plain error means that nothing changed (`MutationReported`). The
removal of a held tree is excepted from the last and is the violation
`held_removal`, see Findings. Two operations, two acts of strangers and one entry
per tree are enough for a name to change after it was checked and for an
operation to meet what another left.

Proved (`MutationProofs.tla`), for any number of operations, acts of strangers
and entries: `MutationsAreExact` and `MutationsReportTruly`. `MutationInv` says
what the running operation has changed at each of its steps (`OpHistory`), that a
staged file has no public name before it is published and whatever has one is
whole (`NamesOK`), that the quarantine holds the held tree or nothing while it is
emptied, and that each piece that was copied is a piece of the version that was
opened unless the upload's stamp has changed since (`CopyOK`). The comparison of
the stamp after the copy then makes the copy whole; without `CopyOK` a copy of
two half versions could not be told from a whole one.

### FileOperations: queue, worker and publisher

`FileOperations.tla` models `service/file.go` (bounded queue, one worker
goroutine started on demand), `service/notify.go` (one publisher goroutine with
coalesced requests) and the routes that drive them. Every critical section is
one step. Goroutines have identities, so that two workers or two publishers
could exist if the flags allowed it. Task ids are numbered in order of arrival.

Run `fileops`: at most one operation runs and it is in the queue, and FAILED means
that nothing changed (`OperationsHonest`); a waiting task has a worker
(`NoStrandedTask`); a task leaves the queue only when deleted or announced
(`NeverForgotten`); the bus hears of each task in order (`NeverRegresses`); every
start request is followed by a snapshot (`RequestServed`). `fileops_outage` is a
violation, see Findings.

Bounds: two tasks of two items each, one bus failure and one panic; a second
worker and a second publisher goroutine are available to anything that would start
one. Which of the free identities a new goroutine gets is no matter, and is not
explored. Fairness: handlers,
worker and publisher keep running, which is all the Go scheduler promises.

Proved (`FileOperationsProofs.tla`), for any number of handlers, goroutines, tasks
and any queue length: `WorkerDiscipline`, `NoTaskStranded`, `TasksAnnounced`,
`AnnouncementsOrdered`, `OperationsAreHonest`. `QueueInv` ties the flags to the
goroutines (the flag is set exactly when one worker exists, and a pending task
implies the flag). `PublishInv` says that the bus is never ahead of the one
publisher's snapshot and the snapshot never ahead of the queue; this is what makes
the order of announcements inductive. `HonestInv` says that a task which changed
files without a panic is neither PENDING nor FAILED and, while it executes, has an
item that succeeded at least partly; that item is what keeps `finish` from
computing FAILED.

### FileOperationBatch: which batches are safe

`FileOperationBatch.tla` models the validation of `PrepareFileOperation` as
operators on paths. A batch is accepted on one small tree and, since it waits in a
queue, executed on any other, over an abstraction of `CopyInto` and `MoveInto`, which
refuse to replace a directory that is not empty. `BatchOrderFree` in run
`file_changes`: an accepted batch never destroys a source that a later item needs
(`SourcesIntact`) and the result does not depend on the order of the items
(`OrderIrrelevant`). Two items are every pair of paths that can alias; trees over two
names have two levels, and files of one name at a third, below which a target can
hold something that a source names.

### WorkerDialogue, PortalService, VerifierLoad: the portal

`WorkerDialogue.tla` models one child of the worker pool and the parent that
talks to it: the address-space limit at its start, the bootstrap that hands over
the root descriptor, the listing in frames, and a file that is opened once and
then read, sought and closed. Either side may stall, time out or die, and the file
may shrink. `DialogueFaithful` in run `network`: bytes are those of the file at
the offset asked for and the end is reported at the advertised size only
(`BytesFaithful`), a listing is whole (`ListWhole`), and the root descriptor has
the owner it should (`RootOwned`). A file of three bytes in frames of two, and
directories around each frame and payload limit, reach the boundaries.

`PortalService.tla` models `runServe` (start, readiness, termination, grace,
forced close, portal close), the admission of connections and downloads, and the
writer that bounds the time of a download. `net/http` is external. `PortalOrderly`:
the portal is closed after serving has ended (`ClosedAfterServing`), success is
reported for a requested stop only (`SuccessMeansStopped`) and a download keeps its
minimum rate (`RateKept`): bytes are accepted only within the grace plus the time
that the accepted bytes are worth, and a write that is not taken is given up when
that budget, with one credited write, is spent. A write may also begin late, after
a pause shorter than the idle limit; it then fails at once. `TermEnds`: a
termination request ends the service although handlers hang, with fairness of the
main goroutine only. Two connections, one download slot, three bytes and three
units of time; the idle limit is longer than the grace and the rate twice the
credit, so that a write can begin late and a credit can be capped.

Proved (`PortalProofs.tla`), for any number of connections, any limits, rate,
grace, credit and idle time: `PortalStopsInOrder`. `PortalInv` adds what the
server, its goroutine and the portal do at each place of `runServe`, and that the
progress of a download lies within its budget at each place of the copy (`Pace`).

`VerifierLoad.tla` models the load of the verifier file
(`pkg/publicfiles/fs_linux.go`): pin, reopen, inspect, read, inspect, pin again,
while the file is edited, linked, replaced and has its mode changed.
`VerifierCurrent`: what is loaded is one whole version, the one the path held at
the end. Two files, two values and a malformed one, three changes.

Proved (`StartupProofs.tla`), for any files, contents and number of changes:
`VerifierIsCurrent`. `LoadInv` adds that the pinned file is at the stamp that was
seen or past it and, once read, holds the value that was read as long as it is at
that stamp; a change of any kind advances the stamp.

### CloudMounts: cloud storages

`CloudMounts.tla` models `service/storage.go` for one remote: mounting,
unmounting, removing, creating and checking, under the service's mutex. The kernel
and rclone's list follow a request late, or after the operation that sent it has
given up; answers are lost; other privileged programs change mounts and
configurations; file operations fill the mount directory, but not under the
mutation lease. Run `network`: an undisturbed mount that reports success is
mounted, listed and hides no file (`MountedHidesNothing`), and a configuration is
deleted only while its remote is unmounted for both authorities
(`DeletedUnmounted`). Undisturbed means that during the operation no other program
acted and rclone carried out no request left over from an earlier operation: the
code can neither prevent nor recall such a request. Its own requests may be
carried out late, unanswered or not at all. Two operations, two acts of others and
three frames per settle deadline: one to see a change, two that agree.

### PeerHub: the file WebSocket

`PeerHub.tla` models the hub of `route/v1/file.go`: seats, the greeting, the two
pumps of a client, the broadcast channel, the monitor that copies from it and
drops what does not fit, and the shutdown by either pump. `DepartureTold` in run
`lifecycles`: a client that was shut down is announced as gone and both its pumps
end. Two clients and small channels make every channel full. Fairness: the monitor
and the pumps run; strong fairness of the departure, because a Go channel serves
waiting senders in order.

### SambaConnections: remote shares as mounts

`SambaConnections.tla` models creation and deletion of a connection
(`route/v1/samba.go`), the restoration ten seconds after a start
(`route/init.go`) and the identity checks of `service/connections*.go`. The
mount table is a stack of mounts per directory; each has the kernel's ID and,
as history, its maker. An administrator mounts and unmounts between any two
steps; a reboot empties the table and restarts the numbering. A mount, an unmount
and the checks before and after it are steps of their own. No system call compares
and unmounts at once: where the administrator acts between the last check and the
unmount, or between a mount and the first look at it, the service cannot tell, and
`raced` notes the directory.

Run `network`: `MountsAccounted` says that the service unmounts nothing that
somebody else mounted (`StrangersSpared`) and records no such mount as its own,
across a reboot too (`RecordedAreOurs`), raced directories excepted, and loses
none of its own except in a crash or a roll-back that reports it
(`NothingOrphaned`); a deletion that failed halfway succeeds when it is repeated
(`RetriesFinish`). The last is claimed only as long as the administrator does not
interfere and no crash has left mounts that no row describes, which a deletion
rightly refuses to touch.

Bounds: two shares and an administrative one, two boots with three mount IDs each
(so that an ID of the first boot comes back in the second), one crash, one
fault, two acts of the administrator. Fairness: the user repeats
the deletion, and the steps of a request run.

### ManagedTransfer: one copy or move, and what it promises

`ManagedTransfer.tla` models `CopyInto` and `MoveInto`
(`pkg/filesecurity/managed_copy_linux.go`) for one item, system call by system
call: the direct rename of a move, the private transaction directory, the copy
through a pinned descriptor, publication with `RENAME_NOREPLACE`, replacement with
`RENAME_EXCHANGE` and the removal of what was replaced, and the cleanup. The lease
keeps other transfers out, but not other programs, which write, replace, create
and remove the names in between; any call may fail; on a file system that is not
allowlisted a rename or the creation of the transaction directory may fail after
having taken effect, and an empty private directory may stay behind a plain
failure; the process may die. An inode is a number and its contents a token that
is fresh with every write. The answer of the call is "ok", "skipped", "failed"
(both unchanged) or "broken" (an error that says that something changed, or may
have).

`AtomicTransfer.tla` is the specification seen by somebody who lists the two
directories: one step of the namespace or none. The refinement mapping forgets
the transaction and shows the contents of the names.

Run `file_changes`, over every policy, copy and move, the same file system or two,
allowlisted or not, with a free or occupied target: the answer is honest and no
file of anybody is lost (`TransferSafe`), and the transfer
implements AtomicTransfer (`ImplementsAtomic`): no part of a copy is visible, a
mixture of two versions of the source is never published, and an occupied name
is taken only under the replace policy.

Bounds: two names for the rename policy reach both the next name and the end of
the list; two acts of other programs are enough to change a name after a check
and again after the operation, and two failures to make the cleanup of a failure
fail. No fairness is assumed. Left out: copies of directory trees, which are not
snapshots; a power failure that loses unsynchronised writes; the durability bit
of the errors. The last comparison before the replaced file is unlinked and the
unlink are one step, since no code could notice a write between them.

Proved (`TransferProofs.tla`), for any number of candidate names, acts of other
programs and failing calls: `TransferIsSafe`, and `TransferIsAtomic`, the
refinement. `TransferInv` adds to `TransferSafe` that no inode has two names
(`Namespace`), that everything owed to somebody has one (`Held`), that the copy
has no public name before it is published and is, from the second reading on,
what the source was when it was pinned (`CopyPrivate`), and what the call knows
at each step (`StepKnows`). The refinement goes step by step: steps that touch no
public name and no visible file are stutters (`UnseenStep`), a rename,
publication, exchange or relink is the one step of AtomicTransfer that changes
the namespace, and an act of another program is that program's act
(`StepSimulated`).

### KeySource and CredentialCutover: sealed SMB credentials

`KeySource.tla` models the provision, backup, removal, restore and audit of the
key file (`pkg/smbcredentials`): two operators in one directory, calls that fail
(link and rename perhaps after having taken effect), process death and power loss.
A provision verifies, syncs and verifies again whatever the step before said; a
backup verifies and syncs and returns at the first error. Restore and audit only
read, and run beside the others; no property is about their verdict.
`KeyReportsTrue` in run `credentials`: a key reported created is on disk for good,
a backup until it is removed (`CreatedIsDurable`), a provision that reports
neither creation nor cleanup left nothing (`QuietMeansNothing`), and the source
name never shows a partial key (`SourceWhole`). Three commands and two faults
reach a fault in the repair of another.

`CredentialCutover.tla` models `pkg/sqlite/smb_credentials_cutover.go` and the
expand-only start: inspection, classification, sealing row by row, authentication,
commit and roll-back with unknown outcomes, keyrings that are destroyed, and the
writes of the legacy service. Nothing calls the cutover yet
(`smb_credentials_cutover.go:253`): what is checked is the function that a start will
call. `CutoverAtomic`: the durable database is wholly
legacy or wholly sealed (`AllOrNothing`), the caller is told which
(`OutcomeTold`), and no transaction outlives its call (`NoOrphanTransaction`).
Three rows against a limit of two reach the limit from both sides; initial states
that differ in the names of rows and keys only are represented by one.

Proved (`StartupProofs.tla`), for any rows, callers, keys, edits and
failures: `CutoverIsAtomic`. `CutoverInv` adds what a call knows at each place
(`CallKnows`): it owns the transaction, its draft is the database, then half
sealed with exactly the rows still to do in plaintext (`HalfSealed`), then wholly
sealed under the key it is going to report. A legacy write goes on only from a
database it found wholly legacy (`EditKnows`).

### OAuthFlow: states and sealed refresh tokens

`OAuthFlow.tla` models `pkg/oauthsecurity`: the bounded store of single-use
states, the exchange, the keyring with rotation and retained keys, and rotation
and revocation of sealed tokens, and a restart, which forgets states and
revocations and begins with a fresh key while sealed forms are kept by the caller.
Callbacks run concurrently; the clock may step back; a key of this or an earlier
process may be imported again. The package has no caller outside its tests yet.
`OneLiveForm` in run `credentials`: an authorisation has at most one form that
opens. This is for one life of the process: revocations are in memory, so a
restart and an imported key may bring rotated forms back; from then on each of
them has at most one descendant that opens (`since` tells these lines apart). Two
callbacks race for two states; two keys, two revocations and four nonces reach
every limit. The flaws of a provider's configuration decide only whether a flow
can begin.

Proved (`AccessProofs.tla`), for any number of callbacks, authorisations, keys,
revocations and instants: `OneFormOpens`. `OAuthInv` adds that an authorisation is
in one place, the store, one callback or the forms (`OnePlace`), that nonces number
the forms (`FormsNumbered`), and that of the forms of one line at most
one is not revoked (`OneUnrevoked`).

### TerminalLogin, TerminalDial, TerminalSession: the terminal

`TerminalLogin.tla` models the tickets and slots of `route/v1/ssh.go`,
`TerminalDial.tla` the handshake of `pkg/sshsecurity/client.go` with its deadline,
its cancellation callback and the client's reader, `TerminalSession.tla` the five
goroutines of a session around a bounded channel. `TicketOnce` (run
`credentials`): a ticket opens at most one terminal, its owner's, in time.
`ClientUsable`: a client that is returned has no deadline left on it, its reader
did not meet one, and nothing closes it later; the clock may pass the deadline
before the context's timer fires. `SessionDrains` (run `lifecycles`): a session
ends with all its goroutines, whoever stops first. Two tickets for one place, two
requests for one slot, an output channel of one. Fairness: each goroutine runs.

Proved (`AccessProofs.tla`), for any tickets, requests, capacity and
lifetime: `TicketsOpenOnce`. `LoginInv` adds that what the registry holds is as it
was granted, and that a ticket that opened a terminal is no longer held. For any
number of admitted handshakes: `ReturnedClientWorks`, where `DialInv` adds what
the connection, its deadline, the callback and the reader do at each place of the
dial.

## Findings

Four runs are violations: TLC finds violated what a comment of the repository
states.

* `shares_crash_migrated` (`RowsAreTruth`): on a host that was migrated from
  CasaOS, the reconciliation refuses the crash it exists for, at every start
  (`service/samba_legacy_config.go:339`, `service/shares.go:415`).
* `fileops_outage` (`FailuresStopNothing`): a failed publication stops the
  publisher with finished tasks in the queue; once the queue is full of them no
  operation is accepted (`service/notify.go:120`, against `notify.go:81-82`).
* `held_removal` (`HeldRemovalReported`): the removal of a held tree fails after the
  tree was moved to its quarantine name, with an error that does not say so
  (`pkg/filesecurity/managed_roots_linux.go:684`, against `managed_copy.go:72-75`);
  a retry finds the name absent and reports success.
* `account_deleted` (`SharesNameAccounts`): an account is compared with the committed
  shares at `route/v1/samba_user.go:66` without the share service's lock; a share
  that names it is committed before it is removed (against `:61-63`).

Other disagreements between comments and code that were met while modelling, and
that no property above claims away:

* `service/file_upload.go:701` says that only fully cleaned records are evicted.
  A staging tree whose removal fails after it was moved to its quarantine name
  (`pkg/filesecurity/managed_roots_linux.go:684`) is reported clean by the next
  sweep, because an absent name counts as removed (`:654`).
* `service/shares.go:214-215` says that row and configuration either both change
  or neither does. One failing read after the publication (`shares.go:769`) rolls
  back the row and leaves the fragment, which is why `RowsAndFragmentAgree`
  excepts reported drift.
* `service/file.go:317-318` hides the target of an unfinished operation from
  listings; under the rename policy the name actually used (`:327`) is another.

## Not modelled, and why

* HTTP decoding, authentication middleware, OpenAPI glue and content streaming:
  stateless code around the modelled services.
* System information, logs, the ZeroTier proxy and remote share discovery: reads
  of the operating system and clients of external services. The health, periodic
  and auxiliary services push or return what they read.
* The HTTP clients of the cloud providers; rclone's answers are inputs of
  CloudMounts.
* Path resolution below a root and archive streaming: reads without state.
* Opening the database with the checks of its file; transactions are atomic in
  the modules that use them.
* Cryptography (password verification, envelopes, token signatures): a sealed
  value is the identity of its key and nonce.
* Generated code, copies of library code, the browser test harness and build
  scripts.

Within the modelled components: the half-created states of `useradd` and
`smbpasswd`; copies of directory trees, which are not snapshots; the loss of
unsynchronised writes in a power failure, except in KeySource and
GatewayStartup, where code depends on it; re-wrapping of sealed SMB credentials,
which no caller uses.

## Order of work

Modules were built from the bottom up: the worker pool, the mutation lease and
inventory, uploads, publication and shares, file operations, connections and
transfers; then the key file and the cutover, the portal around the pool, the
mutations below uploads and transfers, cloud mounts, terminals, OAuth and the peer
hub; last the start of the service and the space admission.

Proofs that would be worth adding: `KeyReportsTrue` of KeySource, `StagingKept`
and `UploadHonest` of UploadSessions, `SharesAgree` of SambaShares and
`MountsAccounted` of SambaConnections.

## Running

```
tlc -config MCFileOperations.cfg MCFileOperations
tlapm FileOperationsProofs.tla
```

`PROJECT.json` lists the runs with their modules and configurations. Each run
takes between a minute and four on two workers, each proof module between one
and six minutes.

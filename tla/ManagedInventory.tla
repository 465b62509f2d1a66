-------------------------- MODULE ManagedInventory --------------------------
(***************************************************************************)
(* The mutation lease of filesecurity.ManagedRoots and the lock-free       *)
(* inventory of retained transfer transactions that runs beside it         *)
(* (pkg/filesecurity/managed_mutation_linux.go, managed_recovery_linux.go, *)
(* Close of managed_roots_linux.go).                                       *)
(*                                                                         *)
(* A mutator holds mutationMu for its whole namespace transaction; the     *)
(* generation counter is odd exactly while a lease is active.  An          *)
(* inventory takes no lease: it samples the generation, reads the          *)
(* directory in batches on a mount that may stall, and calls its result    *)
(* complete only if the generation was even and has not moved.             *)
(*                                                                         *)
(* One parent directory is modelled.  tx gives the transactions in it; the *)
(* names in Plain are its other entries.                                   *)
(***************************************************************************)
EXTENDS Integers, FiniteSets

CONSTANTS
    Mutators,       \* goroutines that mutate the managed namespace
    Inspectors,     \* goroutines that run an inventory
    Names,          \* names of the transaction format
    Plain,          \* the other entries of the parent directory
    NoOne,          \* no holder of mutationMu
    TheCloser,      \* the goroutine that runs Close
    NoName,         \* no transaction
    Batch,          \* the argument of ReadDir (256 in the code)
    MaxScanned,     \* maxManagedTransferInventoryEntries
    MaxItems,       \* maxManagedTransferInventoryCandidates
    MaxGeneration   \* bound on the generation counter

ASSUME ProcessAssumption ==
    /\ NoOne \notin Mutators /\ TheCloser \notin Mutators
    /\ NoOne # TheCloser
    /\ Mutators \intersect Inspectors = {}
ASSUME NameAssumption == NoName \notin Names /\ Names \intersect Plain = {}
ASSUME LimitAssumption == MaxScanned \in Nat /\ MaxItems \in Nat

VARIABLES
    mutMu,      \* mutationMu: its holder
    readers,    \* goroutines that hold m.mu.RLock between two steps
    writer,     \* m.mu.Lock: "free" | "waiting" | "held"
    gen,        \* mutationGeneration
    closed,     \* m.closed
    closer,     \* progress of Close
    mut,        \* progress of each mutator
    own,        \* the transaction a mutator created in this lease
    tx,         \* each name: "absent" | "empty" | "entry" (it has its entry)
    insp,       \* progress of each inventory
    base,       \* baselineGeneration
    stable,     \* names in the directory ever since the scan began
    read,       \* names ReadDir has returned
    batch,      \* names of the current batch not looked at yet
    cur,        \* the candidate being inspected
    shape,      \* what its ReadDir showed
    items,      \* result.Items: the observed state of each name
    scanned,    \* result.Scanned
    complete,   \* result.Complete
    at          \* history: tx when the generation was sampled

lockVars == <<mutMu, readers, writer, gen, closed, closer>>
mutVars == <<mut, own, tx>>
scanVars == <<insp, base, stable, read, batch, cur, shape, items, scanned,
              complete, at>>
vars == <<lockVars, mutVars, scanVars>>

TxStates == {"absent", "empty", "entry"}
MutStates == {"idle", "locked", "leased", "reading"}
CloserStates == {"idle", "leased", "marked", "done"}
InspStates == {"idle", "locked", "opening", "scanning", "batch", "opened",
               "read", "revalidate", "compare", "done", "failed"}
ItemStates == {"unseen", "unverified", "empty", "entry"}

\* The type invariant of the roots, the directory and the inventories.
TypeOK ==
    /\ mutMu \in Mutators \union {NoOne, TheCloser}
    /\ readers \in SUBSET (Mutators \union Inspectors)
    /\ writer \in {"free", "waiting", "held"}
    /\ gen \in Nat
    /\ closed \in BOOLEAN
    /\ closer \in CloserStates
    /\ mut \in [Mutators -> MutStates]
    /\ own \in [Mutators -> Names \union {NoName}]
    /\ tx \in [Names -> TxStates]
    /\ insp \in [Inspectors -> InspStates]
    /\ base \in [Inspectors -> Nat]
    /\ stable \in [Inspectors -> SUBSET (Names \union Plain)]
    /\ read \in [Inspectors -> SUBSET (Names \union Plain)]
    /\ batch \in [Inspectors -> SUBSET (Names \union Plain)]
    /\ cur \in [Inspectors -> Names \union {NoName}]
    /\ shape \in [Inspectors -> TxStates]
    /\ items \in [Inspectors -> [Names -> ItemStates]]
    /\ scanned \in [Inspectors -> Nat]
    /\ complete \in [Inspectors -> BOOLEAN]
    /\ at \in [Inspectors -> [Names -> TxStates]]

\* Freshly opened roots; the directory may hold transactions of an earlier
\* run of the service.
Init ==
    /\ mutMu = NoOne
    /\ readers = {}
    /\ writer = "free"
    /\ gen = 0
    /\ closed = FALSE
    /\ closer = "idle"
    /\ mut = [m \in Mutators |-> "idle"]
    /\ own = [m \in Mutators |-> NoName]
    /\ tx \in [Names -> TxStates]
    /\ insp = [i \in Inspectors |-> "idle"]
    /\ base = [i \in Inspectors |-> 0]
    /\ stable = [i \in Inspectors |-> {}]
    /\ read = [i \in Inspectors |-> {}]
    /\ batch = [i \in Inspectors |-> {}]
    /\ cur = [i \in Inspectors |-> NoName]
    /\ shape = [i \in Inspectors |-> "absent"]
    /\ items = [i \in Inspectors |-> [n \in Names |-> "unseen"]]
    /\ scanned = [i \in Inspectors |-> 0]
    /\ complete = [i \in Inspectors |-> TRUE]
    /\ at = [i \in Inspectors |-> tx]

Present == Plain \union {n \in Names : tx[n] # "absent"}

-----------------------------------------------------------------------------
(***************************************************************************)
(* AcquireMutation, the lease and its release                              *)
(***************************************************************************)

LockMutation(m) ==
    /\ mut[m] = "idle"
    /\ gen + 2 <= MaxGeneration
    /\ mutMu = NoOne
    /\ mutMu' = m
    /\ mut' = [mut EXCEPT ![m] = "locked"]
    /\ UNCHANGED <<readers, writer, gen, closed, closer, own, tx, scanVars>>

\* m.closed is read under m.mu.RLock; then the generation becomes odd.
BeginLease(m) ==
    /\ mut[m] = "locked"
    /\ writer = "free"
    /\ ~closed
    /\ gen' = gen + 1
    /\ mut' = [mut EXCEPT ![m] = "leased"]
    /\ UNCHANGED <<mutMu, readers, writer, closed, closer, own, tx, scanVars>>

LeaseRefused(m) ==
    /\ mut[m] = "locked"
    /\ writer = "free"
    /\ closed
    /\ mutMu' = NoOne
    /\ mut' = [mut EXCEPT ![m] = "idle"]
    /\ UNCHANGED <<readers, writer, gen, closed, closer, own, tx, scanVars>>

\* A lease holder calls a read-only method of ManagedRoots: RLock, RUnlock.
ReadUnderLease(m) ==
    /\ mut[m] = "leased"
    /\ writer = "free"
    /\ readers' = readers \union {m}
    /\ mut' = [mut EXCEPT ![m] = "reading"]
    /\ UNCHANGED <<mutMu, writer, gen, closed, closer, own, tx, scanVars>>

ReadReturns(m) ==
    /\ mut[m] = "reading"
    /\ readers' = readers \ {m}
    /\ mut' = [mut EXCEPT ![m] = "leased"]
    /\ UNCHANGED <<mutMu, writer, gen, closed, closer, own, tx, scanVars>>

\* The namespace steps of a transfer: mkdir of the transaction, creation of
\* its entry, the rename or unlink that takes the entry out, rmdir.
ChangeTx(m, n, from, to) ==
    /\ mut[m] = "leased"
    /\ tx[n] = from
    /\ tx' = [tx EXCEPT ![n] = to]
    /\ stable' = IF to = "absent"
                 THEN [i \in Inspectors |-> stable[i] \ {n}]
                 ELSE stable
    /\ UNCHANGED <<lockVars, mut, insp, base, read, batch, cur, shape, items,
                   scanned, complete, at>>

CreateTransaction(m, n) ==
    /\ own[m] = NoName
    /\ ChangeTx(m, n, "absent", "empty")
    /\ own' = [own EXCEPT ![m] = n]

StageEntry(m, n) ==
    /\ own[m] = n
    /\ ChangeTx(m, n, "empty", "entry")
    /\ UNCHANGED own

EntryLeaves(m, n) ==
    /\ own[m] = n
    /\ ChangeTx(m, n, "entry", "empty")
    /\ UNCHANGED own

RemoveTransaction(m, n) ==
    /\ own[m] = n
    /\ ChangeTx(m, n, "empty", "absent")
    /\ own' = [own EXCEPT ![m] = NoName]

\* The release function.  A transaction whose outcome is ambiguous stays.
ReleaseLease(m) ==
    /\ mut[m] = "leased"
    /\ gen' = gen + 1
    /\ mutMu' = NoOne
    /\ mut' = [mut EXCEPT ![m] = "idle"]
    /\ own' = [own EXCEPT ![m] = NoName]
    /\ UNCHANGED <<readers, writer, closed, closer, tx, scanVars>>

-----------------------------------------------------------------------------
(***************************************************************************)
(* Close                                                                   *)
(***************************************************************************)

\* mutationMu and the odd generation, then m.mu.Lock starts to wait.
CloseLocks ==
    /\ closer = "idle"
    /\ gen + 2 <= MaxGeneration
    /\ mutMu = NoOne
    /\ mutMu' = TheCloser
    /\ gen' = gen + 1
    /\ writer' = "waiting"
    /\ closer' = "leased"
    /\ UNCHANGED <<readers, closed, mutVars, scanVars>>

CloseMarks ==
    /\ closer = "leased"
    /\ readers = {}
    /\ writer' = "held"
    /\ closed' = TRUE
    /\ closer' = "marked"
    /\ UNCHANGED <<mutMu, readers, gen, mutVars, scanVars>>

CloseReleases ==
    /\ closer = "marked"
    /\ writer' = "free"
    /\ gen' = gen + 1
    /\ mutMu' = NoOne
    /\ closer' = "done"
    /\ UNCHANGED <<readers, closed, mutVars, scanVars>>

-----------------------------------------------------------------------------
(***************************************************************************)
(* InventoryManagedTransferTransactions                                    *)
(***************************************************************************)

Phase(i, from, to) ==
    /\ insp[i] = from
    /\ insp' = [insp EXCEPT ![i] = to]

\* snapshotManagedTransferInventoryRoots: RLock, m.closed, the descriptors.
SnapshotLocks(i) ==
    /\ writer = "free"
    /\ ~closed
    /\ Phase(i, "idle", "locked")
    /\ readers' = readers \union {i}
    /\ UNCHANGED <<mutMu, writer, gen, closed, closer, mutVars, base, stable,
                   read, batch, cur, shape, items, scanned, complete, at>>

SnapshotRefused(i) ==
    /\ writer = "free"
    /\ closed
    /\ Phase(i, "idle", "failed")
    /\ UNCHANGED <<lockVars, mutVars, base, stable, read, batch, cur, shape,
                   items, scanned, complete, at>>

\* Mutant: the read lock is kept for the whole scan.
SnapshotKeepsLock(i) ==
    /\ Phase(i, "locked", "opening")
    /\ base' = [base EXCEPT ![i] = gen]
    /\ at' = [at EXCEPT ![i] = tx]
    /\ UNCHANGED <<lockVars, mutVars, stable, read, batch, cur, shape, items,
                   scanned, complete>>

\* The generation is sampled before RUnlock.
SnapshotSamples(i) ==
    /\ Phase(i, "locked", "opening")
    /\ base' = [base EXCEPT ![i] = gen]
    /\ at' = [at EXCEPT ![i] = tx]
    /\ readers' = readers \ {i}
    /\ UNCHANGED <<mutMu, writer, gen, closed, closer, mutVars, stable, read,
                   batch, cur, shape, items, scanned, complete>>

\* A root descriptor cannot be duplicated.
SnapshotFails(i) ==
    /\ Phase(i, "locked", "failed")
    /\ readers' = readers \ {i}
    /\ UNCHANGED <<mutMu, writer, gen, closed, closer, mutVars, base, stable,
                   read, batch, cur, shape, items, scanned, complete, at>>

\* A path outside the roots, or a parent that cannot be opened or validated.
OpenFails(i) ==
    /\ Phase(i, "opening", "failed")
    /\ UNCHANGED <<lockVars, mutVars, base, stable, read, batch, cur, shape,
                   items, scanned, complete, at>>

OpenParent(i) ==
    /\ Phase(i, "opening", "scanning")
    /\ stable' = [stable EXCEPT ![i] = Present]
    /\ UNCHANGED <<lockVars, mutVars, base, read, batch, cur, shape, items,
                   scanned, complete, at>>

\* parent.ReadDir(256): some of the names not returned before.
ReadBatch(i) ==
    /\ Phase(i, "scanning", "batch")
    /\ \E b \in SUBSET (Present \ read[i]) :
          /\ b # {} /\ Cardinality(b) <= Batch
          /\ batch' = [batch EXCEPT ![i] = b]
          /\ read' = [read EXCEPT ![i] = @ \union b]
    /\ UNCHANGED <<lockVars, mutVars, base, stable, cur, shape, items,
                   scanned, complete, at>>

BatchDone(i) ==
    /\ batch[i] = {}
    /\ Phase(i, "batch", "scanning")
    /\ UNCHANGED <<lockVars, mutVars, base, stable, read, batch, cur, shape,
                   items, scanned, complete, at>>

\* io.EOF: every name that stayed in the directory has been returned; one
\* that came or went meanwhile may have been missed.
ReadEOF(i) ==
    /\ stable[i] \subseteq read[i]
    /\ Phase(i, "scanning", "revalidate")
    /\ UNCHANGED <<lockVars, mutVars, base, stable, read, batch, cur, shape,
                   items, scanned, complete, at>>

\* Any other error of ReadDir.
ReadFails(i) ==
    /\ Phase(i, "scanning", "revalidate")
    /\ complete' = [complete EXCEPT ![i] = FALSE]
    /\ UNCHANGED <<lockVars, mutVars, base, stable, read, batch, cur, shape,
                   items, scanned, at>>

\* Mutant: a scan cut short by the limit counts as whole.
EntryLimitSilent(i) ==
    /\ batch[i] # {}
    /\ scanned[i] >= MaxScanned
    /\ Phase(i, "batch", "revalidate")
    /\ UNCHANGED <<lockVars, mutVars, base, stable, read, batch, cur, shape,
                   items, scanned, complete, at>>

\* The entry limit stops the scan.
EntryLimit(i) ==
    /\ batch[i] # {}
    /\ scanned[i] >= MaxScanned
    /\ Phase(i, "batch", "revalidate")
    /\ complete' = [complete EXCEPT ![i] = FALSE]
    /\ UNCHANGED <<lockVars, mutVars, base, stable, read, batch, cur, shape,
                   items, scanned, at>>

TakeEntry(i, n) ==
    /\ n \in batch[i]
    /\ scanned[i] < MaxScanned
    /\ batch' = [batch EXCEPT ![i] = @ \ {n}]
    /\ scanned' = [scanned EXCEPT ![i] = @ + 1]

SkipPlain(i, n) ==
    /\ n \in Plain
    /\ insp[i] = "batch"
    /\ TakeEntry(i, n)
    /\ UNCHANGED <<lockVars, mutVars, insp, base, stable, read, cur, shape,
                   items, complete, at>>

ItemCount(i) == Cardinality({n \in Names : items[i][n] # "unseen"})

\* The candidate limit: the scan goes on, the result is incomplete.
CandidateLimit(i, n) ==
    /\ n \in Names
    /\ insp[i] = "batch"
    /\ ItemCount(i) >= MaxItems
    /\ TakeEntry(i, n)
    /\ complete' = [complete EXCEPT ![i] = FALSE]
    /\ UNCHANGED <<lockVars, mutVars, insp, base, stable, read, cur, shape,
                   items, at>>

\* inspectManagedTransferTransaction opens the candidate ...
InspectOpens(i, n) ==
    /\ n \in Names
    /\ ItemCount(i) < MaxItems
    /\ tx[n] # "absent"
    /\ TakeEntry(i, n)
    /\ Phase(i, "batch", "opened")
    /\ cur' = [cur EXCEPT ![i] = n]
    /\ UNCHANGED <<lockVars, mutVars, base, stable, read, shape, items,
                   complete, at>>

\* ... or finds it gone, unsafe or changed.
InspectOpenFails(i, n) ==
    /\ n \in Names
    /\ insp[i] = "batch"
    /\ ItemCount(i) < MaxItems
    /\ TakeEntry(i, n)
    /\ items' = [items EXCEPT ![i][n] = "unverified"]
    /\ UNCHANGED <<lockVars, mutVars, insp, base, stable, read, cur, shape,
                   complete, at>>

\* readManagedTransferTransactionShape.
InspectReads(i) ==
    /\ Phase(i, "opened", "read")
    /\ shape' = [shape EXCEPT ![i] = tx[cur[i]]]
    /\ UNCHANGED <<lockVars, mutVars, base, stable, read, batch, cur, items,
                   scanned, complete, at>>

\* revalidateObservedTransaction.  It always notices a name that is gone; it
\* may notice, but at the granularity of the time stamps need not, that the
\* directory changed after its shape was read.
InspectVerifies(i) ==
    /\ Phase(i, "read", "batch")
    /\ \/ items' = [items EXCEPT ![i][cur[i]] = "unverified"]
       \/ /\ tx[cur[i]] # "absent" /\ shape[i] # "absent"
          /\ items' = [items EXCEPT ![i][cur[i]] = shape[i]]
    /\ cur' = [cur EXCEPT ![i] = NoName]
    /\ UNCHANGED <<lockVars, mutVars, base, stable, read, batch, shape,
                   scanned, complete, at>>

\* revalidateManagedTransferInventoryParent, with the same granularity.
RevalidateParent(i) ==
    /\ Phase(i, "revalidate", "compare")
    /\ \E same \in BOOLEAN :
          complete' = [complete EXCEPT ![i] = @ /\ same]
    /\ UNCHANGED <<lockVars, mutVars, base, stable, read, batch, cur, shape,
                   items, scanned, at>>

\* The last load of the generation decides.
CompareGeneration(i) ==
    /\ Phase(i, "compare", "done")
    /\ complete' = [complete EXCEPT ![i] =
                      @ /\ base[i] % 2 = 0 /\ gen = base[i] /\ gen % 2 = 0]
    /\ UNCHANGED <<lockVars, mutVars, base, stable, read, batch, cur, shape,
                   items, scanned, at>>

-----------------------------------------------------------------------------
Lease(m) ==
    \/ LockMutation(m) \/ BeginLease(m) \/ LeaseRefused(m)
    \/ ReadUnderLease(m) \/ ReadReturns(m) \/ ReleaseLease(m)

Mutate(m, n) ==
    \/ CreateTransaction(m, n) \/ StageEntry(m, n) \/ EntryLeaves(m, n)
    \/ RemoveTransaction(m, n)

Closing == CloseLocks \/ CloseMarks \/ CloseReleases

Snapshot(i) ==
    \/ SnapshotLocks(i) \/ SnapshotRefused(i) \/ SnapshotSamples(i)
    \/ SnapshotFails(i)

Scan(i) ==
    \/ OpenFails(i) \/ OpenParent(i)
    \/ ReadBatch(i) \/ BatchDone(i) \/ ReadEOF(i) \/ ReadFails(i)
    \/ EntryLimit(i)
    \/ InspectReads(i) \/ InspectVerifies(i)
    \/ RevalidateParent(i) \/ CompareGeneration(i)

LookAt(i, n) ==
    \/ SkipPlain(i, n) \/ CandidateLimit(i, n) \/ InspectOpens(i, n)
    \/ InspectOpenFails(i, n)

Next ==
    \/ \E m \in Mutators : Lease(m) \/ \E n \in Names : Mutate(m, n)
    \/ Closing
    \/ \E i \in Inspectors :
          Snapshot(i) \/ Scan(i) \/ \E n \in Names \union Plain : LookAt(i, n)

Spec == Init /\ [][Next]_vars

-----------------------------------------------------------------------------
(***************************************************************************)
(* Properties                                                              *)
(***************************************************************************)

Listed(i) ==
    \A n \in Names :
        /\ items[i][n] = "unseen" <=> at[i][n] = "absent"
        /\ items[i][n] \in {"unseen", "unverified", at[i][n]}

\* A complete inventory lists exactly the transactions that were in the
\* directory when the generation was sampled, each in the state it had then
\* or as unverified: no lease, batch boundary, limit or unnoticed change
\* between the sample and the answer can make a complete result wrong.
CompleteIsSnapshot ==
    \A i \in Inspectors : insp[i] = "done" /\ complete[i] => Listed(i)

\* "The generation is even while quiescent and odd while a serialized
\* mutation is active" (managed_mutation_linux.go:34-36).
OddWhileMutating ==
    gen % 2 = 1 <=> \/ \E m \in Mutators : mut[m] \in {"leased", "reading"}
                    \/ closer \in {"leased", "marked"}

\* Root descriptors stay pinned for a lease although the holder does not
\* keep m.mu: Close comes before or after it, never in between.
LeaseOnOpenRoots ==
    \A m \in Mutators : mut[m] \in {"leased", "reading"} => ~closed

\* A complete result was not overtaken: a transaction that a lease changed
\* after the sample makes every inventory still under way incomplete.
OvertakenIsIncomplete ==
    [][\A i \in Inspectors :
          insp[i] = "compare" /\ insp'[i] = "done" /\ complete'[i]
             => tx = at[i] /\ mutMu \in {NoOne} \union
                                {m \in Mutators : mut[m] = "locked"}]_vars

-----------------------------------------------------------------------------
(***************************************************************************)
(* The inductive invariant behind CompleteIsSnapshot.                      *)
(***************************************************************************)

LockInv ==
    /\ \A m \in Mutators : mut[m] # "idle" <=> mutMu = m
    /\ closer \in {"leased", "marked"} <=> mutMu = TheCloser
    /\ closer = "leased" <=> writer = "waiting"
    /\ closer = "marked" <=> writer = "held"
    /\ closer \in {"marked", "done"} <=> closed
    /\ gen % 2 = 1 <=> /\ mutMu # NoOne
                       /\ \A m \in Mutators : mut[m] # "locked"

\* The generation was sampled and the scan is under way.
Scanning(i) == insp[i] \notin {"idle", "locked", "done", "failed"}

\* No lease was active at the sample and none has begun since.
Quiet(i) == base[i] % 2 = 0 /\ gen = base[i]

ScanShape(i) ==
    /\ base[i] <= gen
    /\ insp[i] \in {"idle", "locked", "opening"} =>
          /\ \A n \in Names : items[i][n] = "unseen"
          /\ read[i] = {}
    /\ insp[i] \in {"opened", "read"} <=> cur[i] # NoName
    /\ cur[i] # NoName => cur[i] \in read[i]
    /\ batch[i] \subseteq read[i]
    /\ insp[i] \notin {"batch", "opened", "read"} /\ complete[i]
          => batch[i] = {}

\* What a scan under way knows as long as it may still turn out complete.
ScanTruthful(i) ==
    /\ tx = at[i]
    /\ insp[i] = "read" => shape[i] = at[i][cur[i]]
    /\ insp[i] \in {"revalidate", "compare"} /\ complete[i]
          => stable[i] \subseteq read[i]
    /\ \A n \in Names :
          /\ n \in read[i] => at[i][n] # "absent"
          /\ insp[i] # "opening" /\ at[i][n] # "absent"
                => n \in stable[i]
          /\ items[i][n] # "unseen" =>
                at[i][n] # "absent" /\ items[i][n] \in {"unverified", at[i][n]}
          /\ complete[i] /\ n \in read[i] /\ n \notin batch[i] /\ n # cur[i]
                => items[i][n] # "unseen"

ScanInv(i) ==
    /\ ScanShape(i)
    /\ Scanning(i) /\ Quiet(i) => ScanTruthful(i)
    /\ insp[i] = "done" /\ complete[i] => Listed(i)

InventoryInv ==
    TypeOK /\ LockInv /\ LeaseOnOpenRoots /\ \A i \in Inspectors : ScanInv(i)

-----------------------------------------------------------------------------
(***************************************************************************)
(* Liveness.  Lease holders finish and the scheduler is fair; an inventory *)
(* finishes its short locked section, but its scan may stall for ever on a *)
(* remote mount.                                                           *)
(***************************************************************************)

Fairness ==
    /\ \A m \in Mutators :
          /\ WF_vars(BeginLease(m) \/ LeaseRefused(m))
          /\ WF_vars(ReadReturns(m))
          /\ SF_vars(ReleaseLease(m))
    /\ \A i \in Inspectors : WF_vars(SnapshotSamples(i) \/ SnapshotFails(i))
    /\ WF_vars(CloseMarks) /\ WF_vars(CloseReleases)

FairSpec == Spec /\ Fairness

\* "A stalled remote/FUSE mount cannot freeze unrelated mutations or
\* ManagedRoots.Close" (managed_recovery_linux.go:102-105): a Close that holds
\* mutationMu completes, whatever leases and inventories are under way.
CloseCompletes == (closer = "leased") ~> (closer = "done")
=============================================================================

----------------------- MODULE ManagedInventoryProofs -----------------------
(***************************************************************************)
(* A complete inventory is a snapshot, for every number of mutators and    *)
(* concurrent inventories, every directory and every limit.                *)
(*                                                                         *)
(* The argument is that of a sequence lock.  Names change only under a     *)
(* lease, while the generation is odd; the generation never decreases.  So *)
(* as long as it still equals an even sample, the directory equals the one *)
(* at the sample (ScanTruthful), and every step of the scan adds only true *)
(* items; once it differs it never equals the sample again.                *)
(***************************************************************************)
EXTENDS ManagedInventory, TLAPS

\* An increment changes the parity of the generation.
LEMMA Parity == ASSUME NEW g \in Nat
                PROVE  g % 2 \in {0, 1} /\ (g % 2 = 1 <=> (g + 1) % 2 # 1)
OBVIOUS

\* Every step keeps the types.
LEMMA TypeStep ==
    ASSUME InventoryInv, [Next]_vars
    PROVE  TypeOK'
<1> USE DEF InventoryInv, TypeOK, TxStates, MutStates, CloserStates, InspStates,
            ItemStates, Present
<1>1. ASSUME NEW m \in Mutators, LockMutation(m) PROVE TypeOK'
  BY <1>1, Zenon DEF LockMutation, scanVars
<1>2. ASSUME NEW m \in Mutators, BeginLease(m) PROVE TypeOK'
  BY <1>2 DEF BeginLease, scanVars
<1>3. ASSUME NEW m \in Mutators, LeaseRefused(m) PROVE TypeOK'
  BY <1>3, Zenon DEF LeaseRefused, scanVars
<1>4. ASSUME NEW m \in Mutators, ReadUnderLease(m) PROVE TypeOK'
  BY <1>4, Zenon DEF ReadUnderLease, scanVars
<1>5. ASSUME NEW m \in Mutators, ReadReturns(m) PROVE TypeOK'
  BY <1>5, Zenon DEF ReadReturns, scanVars
<1>6. ASSUME NEW m \in Mutators, ReleaseLease(m) PROVE TypeOK'
  BY <1>6 DEF ReleaseLease, scanVars
<1>7. ASSUME NEW m \in Mutators, NEW n \in Names, CreateTransaction(m, n) PROVE TypeOK'
  BY <1>7, Zenon DEF CreateTransaction, ChangeTx, lockVars
<1>8. ASSUME NEW m \in Mutators, NEW n \in Names, StageEntry(m, n) PROVE TypeOK'
  BY <1>8, Zenon DEF StageEntry, ChangeTx, lockVars
<1>9. ASSUME NEW m \in Mutators, NEW n \in Names, EntryLeaves(m, n) PROVE TypeOK'
  BY <1>9, Zenon DEF EntryLeaves, ChangeTx, lockVars
<1>10. ASSUME NEW m \in Mutators, NEW n \in Names, RemoveTransaction(m, n) PROVE TypeOK'
  BY <1>10, Zenon DEF RemoveTransaction, ChangeTx, lockVars
<1>11. ASSUME CloseLocks PROVE TypeOK'
  BY <1>11 DEF CloseLocks, mutVars, scanVars
<1>12. ASSUME CloseMarks PROVE TypeOK'
  BY <1>12, Zenon DEF CloseMarks, mutVars, scanVars
<1>13. ASSUME CloseReleases PROVE TypeOK'
  BY <1>13 DEF CloseReleases, mutVars, scanVars
<1>14. ASSUME NEW i \in Inspectors, SnapshotLocks(i) PROVE TypeOK'
  BY <1>14, Zenon DEF SnapshotLocks, Phase, lockVars, mutVars
<1>15. ASSUME NEW i \in Inspectors, SnapshotRefused(i) PROVE TypeOK'
  BY <1>15, Zenon DEF SnapshotRefused, Phase, lockVars, mutVars
<1>16. ASSUME NEW i \in Inspectors, SnapshotSamples(i) PROVE TypeOK'
  BY <1>16, Zenon DEF SnapshotSamples, Phase, lockVars, mutVars
<1>17. ASSUME NEW i \in Inspectors, SnapshotFails(i) PROVE TypeOK'
  BY <1>17, Zenon DEF SnapshotFails, Phase, lockVars, mutVars
<1>18. ASSUME NEW i \in Inspectors, OpenFails(i) PROVE TypeOK'
  BY <1>18, Zenon DEF OpenFails, Phase, lockVars, mutVars
<1>19. ASSUME NEW i \in Inspectors, OpenParent(i) PROVE TypeOK'
  BY <1>19, Zenon DEF OpenParent, Phase, lockVars, mutVars
<1>20. ASSUME NEW i \in Inspectors, ReadBatch(i) PROVE TypeOK'
  BY <1>20 DEF ReadBatch, Phase, lockVars, mutVars
<1>21. ASSUME NEW i \in Inspectors, BatchDone(i) PROVE TypeOK'
  BY <1>21, Zenon DEF BatchDone, Phase, lockVars, mutVars
<1>22. ASSUME NEW i \in Inspectors, ReadEOF(i) PROVE TypeOK'
  BY <1>22, Zenon DEF ReadEOF, Phase, lockVars, mutVars
<1>23. ASSUME NEW i \in Inspectors, ReadFails(i) PROVE TypeOK'
  BY <1>23, Zenon DEF ReadFails, Phase, lockVars, mutVars
<1>24. ASSUME NEW i \in Inspectors, EntryLimit(i) PROVE TypeOK'
  BY <1>24, Zenon DEF EntryLimit, Phase, lockVars, mutVars
<1>25. ASSUME NEW i \in Inspectors, InspectReads(i) PROVE TypeOK'
  BY <1>25 DEF InspectReads, ScanInv, ScanShape, Phase, lockVars, mutVars
<1>26. ASSUME NEW i \in Inspectors, InspectVerifies(i) PROVE TypeOK'
  <2>1. cur[i] \in Names
    BY <1>26, Zenon DEF InspectVerifies, Phase, ScanInv, ScanShape
  <2>2. PICK o \in ItemStates : items' = [items EXCEPT ![i][cur[i]] = o]
    BY <1>26, Zenon DEF InspectVerifies
  <2>3. items' \in [Inspectors -> [Names -> ItemStates]]
    BY <2>1, <2>2, Zenon
  <2> QED
    BY <1>26, <2>3, Zenon DEF InspectVerifies, Phase, lockVars, mutVars
<1>27. ASSUME NEW i \in Inspectors, RevalidateParent(i) PROVE TypeOK'
  BY <1>27, Zenon DEF RevalidateParent, Phase, lockVars, mutVars
<1>28. ASSUME NEW i \in Inspectors, CompareGeneration(i) PROVE TypeOK'
  BY <1>28, Zenon DEF CompareGeneration, Phase, lockVars, mutVars
<1>29. ASSUME NEW i \in Inspectors, NEW n \in Names \union Plain,
             SkipPlain(i, n)
      PROVE  TypeOK'
  BY <1>29 DEF SkipPlain, TakeEntry, Phase, lockVars, mutVars
<1>30. ASSUME NEW i \in Inspectors, NEW n \in Names \union Plain,
             CandidateLimit(i, n)
      PROVE  TypeOK'
  BY <1>30 DEF CandidateLimit, TakeEntry, Phase, lockVars, mutVars
<1>31. ASSUME NEW i \in Inspectors, NEW n \in Names \union Plain,
             InspectOpens(i, n)
      PROVE  TypeOK'
  BY <1>31 DEF InspectOpens, TakeEntry, Phase, lockVars, mutVars
<1>32. ASSUME NEW i \in Inspectors, NEW n \in Names \union Plain,
             InspectOpenFails(i, n)
      PROVE  TypeOK'
  BY <1>32 DEF InspectOpenFails, TakeEntry, Phase, lockVars, mutVars
<1>33. ASSUME UNCHANGED vars PROVE TypeOK'
  BY <1>33 DEF vars, lockVars, mutVars, scanVars
<1> QED
  BY Zenon, <1>1, <1>2, <1>3, <1>4, <1>5, <1>6, <1>7, <1>8, <1>9, <1>10, <1>11,
     <1>12, <1>13, <1>14, <1>15, <1>16, <1>17, <1>18, <1>19, <1>20,
     <1>21, <1>22, <1>23, <1>24, <1>25, <1>26, <1>27, <1>28, <1>29,
     <1>30, <1>31, <1>32, <1>33
  DEF Next, Lease, Mutate, Closing, Snapshot, Scan, LookAt

\* The generation is odd exactly while mutationMu is held past its increment.
LEMMA LockStep ==
    ASSUME InventoryInv, [Next]_vars
    PROVE  LockInv' /\ LeaseOnOpenRoots'
<1> DEFINE Goal == LockInv' /\ LeaseOnOpenRoots'
<1> USE ProcessAssumption
    DEF InventoryInv, TypeOK, LockInv, LeaseOnOpenRoots, MutStates, CloserStates
<1>1. ASSUME NEW m \in Mutators, LockMutation(m) PROVE Goal
  BY <1>1, Zenon DEF LockMutation, scanVars
<1>2. ASSUME NEW m \in Mutators, BeginLease(m) PROVE Goal
  BY <1>2, Parity, Zenon DEF BeginLease, scanVars
<1>3. ASSUME NEW m \in Mutators, LeaseRefused(m) PROVE Goal
  BY <1>3, Zenon DEF LeaseRefused, scanVars
<1>4. ASSUME NEW m \in Mutators, ReadUnderLease(m) PROVE Goal
  BY <1>4, Zenon DEF ReadUnderLease, scanVars
<1>5. ASSUME NEW m \in Mutators, ReadReturns(m) PROVE Goal
  BY <1>5, Zenon DEF ReadReturns, scanVars
<1>6. ASSUME NEW m \in Mutators, ReleaseLease(m) PROVE Goal
  BY <1>6, Parity, Zenon DEF ReleaseLease, scanVars
<1>7. ASSUME NEW m \in Mutators, NEW n \in Names, CreateTransaction(m, n) PROVE Goal
  BY <1>7, Zenon DEF CreateTransaction, ChangeTx, lockVars
<1>8. ASSUME NEW m \in Mutators, NEW n \in Names, StageEntry(m, n) PROVE Goal
  BY <1>8, Zenon DEF StageEntry, ChangeTx, lockVars
<1>9. ASSUME NEW m \in Mutators, NEW n \in Names, EntryLeaves(m, n) PROVE Goal
  BY <1>9, Zenon DEF EntryLeaves, ChangeTx, lockVars
<1>10. ASSUME NEW m \in Mutators, NEW n \in Names, RemoveTransaction(m, n) PROVE Goal
  BY <1>10, Zenon DEF RemoveTransaction, ChangeTx, lockVars
<1>11. ASSUME CloseLocks PROVE Goal
  BY <1>11, Parity, Zenon DEF CloseLocks, mutVars, scanVars
<1>12. ASSUME CloseMarks PROVE Goal
  BY <1>12, Zenon DEF CloseMarks, mutVars, scanVars
<1>13. ASSUME CloseReleases PROVE Goal
  BY <1>13, Parity, Zenon DEF CloseReleases, mutVars, scanVars
<1>14. ASSUME NEW i \in Inspectors, SnapshotLocks(i) PROVE Goal
  BY <1>14, Zenon DEF SnapshotLocks, Phase, lockVars, mutVars
<1>15. ASSUME NEW i \in Inspectors, SnapshotRefused(i) PROVE Goal
  BY <1>15, Zenon DEF SnapshotRefused, Phase, lockVars, mutVars
<1>16. ASSUME NEW i \in Inspectors, SnapshotSamples(i) PROVE Goal
  BY <1>16, Zenon DEF SnapshotSamples, Phase, lockVars, mutVars
<1>17. ASSUME NEW i \in Inspectors, SnapshotFails(i) PROVE Goal
  BY <1>17, Zenon DEF SnapshotFails, Phase, lockVars, mutVars
<1>18. ASSUME NEW i \in Inspectors, OpenFails(i) PROVE Goal
  BY <1>18, Zenon DEF OpenFails, Phase, lockVars, mutVars
<1>19. ASSUME NEW i \in Inspectors, OpenParent(i) PROVE Goal
  BY <1>19, Zenon DEF OpenParent, Phase, lockVars, mutVars
<1>20. ASSUME NEW i \in Inspectors, ReadBatch(i) PROVE Goal
  BY <1>20, Zenon DEF ReadBatch, Phase, lockVars, mutVars
<1>21. ASSUME NEW i \in Inspectors, BatchDone(i) PROVE Goal
  BY <1>21, Zenon DEF BatchDone, Phase, lockVars, mutVars
<1>22. ASSUME NEW i \in Inspectors, ReadEOF(i) PROVE Goal
  BY <1>22, Zenon DEF ReadEOF, Phase, lockVars, mutVars
<1>23. ASSUME NEW i \in Inspectors, ReadFails(i) PROVE Goal
  BY <1>23, Zenon DEF ReadFails, Phase, lockVars, mutVars
<1>24. ASSUME NEW i \in Inspectors, EntryLimit(i) PROVE Goal
  BY <1>24, Zenon DEF EntryLimit, Phase, lockVars, mutVars
<1>25. ASSUME NEW i \in Inspectors, InspectReads(i) PROVE Goal
  BY <1>25, Zenon DEF InspectReads, Phase, lockVars, mutVars
<1>26. ASSUME NEW i \in Inspectors, InspectVerifies(i) PROVE Goal
  BY <1>26, Zenon DEF InspectVerifies, Phase, lockVars, mutVars
<1>27. ASSUME NEW i \in Inspectors, RevalidateParent(i) PROVE Goal
  BY <1>27, Zenon DEF RevalidateParent, Phase, lockVars, mutVars
<1>28. ASSUME NEW i \in Inspectors, CompareGeneration(i) PROVE Goal
  BY <1>28, Zenon DEF CompareGeneration, Phase, lockVars, mutVars
<1>29. ASSUME NEW i \in Inspectors, NEW n \in Names \union Plain,
             SkipPlain(i, n)
      PROVE  Goal
  BY <1>29, Zenon DEF SkipPlain, TakeEntry, Phase, lockVars, mutVars
<1>30. ASSUME NEW i \in Inspectors, NEW n \in Names \union Plain,
             CandidateLimit(i, n)
      PROVE  Goal
  BY <1>30, Zenon DEF CandidateLimit, TakeEntry, Phase, lockVars, mutVars
<1>31. ASSUME NEW i \in Inspectors, NEW n \in Names \union Plain,
             InspectOpens(i, n)
      PROVE  Goal
  BY <1>31, Zenon DEF InspectOpens, TakeEntry, Phase, lockVars, mutVars
<1>32. ASSUME NEW i \in Inspectors, NEW n \in Names \union Plain,
             InspectOpenFails(i, n)
      PROVE  Goal
  BY <1>32, Zenon DEF InspectOpenFails, TakeEntry, Phase, lockVars, mutVars
<1>33. ASSUME UNCHANGED vars PROVE Goal
  BY <1>33, Zenon DEF vars, lockVars, mutVars, scanVars
<1> QED
  BY Zenon, <1>1, <1>2, <1>3, <1>4, <1>5, <1>6, <1>7, <1>8, <1>9, <1>10, <1>11,
     <1>12, <1>13, <1>14, <1>15, <1>16, <1>17, <1>18, <1>19, <1>20,
     <1>21, <1>22, <1>23, <1>24, <1>25, <1>26, <1>27, <1>28, <1>29,
     <1>30, <1>31, <1>32, <1>33
  DEF Next, Lease, Mutate, Closing, Snapshot, Scan, LookAt

\* What holds of a scan depends on its own fields, tx and gen only; it is not
\* disturbed by a step that leaves those alone or begins or ends a lease.
LEMMA ScanUndisturbed ==
    ASSUME InventoryInv, TypeOK', NEW q \in Inspectors,
           gen' = gen \/ gen' = gen + 1, tx' = tx,
           insp'[q] = insp[q], base'[q] = base[q], stable'[q] = stable[q],
           read'[q] = read[q], batch'[q] = batch[q], cur'[q] = cur[q],
           shape'[q] = shape[q], items'[q] = items[q],
           complete'[q] = complete[q], at'[q] = at[q]
    PROVE  ScanInv(q)'
<1>1. ScanInv(q) /\ gen \in Nat /\ base[q] \in Nat
  BY Zenon DEF InventoryInv, TypeOK
<1>2. ScanShape(q)'
  BY <1>1 DEF ScanInv, ScanShape, Scanning
<1>3. ASSUME Scanning(q)', Quiet(q)' PROVE ScanTruthful(q)'
  <2>1. gen' = gen
    BY <1>1, <1>3 DEF Quiet, ScanInv, ScanShape
  <2>2. Scanning(q) /\ Quiet(q)
    BY <1>3, <2>1, Zenon DEF Scanning, Quiet
  <2> QED BY <1>1, <2>2, Zenon DEF ScanInv, ScanTruthful
<1> QED
  BY <1>1, <1>2, <1>3, Zenon DEF ScanInv, Listed

\* A namespace step happens under a lease, when no even sample is current.
LEMMA MutateStep ==
    ASSUME InventoryInv, TypeOK', NEW m \in Mutators, NEW n \in Names,
           Mutate(m, n), NEW q \in Inspectors
    PROVE  ScanInv(q)'
<1>1. /\ mut[m] = "leased"
      /\ UNCHANGED <<gen, insp, base, read, batch, cur, shape, items, scanned,
                     complete, at>>
  BY Zenon DEF Mutate, CreateTransaction, StageEntry, EntryLeaves,
         RemoveTransaction, ChangeTx, lockVars
<1>2. gen % 2 = 1
  BY <1>1, ProcessAssumption, Zenon DEF InventoryInv, LockInv
<1>3. ~Quiet(q)'
  BY <1>1, <1>2 DEF Quiet
<1> QED
  BY <1>1, <1>3, Zenon
  DEF InventoryInv, ScanInv, ScanShape, Scanning, Listed

\* Each step of an inventory adds only what is true of the sample.
LEMMA ScanStep ==
    ASSUME InventoryInv, TypeOK', NEW i \in Inspectors,
           \/ Snapshot(i) \/ Scan(i)
           \/ \E n \in Names \union Plain : LookAt(i, n)
    PROVE  ScanInv(i)'
<1>90. /\ ScanShape(i) /\ NoName \notin Names
       /\ gen \in Nat /\ base \in [Inspectors -> Nat]
       /\ insp \in [Inspectors -> InspStates]
       /\ stable \in [Inspectors -> SUBSET (Names \union Plain)]
       /\ read \in [Inspectors -> SUBSET (Names \union Plain)]
       /\ batch \in [Inspectors -> SUBSET (Names \union Plain)]
       /\ cur \in [Inspectors -> Names \union {NoName}]
       /\ shape \in [Inspectors -> TxStates]
       /\ items \in [Inspectors -> [Names -> ItemStates]]
       /\ complete \in [Inspectors -> BOOLEAN]
       /\ at \in [Inspectors -> [Names -> TxStates]]
  BY NameAssumption, Zenon DEF InventoryInv, TypeOK, ScanInv
<1>91. Scanning(i) /\ Quiet(i) => ScanTruthful(i)
  BY Zenon DEF InventoryInv, ScanInv
<1>1. ASSUME SnapshotLocks(i) PROVE ScanInv(i)'
  <2>1. ScanShape(i)'
    BY <1>1, <1>90, Zenon
    DEF SnapshotLocks, Phase, lockVars, mutVars, ScanShape
  <2>2. ASSUME Scanning(i)', Quiet(i)' PROVE ScanTruthful(i)'
    BY <1>1, <1>90, <1>91, <2>2, Zenon
    DEF SnapshotLocks, Phase, lockVars, mutVars, ScanShape, Scanning,
        Quiet, ScanTruthful
  <2> QED BY <1>1, <1>90, <2>1, <2>2, Zenon
         DEF SnapshotLocks, Phase, lockVars, mutVars, ScanInv
<1>2. ASSUME SnapshotRefused(i) PROVE ScanInv(i)'
  <2>1. ScanShape(i)'
    BY <1>2, <1>90, Zenon
    DEF SnapshotRefused, Phase, lockVars, mutVars, ScanShape
  <2>2. ASSUME Scanning(i)', Quiet(i)' PROVE ScanTruthful(i)'
    BY <1>2, <1>90, <1>91, <2>2, Zenon
    DEF SnapshotRefused, Phase, lockVars, mutVars, ScanShape, Scanning,
        Quiet, ScanTruthful
  <2> QED BY <1>2, <1>90, <2>1, <2>2, Zenon
         DEF SnapshotRefused, Phase, lockVars, mutVars, ScanInv
<1>3. ASSUME SnapshotSamples(i) PROVE ScanInv(i)'
  <2>1. ScanShape(i)'
    BY <1>3, <1>90
    DEF SnapshotSamples, Phase, lockVars, mutVars, ScanShape
  <2>2. ASSUME Scanning(i)', Quiet(i)' PROVE ScanTruthful(i)'
    BY <1>3, <1>90, <1>91, <2>2, Zenon
    DEF SnapshotSamples, Phase, lockVars, mutVars, ScanShape, Scanning,
        Quiet, ScanTruthful
  <2> QED BY <1>3, <1>90, <2>1, <2>2, Zenon
         DEF SnapshotSamples, Phase, lockVars, mutVars, ScanInv
<1>4. ASSUME SnapshotFails(i) PROVE ScanInv(i)'
  <2>1. ScanShape(i)'
    BY <1>4, <1>90, Zenon
    DEF SnapshotFails, Phase, lockVars, mutVars, ScanShape
  <2>2. ASSUME Scanning(i)', Quiet(i)' PROVE ScanTruthful(i)'
    BY <1>4, <1>90, <1>91, <2>2, Zenon
    DEF SnapshotFails, Phase, lockVars, mutVars, ScanShape, Scanning,
        Quiet, ScanTruthful
  <2> QED BY <1>4, <1>90, <2>1, <2>2, Zenon
         DEF SnapshotFails, Phase, lockVars, mutVars, ScanInv
<1>5. ASSUME OpenFails(i) PROVE ScanInv(i)'
  <2>1. ScanShape(i)'
    BY <1>5, <1>90, Zenon
    DEF OpenFails, Phase, lockVars, mutVars, ScanShape
  <2>2. ASSUME Scanning(i)', Quiet(i)' PROVE ScanTruthful(i)'
    BY <1>5, <1>90, <1>91, <2>2, Zenon
    DEF OpenFails, Phase, lockVars, mutVars, ScanShape, Scanning,
        Quiet, ScanTruthful
  <2> QED BY <1>5, <1>90, <2>1, <2>2, Zenon
         DEF OpenFails, Phase, lockVars, mutVars, ScanInv
<1>6. ASSUME OpenParent(i) PROVE ScanInv(i)'
  <2>1. ScanShape(i)'
    BY <1>6, <1>90, Zenon
    DEF OpenParent, Phase, lockVars, mutVars, ScanShape
  <2>2. ASSUME Scanning(i)', Quiet(i)' PROVE ScanTruthful(i)'
    BY <1>6, <1>90, <1>91, <2>2, Zenon
    DEF OpenParent, Phase, lockVars, mutVars, ScanShape, Scanning,
        Quiet, ScanTruthful, Present
  <2> QED BY <1>6, <1>90, <2>1, <2>2, Zenon
         DEF OpenParent, Phase, lockVars, mutVars, ScanInv
<1>7. ASSUME ReadBatch(i) PROVE ScanInv(i)'
  <2>1. ScanShape(i)'
    BY <1>7, <1>90
    DEF ReadBatch, Phase, lockVars, mutVars, ScanShape
  <2>2. ASSUME Scanning(i)', Quiet(i)' PROVE ScanTruthful(i)'
    <3>1. PICK b \in SUBSET (Present \ read[i]) :
              batch'[i] = b /\ read'[i] = read[i] \union b
      BY <1>7, <1>90, Zenon DEF ReadBatch
    <3>2. /\ insp[i] = "scanning" /\ insp'[i] = "batch"
          /\ UNCHANGED <<tx, gen, base, stable, cur, items, complete, at>>
      BY <1>7, <1>90, Zenon DEF ReadBatch, Phase, lockVars, mutVars
    <3>3. ScanTruthful(i) /\ (complete[i] => batch[i] = {}) /\ cur[i] = NoName
      BY <1>90, <1>91, <2>2, <3>2, Zenon DEF Scanning, Quiet, ScanShape
    <3>4. \A n \in Names : n \in b => tx[n] # "absent"
      BY NameAssumption, Zenon DEF Present
    <3> QED
      BY <3>1, <3>2, <3>3, <3>4, Zenon DEF ScanTruthful
  <2> QED BY <1>7, <1>90, <2>1, <2>2, Zenon
         DEF ReadBatch, Phase, lockVars, mutVars, ScanInv
<1>8. ASSUME BatchDone(i) PROVE ScanInv(i)'
  <2>1. ScanShape(i)'
    BY <1>8, <1>90, Zenon
    DEF BatchDone, Phase, lockVars, mutVars, ScanShape
  <2>2. ASSUME Scanning(i)', Quiet(i)' PROVE ScanTruthful(i)'
    BY <1>8, <1>90, <1>91, <2>2, Zenon
    DEF BatchDone, Phase, lockVars, mutVars, ScanShape, Scanning,
        Quiet, ScanTruthful
  <2> QED BY <1>8, <1>90, <2>1, <2>2, Zenon
         DEF BatchDone, Phase, lockVars, mutVars, ScanInv
<1>9. ASSUME ReadEOF(i) PROVE ScanInv(i)'
  <2>1. ScanShape(i)'
    BY <1>9, <1>90, Zenon
    DEF ReadEOF, Phase, lockVars, mutVars, ScanShape
  <2>2. ASSUME Scanning(i)', Quiet(i)' PROVE ScanTruthful(i)'
    BY <1>9, <1>90, <1>91, <2>2, Zenon
    DEF ReadEOF, Phase, lockVars, mutVars, ScanShape, Scanning,
        Quiet, ScanTruthful
  <2> QED BY <1>9, <1>90, <2>1, <2>2, Zenon
         DEF ReadEOF, Phase, lockVars, mutVars, ScanInv
<1>10. ASSUME ReadFails(i) PROVE ScanInv(i)'
  <2>1. ScanShape(i)'
    BY <1>10, <1>90, Zenon
    DEF ReadFails, Phase, lockVars, mutVars, ScanShape
  <2>2. ASSUME Scanning(i)', Quiet(i)' PROVE ScanTruthful(i)'
    BY <1>10, <1>90, <1>91, <2>2, Zenon
    DEF ReadFails, Phase, lockVars, mutVars, ScanShape, Scanning,
        Quiet, ScanTruthful
  <2> QED BY <1>10, <1>90, <2>1, <2>2, Zenon
         DEF ReadFails, Phase, lockVars, mutVars, ScanInv
<1>11. ASSUME EntryLimit(i) PROVE ScanInv(i)'
  <2>1. ScanShape(i)'
    BY <1>11, <1>90, Zenon
    DEF EntryLimit, Phase, lockVars, mutVars, ScanShape
  <2>2. ASSUME Scanning(i)', Quiet(i)' PROVE ScanTruthful(i)'
    BY <1>11, <1>90, <1>91, <2>2, Zenon
    DEF EntryLimit, Phase, lockVars, mutVars, ScanShape, Scanning,
        Quiet, ScanTruthful
  <2> QED BY <1>11, <1>90, <2>1, <2>2, Zenon
         DEF EntryLimit, Phase, lockVars, mutVars, ScanInv
<1>12. ASSUME InspectReads(i) PROVE ScanInv(i)'
  <2>1. ScanShape(i)'
    BY <1>12, <1>90, Zenon
    DEF InspectReads, Phase, lockVars, mutVars, ScanShape
  <2>2. ASSUME Scanning(i)', Quiet(i)' PROVE ScanTruthful(i)'
    BY <1>12, <1>90, <1>91, <2>2, Zenon
    DEF InspectReads, Phase, lockVars, mutVars, ScanShape, Scanning,
        Quiet, ScanTruthful
  <2> QED BY <1>12, <1>90, <2>1, <2>2, Zenon
         DEF InspectReads, Phase, lockVars, mutVars, ScanInv
<1>13. ASSUME InspectVerifies(i) PROVE ScanInv(i)'
  <2>1. ScanShape(i)'
    BY <1>13, <1>90, Zenon
    DEF InspectVerifies, Phase, lockVars, mutVars, ScanShape
  <2>2. ASSUME Scanning(i)', Quiet(i)' PROVE ScanTruthful(i)'
    <3>1. /\ insp[i] = "read" /\ insp'[i] = "batch" /\ cur[i] \in Names
          /\ cur[i] \in read[i] /\ cur'[i] = NoName
          /\ UNCHANGED <<tx, gen, base, stable, read, batch, complete, at>>
      BY <1>13, <1>90, Zenon DEF InspectVerifies, Phase, lockVars, mutVars,
         ScanShape
    <3>2. ScanTruthful(i)
      BY <1>91, <2>2, <3>1, Zenon DEF Scanning, Quiet
    <3>3. PICK o \in {"unverified", at[i][cur[i]]} :
             /\ items'[i] = [items[i] EXCEPT ![cur[i]] = o]
             /\ o # "unseen"
      <4>1. /\ items' = [items EXCEPT ![i][cur[i]] = "unverified"]
            \/ items' = [items EXCEPT ![i][cur[i]] = shape[i]]
        BY <1>13, Zenon DEF InspectVerifies
      <4>2. shape[i] = at[i][cur[i]] /\ shape[i] # "unseen"
        BY <1>90, <3>1, <3>2, Zenon DEF ScanTruthful, TxStates
      <4> QED BY <1>90, <4>1, <4>2, Zenon
    <3>4. items[i] \in [Names -> ItemStates]
      BY <1>90, Zenon
    <3> QED
      BY <3>1, <3>2, <3>3, <3>4 DEF ScanTruthful
  <2> QED BY <1>13, <1>90, <2>1, <2>2, Zenon
         DEF InspectVerifies, Phase, lockVars, mutVars, ScanInv
<1>14. ASSUME RevalidateParent(i) PROVE ScanInv(i)'
  <2>1. ScanShape(i)'
    BY <1>14, <1>90, Zenon
    DEF RevalidateParent, Phase, lockVars, mutVars, ScanShape
  <2>2. ASSUME Scanning(i)', Quiet(i)' PROVE ScanTruthful(i)'
    BY <1>14, <1>90, <1>91, <2>2, Zenon
    DEF RevalidateParent, Phase, lockVars, mutVars, ScanShape, Scanning,
        Quiet, ScanTruthful
  <2> QED BY <1>14, <1>90, <2>1, <2>2, Zenon
         DEF RevalidateParent, Phase, lockVars, mutVars, ScanInv
<1>15. ASSUME CompareGeneration(i) PROVE ScanInv(i)'
  <2>1. ScanShape(i)'
    BY <1>15, <1>90, Zenon
    DEF CompareGeneration, Phase, lockVars, mutVars, ScanShape
  <2>2. ASSUME Scanning(i)', Quiet(i)' PROVE ScanTruthful(i)'
    BY <1>15, <1>90, <1>91, <2>2, Zenon
    DEF CompareGeneration, Phase, lockVars, mutVars, ScanShape, Scanning,
        Quiet, ScanTruthful
  <2>3. ASSUME insp'[i] = "done", complete'[i] PROVE Listed(i)'
    <3>1. /\ insp[i] = "compare" /\ UNCHANGED <<items, at>>
          /\ complete'[i] = (/\ complete[i] /\ base[i] % 2 = 0
                              /\ gen = base[i] /\ gen % 2 = 0)
      BY <1>15, <1>90, Zenon DEF CompareGeneration, Phase, lockVars, mutVars
    <3>2. complete[i] /\ Quiet(i)
      BY <2>3, <3>1, Zenon DEF Quiet
    <3>3. ScanTruthful(i) /\ batch[i] = {} /\ cur[i] = NoName
      BY <1>90, <1>91, <3>1, <3>2, Zenon DEF Scanning, ScanShape
    <3>4. at[i] \in [Names -> TxStates]
      BY <1>90, Zenon
    <3> QED
      BY <1>90, <3>1, <3>2, <3>3, <3>4, Zenon DEF ScanTruthful, Listed, TxStates
  <2> QED BY <2>1, <2>2, <2>3, Zenon DEF ScanInv
<1>16. ASSUME NEW n \in Names \union Plain, SkipPlain(i, n) PROVE ScanInv(i)'
  <2>1. ScanShape(i)'
    BY <1>16, <1>90, Zenon
    DEF SkipPlain, TakeEntry, Phase, lockVars, mutVars, ScanShape
  <2>2. ASSUME Scanning(i)', Quiet(i)' PROVE ScanTruthful(i)'
    BY <1>16, <1>90, <1>91, <2>2, NameAssumption, Zenon
    DEF SkipPlain, TakeEntry, Phase, lockVars, mutVars, ScanShape, Scanning,
        Quiet, ScanTruthful
  <2> QED BY <1>16, <1>90, <2>1, <2>2, Zenon
         DEF SkipPlain, TakeEntry, Phase, lockVars, mutVars, ScanInv
<1>17. ASSUME NEW n \in Names \union Plain, CandidateLimit(i, n) PROVE ScanInv(i)'
  <2>1. ScanShape(i)'
    BY <1>17, <1>90, Zenon
    DEF CandidateLimit, TakeEntry, Phase, lockVars, mutVars, ScanShape
  <2>2. ASSUME Scanning(i)', Quiet(i)' PROVE ScanTruthful(i)'
    BY <1>17, <1>90, <1>91, <2>2, Zenon
    DEF CandidateLimit, TakeEntry, Phase, lockVars, mutVars, ScanShape, Scanning,
        Quiet, ScanTruthful
  <2> QED BY <1>17, <1>90, <2>1, <2>2, Zenon
         DEF CandidateLimit, TakeEntry, Phase, lockVars, mutVars, ScanInv
<1>18. ASSUME NEW n \in Names \union Plain, InspectOpens(i, n) PROVE ScanInv(i)'
  <2>1. ScanShape(i)'
    BY <1>18, <1>90, Zenon
    DEF InspectOpens, TakeEntry, Phase, lockVars, mutVars, ScanShape
  <2>2. ASSUME Scanning(i)', Quiet(i)' PROVE ScanTruthful(i)'
    <3>1. /\ insp[i] = "batch" /\ insp'[i] = "opened" /\ n \in Names
          /\ cur'[i] = n /\ batch'[i] = batch[i] \ {n}
          /\ UNCHANGED <<tx, gen, base, stable, read, shape, items, complete, at>>
      BY <1>18, <1>90, Zenon DEF InspectOpens, TakeEntry, Phase, lockVars, mutVars
    <3>2. ScanTruthful(i) /\ cur[i] = NoName
      BY <1>90, <1>91, <2>2, <3>1, Zenon DEF Scanning, Quiet, ScanShape
    <3> QED BY <1>90, <3>1, <3>2, Zenon DEF ScanTruthful
  <2> QED BY <1>18, <1>90, <2>1, <2>2, Zenon
         DEF InspectOpens, TakeEntry, Phase, lockVars, mutVars, ScanInv
<1>19. ASSUME NEW n \in Names \union Plain, InspectOpenFails(i, n) PROVE ScanInv(i)'
  <2>1. ScanShape(i)'
    BY <1>19, <1>90, Zenon
    DEF InspectOpenFails, TakeEntry, Phase, lockVars, mutVars, ScanShape
  <2>2. ASSUME Scanning(i)', Quiet(i)' PROVE ScanTruthful(i)'
    BY <1>19, <1>90, <1>91, <2>2, Zenon
    DEF InspectOpenFails, TakeEntry, Phase, lockVars, mutVars, ScanShape, Scanning,
        Quiet, ScanTruthful
  <2> QED BY <1>19, <1>90, <2>1, <2>2, Zenon
         DEF InspectOpenFails, TakeEntry, Phase, lockVars, mutVars, ScanInv
<1> QED
  BY <1>1, <1>2, <1>3, <1>4, <1>5, <1>6, <1>7, <1>8, <1>9, <1>10, <1>11,
     <1>12, <1>13, <1>14, <1>15, <1>16, <1>17, <1>18, <1>19
  DEF Snapshot, Scan, LookAt

LEMMA InventoryInit == Init => InventoryInv
<1> SUFFICES ASSUME Init PROVE InventoryInv
  BY Zenon
<1>1. TypeOK
  BY Zenon DEF Init, TypeOK, TxStates, MutStates, CloserStates, InspStates,
         ItemStates
<1>2. LockInv /\ LeaseOnOpenRoots
  BY ProcessAssumption DEF Init, LockInv, LeaseOnOpenRoots
<1>3. \A i \in Inspectors : ScanInv(i)
  BY DEF Init, ScanInv, ScanShape, Scanning
<1> QED BY <1>1, <1>2, <1>3, Zenon DEF InventoryInv

LEMMA InventoryStep == InventoryInv /\ [Next]_vars => InventoryInv'
<1> SUFFICES ASSUME InventoryInv, [Next]_vars PROVE InventoryInv'
  BY Zenon
<1>1. TypeOK'
  BY TypeStep, Zenon
<1>2. LockInv' /\ LeaseOnOpenRoots'
  BY LockStep, Zenon
<1>3. ASSUME NEW q \in Inspectors PROVE ScanInv(q)'
  <2>1. ASSUME NEW m \in Mutators, Lease(m) PROVE ScanInv(q)'
    BY <1>1, <2>1, ScanUndisturbed, Zenon
    DEF Lease, LockMutation, BeginLease, LeaseRefused, ReadUnderLease,
        ReadReturns, ReleaseLease, scanVars
  <2>2. ASSUME NEW m \in Mutators, NEW n \in Names, Mutate(m, n)
        PROVE  ScanInv(q)'
    BY <1>1, <2>2, MutateStep, Zenon
  <2>3. ASSUME Closing PROVE ScanInv(q)'
    BY <1>1, <2>3, ScanUndisturbed, Zenon
    DEF Closing, CloseLocks, CloseMarks, CloseReleases, mutVars, scanVars
  <2>4. ASSUME NEW i \in Inspectors,
               \/ Snapshot(i) \/ Scan(i)
               \/ \E n \in Names \union Plain : LookAt(i, n)
        PROVE  ScanInv(q)'
    <3>1. CASE q = i
      BY <1>1, <2>4, <3>1, ScanStep, Zenon
    <3>2. CASE q # i
      <4> DEFINE Untouched ==
            /\ UNCHANGED <<gen, tx>>
            /\ insp'[q] = insp[q] /\ base'[q] = base[q]
            /\ stable'[q] = stable[q] /\ read'[q] = read[q]
            /\ batch'[q] = batch[q] /\ cur'[q] = cur[q]
            /\ shape'[q] = shape[q] /\ items'[q] = items[q]
            /\ complete'[q] = complete[q] /\ at'[q] = at[q]
      <4>1. Untouched
        <5>1. CASE Snapshot(i)
          BY <3>2, <5>1, Zenon
          DEF Snapshot, SnapshotLocks, SnapshotRefused, SnapshotSamples,
              SnapshotFails, Phase, lockVars, mutVars, InventoryInv, TypeOK
        <5>2. CASE Scan(i)
          <6>1. CASE OpenFails(i) \/ OpenParent(i) \/ ReadBatch(i) \/ BatchDone(i)
            BY <3>2, <6>1, Zenon DEF OpenFails, OpenParent, ReadBatch, BatchDone, Phase,
                              lockVars, mutVars, InventoryInv, TypeOK
          <6>2. CASE ReadEOF(i) \/ ReadFails(i) \/ EntryLimit(i) \/ InspectReads(i)
            BY <3>2, <6>2, Zenon DEF ReadEOF, ReadFails, EntryLimit, InspectReads, Phase,
                              lockVars, mutVars, InventoryInv, TypeOK
          <6>3. CASE \/ InspectVerifies(i) \/ RevalidateParent(i)
                     \/ CompareGeneration(i)
            BY <3>2, <6>3, Zenon DEF InspectVerifies, RevalidateParent, CompareGeneration,
                              Phase, lockVars, mutVars, InventoryInv, TypeOK
          <6> QED BY <5>2, <6>1, <6>2, <6>3, Zenon DEF Scan
        <5>3. ASSUME NEW n \in Names \union Plain, LookAt(i, n)
              PROVE  Untouched
          BY <3>2, <5>3, Zenon
          DEF LookAt, SkipPlain, CandidateLimit, InspectOpens,
              InspectOpenFails, TakeEntry, Phase, lockVars, mutVars,
              InventoryInv, TypeOK
        <5> QED BY <2>4, <5>1, <5>2, <5>3, Zenon
      <4> QED BY <1>1, <4>1, ScanUndisturbed, Zenon
    <3> QED BY <3>1, <3>2, Zenon
  <2>5. ASSUME UNCHANGED vars PROVE ScanInv(q)'
    BY <1>1, <2>5, ScanUndisturbed, Zenon DEF vars, lockVars, mutVars, scanVars
  <2> QED BY <2>1, <2>2, <2>3, <2>4, <2>5, Zenon DEF Next
<1> QED BY <1>1, <1>2, <1>3, Zenon DEF InventoryInv

\* InventoryInv is an invariant of leases, Close and inventories.
THEOREM InventoryInvariant == Spec => []InventoryInv
<1>1. Init => InventoryInv
  BY InventoryInit, Zenon
<1>2. InventoryInv /\ [Next]_vars => InventoryInv'
  BY InventoryStep, Zenon
<1> QED BY <1>1, <1>2, PTL DEF Spec

\* A complete result of InventoryManagedTransferTransactions is a snapshot of
\* the directory, whatever the mutators did while it was being read.
THEOREM CompleteInventoryIsSnapshot == Spec => []CompleteIsSnapshot
<1>1. InventoryInv => CompleteIsSnapshot
  BY Zenon DEF InventoryInv, ScanInv, CompleteIsSnapshot
<1> QED BY <1>1, InventoryInvariant, PTL

\* The parity of mutationGeneration tells whether a mutation is in flight,
\* and no lease of AcquireMutation spans Close.
THEOREM LeaseDiscipline == Spec => [](OddWhileMutating /\ LeaseOnOpenRoots)
<1>1. InventoryInv => OddWhileMutating /\ LeaseOnOpenRoots
  BY ProcessAssumption, Zenon
  DEF InventoryInv, TypeOK, LockInv, OddWhileMutating, LeaseOnOpenRoots,
      MutStates
<1> QED BY <1>1, InventoryInvariant, PTL

\* The step that answers "complete" finds the directory as it was sampled,
\* with no mutation in flight.
THEOREM CompleteNotOvertaken == Spec => OvertakenIsIncomplete
<1>1. ASSUME InventoryInv, Next, NEW i \in Inspectors,
             insp[i] = "compare", insp'[i] = "done", complete'[i]
      PROVE  /\ tx = at[i]
             /\ mutMu \in {NoOne} \union {m \in Mutators : mut[m] = "locked"}
  <2>1. CompareGeneration(i)
    <3>1. ASSUME NEW m \in Mutators, Lease(m) PROVE FALSE
      BY <1>1, <3>1, Zenon
      DEF Lease, LockMutation, BeginLease, LeaseRefused, ReadUnderLease,
          ReadReturns, ReleaseLease, scanVars
    <3>2. ASSUME NEW m \in Mutators, NEW n \in Names, Mutate(m, n) PROVE FALSE
      BY <1>1, <3>2, Zenon
      DEF Mutate, CreateTransaction, StageEntry, EntryLeaves,
          RemoveTransaction, ChangeTx
    <3>3. ASSUME Closing PROVE FALSE
      BY <1>1, <3>3, Zenon
      DEF Closing, CloseLocks, CloseMarks, CloseReleases, scanVars
    <3>4. ASSUME NEW j \in Inspectors, Snapshot(j) PROVE FALSE
      BY <1>1, <3>4, Zenon
      DEF Snapshot, SnapshotLocks, SnapshotRefused, SnapshotSamples,
          SnapshotFails, Phase, InventoryInv, TypeOK
    <3>5. ASSUME NEW j \in Inspectors, Scan(j) PROVE CompareGeneration(i)
      BY <1>1, <3>5, Zenon
      DEF Scan, OpenFails, OpenParent, ReadBatch, BatchDone, ReadEOF,
          ReadFails, EntryLimit, InspectReads, InspectVerifies,
          RevalidateParent, CompareGeneration, Phase, InventoryInv, TypeOK
    <3>6. ASSUME NEW j \in Inspectors, NEW n \in Names \union Plain, LookAt(j, n)
          PROVE  FALSE
      BY <1>1, <3>6, Zenon
      DEF LookAt, SkipPlain, CandidateLimit, InspectOpens, InspectOpenFails,
          Phase, InventoryInv, TypeOK
    <3> QED BY <1>1, <3>1, <3>2, <3>3, <3>4, <3>5, <3>6, Zenon DEF Next
  <2>2. Quiet(i) /\ gen % 2 = 0
    BY <1>1, <2>1, Zenon DEF CompareGeneration, Quiet, InventoryInv, TypeOK
  <2>3. tx = at[i]
    BY <1>1, <2>2, Zenon DEF InventoryInv, ScanInv, Scanning, ScanTruthful
  <2>4. mutMu = NoOne \/ \E m \in Mutators : mut[m] = "locked"
    BY <1>1, <2>2 DEF InventoryInv, LockInv
  <2> QED BY <1>1, <2>3, <2>4, Zenon DEF InventoryInv, LockInv
<1>2. InventoryInv /\ [Next]_vars =>
        [\A i \in Inspectors :
            insp[i] = "compare" /\ insp'[i] = "done" /\ complete'[i]
               => tx = at[i] /\ mutMu \in {NoOne} \union
                                  {m \in Mutators : mut[m] = "locked"}]_vars
  BY <1>1, Zenon
<1> QED BY <1>2, InventoryInvariant, PTL DEF Spec, OvertakenIsIncomplete
=============================================================================

--------------------------- MODULE PortalProofs -----------------------------
(***************************************************************************)
(* Proofs about the public file portal, for any number of workers,         *)
(* requests, connections and bytes: the pool of storage workers and the    *)
(* service in front of it.                                                 *)
(***************************************************************************)
EXTENDS StorageWorkers, PortalService, FiniteSetTheorems, TLAPS

(***************************************************************************)
(* The worker pool of StorageWorkers keeps its documented bound for every  *)
(* capacity, every quarantine limit and every finite set of requests.      *)
(*                                                                         *)
(* UnreapedBound is not inductive.  The argument is about the step that    *)
(* takes a slot: the children that gave their slot back but still run      *)
(* (Unlinked) were all counted by m.quarantine before they could leave     *)
(* m.workers, and none can leave m.workers while the admitting handler     *)
(* holds m.mu.  PoolInv carries that, with the counters read as            *)
(* cardinalities of the sets of processes they count.                      *)
(***************************************************************************)
\* All the sets of requests the invariant counts are finite.
LEMMA SetsFinite ==
    /\ IsFiniteSet(Counted) /\ IsFiniteSet(SlotHolders)
    /\ IsFiniteSet(Unlinked) /\ IsFiniteSet(Liable) /\ IsFiniteSet(Unreaped)
BY RequestsAssumption, FS_Subset, Zenon
   DEF Counted, SlotHolders, Unlinked, Liable, Unreaped

\* Adding an element to a finite set, or removing one, changes its cardinality
\* by one.
LEMMA AddOne ==
    ASSUME NEW S, NEW T, NEW x, IsFiniteSet(S), T = S \union {x}, x \notin S
    PROVE  Cardinality(T) = Cardinality(S) + 1
BY FS_AddElement, Zenon

LEMMA RemoveOne ==
    ASSUME NEW S, NEW T, NEW x, IsFiniteSet(S), T = S \ {x}, x \in S
    PROVE  Cardinality(T) = Cardinality(S) - 1
BY FS_RemoveElement, Zenon

LEMMA Smaller ==
    ASSUME NEW S, NEW T, IsFiniteSet(S), T \subseteq S
    PROVE  /\ Cardinality(T) <= Cardinality(S)
           /\ Cardinality(T) \in Nat /\ Cardinality(S) \in Nat
BY FS_Subset, FS_CardinalityType, Zenon

LEMMA UnionAtMost ==
    ASSUME NEW S, NEW T, IsFiniteSet(S), IsFiniteSet(T)
    PROVE  /\ IsFiniteSet(S \union T)
           /\ Cardinality(S \union T) <= Cardinality(S) + Cardinality(T)
<1>1. IsFiniteSet(S \intersect T)
  BY FS_Subset, Zenon
<1>2. /\ Cardinality(S) \in Nat /\ Cardinality(T) \in Nat
      /\ Cardinality(S \intersect T) \in Nat
  BY <1>1, FS_CardinalityType, Zenon
<1>3. /\ IsFiniteSet(S \union T)
      /\ Cardinality(S \union T)
           = Cardinality(S) + Cardinality(T) - Cardinality(S \intersect T)
  BY FS_Union, Zenon
<1> QED BY <1>2, <1>3

\* No process runs, holds a slot or is counted before the first request.
LEMMA PoolInit == Init => PoolInv
<1> SUFFICES ASSUME Init PROVE PoolInv
  BY Zenon
<1>1. FieldTypes /\ quarantine \in Nat /\ slots \in Nat
  BY Zenon DEF Init, FieldTypes, ReqStates, ChildStates, AbortStates, ReapStates,
         RelStates
<1>2. \A r \in Requests : Coherent(r)
  BY RequestsAssumption, Zenon DEF Init, Coherent
<1>3. Counted = {} /\ SlotHolders = {} /\ Unlinked = {} /\ Liable = {}
  BY Zenon DEF Init, Counted, SlotHolders, HoldsSlot, Unlinked, Liable
<1>4. \A r \in Requests : req[r] # "checked"
  BY Zenon DEF Init
<1> QED
  BY <1>1, <1>2, <1>3, <1>4, FS_EmptySet, MaxActiveAssumption,
     QuarantineAssumption
  DEF Init, PoolInv, TypeOK, SlotAccounting

\* The goroutines of every request stay coherent with each other, whichever
\* of them, or of another request's, takes the step.
LEMMA LocalStep ==
    ASSUME PoolInv, [Next]_vars
    PROVE  FieldTypes' /\ \A q \in Requests : Coherent(q)'
<1> DEFINE Goal == FieldTypes' /\ \A q \in Requests : Coherent(q)'
<1> USE RequestsAssumption
    DEF PoolInv, TypeOK, FieldTypes, Coherent, ReqStates, ChildStates,
        AbortStates, ReapStates, RelStates
<1>1. ASSUME NEW r \in Requests, ContextExpired(r) PROVE Goal
  BY <1>1 DEF ContextExpired, GoTo, poolVars
<1>2. ASSUME NEW r \in Requests, CheckAdmission(r) PROVE Goal
  BY <1>2 DEF CheckAdmission, GoTo, poolVars
<1>3. ASSUME NEW r \in Requests, RefuseAdmission(r) PROVE Goal
  BY <1>3 DEF RefuseAdmission, GoTo, poolVars
<1>4. ASSUME NEW r \in Requests, TakeSlot(r) PROVE Goal
  BY <1>4 DEF TakeSlot, GoTo, poolVars
<1>5. ASSUME NEW r \in Requests, SlotsFull(r) PROVE Goal
  BY <1>5 DEF SlotsFull, GoTo, poolVars
<1>6. ASSUME NEW r \in Requests, StartFails(r) PROVE Goal
  BY <1>6 DEF StartFails, GoTo, poolVars
<1>7. ASSUME NEW r \in Requests, StartProcess(r) PROVE Goal
  BY <1>7 DEF StartProcess, GoTo, poolVars
<1>8. ASSUME NEW r \in Requests, Register(r) PROVE Goal
  BY <1>8 DEF Register, GoTo, poolVars
<1>9. ASSUME NEW r \in Requests, RejectStarted(r) PROVE Goal
  BY <1>9 DEF RejectStarted, GoTo, poolVars
<1>10. ASSUME NEW r \in Requests, LockRoot(r) PROVE Goal
  BY <1>10 DEF LockRoot, GoTo, poolVars
<1>11. ASSUME NEW r \in Requests, SendRoot(r) PROVE Goal
  BY <1>11 DEF SendRoot, GoTo, poolVars
<1>12. ASSUME NEW r \in Requests, Respond(r) PROVE Goal
  BY <1>12 DEF Respond, GoTo, poolVars
<1>13. ASSUME NEW r \in Requests, FinishNormally(r) PROVE Goal
  BY <1>13 DEF FinishNormally, GoTo, poolVars
<1>14. ASSUME NEW r \in Requests, HandlerAborts(r) PROVE Goal
  BY <1>14 DEF HandlerAborts, GoTo, poolVars, EnterAbort
<1>15. ASSUME NEW r \in Requests, HandlerReturns(r) PROVE Goal
  BY <1>15 DEF HandlerReturns, GoTo, poolVars
<1>16. ASSUME NEW r \in Requests, ContextAborts(r) PROVE Goal
  BY <1>16 DEF ContextAborts, poolVars, EnterAbort
<1>17. ASSUME NEW r \in Requests, AbortFindsFinished(r) PROVE Goal
  BY <1>17 DEF AbortFindsFinished, poolVars
<1>18. ASSUME NEW r \in Requests, AbortQuarantines(r) PROVE Goal
  BY <1>18 DEF AbortQuarantines, poolVars
<1>19. ASSUME NEW r \in Requests, SignalAccepted(r) PROVE Goal
  BY <1>19 DEF SignalAccepted, poolVars
<1>20. ASSUME NEW r \in Requests, SignalFails(r) PROVE Goal
  BY <1>20 DEF SignalFails, poolVars
<1>21. ASSUME NEW r \in Requests, ReleaseUnlinks(r) PROVE Goal
  BY <1>21 DEF ReleaseUnlinks, poolVars
<1>22. ASSUME NEW r \in Requests, ReleaseSlot(r) PROVE Goal
  BY <1>22 DEF ReleaseSlot, poolVars
<1>23. ASSUME NEW r \in Requests, WaitReturns(r) PROVE Goal
  BY <1>23 DEF WaitReturns, poolVars
<1>24. ASSUME NEW r \in Requests, ReapLocks(r) PROVE Goal
  BY <1>24 DEF ReapLocks, poolVars
<1>25. ASSUME NEW r \in Requests, ReapLeavesQuarantine(r) PROVE Goal
  BY <1>25 DEF ReapLeavesQuarantine, poolVars
<1>26. ASSUME NEW r \in Requests, CloseAborts(r) PROVE Goal
  BY <1>26 DEF CloseAborts, poolVars, EnterAbort
<1>27. ASSUME Close PROVE Goal
  BY <1>27 DEF Close, procVars
<1>28. ASSUME CloseAborted PROVE Goal
  BY <1>28 DEF CloseAborted, procVars
<1>29. ASSUME CloseRoot PROVE Goal
  BY <1>29 DEF CloseRoot, procVars
<1>30. ASSUME UNCHANGED vars PROVE Goal
  BY <1>30 DEF vars, poolVars, procVars
<1> QED
  BY Zenon, <1>1, <1>2, <1>3, <1>4, <1>5, <1>6, <1>7, <1>8, <1>9, <1>10, <1>11,
     <1>12, <1>13, <1>14, <1>15, <1>16, <1>17, <1>18, <1>19, <1>20,
     <1>21, <1>22, <1>23, <1>24, <1>25, <1>26, <1>27, <1>28, <1>29,
     <1>30
  DEF Next, Handler, Aborter, Releaser, Reaper, Closer

\* m.quarantine counts the processes that entered quarantine under p.mu and
\* have not left it.
LEMMA QuarantineStep ==
    ASSUME PoolInv, [Next]_vars
    PROVE  quarantine' = Cardinality(Counted')
<1> DEFINE Goal == quarantine' = Cardinality(Counted')
<1>1. CASE UNCHANGED <<quarantine, quarantined, reap>>
  BY <1>1, Zenon DEF Counted, PoolInv
<1>2. ASSUME NEW r \in Requests, AbortQuarantines(r) PROVE Goal
  <2>1. Counted' = Counted \union {r} /\ r \notin Counted
    BY <1>2 DEF AbortQuarantines, Counted, PoolInv, TypeOK, FieldTypes, Coherent
  <2>2. quarantine' = quarantine + 1 /\ quarantine = Cardinality(Counted)
    BY <1>2, Zenon DEF AbortQuarantines, PoolInv
  <2> QED BY <2>1, <2>2, AddOne, SetsFinite
<1>3. ASSUME NEW r \in Requests, ReapLeavesQuarantine(r) PROVE Goal
  <2>1. Counted' = Counted \ {r} /\ r \in Counted
    BY <1>3, Zenon DEF ReapLeavesQuarantine, Counted, PoolInv, TypeOK, FieldTypes,
                Coherent
  <2>2. quarantine' = quarantine - 1 /\ quarantine = Cardinality(Counted)
    BY <1>3, Zenon DEF ReapLeavesQuarantine, PoolInv
  <2> QED BY <2>1, <2>2, RemoveOne, SetsFinite, Zenon
<1>4. ASSUME NEW r \in Requests,
             Register(r) \/ RejectStarted(r) \/ WaitReturns(r) \/ ReapLocks(r)
      PROVE  Goal
  <2>1. Counted' = Counted /\ quarantine' = quarantine
    BY <1>4 DEF Register, RejectStarted, WaitReturns, ReapLocks, Counted,
                poolVars, PoolInv, TypeOK, FieldTypes, Coherent
  <2> QED BY <2>1, Zenon DEF PoolInv
<1>5. ASSUME NEW r \in Requests, Handler(r), ~Register(r), ~RejectStarted(r)
      PROVE  UNCHANGED <<quarantine, quarantined, reap>>
  BY <1>5, Zenon DEF Handler, ContextExpired, CheckAdmission, RefuseAdmission, TakeSlot, SlotsFull,
              StartFails, StartProcess, LockRoot, SendRoot, Respond,
              FinishNormally, HandlerAborts, HandlerReturns, poolVars
<1>6. ASSUME NEW r \in Requests,
             \/ ContextAborts(r) \/ AbortFindsFinished(r) \/ SignalAccepted(r)
             \/ SignalFails(r)
             \/ Releaser(r) \/ CloseAborts(r)
      PROVE  UNCHANGED <<quarantine, quarantined, reap>>
  BY <1>6, Zenon DEF ContextAborts, AbortFindsFinished, SignalAccepted,
              SignalFails, Releaser, ReleaseUnlinks, ReleaseSlot, CloseAborts, poolVars
<1>7. ASSUME Close \/ CloseAborted \/ CloseRoot \/ UNCHANGED vars
      PROVE  UNCHANGED <<quarantine, quarantined, reap>>
  BY <1>7, Zenon DEF Close, CloseAborted, CloseRoot, vars, poolVars, procVars
<1> QED
  BY <1>1, <1>2, <1>3, <1>4, <1>5, <1>6, <1>7, Zenon
  DEF Next, Aborter, Reaper, Closer

\* What a step does to the slots, to the released children and to the
\* requests that have or may get a child, apart from the four steps that
\* touch them.
Neutral ==
    /\ slots' = slots
    /\ SlotHolders' = SlotHolders
    /\ Unlinked' \subseteq Unlinked
    /\ Liable' \subseteq Liable

LEMMA NeutralSteps ==
    ASSUME PoolInv, [Next]_vars,
           \A r \in Requests : ~TakeSlot(r) /\ ~StartFails(r)
                              /\ ~ReleaseUnlinks(r) /\ ~ReleaseSlot(r)
    PROVE  Neutral
<1> USE DEF PoolInv, TypeOK, FieldTypes, Coherent, Neutral, SlotHolders,
            HoldsSlot, Unlinked, Liable
<1>1. ASSUME NEW r \in Requests, ContextExpired(r) PROVE Neutral
  BY <1>1 DEF ContextExpired, GoTo, poolVars
<1>2. ASSUME NEW r \in Requests, CheckAdmission(r) PROVE Neutral
  BY <1>2 DEF CheckAdmission, GoTo, poolVars
<1>3. ASSUME NEW r \in Requests, RefuseAdmission(r) PROVE Neutral
  BY <1>3 DEF RefuseAdmission, GoTo, poolVars
<1>4. ASSUME NEW r \in Requests, SlotsFull(r) PROVE Neutral
  BY <1>4 DEF SlotsFull, GoTo, poolVars
<1>5. ASSUME NEW r \in Requests, StartProcess(r) PROVE Neutral
  BY <1>5 DEF StartProcess, GoTo, poolVars
<1>6. ASSUME NEW r \in Requests, Register(r) PROVE Neutral
  BY <1>6 DEF Register, GoTo, poolVars
<1>7. ASSUME NEW r \in Requests, RejectStarted(r) PROVE Neutral
  BY <1>7 DEF RejectStarted, GoTo, poolVars
<1>8. ASSUME NEW r \in Requests, LockRoot(r) PROVE Neutral
  BY <1>8 DEF LockRoot, GoTo, poolVars
<1>9. ASSUME NEW r \in Requests, SendRoot(r) PROVE Neutral
  BY <1>9 DEF SendRoot, GoTo, poolVars
<1>10. ASSUME NEW r \in Requests, Respond(r) PROVE Neutral
  BY <1>10 DEF Respond, GoTo, poolVars
<1>11. ASSUME NEW r \in Requests, FinishNormally(r) PROVE Neutral
  BY <1>11 DEF FinishNormally, GoTo, poolVars
<1>12. ASSUME NEW r \in Requests, HandlerAborts(r) PROVE Neutral
  BY <1>12 DEF HandlerAborts, GoTo, poolVars, EnterAbort
<1>13. ASSUME NEW r \in Requests, HandlerReturns(r) PROVE Neutral
  BY <1>13 DEF HandlerReturns, GoTo, poolVars
<1>14. ASSUME NEW r \in Requests, ContextAborts(r) PROVE Neutral
  BY <1>14, Zenon DEF ContextAborts, poolVars, EnterAbort
<1>15. ASSUME NEW r \in Requests, AbortFindsFinished(r) PROVE Neutral
  BY <1>15, Zenon DEF AbortFindsFinished, poolVars
<1>16. ASSUME NEW r \in Requests, AbortQuarantines(r) PROVE Neutral
  BY <1>16, Zenon DEF AbortQuarantines, poolVars
<1>17. ASSUME NEW r \in Requests, SignalAccepted(r) PROVE Neutral
  BY <1>17, Zenon DEF SignalAccepted, poolVars
<1>18. ASSUME NEW r \in Requests, SignalFails(r) PROVE Neutral
  BY <1>18, Zenon DEF SignalFails, poolVars
<1>19. ASSUME NEW r \in Requests, WaitReturns(r) PROVE Neutral
  BY <1>19 DEF WaitReturns, poolVars
<1>20. ASSUME NEW r \in Requests, ReapLocks(r) PROVE Neutral
  BY <1>20, Zenon DEF ReapLocks, poolVars
<1>21. ASSUME NEW r \in Requests, ReapLeavesQuarantine(r) PROVE Neutral
  BY <1>21, Zenon DEF ReapLeavesQuarantine, poolVars
<1>22. ASSUME NEW r \in Requests, CloseAborts(r) PROVE Neutral
  BY <1>22, Zenon DEF CloseAborts, poolVars, EnterAbort
<1>23. ASSUME Close PROVE Neutral
  BY <1>23, Zenon DEF Close, procVars
<1>24. ASSUME CloseAborted PROVE Neutral
  BY <1>24, Zenon DEF CloseAborted, procVars
<1>25. ASSUME CloseRoot PROVE Neutral
  BY <1>25, Zenon DEF CloseRoot, procVars
<1>26. ASSUME UNCHANGED vars PROVE Neutral
  BY <1>26, Zenon DEF vars, poolVars, procVars
<1> QED
  BY Zenon, <1>1, <1>2, <1>3, <1>4, <1>5, <1>6, <1>7, <1>8, <1>9, <1>10, <1>11,
     <1>12, <1>13, <1>14, <1>15, <1>16, <1>17, <1>18, <1>19, <1>20,
     <1>21, <1>22, <1>23, <1>24, <1>25, <1>26
  DEF Next, Handler, Aborter, Releaser, Reaper, Closer

\* Each slot taken and not given back belongs to one request.
LEMMA SlotStep ==
    ASSUME PoolInv, [Next]_vars
    PROVE  SlotAccounting'
<1>1. ASSUME NEW r \in Requests, TakeSlot(r) PROVE SlotAccounting'
  <2>1. SlotHolders' = SlotHolders \union {r} /\ r \notin SlotHolders
    BY <1>1 DEF TakeSlot, GoTo, SlotHolders, HoldsSlot, PoolInv, TypeOK,
                FieldTypes, Coherent, RelStates
  <2>2. slots' = slots + 1 /\ slots < MaxActive /\ slots \in Nat
        /\ slots = Cardinality(SlotHolders)
    BY <1>1, Zenon DEF TakeSlot, PoolInv, SlotAccounting, TypeOK
  <2>3. Cardinality(SlotHolders') = Cardinality(SlotHolders) + 1
    BY <2>1, AddOne, SetsFinite, Zenon
  <2> QED BY <2>2, <2>3, MaxActiveAssumption DEF SlotAccounting
<1>2. ASSUME NEW r \in Requests, StartFails(r) PROVE SlotAccounting'
  <2>1. SlotHolders' = SlotHolders \ {r} /\ r \in SlotHolders
    BY <1>2 DEF StartFails, GoTo, SlotHolders, HoldsSlot, PoolInv, TypeOK,
                FieldTypes, Coherent, RelStates
  <2>2. slots' = slots - 1 /\ slots <= MaxActive /\ slots \in Nat
        /\ slots = Cardinality(SlotHolders)
    BY <1>2, Zenon DEF StartFails, PoolInv, SlotAccounting, TypeOK
  <2>3. Cardinality(SlotHolders') = Cardinality(SlotHolders) - 1
    BY <2>1, RemoveOne, SetsFinite, Zenon
  <2> QED BY <2>2, <2>3, MaxActiveAssumption DEF SlotAccounting
<1>3. ASSUME NEW r \in Requests, ReleaseSlot(r) PROVE SlotAccounting'
  <2>1. SlotHolders' = SlotHolders \ {r} /\ r \in SlotHolders
    BY <1>3 DEF ReleaseSlot, SlotHolders, HoldsSlot, PoolInv, TypeOK,
                FieldTypes, Coherent, RelStates
  <2>2. slots' = slots - 1 /\ slots <= MaxActive /\ slots \in Nat
        /\ slots = Cardinality(SlotHolders)
    BY <1>3, Zenon DEF ReleaseSlot, PoolInv, SlotAccounting, TypeOK
  <2>3. Cardinality(SlotHolders') = Cardinality(SlotHolders) - 1
    BY <2>1, RemoveOne, SetsFinite, Zenon
  <2> QED BY <2>2, <2>3, MaxActiveAssumption DEF SlotAccounting
<1>4. ASSUME NEW r \in Requests, ReleaseUnlinks(r) PROVE SlotAccounting'
  <2>1. SlotHolders' = SlotHolders
    BY <1>4, Zenon DEF ReleaseUnlinks, SlotHolders, HoldsSlot, PoolInv, TypeOK,
                FieldTypes, RelStates
  <2> QED BY <1>4, <2>1, Zenon DEF ReleaseUnlinks, PoolInv, SlotAccounting
<1> QED
  BY <1>1, <1>2, <1>3, <1>4, NeutralSteps, Zenon
  DEF Neutral, PoolInv, SlotAccounting

\* Between the load of m.quarantine and the send on m.slots, the released
\* children stay below the limit: each was counted before its delete from
\* m.workers, which needs the mutex the handler is holding.
LEMMA AdmissionStep ==
    ASSUME PoolInv, [Next]_vars
    PROVE  (\A r \in Requests : req[r] = "checked" =>
                Cardinality(Unlinked) <= QuarantineLimit - 1)'
<1> SUFFICES ASSUME NEW q \in Requests, req'[q] = "checked"
             PROVE  Cardinality(Unlinked') <= QuarantineLimit - 1
  BY Zenon
<1>1. Unlinked \subseteq Counted
  BY Zenon DEF Unlinked, Counted, PoolInv, TypeOK, FieldTypes, Coherent
<1>2. ASSUME NEW r \in Requests, CheckAdmission(r)
      PROVE  Cardinality(Unlinked') <= QuarantineLimit - 1
  <2>1. Unlinked' = Unlinked
    BY <1>2, Zenon DEF CheckAdmission, Unlinked
  <2>2. Cardinality(Unlinked) <= quarantine /\ Cardinality(Unlinked) \in Nat
    BY <1>1, Smaller, SetsFinite, Zenon DEF PoolInv
  <2> QED BY <1>2, <2>1, <2>2, QuarantineAssumption
          DEF CheckAdmission, AdmissionClosed, PoolInv, TypeOK
<1>3. ASSUME \A r \in Requests : ~CheckAdmission(r)
      PROVE  req[q] = "checked"
  <2>1. ASSUME NEW r \in Requests, Handler(r), ~CheckAdmission(r)
        PROVE  req[q] = "checked"
    <3>1. PICK to \in ReqStates : to # "checked" /\ GoTo(r, to)
      BY <2>1, Zenon DEF Handler, ReqStates, ContextExpired, RefuseAdmission, TakeSlot, SlotsFull, StartFails,
                  StartProcess, Register, RejectStarted, LockRoot,
                  SendRoot, Respond, FinishNormally, HandlerAborts,
                  HandlerReturns
    <3> QED BY <3>1, Zenon DEF GoTo, PoolInv, TypeOK, FieldTypes
  <2>2. ASSUME NEW r \in Requests,
               \/ ContextAborts(r) \/ Aborter(r) \/ Releaser(r)
               \/ WaitReturns(r) \/ Reaper(r) \/ CloseAborts(r)
        PROVE  req' = req
    BY <2>2, Zenon DEF ContextAborts, AbortFindsFinished, AbortQuarantines, SignalAccepted,
                SignalFails, ReleaseUnlinks, ReleaseSlot, WaitReturns,
                ReapLocks, ReapLeavesQuarantine, CloseAborts, Aborter,
                Releaser, Reaper
  <2>3. ASSUME Close \/ CloseAborted \/ CloseRoot \/ UNCHANGED vars
        PROVE  req' = req
    BY <2>3, Zenon DEF Close, CloseAborted, CloseRoot, vars, procVars
  <2> QED BY <1>3, <2>1, <2>2, <2>3, Zenon DEF Next, Closer
<1>4. CASE req[q] = "checked"
  <2>0. mMu # NoOne
    BY <1>4, RequestsAssumption DEF PoolInv, Coherent
  <2>1. \A r \in Requests : ~ReleaseUnlinks(r)
    BY <2>0, Zenon DEF ReleaseUnlinks
  <2>2. Unlinked' \subseteq Unlinked
    <3>1. ASSUME NEW r \in Requests,
                 TakeSlot(r) \/ StartFails(r) \/ ReleaseSlot(r)
          PROVE  Unlinked' \subseteq Unlinked
      BY <3>1, Zenon DEF TakeSlot, StartFails, ReleaseSlot, Unlinked, PoolInv,
                  TypeOK, FieldTypes
    <3> QED BY <2>1, <3>1, NeutralSteps, Zenon DEF Neutral
  <2>3. /\ Cardinality(Unlinked') <= Cardinality(Unlinked)
        /\ Cardinality(Unlinked') \in Nat /\ Cardinality(Unlinked) \in Nat
    BY <2>2, Smaller, SetsFinite, Zenon
  <2> QED BY <1>4, <2>3, QuarantineAssumption DEF PoolInv
<1> QED BY <1>2, <1>3, <1>4, Zenon

\* Only a send on m.slots adds a request that may have a child.
LEMMA LiableStep ==
    ASSUME PoolInv, [Next]_vars
    PROVE  Cardinality(Liable') <= MaxActive + QuarantineLimit - 1
<1> DEFINE Goal == Cardinality(Liable') <= MaxActive + QuarantineLimit - 1
<1>1. ASSUME NEW r \in Requests, TakeSlot(r) PROVE Goal
  <2>1. Liable' = Liable \union {r} /\ r \notin Liable
    BY <1>1 DEF TakeSlot, GoTo, Liable, PoolInv, TypeOK, FieldTypes, Coherent
  <2>2. Liable \subseteq SlotHolders \union Unlinked
    BY Zenon DEF Liable, SlotHolders, HoldsSlot, Unlinked, PoolInv, TypeOK,
           FieldTypes, RelStates
  <2>3. /\ IsFiniteSet(SlotHolders \union Unlinked)
        /\ Cardinality(SlotHolders \union Unlinked)
              <= Cardinality(SlotHolders) + Cardinality(Unlinked)
    BY UnionAtMost, SetsFinite, Zenon
  <2>4. /\ Cardinality(Liable) <= Cardinality(SlotHolders \union Unlinked)
        /\ Cardinality(Liable) \in Nat
        /\ Cardinality(SlotHolders \union Unlinked) \in Nat
    BY <2>2, <2>3, Smaller, Zenon
  <2>5. /\ Cardinality(SlotHolders) <= MaxActive - 1
        /\ Cardinality(Unlinked) <= QuarantineLimit - 1
    BY <1>1, MaxActiveAssumption DEF TakeSlot, SlotAccounting, PoolInv, TypeOK
  <2>6. Cardinality(Liable') = Cardinality(Liable) + 1
    BY <2>1, AddOne, SetsFinite, Zenon
  <2>7. Cardinality(SlotHolders) \in Nat /\ Cardinality(Unlinked) \in Nat
    BY SetsFinite, FS_CardinalityType, Zenon
  <2> QED BY <2>3, <2>4, <2>5, <2>6, <2>7, MaxActiveAssumption,
             QuarantineAssumption
<1>2. ASSUME Liable' \subseteq Liable PROVE Goal
  BY <1>2, Smaller, SetsFinite, MaxActiveAssumption, QuarantineAssumption
  DEF PoolInv
<1>3. ASSUME NEW r \in Requests,
             StartFails(r) \/ ReleaseUnlinks(r) \/ ReleaseSlot(r)
      PROVE  Liable' \subseteq Liable
  BY <1>3, Zenon DEF StartFails, GoTo, ReleaseUnlinks, ReleaseSlot, Liable, PoolInv,
              TypeOK, FieldTypes
<1> QED BY <1>1, <1>2, <1>3, NeutralSteps, Zenon DEF Neutral

LEMMA PoolStep == PoolInv /\ [Next]_vars => PoolInv'
<1> SUFFICES ASSUME PoolInv, [Next]_vars PROVE PoolInv'
  BY Zenon
<1>1. quarantine' \in Nat /\ slots' \in Nat
  <2>1. IsFiniteSet(Counted') /\ IsFiniteSet(SlotHolders')
    BY RequestsAssumption, FS_Subset, Zenon DEF Counted, SlotHolders
  <2> QED BY <2>1, QuarantineStep, SlotStep, FS_CardinalityType, Zenon
          DEF SlotAccounting
<1> QED
  BY <1>1, LocalStep, QuarantineStep, SlotStep, AdmissionStep, LiableStep, Zenon
  DEF PoolInv, TypeOK

\* PoolInv is an invariant of the pool.
THEOREM PoolInvariant == Spec => []PoolInv
<1>1. Init => PoolInv
  BY PoolInit, Zenon
<1>2. PoolInv /\ [Next]_vars => PoolInv'
  BY PoolStep, Zenon
<1> QED BY <1>1, <1>2, PTL DEF Spec

\* Type correctness of the pool (newIsolatedStorageWith, startRequestWorker,
\* abort, reap, close): in particular neither counter goes below zero.
THEOREM TypeCorrect == Spec => []TypeOK
<1>1. PoolInv => TypeOK
  BY Zenon DEF PoolInv
<1> QED BY <1>1, PoolInvariant, PTL

\* The bound stated at worker_parent_linux.go:23-28, for every capacity and
\* every admission limit.
THEOREM ChildrenBounded == Spec => []UnreapedBound
<1>1. PoolInv => UnreapedBound
  <2> SUFFICES ASSUME PoolInv PROVE UnreapedBound
    BY Zenon
  <2>1. Unreaped \subseteq Liable
    BY Zenon DEF Unreaped, Liable
  <2>2. Cardinality(Unreaped) <= Cardinality(Liable)
    BY <2>1, SetsFinite, FS_Subset, Zenon
  <2>3. /\ Cardinality(Unreaped) \in Nat /\ Cardinality(Liable) \in Nat
        /\ Cardinality(Liable) <= MaxActive + QuarantineLimit - 1
    BY SetsFinite, FS_CardinalityType, Zenon DEF PoolInv
  <2> QED BY <2>2, <2>3, MaxActiveAssumption, QuarantineAssumption
          DEF UnreapedBound
<1> QED BY <1>1, PoolInvariant, PTL

\* release gives back exactly the slots startRequestWorker took.
THEOREM SlotsAccounted == Spec => []SlotAccounting
<1>1. PoolInv => SlotAccounting
  BY Zenon DEF PoolInv
<1> QED BY <1>1, PoolInvariant, PTL

\* abort signals a pidfd only before reap closes it, and a refused signal
\* keeps its slot; close never closes a root descriptor that is being sent.
THEOREM DescriptorsSafe == Spec => []DescriptorsKept
<1>1. PoolInv => DescriptorsKept
  BY Zenon DEF PoolInv, Coherent, DescriptorsKept, SignalsOnlyOpenPidfd, FailedSignalFailsClosed,
         RootOpenWhileSent
<1> QED BY <1>1, PoolInvariant, PTL

-----------------------------------------------------------------------------
\* Which children close still has to find: one that runs and that nobody has
\* aborted is in m.workers, and after close in the copy that close walks.
Reachable ==
    /\ root # "open" <=> closed
    /\ \A r \in Unreaped : abort[r] # "no" \/ req[r] = "started"
          \/ IF closed THEN root = "detached" /\ r \in closeList ELSE r \in workers

\* The handler's steps: a child is registered unless close came first, and
\* then its handler aborts it.
LEMMA ReachableHandler ==
    ASSUME PoolInv, Reachable, NEW r \in Requests, Handler(r) \/ ContextAborts(r)
    PROVE  Reachable'
<1> USE DEF PoolInv, TypeOK, FieldTypes, Reachable, Unreaped, GoTo, poolVars
<1>1. CASE ContextExpired(r) \/ CheckAdmission(r) \/ RefuseAdmission(r)
  BY <1>1 DEF ContextExpired, CheckAdmission, RefuseAdmission
<1>2. CASE TakeSlot(r) \/ SlotsFull(r) \/ StartFails(r)
  BY <1>2 DEF TakeSlot, SlotsFull, StartFails
<1>3. CASE StartProcess(r)
  BY <1>3, Zenon DEF StartProcess
<1>4. CASE Register(r)
  BY <1>4, Zenon DEF Register
<1>5. CASE RejectStarted(r)
  BY <1>5, Zenon DEF RejectStarted
<1>6. CASE LockRoot(r) \/ SendRoot(r) \/ Respond(r)
  BY <1>6 DEF LockRoot, SendRoot, Respond
<1>7. CASE FinishNormally(r) \/ HandlerReturns(r)
  BY <1>7 DEF FinishNormally, HandlerReturns
<1>8. CASE HandlerAborts(r) \/ ContextAborts(r)
  BY <1>8 DEF HandlerAborts, ContextAborts, EnterAbort
<1> QED BY <1>1, <1>2, <1>3, <1>4, <1>5, <1>6, <1>7, <1>8, Zenon DEF Handler

\* The other goroutines: a child leaves m.workers only when it was aborted or
\* reaped, and close walks its copy to the end before it closes the root.
LEMMA ReachableStep == PoolInv /\ Reachable /\ [Next]_vars => Reachable'
<1> SUFFICES ASSUME PoolInv, Reachable, [Next]_vars PROVE Reachable'
  BY Zenon
<1>1. ASSUME NEW r \in Requests, Aborter(r) PROVE Reachable'
  BY <1>1 DEF Aborter, AbortFindsFinished, AbortQuarantines, SignalAccepted, SignalFails,
              PoolInv, TypeOK, FieldTypes, Reachable, Unreaped, poolVars
<1>2. ASSUME NEW r \in Requests, ReleaseUnlinks(r) PROVE Reachable'
  <2>1. r \in Unreaped => abort[r] # "no"
    BY <1>2, Zenon DEF ReleaseUnlinks, PoolInv, Coherent, Unreaped
  <2> QED BY <1>2, <2>1, Zenon DEF ReleaseUnlinks, Reachable, Unreaped
<1>3. ASSUME NEW r \in Requests, ReleaseSlot(r) \/ Reaper(r) PROVE Reachable'
  <2>1. UNCHANGED <<closed, root, workers, closeList, child, abort, req>>
    BY <1>3, Zenon DEF ReleaseSlot, Reaper, ReapLocks, ReapLeavesQuarantine, poolVars
  <2>. QED BY <2>1, Zenon DEF Reachable, Unreaped
<1>4. ASSUME NEW r \in Requests, WaitReturns(r) PROVE Reachable'
  BY <1>4, Zenon DEF WaitReturns, PoolInv, TypeOK, FieldTypes, Reachable, Unreaped, poolVars
<1>5. CASE Close
  BY <1>5, Zenon DEF Close, Reachable, Unreaped, procVars
<1>6. ASSUME NEW r \in Requests, CloseAborts(r) PROVE Reachable'
  BY <1>6, Zenon DEF CloseAborts, EnterAbort, PoolInv, TypeOK, FieldTypes, Reachable, Unreaped
<1>7. CASE CloseAborted \/ CloseRoot
  <2>1. /\ UNCHANGED <<closed, workers, closeList, child, abort, req>>
        /\ root' = root \/ (root = "detached" /\ root' = "closed" /\ closeList = {})
    BY <1>7, Zenon DEF CloseAborted, CloseRoot, procVars
  <2>. QED BY <2>1, Zenon DEF Reachable, Unreaped
<1>8. CASE UNCHANGED vars
  BY <1>8, Zenon DEF vars, poolVars, procVars, Reachable, Unreaped
<1> QED BY <1>1, <1>2, <1>3, <1>4, <1>5, <1>6, <1>7, <1>8, ReachableHandler, Zenon
        DEF Next, Releaser, Closer

\* For every number of requests, whatever starts, aborts and ends while close
\* runs: once it has closed the root, every child that still runs was aborted
\* or will be by the handler that is starting it.
THEOREM NoChildMissed == Spec => []CloseReachesEveryChild
<1>1. Init => Reachable
  BY Zenon DEF Init, Reachable, Unreaped
<1>2. PoolInv /\ Reachable /\ [Next]_vars => Reachable'
  BY ReachableStep, Zenon
<1>3. PoolInv /\ Reachable => CloseReachesEveryChild
  BY Zenon DEF PoolInv, TypeOK, FieldTypes, Reachable, CloseReachesEveryChild
<1> QED BY <1>1, <1>2, <1>3, PoolInvariant, PTL DEF Spec

(***************************************************************************)
(* The portal's service: it stops in order and paces what it writes.       *)
(***************************************************************************)
ServePlaces == {"validate", "listener", "portal", "start", "awaitAccept", "check", "notify",
                "stopUnready", "stopFailed", "serving", "shutdown", "close", "exited"}
BeforeServe == {"validate", "listener", "portal", "start"}
HandlerRecords == [pc : {"none", "admit", "open", "header", "read", "deadline", "write", "over"},
                   kind : {"file", "list"}, bytes : Nat, chunk : Nat,
                   started : Nat, progress : Nat, deadline : Nat]

PortalTypeOK ==
  /\ run \in ServePlaces /\ term \in BOOLEAN /\ early \in BOOLEAN
  /\ serve \in {"none", "running", "accepting", "returned"}
  /\ serveErr \in {"none", "closed", "failed", "nil"}
  /\ server \in {"up", "shutdown", "closed"} /\ portal \in {"none", "open", "closed"}
  /\ exit \in {"running", "ok", "error"}
  /\ handling \in [Connections -> HandlerRecords] /\ clock \in Nat

(* Where runServe stands tells what the server, its goroutine and the       *)
(* portal are doing.                                                       *)
MainOrder ==
  /\ run = "exited" <=> exit # "running"
  /\ run \in BeforeServe => serve = "none" /\ server = "up" /\ portal # "closed"
  /\ run \in {"awaitAccept", "check", "notify", "serving"} => server = "up"
  /\ run \in {"shutdown", "close"} => server = "shutdown" /\ (early \/ term)
  /\ run \in {"stopUnready", "stopFailed"} => server = "closed"
  /\ run = "stopUnready" => term
  /\ run = "close" => serve = "returned" /\ Active = {}
  /\ run \notin {"shutdown", "close", "exited"} => ~early
  /\ run # "exited" => portal # "closed"

(* The last byte came within the budget of the accepted bytes.  A write    *)
(* whose deadline is ahead is within the budget; one that began late is    *)
(* within the idle time, and the clock waits for it.                       *)
Pace(h, now) ==
  /\ h.progress <= Budget(h, 0)
  /\ h.pc = "write" => /\ h.deadline <= Budget(h, Capped(h.chunk))
                       /\ now <= h.deadline \/ now < h.progress + Idle
Paced == \A r \in Connections : Pace(handling[r], clock)

PortalInv == PortalTypeOK /\ MainOrder /\ Paced /\ ClosedAfterServing /\ SuccessMeansStopped

(* More bytes never shorten the time that they are worth.                  *)
LEMMA CeilDivGrows ==
  ASSUME NEW a \in Nat, NEW c \in Nat, NEW b \in Nat, b > 0, a <= c
  PROVE  CeilDiv(a, b) \in Nat /\ CeilDiv(c, b) \in Nat /\ CeilDiv(a, b) <= CeilDiv(c, b)
<1>1. a + b - 1 \in Nat /\ c + b - 1 \in Nat /\ a + b - 1 <= c + b - 1
  BY SMT
<1>2. \A x, y \in Nat : x <= y => x \div b \in Nat /\ y \div b \in Nat /\ x \div b <= y \div b
  BY SMT
<1>. QED BY <1>1, <1>2, Zenon DEF CeilDiv

LEMMA BudgetGrows ==
  ASSUME NEW h \in HandlerRecords, NEW m \in Nat, NEW n \in Nat, m <= n
  PROVE  Budget(h, m) \in Nat /\ Budget(h, n) \in Nat /\ Budget(h, m) <= Budget(h, n)
<1>1. h.started \in Nat /\ h.bytes \in Nat /\ Grace \in Nat /\ Rate \in Nat /\ Rate > 0
  BY PortalConstants, SMT DEF HandlerRecords
<1>2. h.bytes + m \in Nat /\ h.bytes + n \in Nat /\ h.bytes + m <= h.bytes + n
  BY <1>1, SMT
<1>3. /\ CeilDiv(h.bytes + m, Rate) \in Nat /\ CeilDiv(h.bytes + n, Rate) \in Nat
      /\ CeilDiv(h.bytes + m, Rate) <= CeilDiv(h.bytes + n, Rate)
  BY <1>1, <1>2, CeilDivGrows, Zenon
<1>. QED BY <1>1, <1>3, SMT DEF Budget

LEMMA PaceIsRate ==
  ASSUME NEW h \in HandlerRecords, NEW now \in Nat, Pace(h, now), h.pc = "write"
  PROVE  now <= Budget(h, Credit) \/ now < h.progress + Idle
<1>1. Capped(h.chunk) \in Nat /\ Credit \in Nat /\ Capped(h.chunk) <= Credit
  BY PortalConstants, SMT DEF Capped, HandlerRecords
<1>2. Budget(h, Capped(h.chunk)) \in Nat /\ Budget(h, Credit) \in Nat /\ Budget(h, Capped(h.chunk)) <= Budget(h, Credit)
  BY <1>1, BudgetGrows, Zenon
<1>3. h.deadline \in Nat /\ h.progress \in Nat /\ Idle \in Nat
  BY PortalConstants, SMT DEF HandlerRecords
<1>. QED BY <1>2, <1>3, SMT DEF Pace

(***************************************************************************)
(* runServe and its goroutine leave the handlers and the clock alone.      *)
(***************************************************************************)
LEMMA MainKeeps ==
  ASSUME PortalInv, Main \/ Terminate \/ ServeAccepts \/ ServeReturns
  PROVE  PortalInv'
<1>1. handling' = handling /\ clock' = clock /\ Active' = Active
  BY Zenon DEF Main, ValidateRuntime, LoadListener, NewPortal, StartServing, AwaitAccept, CheckServing,
     NotifyReady,
     StopUnready, AwaitTerm, Shutdown, ClosePortal, Terminate, ServeAccepts, ServeReturns, OnlyProceeds, Rest, Active
<1>2. Paced'
  BY <1>1, Zenon DEF PortalInv, Paced
<1>. USE DEF PortalInv, MainOrder, ClosedAfterServing, SuccessMeansStopped, BeforeServe, At, Running, Goto, Exits, ClosesPortal,
             OnlyProceeds, FailsBeforeReady, ServePlaces
<1>3. ASSUME Main
      PROVE  PortalTypeOK' /\ MainOrder' /\ ClosedAfterServing' /\ SuccessMeansStopped'
  <2>. USE <1>1 DEF PortalTypeOK
  <2>1. CASE ValidateRuntime BY <2>1, Zenon DEF ValidateRuntime
  <2>2. CASE LoadListener BY <2>2, Zenon DEF LoadListener
  <2>3. CASE NewPortal BY <2>3, Zenon DEF NewPortal
  <2>4. CASE StartServing BY <2>4, Zenon DEF StartServing
  <2>5. CASE AwaitAccept BY <2>5 DEF AwaitAccept
  <2>6. CASE CheckServing BY <2>6 DEF CheckServing
  <2>7. CASE NotifyReady BY <2>7 DEF NotifyReady
  <2>8. CASE StopUnready BY <2>8 DEF StopUnready
  <2>9. CASE AwaitTerm BY <2>9, Zenon DEF AwaitTerm
  <2>10. CASE Shutdown BY <2>10 DEF Shutdown
  <2>11. CASE ClosePortal BY <2>11, Zenon DEF ClosePortal, HonestResult
  <2>. QED BY <1>3, <2>1, <2>2, <2>3, <2>4, <2>5, <2>6, <2>7, <2>8, <2>9, <2>10, <2>11, Zenon DEF Main
<1>4. ASSUME Terminate \/ ServeAccepts \/ ServeReturns
      PROVE  PortalTypeOK' /\ MainOrder' /\ ClosedAfterServing' /\ SuccessMeansStopped'
  <2>. USE <1>1 DEF PortalTypeOK
  <2>1. CASE Terminate BY <2>1 DEF Terminate
  <2>2. CASE ServeAccepts BY <2>2 DEF ServeAccepts
  <2>3. CASE ServeReturns BY <2>3 DEF ServeReturns
  <2>. QED BY <1>4, <2>1, <2>2, <2>3, Zenon
<1>. QED BY <1>2, <1>3, <1>4, Zenon DEF PortalInv

(***************************************************************************)
(* The clock: it waits for a write whose deadline has come.                *)
(***************************************************************************)
LEMMA TickKeeps ==
  ASSUME PortalInv, Tick
  PROVE  PortalInv'
<1>1. /\ UNCHANGED mainVars /\ handling' = handling /\ Active' = Active
      /\ clock \in Nat /\ clock' = clock + 1
      /\ \A r \in Connections : handling[r].pc = "write" => clock < handling[r].deadline
  BY Zenon DEF Tick, PortalInv, PortalTypeOK, Active
<1>2. PortalTypeOK' /\ MainOrder' /\ ClosedAfterServing' /\ SuccessMeansStopped'
  BY <1>1 DEF PortalInv, PortalTypeOK, MainOrder, ClosedAfterServing, SuccessMeansStopped, mainVars
<1>3. ASSUME NEW r \in Connections PROVE Pace(handling[r], clock')
  <2>1. Pace(handling[r], clock) /\ handling[r] \in HandlerRecords
    BY Zenon DEF PortalInv, Paced, PortalTypeOK
  <2>2. handling[r].pc = "write" => clock < handling[r].deadline /\ handling[r].deadline \in Nat
    BY <1>1, <2>1, Zenon DEF HandlerRecords
  <2>. QED BY <1>1, <2>1, <2>2, SMT DEF Pace
<1>. QED BY <1>1, <1>2, <1>3, Zenon DEF PortalInv, Paced

(***************************************************************************)
(* Requests.                                                               *)
(***************************************************************************)
LEMMA HandlerKeeps ==
  ASSUME PortalInv, NEW r \in Connections, NEW h \in HandlerRecords, Handles(r, h),
         Pace(h, clock), server = "up" \/ r \in Active
  PROVE  PortalInv'
<1>1. /\ UNCHANGED mainVars /\ clock' = clock /\ Running
      /\ handling \in [Connections -> HandlerRecords] /\ handling' = [handling EXCEPT ![r] = h]
  BY Zenon DEF Handles, PortalInv, PortalTypeOK
<1>2. Active' \subseteq Active \cup {r}
  BY <1>1, Zenon DEF Active
<1>3. PortalTypeOK' /\ MainOrder' /\ ClosedAfterServing' /\ SuccessMeansStopped'
  BY <1>1, <1>2 DEF PortalInv, PortalTypeOK, MainOrder, ClosedAfterServing, SuccessMeansStopped,
     mainVars, Running
<1>4. \A q \in Connections : Pace(handling'[q], clock')
  BY <1>1, Zenon DEF PortalInv, Paced
<1>. QED BY <1>3, <1>4, Zenon DEF PortalInv, Paced

LEMMA RestPaced ==
  ASSUME NEW h \in HandlerRecords, h.pc # "write", h.progress <= h.started
  PROVE  \A now : Pace(h, now)
<1>1. Budget(h, 0) \in Nat /\ h.started \in Nat /\ h.progress \in Nat /\ h.bytes \in Nat
  BY BudgetGrows DEF HandlerRecords
<1>2. CeilDiv(h.bytes + 0, Rate) \in Nat /\ Grace \in Nat
  BY <1>1, CeilDivGrows, PortalConstants
<1>. QED BY <1>1, <1>2, SMT DEF Pace, Budget

LEMMA OverKeeps ==
  ASSUME PortalInv, NEW r \in Connections, r \in Active, Handles(r, Over(r))
  PROVE  PortalInv'
<1>1. Over(r) \in HandlerRecords /\ Over(r).pc # "write" /\ Over(r).progress <= Over(r).started
  BY DEF Over, NoHandler, HandlerRecords
<1>. QED BY <1>1, RestPaced, HandlerKeeps, Zenon

LEMMA MovesKeeps ==
  ASSUME PortalInv, NEW r \in Connections, NEW h \in HandlerRecords, r \in Active, Handles(r, h),
         h.pc # "write", h.progress = handling[r].progress, h.started = handling[r].started, h.bytes = handling[r].bytes
  PROVE  PortalInv'
<1>1. Pace(handling[r], clock)
  BY Zenon DEF PortalInv, Paced
<1>2. Pace(h, clock)
  BY <1>1, Zenon DEF Pace, Budget
<1>. QED BY <1>2, HandlerKeeps, Zenon

LEMMA WriteSet ==
  ASSUME NEW h \in HandlerRecords, NEW now \in Nat, h.pc = "deadline", Pace(h, now), now < h.progress + Idle,
         NEW w, w = [h EXCEPT !.pc = "write", !.deadline = Earlier(now + Idle, RateDeadline(h, h.chunk))]
  PROVE  w \in HandlerRecords /\ Pace(w, now)
<1>1. h.chunk \in Nat /\ Capped(h.chunk) \in Nat /\ Idle \in Nat
  BY PortalConstants, SMT DEF Capped, HandlerRecords
<1>2. Budget(h, Capped(h.chunk)) \in Nat /\ RateDeadline(h, h.chunk) = Budget(h, Capped(h.chunk))
  BY <1>1, BudgetGrows DEF RateDeadline, Budget
<1> DEFINE d == Earlier(now + Idle, RateDeadline(h, h.chunk))
<1>3. d \in Nat /\ d <= Budget(h, Capped(h.chunk))
  BY <1>1, <1>2, SMT DEF Earlier
<1>. HIDE DEF d
<1>4. w = [h EXCEPT !.pc = "write", !.deadline = d]
  BY Zenon DEF d
<1>5. /\ w \in HandlerRecords /\ w.pc = "write" /\ w.deadline = d /\ w.chunk = h.chunk
      /\ w.progress = h.progress /\ w.started = h.started /\ w.bytes = h.bytes
  BY <1>3, <1>4, Zenon DEF HandlerRecords
<1>. QED BY <1>3, <1>5, Zenon DEF Pace, Budget

LEMMA ChunkCleared ==
  ASSUME NEW v \in HandlerRecords, NEW w, w = [v EXCEPT !.chunk = 0, !.deadline = 0]
  PROVE  /\ w \in HandlerRecords /\ w.pc = v.pc /\ w.bytes = v.bytes
         /\ w.progress = v.progress /\ w.started = v.started
  BY Zenon DEF HandlerRecords

LEMMA WriteDone ==
  ASSUME NEW h \in HandlerRecords, NEW now \in Nat, h.pc = "write", Pace(h, now), now < h.deadline,
         NEW w, w = [h EXCEPT !.pc = "read", !.bytes = @ + h.chunk, !.progress = now, !.chunk = 0, !.deadline = 0]
  PROVE  w \in HandlerRecords /\ Pace(w, now)
<1>1. h.chunk \in Nat /\ Capped(h.chunk) \in Nat /\ Capped(h.chunk) <= h.chunk /\ h.bytes \in Nat /\ h.deadline \in Nat
  BY PortalConstants, SMT DEF Capped, HandlerRecords
<1> DEFINE sum == h.bytes + h.chunk
<1>a. sum \in Nat
  BY <1>1
<1>. HIDE DEF sum
<1>b. w = [h EXCEPT !.pc = "read", !.bytes = sum, !.progress = now, !.chunk = 0, !.deadline = 0]
  BY Zenon DEF sum, HandlerRecords
<1> DEFINE v == [h EXCEPT !.pc = "read", !.bytes = sum, !.progress = now]
<1>c. v \in HandlerRecords /\ v.pc = "read" /\ v.bytes = sum /\ v.progress = now /\ v.started = h.started
  BY <1>a, Zenon DEF HandlerRecords
<1>d. w = [v EXCEPT !.chunk = 0, !.deadline = 0]
  BY <1>b, Zenon
<1>. HIDE DEF v
<1>e. w \in HandlerRecords /\ w.pc = v.pc /\ w.bytes = v.bytes /\ w.progress = v.progress /\ w.started = v.started
  BY <1>c, <1>d, ChunkCleared, Zenon
<1>2. /\ w \in HandlerRecords /\ w.pc = "read" /\ w.bytes = h.bytes + h.chunk
      /\ w.progress = now /\ w.started = h.started
  BY <1>c, <1>e, Zenon DEF sum
<1>3. /\ Budget(h, h.chunk) \in Nat /\ Budget(h, Capped(h.chunk)) \in Nat
      /\ Budget(h, Capped(h.chunk)) <= Budget(h, h.chunk)
  BY <1>1, BudgetGrows, Zenon
<1>4. Budget(w, 0) = Budget(h, h.chunk)
  BY <1>1, <1>2, SMT DEF Budget
<1>5. h.deadline <= Budget(h, Capped(h.chunk))
  BY Zenon DEF Pace
<1>6. now <= Budget(w, 0)
  BY <1>1, <1>3, <1>4, <1>5, SMT
<1>. QED BY <1>2, <1>6, Zenon DEF Pace

LEMMA RequestKeeps ==
  ASSUME PortalInv, NEW r \in Connections, RequestHandler(r)
  PROVE  PortalInv'
<1>1. handling[r] \in HandlerRecords /\ Pace(handling[r], clock) /\ clock \in Nat
  BY Zenon DEF PortalInv, PortalTypeOK, Paced
<1>2. handling[r].pc \notin {"none", "over"} => r \in Active
  BY Zenon DEF Active
<1>3. ASSUME NEW kind \in {"file", "list"}, Accept(r, kind) PROVE PortalInv'
  <2> DEFINE h == [NoHandler EXCEPT !.pc = "admit", !.kind = kind, !.started = clock, !.progress = clock]
  <2> DEFINE g == [NoHandler EXCEPT !.pc = "admit", !.kind = kind]
  <2>a. g \in HandlerRecords /\ g.pc = "admit"
    BY Zenon DEF NoHandler, HandlerRecords
  <2>b. h = [g EXCEPT !.started = clock, !.progress = clock]
    BY Zenon
  <2>. HIDE DEF g
  <2>1. h \in HandlerRecords /\ h.pc = "admit" /\ h.progress = clock /\ h.started = clock
    BY <1>1, <2>a, <2>b, Zenon DEF HandlerRecords
  <2>2. server = "up" /\ Handles(r, h)
    BY <1>3, Zenon DEF Accept
  <2>. HIDE DEF h
  <2>3. h.progress <= h.started
    BY <1>1, <2>1
  <2>. QED BY <2>1, <2>2, <2>3, RestPaced, HandlerKeeps, Zenon
<1>4. CASE Admit(r)
  BY <1>1, <1>2, <1>4, MovesKeeps, OverKeeps, Zenon DEF Admit, HandlerRecords
<1>5. CASE ServeList(r)
  BY <1>2, <1>5, OverKeeps, Zenon DEF ServeList
<1>6. CASE OpenStorage(r)
  BY <1>1, <1>2, <1>6, MovesKeeps, OverKeeps, Zenon DEF OpenStorage, HandlerRecords
<1>7. CASE WriteHeader(r)
  BY <1>1, <1>2, <1>7, MovesKeeps, OverKeeps, Zenon DEF WriteHeader, HandlerRecords
<1>8. CASE ReadBody(r)
  <2>1. ASSUME NEW n \in 1 .. BodySize - handling[r].bytes, handling[r].pc = "read",
               Handles(r, [handling[r] EXCEPT !.pc = "deadline", !.chunk = n])
        PROVE  PortalInv'
    <3>1. n \in Nat
      BY <1>1, PortalConstants DEF HandlerRecords
    <3>. QED BY <1>1, <1>2, <2>1, <3>1, MovesKeeps, Zenon DEF HandlerRecords
  <2>. QED BY <1>2, <1>8, <2>1, OverKeeps, Zenon DEF ReadBody
<1>9. CASE SetDeadline(r)
  <2>1. CASE clock < handling[r].progress + Idle
    <3> DEFINE w == [handling[r] EXCEPT !.pc = "write",
                        !.deadline = Earlier(clock + Idle, RateDeadline(handling[r], handling[r].chunk))]
    <3>1. handling[r].pc = "deadline" /\ (Handles(r, w) \/ Handles(r, Over(r)))
      BY <1>9, Zenon DEF SetDeadline
    <3>2. w \in HandlerRecords /\ Pace(w, clock)
      BY <1>1, <2>1, <3>1, WriteSet, Zenon
    <3>. QED BY <1>2, <3>1, <3>2, HandlerKeeps, OverKeeps, Zenon
  <2>. QED BY <1>2, <1>9, <2>1, OverKeeps, Zenon DEF SetDeadline
<1>10. CASE WriteBody(r)
  <2>1. CASE clock < handling[r].deadline
    <3> DEFINE w == [handling[r] EXCEPT !.pc = "read", !.bytes = @ + handling[r].chunk, !.progress = clock,
                                        !.chunk = 0, !.deadline = 0]
    <3>1. handling[r].pc = "write" /\ (Handles(r, w) \/ Handles(r, Over(r)))
      BY <1>10, Zenon DEF WriteBody
    <3>2. w \in HandlerRecords /\ Pace(w, clock)
      BY <1>1, <2>1, <3>1, WriteDone, Zenon
    <3>. QED BY <1>2, <3>1, <3>2, HandlerKeeps, OverKeeps, Zenon
  <2>. QED BY <1>2, <1>10, <2>1, OverKeeps, Zenon DEF WriteBody
<1>. QED BY <1>3, <1>4, <1>5, <1>6, <1>7, <1>8, <1>9, <1>10 DEF RequestHandler

(* The public file service stops in order, reports success only for a stop *)
(* that was asked for, and keeps every download at its rate, for any       *)
(* number of connections and any limits, rate, grace and idle time         *)
(* (runServe, progressBoundedWriter).                                      *)
THEOREM PortalStopsInOrder == PortalSpec => []PortalOrderly
<1>1. PortalInit => PortalInv
  <2> SUFFICES ASSUME PortalInit PROVE PortalInv
    BY Zenon
  <2>1. NoHandler \in HandlerRecords /\ NoHandler.pc = "none" /\ NoHandler.progress <= NoHandler.started
    BY DEF NoHandler, HandlerRecords
  <2>2. Paced
    BY <2>1, RestPaced, Zenon DEF PortalInit, Paced
  <2>3. Active = {}
    BY <2>1, Zenon DEF PortalInit, Active
  <2>. QED BY <2>1, <2>2, <2>3, Zenon DEF PortalInit, PortalInv, PortalTypeOK, MainOrder,
              ClosedAfterServing, SuccessMeansStopped,
              BeforeServe, ServePlaces
<1>2. PortalInv /\ [PortalNext]_portalVars => PortalInv'
  <2>1. ASSUME PortalInv, UNCHANGED portalVars PROVE PortalInv'
    BY <2>1 DEF portalVars, PortalInv, PortalTypeOK, MainOrder, Paced, ClosedAfterServing,
       SuccessMeansStopped, Active
  <2>. QED BY <2>1, MainKeeps, TickKeeps, RequestKeeps, Zenon DEF PortalNext
<1>3. PortalInv => PortalOrderly
  <2> SUFFICES ASSUME PortalInv, NEW r \in Connections
               PROVE  /\ handling[r].pc \in {"read", "deadline", "write"} => handling[r].progress <= Budget(handling[r], 0)
                      /\ handling[r].pc = "write" => \/ clock <= Budget(handling[r], Credit)
                                                     \/ clock < handling[r].progress + Idle
    BY Zenon DEF PortalInv, PortalOrderly, RateKept
  <2>1. handling[r] \in HandlerRecords /\ Pace(handling[r], clock) /\ clock \in Nat
    BY Zenon DEF PortalInv, PortalTypeOK, Paced
  <2>2. handling[r].progress <= Budget(handling[r], 0)
    BY <2>1, Zenon DEF Pace
  <2>. QED BY <2>1, <2>2, PaceIsRate, Zenon
<1>. QED BY <1>1, <1>2, <1>3, PTL DEF PortalSpec

=============================================================================

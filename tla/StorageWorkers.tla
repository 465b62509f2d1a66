--------------------------- MODULE StorageWorkers ---------------------------
(***************************************************************************)
(* The isolated storage worker pool of the public-files portal:            *)
(* pkg/publicfiles/worker_parent_linux.go.                                 *)
(*                                                                         *)
(* Every list or open request runs in a child process of its own.  The     *)
(* coordinator bounds the children by a channel of active slots and by an  *)
(* admission limit on "quarantined" children: children that were killed    *)
(* and whose slot was given back before the kernel reported their exit.    *)
(*                                                                         *)
(* For each request r there are up to three goroutines: the handler        *)
(* (req[r]), the reaper (reap[r]) and whoever runs abort (abort[r]): the   *)
(* handler itself, a context callback or close().  The coordinator's mutex *)
(* m.mu is mMu; a critical section that is one step needs mMu to be free   *)
(* and leaves it free.  The process mutex p.mu is held exactly while       *)
(* abort[r] = "signalling": reap's critical section is one step.           *)
(***************************************************************************)
EXTENDS Integers, FiniteSets

CONSTANTS
    Requests,          \* requests ever made of one coordinator generation
    MaxActive,         \* DefaultMaxActiveStorageWorkers: capacity of slots
    QuarantineLimit,   \* DefaultQuarantineAdmissionLimit
    NoOne              \* no holder of a mutex; no worker

ASSUME RequestsAssumption == IsFiniteSet(Requests) /\ NoOne \notin Requests
ASSUME MaxActiveAssumption == MaxActive \in Nat \ {0}
ASSUME QuarantineAssumption == QuarantineLimit \in Nat \ {0}

VARIABLES
    mMu,            \* holder of m.mu between two steps
    closed,         \* m.closed
    root,           \* m.root: "open" | "detached" (taken by close) | "closed"
    signalFailure,  \* m.signalFailure
    quarantine,     \* m.quarantine
    slots,          \* len(m.slots)
    workers,        \* m.workers
    closeList,      \* the workers close() copied and has not aborted yet
    closeAt,        \* the worker close() is aborting
    req,            \* handler of each request
    child,          \* "running" until command.Wait has reaped it
    finished,       \* p.finished; the pidfd is closed in the same section
    quarantined,    \* p.quarantined
    abort,          \* progress of the body of abortOnce
    reap,           \* progress of reap()
    rel             \* progress of the body of releaseOnce

poolVars == <<mMu, closed, root, signalFailure, quarantine, slots, workers,
              closeList, closeAt>>
procVars == <<req, child, finished, quarantined, abort, reap, rel>>
vars == <<poolVars, procVars>>

ReqStates == {"idle", "checked", "slotted", "started", "serving", "sending",
              "waiting", "finishing", "aborting", "returned"}
ChildStates == {"none", "running", "reaped"}
AbortStates == {"no", "begun", "signalling", "release", "failed"}
ReapStates == {"off", "waiting", "waited", "dec", "release"}
RelStates == {"no", "unlinked", "done"}

FieldTypes ==
    /\ mMu \in Requests \union {NoOne}
    /\ closed \in BOOLEAN
    /\ root \in {"open", "detached", "closed"}
    /\ signalFailure \in BOOLEAN
    /\ workers \in SUBSET Requests
    /\ closeList \in SUBSET Requests
    /\ closeAt \in Requests \union {NoOne}
    /\ req \in [Requests -> ReqStates]
    /\ child \in [Requests -> ChildStates]
    /\ finished \in [Requests -> BOOLEAN]
    /\ quarantined \in [Requests -> BOOLEAN]
    /\ abort \in [Requests -> AbortStates]
    /\ reap \in [Requests -> ReapStates]
    /\ rel \in [Requests -> RelStates]

\* The type invariant: what each field of the manager and of a process holds.
\* The two counters never go below zero.
TypeOK == FieldTypes /\ quarantine \in Nat /\ slots \in Nat

\* newIsolatedStorageWith: a bootstrapped manager with its root descriptor.
Init ==
    /\ mMu = NoOne
    /\ closed = FALSE
    /\ root = "open"
    /\ signalFailure = FALSE
    /\ quarantine = 0
    /\ slots = 0
    /\ workers = {}
    /\ closeList = {}
    /\ closeAt = NoOne
    /\ req = [r \in Requests |-> "idle"]
    /\ child = [r \in Requests |-> "none"]
    /\ finished = [r \in Requests |-> FALSE]
    /\ quarantined = [r \in Requests |-> FALSE]
    /\ abort = [r \in Requests |-> "no"]
    /\ reap = [r \in Requests |-> "off"]
    /\ rel = [r \in Requests |-> "no"]

-----------------------------------------------------------------------------
(***************************************************************************)
(* startRequestWorker                                                      *)
(***************************************************************************)

GoTo(r, to) == req' = [req EXCEPT ![r] = to]

\* Mutant: the quarantine may reach its limit before admission stops.
AdmissionOffByOne ==
    \/ closed
    \/ root # "open"
    \/ signalFailure
    \/ quarantine > QuarantineLimit

\* The three conditions under which admission is refused before a slot is
\* tried: m.closed || m.root == nil || signalFailure || quarantine >= limit.
AdmissionClosed ==
    \/ closed
    \/ root # "open"
    \/ signalFailure
    \/ quarantine >= QuarantineLimit

\* Lock m.mu, load the admission conditions and keep the lock.  The loads of
\* the atomics are not protected by m.mu: abort changes them under p.mu only.
CheckAdmission(r) ==
    /\ req[r] = "idle"
    /\ mMu = NoOne
    /\ ~AdmissionClosed
    /\ mMu' = r
    /\ GoTo(r, "checked")
    /\ UNCHANGED <<closed, root, signalFailure, quarantine, slots, workers,
                   closeList, closeAt, child, finished, quarantined, abort,
                   reap, rel>>

\* ctx.Err() before anything was taken.
ContextExpired(r) ==
    /\ req[r] = "idle"
    /\ GoTo(r, "returned")
    /\ UNCHANGED <<poolVars, child, finished, quarantined, abort, reap, rel>>

\* Refused admission: nothing was taken.
RefuseAdmission(r) ==
    /\ req[r] = "idle"
    /\ mMu = NoOne
    /\ AdmissionClosed
    /\ GoTo(r, "returned")
    /\ UNCHANGED <<poolVars, child, finished, quarantined, abort, reap, rel>>

\* The non-blocking send on m.slots, then unlock.
TakeSlot(r) ==
    /\ req[r] = "checked"
    /\ slots < MaxActive
    /\ slots' = slots + 1
    /\ mMu' = NoOne
    /\ GoTo(r, "slotted")
    /\ UNCHANGED <<closed, root, signalFailure, quarantine, workers,
                   closeList, closeAt, child, finished, quarantined, abort,
                   reap, rel>>

SlotsFull(r) ==
    /\ req[r] = "checked"
    /\ slots >= MaxActive
    /\ mMu' = NoOne
    /\ GoTo(r, "returned")
    /\ UNCHANGED <<closed, root, signalFailure, quarantine, slots, workers,
                   closeList, closeAt, child, finished, quarantined, abort,
                   reap, rel>>

\* startIsolatedStorageProcess fails.  Where it had already started the child
\* it kills it and waits for it before it returns, inside this slot.
StartFails(r) ==
    /\ req[r] = "slotted"
    /\ slots > 0
    /\ slots' = slots - 1
    /\ GoTo(r, "returned")
    /\ UNCHANGED <<mMu, closed, root, signalFailure, quarantine, workers,
                   closeList, closeAt, child, finished, quarantined, abort,
                   reap, rel>>

StartProcess(r) ==
    /\ req[r] = "slotted"
    /\ child' = [child EXCEPT ![r] = "running"]
    /\ GoTo(r, "started")
    /\ UNCHANGED <<poolVars, finished, quarantined, abort, reap, rel>>

\* Mutant: register without looking at m.closed again.
RegisterUnchecked(r) ==
    /\ req[r] = "started"
    /\ mMu = NoOne
    /\ workers' = workers \union {r}
    /\ reap' = [reap EXCEPT ![r] = "waiting"]
    /\ GoTo(r, "serving")
    /\ UNCHANGED <<mMu, closed, root, signalFailure, quarantine, slots,
                   closeList, closeAt, child, finished, quarantined, abort,
                   rel>>

\* Re-check under m.mu, register and start the reaper.
Register(r) ==
    /\ req[r] = "started"
    /\ mMu = NoOne
    /\ ~closed /\ ~signalFailure
    /\ workers' = workers \union {r}
    /\ reap' = [reap EXCEPT ![r] = "waiting"]
    /\ GoTo(r, "serving")
    /\ UNCHANGED <<mMu, closed, root, signalFailure, quarantine, slots,
                   closeList, closeAt, child, finished, quarantined, abort,
                   rel>>

\* The manager was closed, or lost a signal, while the child was starting:
\* start the reaper and abort the unregistered child.
RejectStarted(r) ==
    /\ req[r] = "started"
    /\ mMu = NoOne
    /\ closed \/ signalFailure
    /\ reap' = [reap EXCEPT ![r] = "waiting"]
    /\ abort' = [abort EXCEPT ![r] = "begun"]
    /\ GoTo(r, "aborting")
    /\ UNCHANGED <<poolVars, child, finished, quarantined, rel>>

-----------------------------------------------------------------------------
(***************************************************************************)
(* list, openRegular and the operations of an open file                    *)
(***************************************************************************)

\* sendRootRequest: the root descriptor is sent while m.mu is held.
LockRoot(r) ==
    /\ req[r] = "serving"
    /\ mMu = NoOne
    /\ ~closed /\ root = "open"
    /\ mMu' = r
    /\ GoTo(r, "sending")
    /\ UNCHANGED <<closed, root, signalFailure, quarantine, slots, workers,
                   closeList, closeAt, child, finished, quarantined, abort,
                   reap, rel>>

SendRoot(r) ==
    /\ req[r] = "sending"
    /\ mMu' = NoOne
    /\ GoTo(r, "waiting")
    /\ UNCHANGED <<closed, root, signalFailure, quarantine, slots, workers,
                   closeList, closeAt, child, finished, quarantined, abort,
                   reap, rel>>

\* The last response frame arrived: finishNormally closes the connection.
Respond(r) ==
    /\ req[r] = "waiting"
    /\ GoTo(r, "finishing")
    /\ UNCHANGED <<poolVars, child, finished, quarantined, abort, reap, rel>>

\* close(p.done), the last statement of reap.
Done(r) == reap[r] = "release" /\ rel[r] = "done"

\* finishNormally: p.done was closed before the timer.
FinishNormally(r) ==
    /\ req[r] = "finishing"
    /\ Done(r)
    /\ GoTo(r, "returned")
    /\ UNCHANGED <<poolVars, child, finished, quarantined, abort, reap, rel>>

\* abortOnce.Do: the first caller runs the body, later callers wait for it.
EnterAbort(r) ==
    abort' = IF abort[r] = "no" THEN [abort EXCEPT ![r] = "begun"] ELSE abort

\* A request that cannot be encoded, an error, a timeout or a refused
\* sendRootRequest: the handler aborts.
HandlerAborts(r) ==
    /\ req[r] \in {"serving", "waiting", "finishing"}
    /\ EnterAbort(r)
    /\ GoTo(r, "aborting")
    /\ UNCHANGED <<poolVars, child, finished, quarantined, reap, rel>>

\* context.AfterFunc(ctx, process.abort), at any time while it is installed.
ContextAborts(r) ==
    /\ req[r] \in {"serving", "sending", "waiting", "finishing"}
    /\ abort[r] = "no"
    /\ EnterAbort(r)
    /\ UNCHANGED <<poolVars, req, child, finished, quarantined, reap, rel>>

\* abortOnce is done: the signal was refused, or p.release() has returned.
AbortFinished(r) ==
    \/ abort[r] = "failed"
    \/ abort[r] = "release" /\ rel[r] = "done"

HandlerReturns(r) ==
    /\ req[r] = "aborting"
    /\ AbortFinished(r)
    /\ GoTo(r, "returned")
    /\ UNCHANGED <<poolVars, child, finished, quarantined, abort, reap, rel>>

-----------------------------------------------------------------------------
(***************************************************************************)
(* abort, release and reap                                                 *)
(***************************************************************************)

\* Lock p.mu; a finished process is only released.
AbortFindsFinished(r) ==
    /\ abort[r] = "begun"
    /\ finished[r]
    /\ abort' = [abort EXCEPT ![r] = "release"]
    /\ UNCHANGED <<poolVars, req, child, finished, quarantined, reap, rel>>

\* Lock p.mu; a process that is not finished enters quarantine.
AbortQuarantines(r) ==
    /\ abort[r] = "begun"
    /\ ~finished[r]
    /\ abort' = [abort EXCEPT ![r] = "signalling"]
    /\ quarantined' = [quarantined EXCEPT ![r] = TRUE]
    /\ quarantine' = quarantine + 1
    /\ UNCHANGED <<mMu, closed, root, signalFailure, slots, workers,
                   closeList, closeAt, req, child, finished, reap, rel>>

\* pidfd_send_signal is accepted, or says ESRCH: unlock p.mu, then release.
SignalAccepted(r) ==
    /\ abort[r] = "signalling"
    /\ abort' = [abort EXCEPT ![r] = "release"]
    /\ UNCHANGED <<poolVars, req, child, finished, quarantined, reap, rel>>

\* Any other error: the slot stays taken and admission closes.
SignalFails(r) ==
    /\ abort[r] = "signalling"
    /\ abort' = [abort EXCEPT ![r] = "failed"]
    /\ signalFailure' = TRUE
    /\ UNCHANGED <<mMu, closed, root, quarantine, slots, workers, closeList,
                   closeAt, req, child, finished, quarantined, reap, rel>>

\* release, first half: delete(m.workers, p) under m.mu.
ReleaseUnlinks(r) ==
    /\ abort[r] = "release" \/ reap[r] = "release"
    /\ rel[r] = "no"
    /\ mMu = NoOne
    /\ workers' = workers \ {r}
    /\ rel' = [rel EXCEPT ![r] = "unlinked"]
    /\ UNCHANGED <<mMu, closed, root, signalFailure, quarantine, slots,
                   closeList, closeAt, req, child, finished, quarantined,
                   abort, reap>>

\* release, second half: <-m.slots, after m.mu is unlocked.
ReleaseSlot(r) ==
    /\ rel[r] = "unlinked"
    /\ slots > 0
    /\ slots' = slots - 1
    /\ rel' = [rel EXCEPT ![r] = "done"]
    /\ UNCHANGED <<mMu, closed, root, signalFailure, quarantine, workers,
                   closeList, closeAt, req, child, finished, quarantined,
                   abort, reap>>

\* The child exits (by itself, on its closed connection, or killed) and
\* command.Wait reaps it.
WaitReturns(r) ==
    /\ reap[r] = "waiting"
    /\ child' = [child EXCEPT ![r] = "reaped"]
    /\ reap' = [reap EXCEPT ![r] = "waited"]
    /\ UNCHANGED <<poolVars, req, finished, quarantined, abort, rel>>

\* Mutant: reap closes the pidfd without taking p.mu.
ReapWithoutLock(r) ==
    /\ reap[r] = "waited"
    /\ finished' = [finished EXCEPT ![r] = TRUE]
    /\ reap' = [reap EXCEPT ![r] = IF quarantined[r] THEN "dec" ELSE "release"]
    /\ UNCHANGED <<poolVars, req, child, quarantined, abort, rel>>

\* reap's section under p.mu: it sets finished and closes the pidfd.
ReapLocks(r) ==
    /\ reap[r] = "waited"
    /\ abort[r] # "signalling"
    /\ finished' = [finished EXCEPT ![r] = TRUE]
    /\ reap' = [reap EXCEPT ![r] = IF quarantined[r] THEN "dec" ELSE "release"]
    /\ UNCHANGED <<poolVars, req, child, quarantined, abort, rel>>

\* Mutant: the quarantine counter is never decremented.
ReapStaysQuarantined(r) ==
    /\ reap[r] = "dec"
    /\ reap' = [reap EXCEPT ![r] = "release"]
    /\ UNCHANGED <<poolVars, req, child, finished, quarantined, abort, rel>>

ReapLeavesQuarantine(r) ==
    /\ reap[r] = "dec"
    /\ quarantine' = quarantine - 1
    /\ reap' = [reap EXCEPT ![r] = "release"]
    /\ UNCHANGED <<mMu, closed, root, signalFailure, slots, workers,
                   closeList, closeAt, req, child, finished, quarantined,
                   abort, rel>>

-----------------------------------------------------------------------------
(***************************************************************************)
(* close                                                                   *)
(***************************************************************************)

\* The section under m.mu: closed, the root detached, the workers copied.
Close ==
    /\ ~closed
    /\ mMu = NoOne
    /\ closed' = TRUE
    /\ root' = "detached"
    /\ closeList' = workers
    /\ UNCHANGED <<mMu, signalFailure, quarantine, slots, workers, closeAt,
                   procVars>>

\* The next worker.abort() of close's loop, in any order.
CloseAborts(r) ==
    /\ r \in closeList
    /\ closeAt = NoOne
    /\ closeAt' = r
    /\ closeList' = closeList \ {r}
    /\ EnterAbort(r)
    /\ UNCHANGED <<mMu, closed, root, signalFailure, quarantine, slots,
                   workers, req, child, finished, quarantined, reap, rel>>

CloseAborted ==
    /\ closeAt # NoOne
    /\ AbortFinished(closeAt)
    /\ closeAt' = NoOne
    /\ UNCHANGED <<mMu, closed, root, signalFailure, quarantine, slots,
                   workers, closeList, procVars>>

\* root.Close(), after the last abort.
CloseRoot ==
    /\ root = "detached"
    /\ closeList = {}
    /\ closeAt = NoOne
    /\ root' = "closed"
    /\ UNCHANGED <<mMu, closed, signalFailure, quarantine, slots, workers,
                   closeList, closeAt, procVars>>

-----------------------------------------------------------------------------
Handler(r) ==
    \/ ContextExpired(r) \/ CheckAdmission(r) \/ RefuseAdmission(r)
    \/ TakeSlot(r) \/ SlotsFull(r)
    \/ StartFails(r) \/ StartProcess(r) \/ Register(r) \/ RejectStarted(r)
    \/ LockRoot(r) \/ SendRoot(r) \/ Respond(r) \/ FinishNormally(r)
    \/ HandlerAborts(r) \/ HandlerReturns(r)

Aborter(r) ==
    \/ AbortFindsFinished(r) \/ AbortQuarantines(r)
    \/ SignalAccepted(r) \/ SignalFails(r)

Releaser(r) == ReleaseUnlinks(r) \/ ReleaseSlot(r)

Reaper(r) == ReapLocks(r) \/ ReapLeavesQuarantine(r)

Closer == Close \/ (\E r \in Requests : CloseAborts(r)) \/ CloseAborted
              \/ CloseRoot

Next ==
    \/ \E r \in Requests :
          \/ Handler(r) \/ ContextAborts(r) \/ Aborter(r) \/ Releaser(r)
          \/ WaitReturns(r) \/ Reaper(r)
    \/ Closer

Spec == Init /\ [][Next]_vars

-----------------------------------------------------------------------------
(***************************************************************************)
(* Properties                                                              *)
(***************************************************************************)

Unreaped == {r \in Requests : child[r] = "running"}

\* "One coordinator generation can retain at most active capacity plus this
\* admission limit minus one children" (worker_parent_linux.go:23-28).
UnreapedBound == Cardinality(Unreaped) <= MaxActive + QuarantineLimit - 1

\* A request owns a slot from its send on m.slots to its receive.
HoldsSlot(r) ==
    \/ req[r] = "slotted"
    \/ child[r] # "none" /\ rel[r] # "done"

SlotHolders == {r \in Requests : HoldsSlot(r)}

\* No path of start, abort, reap or close leaks a slot or gives one back
\* twice: the channel holds one token for each owner, and never overflows.
SlotAccounting == slots = Cardinality(SlotHolders) /\ slots <= MaxActive

\* The pidfd is signalled only while it is open: reap closes it, and it may
\* be reused by an unrelated child at once, but not between abort's test of
\* p.finished and its pidfd_send_signal.
SignalsOnlyOpenPidfd == \A r \in Requests : abort[r] = "signalling" => ~finished[r]

\* A child the kernel did not accept a kill for keeps its slot until it is
\* reaped, and admission stays closed.
FailedSignalFailsClosed ==
    \A r \in Requests : abort[r] = "failed" =>
        /\ signalFailure
        /\ rel[r] # "no" => child[r] = "reaped"

\* Once close has returned, no child runs unobserved: each one that is still
\* unreaped has been aborted, or is about to be by the handler starting it.
CloseReachesEveryChild ==
    root = "closed" =>
        \A r \in Unreaped : abort[r] # "no" \/ req[r] = "started"

\* close never closes the root descriptor under a handler that is sending it.
RootOpenWhileSent == \A r \in Requests : req[r] = "sending" => root = "open"

\* No descriptor is used after another goroutine closed it, and a kill that was
\* refused keeps its slot: abort against reap, and a handler against close.
DescriptorsKept == SignalsOnlyOpenPidfd /\ FailedSignalFailsClosed /\ RootOpenWhileSent

-----------------------------------------------------------------------------
(***************************************************************************)
(* The inductive invariant behind UnreapedBound and SlotAccounting.        *)
(***************************************************************************)

\* How the three goroutines of one request agree with each other.
Coherent(r) ==
    /\ req[r] \in {"idle", "checked", "slotted"} => child[r] = "none"
    /\ child[r] = "none" =>
          /\ req[r] \in {"idle", "checked", "slotted", "returned"}
          /\ abort[r] = "no" /\ reap[r] = "off"
    /\ req[r] = "started" =>
          child[r] = "running" /\ abort[r] = "no" /\ reap[r] = "off"
    /\ reap[r] = "off" => child[r] = "none" \/ req[r] = "started"
    /\ reap[r] = "waiting" => child[r] = "running"
    /\ reap[r] \in {"waited", "dec", "release"} => child[r] = "reaped"
    /\ finished[r] <=> reap[r] \in {"dec", "release"}
    /\ abort[r] \in {"no", "begun"} => ~quarantined[r]
    /\ abort[r] = "signalling" => quarantined[r] /\ ~finished[r]
    /\ abort[r] = "release" => quarantined[r] \/ finished[r]
    /\ abort[r] = "failed" => quarantined[r] /\ signalFailure
    /\ reap[r] = "dec" => quarantined[r]
    /\ rel[r] # "no" => abort[r] = "release" \/ reap[r] = "release"
    /\ r \in workers \union closeList => reap[r] # "off"
    /\ req[r] \in {"checked", "sending"} <=> mMu = r
    /\ req[r] = "sending" => root = "open"

\* The processes counted by m.quarantine.
Counted == {r \in Requests : quarantined[r] /\ reap[r] # "release"}

\* Children still running that are no longer among m.workers, or about to
\* give their slot back: their number cannot grow while m.mu is held.
Unlinked == {r \in Requests : child[r] = "running" /\ rel[r] # "no"}

\* Requests that have a child or may still start one.
Liable == {r \in Requests : req[r] = "slotted" \/ child[r] = "running"}

PoolInv ==
    /\ TypeOK
    /\ \A r \in Requests : Coherent(r)
    /\ quarantine = Cardinality(Counted)
    /\ SlotAccounting
    /\ \A r \in Requests : req[r] = "checked" =>
          Cardinality(Unlinked) <= QuarantineLimit - 1
    /\ Cardinality(Liable) <= MaxActive + QuarantineLimit - 1

-----------------------------------------------------------------------------
(***************************************************************************)
(* Liveness.  Every goroutine keeps running (the Go scheduler is fair and  *)
(* sync.Mutex does not starve a waiter), every IPC step has a deadline,    *)
(* and a child whose connection is closed or that was killed exits.        *)
(***************************************************************************)

ConnectionClosed(r) == abort[r] # "no" \/ req[r] = "finishing"

Fairness ==
    /\ \A r \in Requests :
          /\ WF_vars(req[r] # "idle" /\ Handler(r)) /\ WF_vars(Aborter(r))
          /\ WF_vars(Releaser(r)) /\ WF_vars(Reaper(r))
          /\ SF_vars(ReleaseUnlinks(r))
          /\ WF_vars(ConnectionClosed(r) /\ WaitReturns(r))
    /\ WF_vars(\E r \in Requests : CloseAborts(r))
    /\ WF_vars(CloseAborted) /\ WF_vars(CloseRoot)

FairSpec == Spec /\ Fairness

\* The pool drains: whatever was aborted, in whatever order, close returns and
\* every slot and every quarantine place comes back once the children exit.
CloseDrains == closed ~> (root = "closed" /\ slots = 0 /\ quarantine = 0)

=============================================================================

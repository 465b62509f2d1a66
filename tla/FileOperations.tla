---------------------------- MODULE FileOperations ----------------------------
(***************************************************************************)
(* Asynchronous copy and move: the bounded queue with its single worker    *)
(* (service/file.go), the notification publisher with its coalesced start  *)
(* requests (service/notify.go) and the two routes that drive them         *)
(* (route/v1/file.go).  Every critical section of q.mu and of              *)
(* fileOperationNotifierMu is one step.                                    *)
(*                                                                         *)
(* A task id is a fresh UUID, numbered here in order of arrival: q.order   *)
(* is compacted in the same critical section that removes tasks, so it is  *)
(* always the ids present in q.tasks, oldest first, and has no variable.   *)
(* Goroutines have identities so that two of a kind could exist at once.   *)
(***************************************************************************)
EXTENDS Naturals, FiniteSets

CONSTANTS Handlers,      \* concurrent HTTP handlers
          Workers,       \* identities for worker goroutines
          Notifiers,     \* identities for publisher goroutines
          MaxTasks,      \* operations ever accepted
          MaxQueued,     \* maxQueuedFileOperations
          NumItems,      \* items of one operation
          MaxFailures,   \* failing publications on the message bus
          MaxPanics      \* panics inside the executor

ASSUME BoundsAssumption ==
  /\ {MaxTasks, MaxQueued, NumItems, MaxFailures, MaxPanics} \subseteq Nat
  /\ MaxQueued > 0 /\ NumItems > 0
  /\ IsFiniteSet(Workers) /\ IsFiniteSet(Notifiers)

Ids == 1 .. MaxTasks
Items == 1 .. NumItems
NoId == 0

Active == {"PENDING", "RUNNING"}
Terminal == {"SUCCESS", "FAILED", "PARTIAL"}
Statuses == {"absent"} \cup Active \cup Terminal

VARIABLES
  tasks,          \* status of each task in q.tasks, "absent" when it has none
  runningID, workerStarted,
  worker,         \* each worker goroutine: where it is, its task and its copy of the items
  handler,        \* where each handler is
  running, requested,  \* fileOperationNotifierRunning, fileOperationNotifierRequested
  notifier,       \* each publisher goroutine: where it is, its snapshot, publishedAtLeastOnce
  told,           \* the last status of each task that reached the message bus
  changes,        \* tasks in the queue for which the executor changed files
  withdrawn,      \* tasks a user deleted
  panicked,       \* tasks in the queue whose executor panicked
  asked,          \* a start request no snapshot has followed yet
  used, failures

taskVars == <<tasks, runningID, workerStarted>>
notifyVars == <<running, requested, notifier, told, asked, failures>>
execVars == <<worker, changes, panicked>>
vars == <<tasks, runningID, workerStarted, worker, handler, running,
          requested, notifier, told, changes, withdrawn, panicked, asked, used, failures>>

Untouched == [i \in Items |-> "PENDING"]
WorkerStates == [pc : {"off", "pick", "exec"}, id : Ids \cup {NoId}, items : [Items -> Statuses]]
NotifierStates ==
  [pc : {"off", "snap", "publish", "ack", "check", "tail"}, snap : [Ids -> Statuses], sent : BOOLEAN]

TypeOK ==
  /\ tasks \in [Ids -> Statuses]
  /\ runningID \in Ids \cup {NoId}
  /\ workerStarted \in BOOLEAN
  /\ worker \in [Workers -> WorkerStates]
  /\ handler \in [Handlers -> {"idle", "notify"}]
  /\ running \in BOOLEAN /\ requested \in BOOLEAN /\ asked \in BOOLEAN
  /\ notifier \in [Notifiers -> NotifierStates]
  /\ told \in [Ids -> Statuses]
  /\ changes \subseteq Ids
  /\ withdrawn \subseteq Ids /\ panicked \subseteq Ids
  /\ used \in 0 .. MaxTasks
  /\ failures \in 0 .. MaxFailures

WorkerOff == [pc |-> "off", id |-> NoId, items |-> Untouched]
NothingQueued == [id \in Ids |-> "absent"]
NotifierOff == [pc |-> "off", snap |-> NothingQueued, sent |-> FALSE]

Init ==
  /\ tasks = NothingQueued
  /\ runningID = NoId /\ workerStarted = FALSE
  /\ worker = [w \in Workers |-> WorkerOff]
  /\ handler = [h \in Handlers |-> "idle"]
  /\ running = FALSE /\ requested = FALSE /\ asked = FALSE
  /\ notifier = [n \in Notifiers |-> NotifierOff]
  /\ told = NothingQueued
  /\ changes = {} /\ withdrawn = {} /\ panicked = {}
  /\ used = 0 /\ failures = 0

Queued == {id \in Ids : tasks[id] # "absent"}
Pending == {id \in Ids : tasks[id] = "PENDING"}
Departs(ids) ==
  /\ changes' = changes \ ids
  /\ panicked' = panicked \ ids
Go(h, where) == handler' = [handler EXCEPT ![h] = where]

(* ------------------------------ the routes ------------------------------ *)

(* A new goroutine: which of the identities not in use it gets is no matter. *)
Fresh(ids, state) == CHOOSE g \in ids : state[g].pc = "off"

(* enqueue, which starts a worker when none is running. *)
StartWorker ==
  IF workerStarted
  THEN UNCHANGED <<workerStarted, worker>>
  ELSE /\ workerStarted' = TRUE
       /\ \E w \in Workers :
            /\ worker[w].pc = "off" /\ w = Fresh(Workers, worker)
            /\ worker' = [worker EXCEPT ![w] = [WorkerOff EXCEPT !.pc = "pick"]]

(* PrepareFileOperation has no effect on the queue; a full queue refuses. *)
Enqueue(h) ==
  /\ handler[h] = "idle"
  /\ used < MaxTasks
  /\ Cardinality(Queued) < MaxQueued
  /\ used' = used + 1
  /\ tasks' = [tasks EXCEPT ![used + 1] = "PENDING"]
  /\ StartWorker
  /\ Go(h, "notify")
  /\ UNCHANGED <<runningID, changes, panicked, notifyVars, withdrawn>>

(* A task that is running, or no longer there, is refused with no effect. *)
DeleteAll(h) ==
  /\ handler[h] = "idle"
  /\ runningID = NoId
  /\ tasks' = NothingQueued
  /\ withdrawn' = withdrawn \cup Queued
  /\ Departs(Queued)
  /\ Go(h, "notify")
  /\ UNCHANGED <<runningID, workerStarted, worker, notifyVars, used>>

Delete(h, id) ==
  /\ handler[h] = "idle"
  /\ id \in Queued
  /\ id # runningID /\ tasks[id] # "RUNNING"
  /\ tasks' = [tasks EXCEPT ![id] = "absent"]
  /\ withdrawn' = withdrawn \cup {id}
  /\ Departs({id})
  /\ Go(h, "notify")
  /\ UNCHANGED <<runningID, workerStarted, worker, notifyVars, used>>

(* StartFileOperationNotifications *)
StartUncoalesced(h) ==
  /\ handler[h] = "notify"
  /\ asked' = TRUE
  /\ running' = TRUE /\ requested' = FALSE
  /\ \E n \in Notifiers :
       /\ notifier[n].pc = "off" /\ n = Fresh(Notifiers, notifier)
       /\ notifier' = [notifier EXCEPT ![n] = [NotifierOff EXCEPT !.pc = "snap"]]
  /\ Go(h, "idle")
  /\ UNCHANGED <<taskVars, execVars, told, withdrawn, used, failures>>

StartNotifications(h) ==
  /\ handler[h] = "notify"
  /\ asked' = TRUE
  /\ running' = TRUE
  /\ requested' = running
  /\ IF running
     THEN notifier' = notifier
     ELSE \E n \in Notifiers :
            /\ notifier[n].pc = "off" /\ n = Fresh(Notifiers, notifier)
            /\ notifier' = [notifier EXCEPT ![n] = [NotifierOff EXCEPT !.pc = "snap"]]
  /\ Go(h, "idle")
  /\ UNCHANGED <<taskVars, execVars, told, withdrawn, used, failures>>

(* ------------------------------ the worker ------------------------------ *)

NextPending == CHOOSE id \in Pending : \A other \in Pending : id <= other

WorkerPicks(w) ==
  /\ worker[w].pc = "pick"
  /\ Pending # {}
  /\ runningID' = NextPending
  /\ tasks' = [tasks EXCEPT ![NextPending] = "RUNNING"]
  /\ worker' = [worker EXCEPT ![w] = [pc |-> "exec", id |-> NextPending, items |-> Untouched]]
  /\ UNCHANGED <<workerStarted, changes, panicked, handler, notifyVars, withdrawn, used>>

WorkerLeavesFlag(w) ==
  /\ worker[w].pc = "pick"
  /\ Pending = {}
  /\ worker' = [worker EXCEPT ![w] = WorkerOff]
  /\ UNCHANGED <<taskVars, changes, panicked, handler, notifyVars, withdrawn, used>>

WorkerStops(w) ==
  /\ worker[w].pc = "pick"
  /\ Pending = {}
  /\ workerStarted' = FALSE
  /\ worker' = [worker EXCEPT ![w] = WorkerOff]
  /\ UNCHANGED <<tasks, runningID, changes, panicked, handler, notifyVars, withdrawn, used>>

(* What one item can come to: the status the executor writes down, and what *)
(* really happened.  A skipped conflict succeeds and changes nothing; an    *)
(* error counts as partial when the destination was published or an        *)
(* auxiliary object of the transaction was changed.                        *)
Outcomes ==
  {[status |-> "SUCCESS", did |-> FALSE], [status |-> "SUCCESS", did |-> TRUE],
   [status |-> "FAILED", did |-> FALSE], [status |-> "PARTIAL", did |-> TRUE]}

NextItem(w, i) ==
  /\ worker[w].pc = "exec"
  /\ \A j \in Items : worker[w].items[j] = "PENDING" <=> j >= i

ExecuteItem(w, i) ==
  /\ NextItem(w, i)
  /\ \E o \in Outcomes :
       /\ worker' = [worker EXCEPT ![w].items[i] = o.status]
       /\ changes' = IF o.did THEN changes \cup {worker[w].id} ELSE changes
  /\ UNCHANGED <<taskVars, panicked, handler, notifyVars, withdrawn, used>>

(* executeSafely recovers and reports every item as failed. *)
ExecutorPanics(w) ==
  /\ worker[w].pc = "exec"
  /\ \E i \in Items : NextItem(w, i)
  /\ Cardinality(panicked) < MaxPanics
  /\ panicked' = panicked \cup {worker[w].id}
  /\ worker' = [worker EXCEPT ![w].items = [i \in Items |-> "FAILED"]]
  /\ UNCHANGED <<taskVars, changes, handler, notifyVars, withdrawn, used>>

OverallBySuccess(its) ==
  IF \A i \in Items : its[i] = "SUCCESS" THEN "SUCCESS"
  ELSE IF \A i \in Items : its[i] # "SUCCESS" THEN "FAILED"
  ELSE "PARTIAL"

Overall(its) ==
  IF \A i \in Items : its[i] = "SUCCESS" THEN "SUCCESS"
  ELSE IF \A i \in Items : its[i] = "FAILED" THEN "FAILED"
  ELSE "PARTIAL"

WorkerFinishes(w) ==
  /\ worker[w].pc = "exec"
  /\ \A i \in Items : worker[w].items[i] # "PENDING"
  /\ LET id == worker[w].id
     IN tasks' = IF tasks[id] = "absent" THEN tasks
                 ELSE [tasks EXCEPT ![id] = Overall(worker[w].items)]
  /\ runningID' = NoId
  /\ worker' = [worker EXCEPT ![w] = [WorkerOff EXCEPT !.pc = "pick"]]
  /\ UNCHANGED <<workerStarted, changes, panicked, handler, notifyVars, withdrawn, used>>

(* ---------------------------- the publisher ----------------------------- *)

Move(n, where) == notifier' = [notifier EXCEPT ![n].pc = where]

TakeSnapshot(n) ==
  /\ notifier[n].pc = "snap"
  /\ asked' = FALSE
  /\ notifier' = [notifier EXCEPT ![n] =
       [pc |-> IF Queued = {} /\ notifier[n].sent THEN "tail" ELSE "publish",
        snap |-> tasks, sent |-> notifier[n].sent]]
  /\ UNCHANGED <<taskVars, execVars, handler, running, requested, told, withdrawn, used, failures>>

Announced(n) ==
  [id \in Ids |-> IF notifier[n].snap[id] = "absent" THEN told[id] ELSE notifier[n].snap[id]]

Publish(n) ==
  /\ notifier[n].pc = "publish"
  /\ told' = Announced(n)
  /\ notifier' = [notifier EXCEPT ![n].pc = "ack", ![n].sent = TRUE]
  /\ UNCHANGED <<taskVars, execVars, handler, running, requested, asked, withdrawn, used, failures>>

(* An error or a timeout; the bus may have taken the event all the same. *)
PublishFails(n) ==
  /\ notifier[n].pc = "publish"
  /\ failures < MaxFailures
  /\ failures' = failures + 1
  /\ told' \in {told, Announced(n)}
  /\ Move(n, "tail")
  /\ UNCHANGED <<taskVars, execVars, handler, running, requested, asked, withdrawn, used>>

AcknowledgeAnyTerminal(n) ==
  /\ notifier[n].pc = "ack"
  /\ Departs({id \in Ids : tasks[id] \in Terminal})
  /\ tasks' = [id \in Ids |-> IF tasks[id] \in Terminal THEN "absent" ELSE tasks[id]]
  /\ notifier' = [notifier EXCEPT ![n].pc = "check", ![n].snap = NothingQueued]
  /\ UNCHANGED <<runningID, workerStarted, worker, handler, running,
                 requested, told, asked, withdrawn, used, failures>>

Done(n) == {id \in Ids : notifier[n].snap[id] \in Terminal /\ tasks[id] \in Terminal}

Acknowledge(n) ==
  /\ notifier[n].pc = "ack"
  /\ Departs(Done(n))
  /\ tasks' = [id \in Ids |-> IF id \in Done(n) THEN "absent" ELSE tasks[id]]
  /\ notifier' = [notifier EXCEPT ![n].pc = "check", ![n].snap = NothingQueued]
  /\ UNCHANGED <<runningID, workerStarted, worker, handler, running,
                 requested, told, asked, withdrawn, used, failures>>

(* Nothing left, or another round after three seconds. *)
CheckQueue(n) ==
  /\ notifier[n].pc = "check"
  /\ Move(n, IF Queued = {} THEN "tail" ELSE "snap")
  /\ UNCHANGED <<taskVars, execVars, handler, running, requested, told, asked,
                 withdrawn, used, failures>>

(* Mutant: the publisher stops although a start request is waiting. *)
TailForgets(n) ==
  /\ notifier[n].pc = "tail"
  /\ running' = FALSE
  /\ UNCHANGED requested
  /\ notifier' = [notifier EXCEPT ![n] = NotifierOff]
  /\ UNCHANGED <<taskVars, execVars, handler, told, asked, withdrawn, used, failures>>

(* The publisher stops, or starts over if it was asked to meanwhile. *)
Tail(n) ==
  /\ notifier[n].pc = "tail"
  /\ running' = requested
  /\ requested' = FALSE
  /\ notifier' = [notifier EXCEPT ![n] =
       [NotifierOff EXCEPT !.pc = IF requested THEN "snap" ELSE "off"]]
  /\ UNCHANGED <<taskVars, execVars, handler, told, asked, withdrawn, used, failures>>

HandlerSteps(h) ==
  \/ Enqueue(h) \/ DeleteAll(h) \/ (\E id \in Ids : Delete(h, id))
  \/ StartNotifications(h)
ExecSteps(w) == (\E i \in Items : ExecuteItem(w, i)) \/ ExecutorPanics(w)
WorkerSteps(w) == WorkerPicks(w) \/ WorkerStops(w) \/ ExecSteps(w) \/ WorkerFinishes(w)
PublicationSteps(n) == Publish(n) \/ PublishFails(n)
NotifierSteps(n) ==
  TakeSnapshot(n) \/ PublicationSteps(n) \/ Acknowledge(n) \/ CheckQueue(n) \/ Tail(n)

Next ==
  \/ \E h \in Handlers : HandlerSteps(h)
  \/ \E w \in Workers : WorkerSteps(w)
  \/ \E n \in Notifiers : NotifierSteps(n)

Spec == Init /\ [][Next]_vars

(* Goroutines are scheduled, a transfer ends, and a publication returns: it *)
(* runs under messageBusRequestTimeout.  Clients need not send anything.    *)
FairSpec ==
  /\ Spec
  /\ \A h \in Handlers : WF_vars(StartNotifications(h))
  /\ \A w \in Workers : WF_vars(WorkerSteps(w))
  /\ \A n \in Notifiers : WF_vars(NotifierSteps(n))

(* ------------------------------ properties ------------------------------ *)

Executing == {w \in Workers : worker[w].pc = "exec"}

(* At most one operation executes at a time, and the one that does is in    *)
(* the queue, marked RUNNING and named by runningID: neither form of delete *)
(* can take it away while the worker is writing files.                      *)
OneRunning ==
  /\ \A v, w \in Executing : v = w
  /\ \A w \in Executing : worker[w].id = runningID
  /\ \A id \in Ids : tasks[id] = "RUNNING" <=> id = runningID
  /\ runningID # NoId => Executing # {}

(* enqueue and the exit of the worker agree on workerStarted: a task that   *)
(* waits in the queue always has a worker goroutine to run it.              *)
NoStrandedTask == Pending # {} => \E w \in Workers : worker[w].pc # "off"

(* The worker takes the oldest waiting task, so nothing accepted earlier is *)
(* still waiting while a later one runs.                                    *)
FirstComeFirstServed == runningID # NoId => \A id \in Pending : id > runningID

(* A task leaves the queue only because a user deleted it or because its    *)
(* final status reached the message bus ("acknowledged only after a         *)
(* successful message-bus response"), whatever finishes between the         *)
(* snapshot and the acknowledgement.                                        *)
NeverForgotten ==
  \A id \in 1 .. used : tasks[id] = "absent" => id \in withdrawn \/ told[id] \in Terminal

(* A user told that an operation FAILED finds the file system as it was,    *)
(* unless the executor panicked.                                            *)
FailedMeansUntouched ==
  \A id \in changes : id \in panicked \/ told[id] # "FAILED"

(* One operation runs at a time, and what its items did decides its status.  *)
OperationsHonest == OneRunning /\ FailedMeansUntouched

NotAfter(a, b) ==
  \/ a = b \/ a = "absent"
  \/ a = "PENDING" /\ b # "absent"
  \/ a = "RUNNING" /\ b \in Terminal

(* What the bus hears of a task only moves forward: no stale snapshot is    *)
(* published after a newer one, and a final status never changes.           *)
NeverRegresses == [][\A id \in Ids : NotAfter(told[id], told'[id])]_vars

(* A start request that finds the publisher running is not lost: a snapshot *)
(* is taken after it, also when the publisher was just about to stop.       *)
RequestServed == asked ~> ~asked

(* "notification failures never start, stop, or advance file operations"    *)
(* (notify.go:82): a queue is never so full of finished operations, with no *)
(* publisher left to acknowledge them, that no operation can be accepted.   *)
FailuresStopNothing ==
  ~ /\ Cardinality(Queued) = MaxQueued
    /\ \A id \in Queued : tasks[id] \in Terminal
    /\ ~running
    /\ \A h \in Handlers : handler[h] # "notify"

(* ------------------------- inductive invariants ------------------------- *)

WorkerOn(w) == worker[w].pc # "off"
NotifierOn(n) == notifier[n].pc # "off"

(* workerStarted says whether the one worker exists, and a task that waits  *)
(* has it.                                                                  *)
QueueInv ==
  /\ TypeOK
  /\ \A v, w \in Workers : WorkerOn(v) /\ WorkerOn(w) => v = w
  /\ workerStarted <=> \E w \in Workers : WorkerOn(w)
  /\ Pending # {} => workerStarted
  /\ \A w \in Executing : worker[w].id \in Ids
  /\ \A id \in Ids : id > used => tasks[id] = "absent"
  /\ OneRunning
  /\ FirstComeFirstServed

(* The bus is never ahead of the one publisher's snapshot, and the snapshot *)
(* never ahead of the queue.                                                *)
PublishInv ==
  /\ \A m, n \in Notifiers : NotifierOn(m) /\ NotifierOn(n) => m = n
  /\ running <=> \E n \in Notifiers : NotifierOn(n)
  /\ \A id \in Ids : id > used => /\ told[id] = "absent"
                                  /\ \A n \in Notifiers : notifier[n].snap[id] = "absent"
  /\ \A id \in Ids : tasks[id] = "absent" \/ NotAfter(told[id], tasks[id])
  /\ \A n \in Notifiers, id \in Ids :
       notifier[n].pc \in {"publish", "ack"} =>
         tasks[id] = "absent" \/ NotAfter(notifier[n].snap[id], tasks[id])
  /\ \A n \in Notifiers, id \in Ids :
       notifier[n].pc = "publish" =>
         notifier[n].snap[id] = "absent" \/ NotAfter(told[id], notifier[n].snap[id])
  /\ \A n \in Notifiers, id \in Ids :
       notifier[n].pc = "ack" /\ notifier[n].snap[id] \in Terminal => told[id] \in Terminal
  /\ NeverForgotten
=============================================================================

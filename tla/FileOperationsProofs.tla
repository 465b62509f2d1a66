------------------------ MODULE FileOperationsProofs ------------------------
(***************************************************************************)
(* The queue and its publisher, for any number of handlers, tasks, items   *)
(* and goroutine identities, any queue length, and any number of failures. *)
(*                                                                         *)
(* QueueInv needs only the critical sections of q.mu; PublishInv is a      *)
(* chain of three orders, bus <= snapshot <= queue, which the worker can   *)
(* only stretch and the single publisher closes up again.                  *)
(***************************************************************************)
EXTENDS FileOperations, TLAPS, WellFoundedInduction

\* The records a goroutine starts and stops with.
LEMMA Goroutines ==
    /\ WorkerOff \in WorkerStates /\ WorkerOff.pc = "off"
    /\ [WorkerOff EXCEPT !.pc = "pick"] \in WorkerStates
    /\ [WorkerOff EXCEPT !.pc = "pick"].pc = "pick"
    /\ NotifierOff \in NotifierStates /\ NotifierOff.pc = "off"
    /\ \A where \in {"off", "snap"} :
         /\ [NotifierOff EXCEPT !.pc = where] \in NotifierStates
         /\ [NotifierOff EXCEPT !.pc = where].pc = where
         /\ [NotifierOff EXCEPT !.pc = where].snap = NothingQueued
  BY Zenon DEF WorkerOff, WorkerStates, Untouched, Statuses, Active, NotifierOff,
         NotifierStates, NothingQueued

\* nextPendingLocked returns the oldest pending task.
LEMMA OldestPending ==
    ASSUME TypeOK, Pending # {}
    PROVE  NextPending \in Pending /\ \A other \in Pending : NextPending <= other
<1>1. Pending \subseteq Nat /\ Pending \subseteq Ids
  BY BoundsAssumption DEF Pending, Ids
<1>2. PICK x \in Pending : \A y \in Pending : ~ (<<y, x>> \in OpToRel(<, Nat))
  BY <1>1, WFMin, NatLessThanWellFounded, Zenon
<1>3. \A y \in Pending : ~ (y < x)
  BY <1>1, <1>2, Zenon DEF OpToRel
<1>4. \A y \in Pending : x <= y
  BY <1>1, <1>3
<1> QED BY <1>4, Zenon DEF NextPending

LEMMA TypeStep ==
    ASSUME TypeOK, \A w \in Executing : worker[w].id \in Ids, [Next]_vars
    PROVE  TypeOK'
<1> USE DEF TypeOK, NoId
<1>0. ASSUME UNCHANGED vars PROVE TypeOK'
  BY <1>0, Zenon DEF vars
<1>1. ASSUME NEW h \in Handlers, Enqueue(h) PROVE TypeOK'
  <2> USE <1>1 DEF Enqueue
  <2>1. used' \in 0 .. MaxTasks
    BY BoundsAssumption
  <2>2. worker' \in [Workers -> WorkerStates]
    <3>1. CASE workerStarted
      BY <3>1, Zenon DEF StartWorker
    <3>2. CASE ~workerStarted
      BY <3>2, Goroutines, Zenon DEF StartWorker
    <3> QED BY <3>1, <3>2, Zenon
  <2>3. workerStarted' \in BOOLEAN
    BY Zenon DEF StartWorker
  <2>4. tasks' \in [Ids -> Statuses]
    BY BoundsAssumption, Zenon DEF Statuses, Active, Ids
  <2>5. handler' \in [Handlers -> {"idle", "notify"}]
    BY Zenon DEF Go
  <2> QED BY <2>1, <2>2, <2>3, <2>4, <2>5, Zenon DEF notifyVars
<1>2. ASSUME NEW h \in Handlers, DeleteAll(h) PROVE TypeOK'
  BY <1>2, Zenon DEF DeleteAll, Departs, Go, NothingQueued, Statuses, Queued, notifyVars
<1>3. ASSUME NEW h \in Handlers, NEW id \in Ids, Delete(h, id) PROVE TypeOK'
  BY <1>3, Zenon DEF Delete, Departs, Go, Statuses, Queued, notifyVars
<1>4. ASSUME NEW h \in Handlers, StartNotifications(h) PROVE TypeOK'
  <2>1. CASE running
    BY <1>4, <2>1, Zenon DEF StartNotifications, Go, taskVars, execVars
  <2>2. CASE ~running
    BY <1>4, <2>2, Goroutines, Zenon DEF StartNotifications, Go, taskVars, execVars
  <2> QED BY <2>1, <2>2, Zenon
<1>5. ASSUME NEW w \in Workers, WorkerSteps(w) PROVE TypeOK'
  <2>0. worker[w] \in WorkerStates
    BY Zenon
  <2>1. CASE WorkerPicks(w)
    <3>1. NextPending \in Ids
      BY <2>1, OldestPending, Zenon DEF WorkerPicks, Pending
    <3>2. worker' \in [Workers -> WorkerStates]
      BY <2>1, <3>1, Zenon DEF WorkerPicks, WorkerStates, Untouched, Statuses, Active
    <3> QED BY <2>1, <3>1, <3>2, Zenon DEF WorkerPicks, Statuses, Active, notifyVars
  <2>2. CASE WorkerStops(w)
    BY <2>2, Goroutines, Zenon DEF WorkerStops, notifyVars
  <2>3. ASSUME NEW i \in Items, ExecuteItem(w, i) PROVE TypeOK'
    <3>0. worker[w].id \in Ids
      BY <2>3, Zenon DEF ExecuteItem, NextItem, Executing
    <3>1. PICK o \in Outcomes :
            /\ worker' = [worker EXCEPT ![w].items[i] = o.status]
            /\ changes' = IF o.did THEN changes \cup {worker[w].id} ELSE changes
      BY <2>3, Zenon DEF ExecuteItem
    <3>2. o.status \in Statuses
      BY DEF Outcomes, Statuses, Terminal
    <3>3. worker' \in [Workers -> WorkerStates]
      BY <3>1, <3>2, <2>0, Zenon DEF WorkerStates
    <3> QED BY <2>3, <3>0, <3>1, <3>2, <3>3, Zenon DEF ExecuteItem, taskVars, notifyVars
  <2>4. CASE ExecutorPanics(w)
    <3>1. worker' \in [Workers -> WorkerStates]
      BY <2>4, <2>0, Zenon DEF ExecutorPanics, WorkerStates, Statuses, Terminal
    <3> QED BY <2>4, <3>1, Zenon DEF ExecutorPanics, Executing, taskVars, notifyVars
  <2>5. CASE WorkerFinishes(w)
    <3>1. Overall(worker[w].items) \in Statuses
      BY Zenon DEF Overall, Statuses, Terminal
    <3>2. tasks' \in [Ids -> Statuses]
      BY <2>5, <3>1, Zenon DEF WorkerFinishes
    <3>3. worker' \in [Workers -> WorkerStates]
      BY <2>5, Goroutines, Zenon DEF WorkerFinishes
    <3> QED BY <2>5, <3>2, <3>3, Zenon DEF WorkerFinishes, notifyVars
  <2> QED BY <1>5, <2>1, <2>2, <2>3, <2>4, <2>5, Zenon DEF WorkerSteps, ExecSteps
<1>6. ASSUME NEW n \in Notifiers, NotifierSteps(n) PROVE TypeOK'
  <2>0. notifier[n] \in NotifierStates
    BY Zenon
  <2>1. CASE TakeSnapshot(n)
    <3>1. notifier' \in [Notifiers -> NotifierStates]
      BY <2>1, <2>0, Zenon DEF TakeSnapshot, NotifierStates
    <3> QED BY <2>1, <3>1, Zenon DEF TakeSnapshot, taskVars, execVars
  <2>2. CASE PublicationSteps(n)
    <3>1. notifier' \in [Notifiers -> NotifierStates]
      <4>1. CASE Publish(n)
        BY <4>1, <2>0, Zenon DEF Publish, NotifierStates
      <4>2. CASE PublishFails(n)
        BY <4>2, <2>0, Zenon DEF PublishFails, Move, NotifierStates
      <4> QED BY <2>2, <4>1, <4>2, Zenon DEF PublicationSteps
    <3>2. Announced(n) \in [Ids -> Statuses]
      BY <2>0, Zenon DEF Announced, NotifierStates
    <3>3. failures' \in 0 .. MaxFailures
      BY <2>2, BoundsAssumption DEF PublicationSteps, Publish, PublishFails
    <3> QED BY <2>2, <3>1, <3>2, <3>3, Zenon DEF PublicationSteps, Publish, PublishFails, taskVars, execVars
  <2>3. CASE Acknowledge(n)
    <3>1. notifier' \in [Notifiers -> NotifierStates]
      BY <2>3, <2>0, Zenon DEF Acknowledge, NotifierStates, NothingQueued, Statuses
    <3>2. tasks' \in [Ids -> Statuses]
      BY <2>3, Zenon DEF Acknowledge, Statuses
    <3> QED BY <2>3, <3>1, <3>2, Zenon DEF Acknowledge, Departs
  <2>4. CASE CheckQueue(n)
    <3>1. notifier' \in [Notifiers -> NotifierStates]
      BY <2>4, <2>0, Zenon DEF CheckQueue, Move, NotifierStates
    <3> QED BY <2>4, <3>1, Zenon DEF CheckQueue, taskVars, execVars
  <2>5. CASE Tail(n)
    BY <2>5, Goroutines, Zenon DEF Tail, taskVars, execVars
  <2> QED BY <1>6, <2>1, <2>2, <2>3, <2>4, <2>5, Zenon DEF NotifierSteps
<1> QED BY <1>0, <1>1, <1>2, <1>3, <1>4, <1>5, <1>6, Zenon DEF Next, HandlerSteps

\* Steps that leave the queue and the workers alone keep QueueInv.
LEMMA QueueUntouched ==
    ASSUME QueueInv, TypeOK', UNCHANGED <<tasks, runningID, workerStarted, used>>,
           \A w \in Workers : worker'[w].pc = worker[w].pc /\ worker'[w].id = worker[w].id
    PROVE  QueueInv'
  BY DEF QueueInv, WorkerOn, Pending, Executing, OneRunning, FirstComeFirstServed

\* Tasks other than the running one may leave the queue at any time.
LEMMA QueueShrinks ==
    ASSUME QueueInv, TypeOK', UNCHANGED <<runningID, workerStarted, used, worker>>,
           \A id \in Ids : tasks'[id] = tasks[id] \/ (tasks[id] # "RUNNING" /\ tasks'[id] = "absent")
    PROVE  QueueInv'
<1>1. Pending' \subseteq Pending
  BY Zenon DEF Pending
<1>2. \A id \in Ids : tasks'[id] = "RUNNING" <=> tasks[id] = "RUNNING"
  BY Zenon
<1> QED BY <1>1, <1>2, Zenon DEF QueueInv, WorkerOn, Executing, OneRunning, FirstComeFirstServed

LEMMA QueueStep ==
    ASSUME QueueInv, [Next]_vars
    PROVE  QueueInv'
<1>t. TypeOK /\ TypeOK'
  BY TypeStep, Zenon DEF QueueInv
<1>0. ASSUME UNCHANGED vars PROVE QueueInv'
  BY <1>0, <1>t, QueueUntouched, Zenon DEF vars
<1>1. ASSUME NEW h \in Handlers, Enqueue(h) PROVE QueueInv'
  <2> DEFINE new == used + 1
  <2>1. new \in Ids /\ tasks[new] = "absent" /\ used' = new /\ runningID' = runningID
    BY <1>1, <1>t, BoundsAssumption DEF Enqueue, QueueInv, TypeOK, Ids
  <2>2. tasks' = [tasks EXCEPT ![new] = "PENDING"] /\ tasks \in [Ids -> Statuses]
    BY <1>1, <1>t, Zenon DEF Enqueue, TypeOK
  <2>3. Executing' = Executing /\ \A w \in Executing : worker'[w] = worker[w]
    BY <1>1, <1>t, Goroutines, Zenon DEF Enqueue, StartWorker, Executing, TypeOK
  <2>4. \A v, w \in Workers : WorkerOn(v)' /\ WorkerOn(w)' => v = w
    BY <1>1, <1>t, Goroutines DEF Enqueue, StartWorker, WorkerOn, TypeOK, QueueInv
  <2>5. workerStarted' /\ \E w \in Workers : WorkerOn(w)'
    <3>1. CASE workerStarted
      BY <1>1, <3>1, Zenon DEF Enqueue, StartWorker, WorkerOn, QueueInv
    <3>2. CASE ~workerStarted
      BY <1>1, <1>t, <3>2, Goroutines, Zenon DEF Enqueue, StartWorker, WorkerOn, TypeOK
    <3> QED BY <3>1, <3>2, Zenon
  <2>6. \A id \in Ids : id > used' => tasks'[id] = "absent"
    BY <1>t, <2>1, <2>2, BoundsAssumption DEF QueueInv, TypeOK, Ids
  <2>7. OneRunning'
    BY <2>1, <2>2, <2>3, Zenon DEF QueueInv, OneRunning, Executing
  <2>8. FirstComeFirstServed'
    <3>1. ASSUME runningID # NoId PROVE runningID \in Ids /\ runningID <= used
      <4>0. runningID \in Ids \cup {NoId} /\ used \in 0 .. MaxTasks
        BY <1>t, Zenon DEF TypeOK
      <4>1. runningID \in Ids /\ runningID \in Nat /\ used \in Nat
        BY <3>1, <4>0, BoundsAssumption DEF Ids
      <4>2. tasks[runningID] = "RUNNING"
        BY <4>1, Zenon DEF QueueInv, OneRunning
      <4>3. ~(runningID > used)
        BY <4>1, <4>2, Zenon DEF QueueInv
      <4> QED BY <4>1, <4>3
    <3>2. Pending' = Pending \cup {new}
      BY <2>1, <2>2, Zenon DEF Pending
    <3>3. \A id \in Pending : runningID # NoId => id > runningID
      BY Zenon DEF QueueInv, FirstComeFirstServed
    <3>4. runningID # NoId => new > runningID
      <4>1. used \in Nat /\ (runningID # NoId => runningID \in Nat)
        BY <1>t, BoundsAssumption DEF TypeOK, Ids
      <4> QED BY <3>1, <4>1
    <3> QED BY <2>1, <3>2, <3>3, <3>4, Zenon DEF FirstComeFirstServed
  <2>9. \A w \in Executing' : worker'[w].id \in Ids
    BY <2>3, Zenon DEF QueueInv
  <2> QED BY <1>t, <2>4, <2>5, <2>6, <2>7, <2>8, <2>9, Zenon DEF QueueInv
<1>2. ASSUME NEW h \in Handlers, DeleteAll(h) PROVE QueueInv'
  <2>1. \A id \in Ids : tasks[id] # "RUNNING" /\ tasks'[id] = "absent"
    BY <1>2, BoundsAssumption DEF DeleteAll, NothingQueued, QueueInv, OneRunning, NoId, Ids
  <2> QED BY <1>2, <1>t, <2>1, QueueShrinks, Zenon DEF DeleteAll
<1>3. ASSUME NEW h \in Handlers, NEW id \in Ids, Delete(h, id) PROVE QueueInv'
  <2>1. \A k \in Ids : tasks'[k] = tasks[k] \/ (tasks[k] # "RUNNING" /\ tasks'[k] = "absent")
    BY <1>3, <1>t, Zenon DEF Delete, TypeOK
  <2> QED BY <1>3, <1>t, <2>1, QueueShrinks, Zenon DEF Delete
<1>4. ASSUME NEW h \in Handlers, StartNotifications(h) PROVE QueueInv'
  BY <1>4, <1>t, QueueUntouched, Zenon DEF StartNotifications, taskVars, execVars
<1>5. ASSUME NEW w \in Workers, WorkerSteps(w) PROVE QueueInv'
  <2>1. CASE WorkerPicks(w)
    <3> DEFINE k == NextPending
    <3>1. k \in Ids /\ tasks[k] = "PENDING" /\ \A other \in Pending : k <= other
      BY <2>1, <1>t, OldestPending, Zenon DEF WorkerPicks, Pending
    <3>2. /\ worker' = [worker EXCEPT ![w] = [pc |-> "exec", id |-> k, items |-> Untouched]]
          /\ runningID' = k /\ tasks' = [tasks EXCEPT ![k] = "RUNNING"]
          /\ worker[w].pc = "pick" /\ UNCHANGED <<workerStarted, used>>
          /\ tasks \in [Ids -> Statuses]
      BY <2>1, <1>t, Zenon DEF WorkerPicks, TypeOK
    <3> HIDE DEF k
    <3>3. /\ worker'[w].pc = "exec" /\ worker'[w].id = k
          /\ \A v \in Workers : v # w => worker'[v] = worker[v] /\ worker[v].pc = "off"
      BY <3>2, <1>t, Zenon DEF QueueInv, WorkerOn, TypeOK
    <3>4. Executing = {} /\ Executing' = {w}
      BY <3>2, <3>3, Zenon DEF Executing
    <3>5. runningID = NoId /\ \A id \in Ids : tasks[id] # "RUNNING"
      BY <3>4, BoundsAssumption DEF QueueInv, OneRunning, NoId, Ids
    <3>6. OneRunning'
      BY <3>1, <3>2, <3>3, <3>4, <3>5, Zenon DEF OneRunning
    <3>7. FirstComeFirstServed'
      <4>1. \A id \in Pending' : id \in Pending /\ id # k /\ id \in Ids
        BY <3>1, <3>2, Zenon DEF Pending
      <4>2. \A id \in Pending' : id > k
        BY <3>1, <4>1, BoundsAssumption DEF Ids
      <4> QED BY <3>2, <4>2, Zenon DEF FirstComeFirstServed
    <3>8. workerStarted /\ workerStarted'
      BY <3>1, <3>2, Zenon DEF QueueInv, Pending
    <3>9. \A id \in Ids : id > used' => tasks'[id] = "absent"
      BY <3>1, <3>2, Zenon DEF QueueInv
    <3> QED BY <1>t, <3>1, <3>2, <3>3, <3>4, <3>6, <3>7, <3>8, <3>9 DEF QueueInv, WorkerOn
  <2>2. CASE WorkerStops(w)
    <3>1. /\ worker' = [worker EXCEPT ![w] = WorkerOff]
          /\ worker[w].pc = "pick" /\ Pending = {} /\ workerStarted' = FALSE
          /\ UNCHANGED <<tasks, runningID, used>>
      BY <2>2, Zenon DEF WorkerStops
    <3>2. \A v \in Workers : worker'[v].pc = "off" /\ worker[v].pc # "exec"
      BY <3>1, <1>t, Goroutines, Zenon DEF QueueInv, WorkerOn, TypeOK
    <3>3. Executing = {} /\ Executing' = {} /\ Pending' = {}
      BY <3>1, <3>2, Zenon DEF Executing, Pending
    <3> QED BY <1>t, <3>1, <3>2, <3>3, Zenon DEF QueueInv, WorkerOn, OneRunning, FirstComeFirstServed
  <2>3. ASSUME NEW i \in Items, ExecuteItem(w, i) PROVE QueueInv'
    <3>1. \A v \in Workers : worker'[v].pc = worker[v].pc /\ worker'[v].id = worker[v].id
      BY <2>3, <1>t DEF ExecuteItem, TypeOK, WorkerStates
    <3> QED BY <2>3, <1>t, <3>1, QueueUntouched, Zenon DEF ExecuteItem, taskVars
  <2>4. CASE ExecutorPanics(w)
    <3>1. \A v \in Workers : worker'[v].pc = worker[v].pc /\ worker'[v].id = worker[v].id
      BY <2>4, <1>t DEF ExecutorPanics, TypeOK, WorkerStates
    <3> QED BY <2>4, <1>t, <3>1, QueueUntouched, Zenon DEF ExecutorPanics, taskVars
  <2>5. CASE WorkerFinishes(w)
    <3> DEFINE k == worker[w].id
    <3>1. /\ worker' = [worker EXCEPT ![w] = [WorkerOff EXCEPT !.pc = "pick"]]
          /\ worker[w].pc = "exec" /\ runningID' = NoId
          /\ UNCHANGED <<workerStarted, used>>
      BY <2>5, Zenon DEF WorkerFinishes
    <3>2. k \in Ids /\ tasks[k] = "RUNNING" /\ \A id \in Ids : tasks[id] = "RUNNING" => id = k
      BY <3>1, Zenon DEF QueueInv, Executing, OneRunning
    <3>3. \A id \in Ids : IF id = k THEN tasks'[id] \in Terminal ELSE tasks'[id] = tasks[id]
      BY <2>5, <3>2, <1>t, Zenon DEF WorkerFinishes, Overall, Terminal, TypeOK
    <3>4. Pending' = Pending /\ \A id \in Ids : tasks'[id] # "RUNNING"
      BY <3>2, <3>3, Zenon DEF Pending, Terminal
    <3>5. \A v \in Workers : worker'[v].pc = (IF v = w THEN "pick" ELSE "off")
      BY <3>1, <1>t, Goroutines, Zenon DEF QueueInv, WorkerOn, TypeOK
    <3>6. Executing' = {}
      BY <3>5, Zenon DEF Executing
    <3>7. OneRunning' /\ FirstComeFirstServed'
      BY <3>1, <3>4, <3>6, BoundsAssumption DEF OneRunning, FirstComeFirstServed, NoId, Ids
    <3>8. \A id \in Ids : id > used' => tasks'[id] = "absent"
      BY <3>1, <3>2, <3>3, Zenon DEF QueueInv
    <3>9. workerStarted /\ workerStarted'
      BY <3>1, Zenon DEF QueueInv, WorkerOn
    <3> QED BY <1>t, <3>5, <3>6, <3>7, <3>8, <3>9, Zenon DEF QueueInv, WorkerOn
  <2> QED BY <1>5, <2>1, <2>2, <2>3, <2>4, <2>5, Zenon DEF WorkerSteps, ExecSteps
<1>6. ASSUME NEW n \in Notifiers, NotifierSteps(n) PROVE QueueInv'
  <2>1. CASE Acknowledge(n)
    <3>1. \A id \in Ids : tasks'[id] = tasks[id] \/ (tasks[id] # "RUNNING" /\ tasks'[id] = "absent")
      BY <2>1, Zenon DEF Acknowledge, Done, Terminal
    <3> QED BY <2>1, <1>t, <3>1, QueueShrinks, Zenon DEF Acknowledge
  <2>2. CASE TakeSnapshot(n) \/ PublicationSteps(n) \/ CheckQueue(n) \/ Tail(n)
    <3>1. UNCHANGED <<tasks, runningID, workerStarted, used, worker>>
      BY <2>2, Zenon DEF TakeSnapshot, PublicationSteps, Publish, PublishFails,
                  CheckQueue, Tail, taskVars, execVars
    <3> QED BY <3>1, <1>t, QueueUntouched, Zenon
  <2> QED BY <1>6, <2>1, <2>2, Zenon DEF NotifierSteps
<1> QED BY <1>0, <1>1, <1>2, <1>3, <1>4, <1>5, <1>6, Zenon DEF Next, HandlerSteps

LEMMA NotAfterTransitive ==
    ASSUME NEW a, NEW b, NEW c, NotAfter(a, b), NotAfter(b, c)
    PROVE  NotAfter(a, c)
  BY Zenon DEF NotAfter, Terminal

\* What handlers and the worker do to the queue: a task appears, moves
\* forward or is withdrawn.  The publisher's view can only fall behind.
LEMMA QueueMovesForward ==
    ASSUME PublishInv, TypeOK, used' \in Nat, used' >= used, used' <= MaxTasks,
           UNCHANGED <<running, notifier, told>>, withdrawn \subseteq withdrawn',
           \A id \in Ids : tasks'[id] = "absent" \/ NotAfter(tasks[id], tasks'[id]),
           \A id \in Ids : tasks[id] = "absent" /\ tasks'[id] # "absent" => id > used,
           \A id \in Ids : tasks'[id] = "absent" /\ id <= used' =>
             id \in withdrawn' \/ (tasks[id] = "absent" /\ id <= used)
    PROVE  PublishInv'
<1>0. used \in Nat /\ Ids \subseteq Nat
  <2>1. used \in 0 .. MaxTasks
    BY Zenon DEF TypeOK
  <2> QED BY <2>1, BoundsAssumption DEF Ids
<1>1. \A id \in Ids : id > used' => /\ told'[id] = "absent"
                                    /\ \A n \in Notifiers : notifier'[n].snap[id] = "absent"
  <2>1. \A id \in Ids : id > used => /\ told[id] = "absent"
                                     /\ \A n \in Notifiers : notifier[n].snap[id] = "absent"
    BY Zenon DEF PublishInv
  <2>2. \A id \in Ids : id > used' => id > used
    BY <1>0
  <2> QED BY <2>1, <2>2, Zenon
<1>2. ASSUME NEW id \in Ids
      PROVE  tasks'[id] = "absent" \/ NotAfter(told'[id], tasks'[id])
  <2>1. CASE tasks[id] = "absent"
    BY <2>1, Zenon DEF PublishInv, NotAfter
  <2>2. CASE tasks[id] # "absent"
    BY <2>2, NotAfterTransitive, Zenon DEF PublishInv
  <2> QED BY <2>1, <2>2, Zenon
<1>3. ASSUME NEW n \in Notifiers, NEW id \in Ids, notifier'[n].pc \in {"publish", "ack"}
      PROVE  tasks'[id] = "absent" \/ NotAfter(notifier'[n].snap[id], tasks'[id])
  <2>1. CASE tasks[id] = "absent"
    BY <2>1, Zenon DEF PublishInv, NotAfter
  <2>2. CASE tasks[id] # "absent"
    BY <1>3, <2>2, NotAfterTransitive, Zenon DEF PublishInv
  <2> QED BY <2>1, <2>2, Zenon
<1>4. NeverForgotten'
  <2> SUFFICES ASSUME NEW id \in 1 .. used', tasks'[id] = "absent"
               PROVE  id \in withdrawn' \/ told'[id] \in Terminal
    BY Zenon DEF NeverForgotten
  <2>1. id \in Nat /\ id <= used'
    OBVIOUS
  <2>2. id \in Ids
    BY <2>1, BoundsAssumption DEF Ids
  <2>3. id \in withdrawn' \/ (tasks[id] = "absent" /\ id \in 1 .. used)
    BY <1>0, <2>1, <2>2
  <2> QED BY <2>3, Zenon DEF PublishInv, NeverForgotten
<1> QED BY <1>1, <1>2, <1>3, <1>4, Zenon DEF PublishInv, NotifierOn

LEMMA PublishStep ==
    ASSUME QueueInv, PublishInv, [Next]_vars
    PROVE  PublishInv' /\ \A id \in Ids : NotAfter(told[id], told'[id])
<1> DEFINE Goal == PublishInv' /\ \A id \in Ids : NotAfter(told[id], told'[id])
<1>t. TypeOK /\ TypeOK'
  BY TypeStep, Zenon DEF QueueInv
<1>s. UNCHANGED told => \A id \in Ids : NotAfter(told[id], told'[id])
  BY Zenon DEF NotAfter
<1>u. used \in Nat /\ used <= MaxTasks /\ Ids \subseteq Nat /\ used' \in Nat /\ used' <= MaxTasks
  BY <1>t, BoundsAssumption DEF TypeOK, Ids
<1>0. ASSUME UNCHANGED vars PROVE Goal
  <2>1. UNCHANGED <<tasks, told, used, withdrawn, running, notifier>>
    BY <1>0, Zenon DEF vars
  <2>2. NeverForgotten'
    BY <2>1, Zenon DEF PublishInv, NeverForgotten
  <2>3. PublishInv'
    BY <2>1, <2>2, Zenon DEF PublishInv, NotifierOn
  <2> QED BY <1>s, <2>1, <2>3, Zenon
<1>1. ASSUME NEW h \in Handlers, Enqueue(h) PROVE Goal
  <2>1. /\ used' = used + 1 /\ used + 1 \in Ids /\ tasks[used + 1] = "absent"
        /\ tasks' = [tasks EXCEPT ![used + 1] = "PENDING"] /\ tasks \in [Ids -> Statuses]
        /\ UNCHANGED <<running, notifier, told, withdrawn>>
    <3>1. /\ used' = used + 1 /\ used < MaxTasks
          /\ tasks' = [tasks EXCEPT ![used + 1] = "PENDING"]
          /\ UNCHANGED <<running, notifier, told, withdrawn>>
      BY <1>1, Zenon DEF Enqueue, notifyVars
    <3>2. used + 1 \in Ids
      BY <1>u, <3>1, BoundsAssumption DEF Ids
    <3>3. tasks[used + 1] = "absent"
      BY <1>u, <3>2 DEF QueueInv
    <3>4. tasks \in [Ids -> Statuses]
      BY <1>t, Zenon DEF TypeOK
    <3> QED BY <3>1, <3>2, <3>3, <3>4, Zenon
  <2> QED BY <1>s, <1>t, <1>u, <2>1, QueueMovesForward DEF NotAfter
<1>2. ASSUME NEW h \in Handlers, DeleteAll(h) PROVE Goal
  <2>1. /\ UNCHANGED <<running, notifier, told, used>>
        /\ \A id \in Ids : tasks'[id] = "absent"
        /\ withdrawn' = withdrawn \cup Queued
    BY <1>2, Zenon DEF DeleteAll, NothingQueued, notifyVars
  <2> QED BY <1>s, <1>t, <1>u, <2>1, QueueMovesForward DEF Queued
<1>3. ASSUME NEW h \in Handlers, NEW k \in Ids, Delete(h, k) PROVE Goal
  <2>1. /\ UNCHANGED <<running, notifier, told, used>>
        /\ tasks' = [tasks EXCEPT ![k] = "absent"] /\ tasks \in [Ids -> Statuses]
        /\ withdrawn' = withdrawn \cup {k}
    BY <1>3, <1>t, Zenon DEF Delete, notifyVars, TypeOK
  <2> QED BY <1>s, <1>t, <1>u, <2>1, QueueMovesForward DEF NotAfter
<1>4. ASSUME NEW h \in Handlers, StartNotifications(h) PROVE Goal
  <2>1. UNCHANGED <<tasks, told, withdrawn, used>> /\ running'
    BY <1>4, Zenon DEF StartNotifications, taskVars
  <2>2. CASE running
    <3>1. notifier' = notifier
      BY <1>4, <2>2, Zenon DEF StartNotifications
    <3> QED BY <1>s, <2>1, <2>2, <3>1, Zenon DEF PublishInv, NotifierOn, NeverForgotten
  <2>3. CASE ~running
    <3>1. PICK n \in Notifiers : notifier' = [notifier EXCEPT ![n] = [NotifierOff EXCEPT !.pc = "snap"]]
      BY <1>4, <2>3, Zenon DEF StartNotifications
    <3>2. \A m \in Notifiers : notifier[m].pc = "off"
      BY <2>3, Zenon DEF PublishInv, NotifierOn
    <3>3. /\ notifier'[n].pc = "snap" /\ notifier'[n].snap = NothingQueued
          /\ \A m \in Notifiers : m # n => notifier'[m] = notifier[m]
      BY <3>1, <1>t, Goroutines, Zenon DEF TypeOK
    <3>4. \A m \in Notifiers : /\ notifier'[m].pc \notin {"publish", "ack"}
                               /\ notifier'[m].pc # "off" <=> m = n
      BY <3>2, <3>3, Zenon
    <3>5. \A id \in Ids, m \in Notifiers :
            id > used' => told'[id] = "absent" /\ notifier'[m].snap[id] = "absent"
      <4>1. \A id \in Ids : id > used' => /\ told'[id] = "absent"
                                          /\ \A m \in Notifiers : notifier[m].snap[id] = "absent"
        BY <2>1, Zenon DEF PublishInv
      <4>2. \A id \in Ids : notifier'[n].snap[id] = "absent"
        BY <3>3, Zenon DEF NothingQueued
      <4> QED BY <3>3, <4>1, <4>2
    <3>6. NeverForgotten' /\ \A id \in Ids : tasks'[id] = "absent" \/ NotAfter(told'[id], tasks'[id])
      BY <2>1, Zenon DEF PublishInv, NeverForgotten
    <3>7. /\ \A k, m \in Notifiers : NotifierOn(k)' /\ NotifierOn(m)' => k = m
          /\ running' <=> \E m \in Notifiers : NotifierOn(m)'
      BY <2>1, <3>4, Zenon DEF NotifierOn
    <3>8. /\ \A m \in Notifiers, id \in Ids :
               notifier'[m].pc \in {"publish", "ack"} =>
                 tasks'[id] = "absent" \/ NotAfter(notifier'[m].snap[id], tasks'[id])
          /\ \A m \in Notifiers, id \in Ids :
               notifier'[m].pc = "publish" =>
                 notifier'[m].snap[id] = "absent" \/ NotAfter(told'[id], notifier'[m].snap[id])
          /\ \A m \in Notifiers, id \in Ids :
               notifier'[m].pc = "ack" /\ notifier'[m].snap[id] \in Terminal
                 => told'[id] \in Terminal
      BY <3>4, Zenon
    <3>9. PublishInv'
      BY <3>5, <3>6, <3>7, <3>8, Zenon DEF PublishInv
    <3> QED BY <1>s, <2>1, <3>9, Zenon
  <2> QED BY <2>2, <2>3, Zenon
<1>5. ASSUME NEW w \in Workers, WorkerSteps(w) PROVE Goal
  <2>1. UNCHANGED <<running, notifier, told, withdrawn, used>>
    BY <1>5, Zenon DEF WorkerSteps, ExecSteps, WorkerPicks, WorkerStops, ExecuteItem,
                ExecutorPanics, WorkerFinishes, notifyVars
  <2>2. \A id \in Ids : /\ NotAfter(tasks[id], tasks'[id])
                        /\ (tasks'[id] = "absent" <=> tasks[id] = "absent")
    <3>1. CASE WorkerPicks(w)
      <4>1. NextPending \in Ids /\ tasks[NextPending] = "PENDING"
        BY <3>1, <1>t, OldestPending, Zenon DEF WorkerPicks, Pending
      <4> QED BY <3>1, <1>t, <4>1, Zenon DEF WorkerPicks, NotAfter, TypeOK
    <3>2. CASE WorkerFinishes(w)
      <4>1. worker[w].id \in Ids /\ tasks[worker[w].id] = "RUNNING"
        BY <3>2, Zenon DEF WorkerFinishes, QueueInv, Executing, OneRunning
      <4> QED BY <3>2, <1>t, <4>1, Zenon DEF WorkerFinishes, Overall, Terminal, NotAfter, TypeOK
    <3>3. CASE WorkerStops(w) \/ ExecSteps(w)
      BY <3>3, Zenon DEF WorkerStops, ExecSteps, ExecuteItem, ExecutorPanics, taskVars, NotAfter
    <3> QED BY <1>5, <3>1, <3>2, <3>3, Zenon DEF WorkerSteps
  <2> QED BY <1>s, <1>t, <1>u, <2>1, <2>2, QueueMovesForward
<1>6. ASSUME NEW n \in Notifiers, NotifierSteps(n) PROVE Goal
  <2>1. UNCHANGED <<withdrawn, used>> /\ notifier[n].pc # "off"
    BY <1>6, Zenon DEF NotifierSteps, TakeSnapshot, PublicationSteps, Publish, PublishFails,
                Acknowledge, CheckQueue, Tail
  <2>2. running /\ \A m \in Notifiers : m # n => notifier[m].pc = "off"
    BY <2>1, Zenon DEF PublishInv, NotifierOn
  <2>3. notifier[n] \in NotifierStates /\ notifier \in [Notifiers -> NotifierStates]
    BY <1>t, Zenon DEF TypeOK
  <2>9. \A id \in Ids : id > used' => /\ told[id] = "absent"
                                      /\ \A m \in Notifiers : notifier[m].snap[id] = "absent"
    BY <2>1, Zenon DEF PublishInv
  <2>10. NeverForgotten /\ \A id \in Ids : tasks[id] = "absent" \/ NotAfter(told[id], tasks[id])
    BY Zenon DEF PublishInv
  <2>4. CASE TakeSnapshot(n)
    <3>1. /\ UNCHANGED <<tasks, told, running>>
          /\ notifier'[n].pc \in {"tail", "publish"} /\ notifier'[n].snap = tasks
          /\ \A m \in Notifiers : m # n => notifier'[m] = notifier[m]
      BY <2>3, <2>4, Zenon DEF TakeSnapshot, taskVars
    <3>2. \A id \in Ids : NotAfter(tasks[id], tasks[id])
      BY Zenon DEF NotAfter
    <3>3. NeverForgotten'
      BY <2>1, <2>10, <3>1, Zenon DEF NeverForgotten
    <3>4. \A id \in Ids : id > used' => tasks[id] = "absent"
      BY <2>1, Zenon DEF QueueInv
    <3>5. \A id \in Ids : id > used' => /\ told'[id] = "absent"
                                        /\ \A m \in Notifiers : notifier'[m].snap[id] = "absent"
      BY <2>9, <3>1, <3>4
    <3>6. \A m \in Notifiers : /\ notifier'[m].pc # "ack"
                               /\ notifier'[m].pc = "off" <=> notifier[m].pc = "off"
                               /\ notifier'[m].pc = "publish" => notifier'[m].snap = tasks
      BY <2>1, <2>2, <3>1
    <3>7. /\ \A m, k \in Notifiers : NotifierOn(m)' /\ NotifierOn(k)' => m = k
          /\ running' <=> \E m \in Notifiers : NotifierOn(m)'
      BY <2>1, <2>2, <3>1, <3>6, Zenon DEF NotifierOn
    <3>8. PublishInv'
      BY <2>10, <3>1, <3>2, <3>3, <3>5, <3>6, <3>7, Zenon DEF PublishInv
    <3> QED BY <1>s, <3>1, <3>8, Zenon
  <2>5. CASE PublicationSteps(n)
    <3>1. /\ UNCHANGED <<tasks, running>> /\ told' \in {told, Announced(n)}
          /\ notifier[n].pc = "publish"
          /\ notifier'[n].pc = "tail" \/ (notifier'[n].pc = "ack" /\ told' = Announced(n))
          /\ notifier'[n].snap = notifier[n].snap
          /\ \A m \in Notifiers : m # n => notifier'[m] = notifier[m]
      BY <2>3, <2>5 DEF PublicationSteps, Publish, PublishFails, Move, taskVars, NotifierStates
    <3>2. ASSUME NEW id \in Ids
          PROVE  /\ NotAfter(told[id], told'[id])
                 /\ told'[id] = told[id] \/ told'[id] = notifier[n].snap[id]
                 /\ told[id] \in Terminal => told'[id] \in Terminal
      <4>1. /\ notifier[n].snap[id] = "absent" \/ NotAfter(told[id], notifier[n].snap[id])
            /\ told'[id] = told[id] \/ told'[id] = Announced(n)[id]
        BY <3>1, Zenon DEF PublishInv
      <4>2. Announced(n)[id] = told[id] \/ (Announced(n)[id] = notifier[n].snap[id]
                                            /\ notifier[n].snap[id] # "absent")
        BY Zenon DEF Announced
      <4> QED BY <4>1, <4>2, Zenon DEF NotAfter, Terminal
    <3>3. \A id \in Ids : notifier'[n].pc = "ack" /\ notifier[n].snap[id] \in Terminal
                            => told'[id] \in Terminal
      BY <3>1, Zenon DEF Announced, Terminal
    <3>4. \A id \in Ids : tasks[id] = "absent" \/ NotAfter(told'[id], tasks[id])
      BY <3>1, <3>2, Zenon DEF PublishInv
    <3>5. \A id \in Ids : id > used' => told'[id] = "absent"
      BY <2>9, <3>2, Zenon
    <3>6. NeverForgotten'
      <4>1. 1 .. used \subseteq Ids
        BY <1>u, BoundsAssumption DEF Ids
      <4>2. \A id \in 1 .. used : told[id] \in Terminal => told'[id] \in Terminal
        BY <3>2, <4>1, Zenon
      <4> QED BY <2>1, <3>1, <4>2, Zenon DEF PublishInv, NeverForgotten
    <3>7. \A m \in Notifiers : /\ notifier'[m].snap = notifier[m].snap
                               /\ notifier'[m].pc = "off" <=> notifier[m].pc = "off"
                               /\ notifier'[m].pc # "publish"
                               /\ notifier'[m].pc = "ack" => m = n
      BY <2>2, <3>1, Zenon
    <3>8. \A m \in Notifiers, id \in Ids :
            notifier'[m].pc \in {"publish", "ack"} =>
              tasks'[id] = "absent" \/ NotAfter(notifier'[m].snap[id], tasks'[id])
      BY <3>1, <3>7, Zenon DEF PublishInv
    <3>9. \A id \in Ids : id > used' => /\ told'[id] = "absent"
                                        /\ \A m \in Notifiers : notifier'[m].snap[id] = "absent"
      BY <2>9, <3>5, <3>7
    <3>10. /\ \A m, k \in Notifiers : NotifierOn(m)' /\ NotifierOn(k)' => m = k
           /\ running' <=> \E m \in Notifiers : NotifierOn(m)'
      BY <2>1, <2>2, <3>1, <3>7, Zenon DEF NotifierOn
    <3>11. PublishInv'
      BY <3>1, <3>3, <3>4, <3>6, <3>7, <3>8, <3>9, <3>10, Zenon DEF PublishInv
    <3> QED BY <3>2, <3>11, Zenon
  <2>6. CASE Acknowledge(n)
    <3>1. /\ UNCHANGED <<told, running>>
          /\ \A id \in Ids : tasks'[id] = tasks[id] \/ (tasks'[id] = "absent" /\ id \in Done(n))
          /\ notifier[n].pc = "ack"
          /\ notifier'[n].pc = "check" /\ notifier'[n].snap = NothingQueued
          /\ \A m \in Notifiers : m # n => notifier'[m] = notifier[m]
      BY <2>3, <2>6, Zenon DEF Acknowledge, NotifierStates
    <3>2. \A id \in Done(n) : told[id] \in Terminal
      BY <3>1, Zenon DEF PublishInv, Done
    <3>3. NeverForgotten'
      <4>1. 1 .. used \subseteq Ids
        BY <1>u, BoundsAssumption DEF Ids
      <4> QED BY <2>1, <3>1, <3>2, <4>1, Zenon DEF PublishInv, NeverForgotten
    <3>4. \A m \in Notifiers : /\ notifier'[m].pc \notin {"publish", "ack"}
                               /\ notifier'[m].pc = "off" <=> notifier[m].pc = "off"
      BY <2>2, <3>1, Zenon
    <3>5. \A id \in Ids, m \in Notifiers :
            id > used' => told'[id] = "absent" /\ notifier'[m].snap[id] = "absent"
      <4> SUFFICES ASSUME NEW id \in Ids, NEW m \in Notifiers, id > used'
                   PROVE  told'[id] = "absent" /\ notifier'[m].snap[id] = "absent"
        BY Zenon
      <4>1. CASE m = n
        BY <2>9, <3>1, <4>1, Zenon DEF NothingQueued
      <4>2. CASE m # n
        BY <2>9, <3>1, <4>2
      <4> QED BY <4>1, <4>2, Zenon
    <3>6. \A id \in Ids : tasks'[id] = "absent" \/ NotAfter(told'[id], tasks'[id])
      BY <2>10, <3>1, Zenon
    <3>7. /\ \A m, k \in Notifiers : NotifierOn(m)' /\ NotifierOn(k)' => m = k
          /\ running' <=> \E m \in Notifiers : NotifierOn(m)'
      BY <2>1, <2>2, <3>1, <3>4, Zenon DEF NotifierOn
    <3>8. PublishInv'
      BY <3>3, <3>4, <3>5, <3>6, <3>7, Zenon DEF PublishInv
    <3> QED BY <1>s, <3>1, <3>8, Zenon
  <2>7. CASE CheckQueue(n)
    <3>1. /\ UNCHANGED <<tasks, told, running>>
          /\ notifier'[n].pc \in {"tail", "snap"} /\ notifier'[n].snap = notifier[n].snap
          /\ \A m \in Notifiers : m # n => notifier'[m] = notifier[m]
      BY <2>3, <2>7, Zenon DEF CheckQueue, Move, taskVars, NotifierStates
    <3>2. NeverForgotten'
      BY <2>1, <2>10, <3>1, Zenon DEF NeverForgotten
    <3>3. \A m \in Notifiers : /\ notifier'[m].pc \notin {"publish", "ack"}
                               /\ notifier'[m].pc = "off" <=> notifier[m].pc = "off"
                               /\ notifier'[m].snap = notifier[m].snap
      BY <2>1, <2>2, <3>1, Zenon
    <3>4. /\ \A m, k \in Notifiers : NotifierOn(m)' /\ NotifierOn(k)' => m = k
          /\ running' <=> \E m \in Notifiers : NotifierOn(m)'
      BY <2>1, <2>2, <3>1, <3>3, Zenon DEF NotifierOn
    <3>5. /\ \A id \in Ids : id > used' => /\ told'[id] = "absent"
                                           /\ \A m \in Notifiers : notifier'[m].snap[id] = "absent"
          /\ \A id \in Ids : tasks'[id] = "absent" \/ NotAfter(told'[id], tasks'[id])
      BY <2>9, <2>10, <3>1, <3>3
    <3>6. PublishInv'
      BY <3>2, <3>3, <3>4, <3>5, Zenon DEF PublishInv
    <3> QED BY <1>s, <3>1, <3>6, Zenon
  <2>8. CASE Tail(n)
    <3>1. /\ UNCHANGED <<tasks, told>> /\ running' = requested
          /\ notifier'[n].pc = (IF requested THEN "snap" ELSE "off")
          /\ notifier'[n].snap = NothingQueued
          /\ \A m \in Notifiers : m # n => notifier'[m] = notifier[m]
      BY <2>3, <2>8, Goroutines, Zenon DEF Tail, taskVars
    <3>2. \A m \in Notifiers : /\ notifier'[m].pc \notin {"publish", "ack"}
                               /\ notifier'[m].pc # "off" => m = n
      BY <2>2, <3>1, Zenon
    <3>3. \A id \in Ids, m \in Notifiers :
            id > used' => told'[id] = "absent" /\ notifier'[m].snap[id] = "absent"
      <4> SUFFICES ASSUME NEW id \in Ids, NEW m \in Notifiers, id > used'
                   PROVE  told'[id] = "absent" /\ notifier'[m].snap[id] = "absent"
        BY Zenon
      <4>1. CASE m = n
        BY <2>9, <3>1, <4>1, Zenon DEF NothingQueued
      <4>2. CASE m # n
        BY <2>9, <3>1, <4>2, Zenon
      <4> QED BY <4>1, <4>2, Zenon
    <3>4. running' <=> \E m \in Notifiers : NotifierOn(m)'
      BY <1>t, <3>1, <3>2, Zenon DEF NotifierOn, TypeOK
    <3>5. NeverForgotten' /\ \A id \in Ids : tasks'[id] = "absent" \/ NotAfter(told'[id], tasks'[id])
      BY <2>1, <2>10, <3>1, Zenon DEF NeverForgotten
    <3>6. PublishInv'
      BY <3>2, <3>3, <3>4, <3>5, Zenon DEF PublishInv, NotifierOn
    <3> QED BY <1>s, <3>1, <3>6, Zenon
  <2> QED BY <1>6, <2>4, <2>5, <2>6, <2>7, <2>8, Zenon DEF NotifierSteps
<1> QED BY <1>0, <1>1, <1>2, <1>3, <1>4, <1>5, <1>6, Zenon DEF Next, HandlerSteps

LEMMA InitHolds == ASSUME Init PROVE QueueInv /\ PublishInv
<1>1. TypeOK
  <2>1. NothingQueued \in [Ids -> Statuses]
    BY Zenon DEF NothingQueued, Statuses
  <2>2. worker \in [Workers -> WorkerStates] /\ notifier \in [Notifiers -> NotifierStates]
    BY Goroutines, Zenon DEF Init
  <2>3. used \in 0 .. MaxTasks /\ failures \in 0 .. MaxFailures
    BY BoundsAssumption DEF Init
  <2> QED BY <2>1, <2>2, <2>3, Zenon DEF Init, TypeOK
<1>2. \A w \in Workers : worker[w].pc = "off"
  BY Goroutines, Zenon DEF Init
<1>3. \A n \in Notifiers : notifier[n].pc = "off" /\ notifier[n].snap = NothingQueued
  BY Goroutines, Zenon DEF Init, NotifierOff
<1>4. \A id \in Ids : tasks[id] = "absent" /\ told[id] = "absent"
  BY Zenon DEF Init, NothingQueued
<1>5. QueueInv
  <2>1. Pending = {} /\ Executing = {} /\ runningID = NoId /\ NoId \notin Ids
    BY <1>2, <1>4, BoundsAssumption DEF Init, Pending, Executing, NoId, Ids
  <2>2. ~workerStarted /\ \A w \in Workers : ~WorkerOn(w)
    BY <1>2, Zenon DEF Init, WorkerOn
  <2>3. OneRunning /\ FirstComeFirstServed
    BY <1>4, <2>1, Zenon DEF OneRunning, FirstComeFirstServed
  <2> QED BY <1>1, <1>4, <2>1, <2>2, <2>3, Zenon DEF QueueInv
<1>6. PublishInv
  <2>1. ~running /\ used = 0 /\ \A n \in Notifiers : ~NotifierOn(n)
    BY <1>3, Zenon DEF Init, NotifierOn
  <2>2. NeverForgotten
    BY <2>1 DEF NeverForgotten
  <2>3. \A n \in Notifiers, id \in Ids : notifier[n].snap[id] = "absent"
    BY <1>3, Zenon DEF NothingQueued
  <2> QED BY <1>3, <1>4, <2>1, <2>2, <2>3, Zenon DEF PublishInv
<1> QED BY <1>5, <1>6, Zenon

\* Both invariants hold in every reachable state.
THEOREM QueueInvariant == Spec => [](QueueInv /\ PublishInv)
<1>1. Init => QueueInv /\ PublishInv
  BY InitHolds, Zenon
<1>2. QueueInv /\ PublishInv /\ [Next]_vars => (QueueInv /\ PublishInv)'
  BY QueueStep, PublishStep, Zenon
<1> QED BY <1>1, <1>2, PTL DEF Spec

\* The single worker of file.go: one operation runs at a time, is never
\* deleted under the worker, and operations start in order of arrival.
THEOREM WorkerDiscipline == Spec => [](OneRunning /\ FirstComeFirstServed)
<1>1. QueueInv => OneRunning /\ FirstComeFirstServed
  BY Zenon DEF QueueInv
<1> QED BY <1>1, QueueInvariant, PTL

\* enqueue and the exiting worker agree: no accepted task is left without one.
THEOREM NoTaskStranded == Spec => []NoStrandedTask
<1>1. QueueInv => NoStrandedTask
  BY Zenon DEF QueueInv, NoStrandedTask, WorkerOn
<1> QED BY <1>1, QueueInvariant, PTL

\* Terminal tasks are acknowledged only after their final status was announced.
THEOREM TasksAnnounced == Spec => []NeverForgotten
<1>1. PublishInv => NeverForgotten
  BY Zenon DEF PublishInv
<1> QED BY <1>1, QueueInvariant, PTL

\* The bus never hears an older status of a task after a newer one.
THEOREM AnnouncementsOrdered == Spec => NeverRegresses
<1>1. QueueInv /\ PublishInv /\ [Next]_vars => [\A id \in Ids : NotAfter(told[id], told'[id])]_vars
  BY PublishStep, Zenon
<1> QED BY <1>1, QueueInvariant, PTL DEF Spec, NeverRegresses
(***************************************************************************)
(* What the executor did decides the status: only tasks that are in the    *)
(* queue and were begun have changed files, a task that did and whose      *)
(* executor did not panic is not FAILED, and one that is still executing   *)
(* has an item to show for it.  With bus <= queue this reaches the user.   *)
(***************************************************************************)
Touched == changes \ panicked
HonestInv ==
  /\ changes \subseteq Queued
  /\ \A id \in Touched : tasks[id] \notin {"PENDING", "FAILED"}
  /\ \A w \in Executing : worker[w].id \in Touched =>
       \E i \in Items : worker[w].items[i] \in {"SUCCESS", "PARTIAL"}

\* Steps that change neither the tasks nor what the executor keeps.
LEMMA HonestUntouched ==
    ASSUME HonestInv, UNCHANGED <<tasks, worker, changes, panicked>>
    PROVE  HonestInv'
  BY Zenon DEF HonestInv, Touched, Queued, Executing

\* Tasks that leave the queue take their changes with them.
LEMMA HonestDeparts ==
    ASSUME QueueInv, HonestInv, NEW ids \in SUBSET Ids, Departs(ids), UNCHANGED worker,
           tasks' = [id \in Ids |-> IF id \in ids THEN "absent" ELSE tasks[id]]
    PROVE  HonestInv'
<1>1. \A id \in Ids : id \notin ids => tasks'[id] = tasks[id]
  BY Zenon
<1>2. changes \subseteq Ids
  BY Zenon DEF QueueInv, TypeOK
<1>3. Touched' \subseteq Touched /\ changes' = changes \ ids
  BY Zenon DEF Departs, Touched
<1>4. changes' \subseteq Queued'
  BY <1>1, <1>2, <1>3, Zenon DEF HonestInv, Queued
<1>5. \A id \in Touched' : tasks'[id] \notin {"PENDING", "FAILED"}
  BY <1>1, <1>2, <1>3, Zenon DEF HonestInv, Touched
<1> QED BY <1>3, <1>4, <1>5, Zenon DEF HonestInv, Executing

LEMMA HonestStep ==
    ASSUME QueueInv, HonestInv, [Next]_vars
    PROVE  HonestInv'
<1>0. TypeOK /\ OneRunning /\ changes \subseteq Ids /\ \A w \in Executing : worker[w].id \in Ids
  BY Zenon DEF QueueInv, TypeOK
<1>1. ASSUME NEW h \in Handlers, Enqueue(h) PROVE HonestInv'
  <2>1. used + 1 \in Ids /\ tasks[used + 1] = "absent"
    BY <1>0, <1>1, BoundsAssumption DEF Enqueue, TypeOK, Ids, QueueInv
  <2>2. used + 1 \notin changes /\ UNCHANGED <<changes, panicked>>
    BY <1>1, <2>1, Zenon DEF Enqueue, HonestInv, Queued
  <2>3. \A id \in changes : tasks'[id] = tasks[id]
    BY <1>0, <1>1, <2>1, <2>2, Zenon DEF Enqueue, TypeOK
  <2>4. \A w \in Executing' : w \in Executing /\ worker'[w] = worker[w]
    <3>1. CASE workerStarted
      BY <1>1, <3>1, Zenon DEF Enqueue, StartWorker, Executing
    <3>2. CASE ~workerStarted
      BY <1>0, <1>1, <3>2, Goroutines, Zenon DEF Enqueue, StartWorker, Executing, TypeOK
    <3> QED BY <3>1, <3>2, <1>0, Zenon DEF TypeOK
  <2> QED BY <1>0, <2>2, <2>3, <2>4, Zenon DEF HonestInv, Touched, Queued
<1>2. ASSUME NEW h \in Handlers, DeleteAll(h) PROVE HonestInv'
  <2>1. tasks' = [id \in Ids |-> IF id \in Queued THEN "absent" ELSE tasks[id]]
    BY <1>2, Zenon DEF DeleteAll, NothingQueued, Queued
  <2> QED BY <1>2, <2>1, HonestDeparts, Zenon DEF DeleteAll, Queued
<1>3. ASSUME NEW h \in Handlers, NEW id \in Ids, Delete(h, id) PROVE HonestInv'
  <2>1. tasks' = [i \in Ids |-> IF i \in {id} THEN "absent" ELSE tasks[i]]
    BY <1>0, <1>3, Zenon DEF Delete, TypeOK
  <2> QED BY <1>3, <2>1, HonestDeparts, Zenon DEF Delete
<1>4. ASSUME NEW h \in Handlers, StartNotifications(h) PROVE HonestInv'
  BY <1>4, HonestUntouched, Zenon DEF StartNotifications, taskVars, execVars
<1>5. ASSUME NEW w \in Workers, WorkerPicks(w) PROVE HonestInv'
  <2>1. NextPending \in Ids /\ tasks[NextPending] = "PENDING"
    BY <1>0, <1>5, OldestPending, Zenon DEF WorkerPicks, Pending
  <2>2. NextPending \notin Touched
    BY <2>1, Zenon DEF HonestInv
  <2>3. /\ UNCHANGED <<changes, panicked>>
        /\ \A id \in Ids : tasks'[id] = IF id = NextPending THEN "RUNNING" ELSE tasks[id]
        /\ worker'[w].id = NextPending
        /\ \A v \in Workers : v # w => worker'[v] = worker[v]
    BY <1>0, <1>5, <2>1, Zenon DEF WorkerPicks, TypeOK
  <2> QED BY <1>0, <2>2, <2>3, Zenon DEF HonestInv, Touched, Queued, Executing
<1>6. ASSUME NEW w \in Workers, WorkerStops(w) PROVE HonestInv'
  <2>1. Executing' \subseteq Executing /\ \A v \in Executing' : worker'[v] = worker[v]
    BY <1>0, <1>6, Goroutines, Zenon DEF WorkerStops, TypeOK, Executing
  <2> QED BY <1>6, <2>1, Zenon DEF WorkerStops, HonestInv, Touched, Queued
<1>7. ASSUME NEW w \in Workers, NEW i \in Items, ExecuteItem(w, i) PROVE HonestInv'
  <2>1. PICK o \in Outcomes :
          /\ worker' = [worker EXCEPT ![w].items[i] = o.status]
          /\ changes' = IF o.did THEN changes \cup {worker[w].id} ELSE changes
    BY <1>7, Zenon DEF ExecuteItem
  <2>2. worker[w] \in WorkerStates /\ w \in Executing
    BY <1>0, <1>7, Zenon DEF TypeOK, ExecuteItem, NextItem, Executing
  <2>3. worker[w].items[i] = "PENDING"
    <3>1. i >= i
      BY BoundsAssumption DEF Items
    <3> QED BY <1>7, <3>1, Zenon DEF ExecuteItem, NextItem
  <2>4. /\ worker'[w].items = [worker[w].items EXCEPT ![i] = o.status]
        /\ worker'[w].id = worker[w].id
        /\ \A v \in Workers : v # w => worker'[v] = worker[v]
        /\ \A v \in Workers : worker'[v].pc = worker[v].pc
    BY <1>0, <2>1, <2>2, Zenon DEF TypeOK, WorkerStates
  <2>5. worker[w].id \in Ids /\ tasks[worker[w].id] = "RUNNING" /\ UNCHANGED <<tasks, panicked>>
    BY <1>0, <1>7, <2>2, Zenon DEF OneRunning, ExecuteItem, taskVars
  <2>6. worker'[w].id \in Touched' =>
          \E j \in Items : worker'[w].items[j] \in {"SUCCESS", "PARTIAL"}
    <3>1. CASE o.status \in {"SUCCESS", "PARTIAL"}
      BY <2>2, <2>4, <3>1, Zenon DEF WorkerStates
    <3>2. CASE o.status \notin {"SUCCESS", "PARTIAL"}
      <4>1. changes' = changes
        BY <2>1, <3>2 DEF Outcomes
      <4> QED BY <2>2, <2>3, <2>4, <2>5, <4>1, Zenon DEF HonestInv, Touched, WorkerStates
    <3> QED BY <3>1, <3>2, Zenon
  <2>7. changes' \subseteq Queued' /\ \A id \in Touched' : tasks'[id] \notin {"PENDING", "FAILED"}
    BY <2>1, <2>5, Zenon DEF HonestInv, Touched, Queued
  <2>8. \A v \in Executing' : v \in Executing /\ (v = w \/ v # w)
    BY <2>4, Zenon DEF Executing
  <2>9. \A v \in Executing' : v = w
    BY <1>0, <2>2, <2>8, Zenon DEF OneRunning
  <2> QED BY <2>6, <2>7, <2>9, Zenon DEF HonestInv
<1>8. ASSUME NEW w \in Workers, ExecutorPanics(w) PROVE HonestInv'
  <2>1. w \in Executing /\ worker[w] \in WorkerStates
    BY <1>0, <1>8, Zenon DEF TypeOK, ExecutorPanics, Executing
  <2>2. \A v \in Workers : worker'[v].id = worker[v].id /\ worker'[v].pc = worker[v].pc
    BY <1>0, <1>8, <2>1, Zenon DEF TypeOK, ExecutorPanics, WorkerStates
  <2>3. \A v \in Executing' : v = w
    BY <1>0, <2>1, <2>2, Zenon DEF OneRunning, Executing
  <2>4. worker'[w].id \notin Touched' /\ UNCHANGED <<tasks, changes>> /\ Touched' \subseteq Touched
    BY <1>8, <2>2 DEF ExecutorPanics, Touched, taskVars
  <2> QED BY <2>3, <2>4, Zenon DEF HonestInv, Queued
<1>9. ASSUME NEW w \in Workers, WorkerFinishes(w) PROVE HonestInv'
  <2>1. w \in Executing /\ worker[w] \in WorkerStates /\ worker[w].id \in Ids
    BY <1>0, <1>9, Zenon DEF TypeOK, WorkerFinishes, Executing
  <2>2. Executing' = {}
    BY <1>0, <1>9, <2>1, Goroutines DEF WorkerFinishes, OneRunning, Executing, TypeOK
  <2>3. worker[w].id \in Touched => Overall(worker[w].items) # "FAILED"
    BY <2>1, Zenon DEF HonestInv, Overall
  <2>4. Overall(worker[w].items) \notin {"absent", "PENDING"}
    BY Zenon DEF Overall
  <2>5. tasks[worker[w].id] = "RUNNING"
    BY <1>0, <2>1, Zenon DEF OneRunning
  <2>6. \A id \in Ids : tasks'[id] = IF id = worker[w].id THEN Overall(worker[w].items) ELSE tasks[id]
    BY <1>0, <1>9, <2>5, Zenon DEF WorkerFinishes, TypeOK
  <2>7. UNCHANGED <<changes, panicked>>
    BY <1>9, Zenon DEF WorkerFinishes
  <2> QED BY <1>0, <2>2, <2>3, <2>4, <2>6, <2>7, Zenon DEF HonestInv, Touched, Queued
<1>10. ASSUME NEW n \in Notifiers, Acknowledge(n) PROVE HonestInv'
  BY <1>10, HonestDeparts, Zenon DEF Acknowledge, Done
<1>11. ASSUME NEW n \in Notifiers, TakeSnapshot(n) \/ PublicationSteps(n) \/ CheckQueue(n) \/ Tail(n)
       PROVE  HonestInv'
  BY <1>11, HonestUntouched, Zenon
     DEF TakeSnapshot, PublicationSteps, Publish, PublishFails, CheckQueue, Tail, taskVars, execVars
<1>12. ASSUME UNCHANGED vars PROVE HonestInv'
  BY <1>12, HonestUntouched, Zenon DEF vars
<1> QED BY <1>1, <1>2, <1>3, <1>4, <1>5, <1>6, <1>7, <1>8, <1>9, <1>10, <1>11, <1>12, Zenon
        DEF Next, HandlerSteps, WorkerSteps, ExecSteps, NotifierSteps

\* One operation executes at a time, and a user who was told that an operation
\* FAILED finds every file as it was unless the executor panicked: the status
\* that finish computes from the items never hides a change, and neither the
\* publisher's snapshots nor a deletion can bring an old status back.
THEOREM OperationsAreHonest == Spec => []OperationsHonest
<1>1. Init => HonestInv
  BY Goroutines, Zenon DEF Init, HonestInv, Touched, Executing
<1>2. QueueInv /\ HonestInv /\ [Next]_vars => HonestInv'
  BY HonestStep, Zenon
<1>3. QueueInv /\ PublishInv /\ HonestInv => OperationsHonest
  <2> SUFFICES ASSUME QueueInv, PublishInv, HonestInv, NEW id \in changes
               PROVE  OneRunning /\ (id \in panicked \/ told[id] # "FAILED")
    BY Zenon DEF OperationsHonest, FailedMeansUntouched, QueueInv
  <2>1. id \in Ids /\ tasks[id] # "absent"
    BY Zenon DEF QueueInv, TypeOK, HonestInv, Queued
  <2>2. told[id] = "FAILED" => tasks[id] = "FAILED"
    BY <2>1, Zenon DEF PublishInv, NotAfter
  <2> QED BY <2>2, Zenon DEF QueueInv, HonestInv, Touched
<1> QED BY <1>1, <1>2, <1>3, QueueInvariant, PTL DEF Spec

=============================================================================

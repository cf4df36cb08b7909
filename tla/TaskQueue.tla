------------------------------ MODULE TaskQueue ------------------------------
(***************************************************************************)
(* The deferred-task pipeline of dagayn: hooks that enqueue a request and  *)
(* start a worker if none is running (dagayn/task_queue.py, and the Rust   *)
(* twin crates/dagayn-build/src/task_queue.rs), the detached workers that  *)
(* drain the queue (dagayn/tools/queue_worker.py), and the budget watchdog *)
(* that stops a worker (dagayn/hook_guard.py).  Every SQL transaction and  *)
(* every lock operation is one step, so the processes interleave between   *)
(* any two of them.                                                        *)
(***************************************************************************)
EXTENDS TaskQueueOps, Sequences

CONSTANTS Hook,        \* processes that enqueue: hooks, `queue add`, the MCP server
          Worker,      \* bound: worker processes alive or starting at one time
          Nobody,      \* not a process
          Request,     \* what hooks ask for, a set of [kind, payload]
          Fault,       \* the faults a run allows: "crash", "clear", "overrun"
          MaxFaults,   \* bound: faults in one behaviour
          MaxFires,    \* bound: hook invocations in one behaviour (0: no bound)
          MaxId        \* bound: the largest row id

\* Hooks and workers are different processes; only embed requests are scoped.
ASSUME ProcessAssumption == Hook \cap Worker = {} /\ Nobody \notin Hook \cup Worker
ASSUME RequestAssumption ==
  /\ Request \subseteq [kind : Kind, payload : Payload]
  /\ \A r \in Request : r.kind # "embed" => r.payload = Everything
ASSUME FaultAssumption == Fault \subseteq {"crash", "clear", "overrun"}
ASSUME BoundsAssumption == MaxFaults \in Nat /\ MaxFires \in Nat /\ MaxId \in Nat

VARIABLES tasks,    \* the tasks table
          lock,     \* who holds the flock on queue_worker.lock
          hook,     \* where each hook is in _enqueue_and_spawn
          worker,   \* each worker process
          faults,   \* the faults that have happened, in their order
          fires,    \* how many hooks have fired
          open      \* ghost: the requests no completed task has served yet

vars == << tasks, lock, hook, worker, faults, fires, open >>

-----------------------------------------------------------------------------
(***************************************************************************)
(* A worker process.  task: the snapshot claim() returned.  idle: the idle *)
(* window has begun.  orphans: what requeue_stale has read.  extra: the    *)
(* follow-up embed the running task asks for, or nothing.  armed: the      *)
(* watchdog of this task runs.  firing: expired watchdogs that have not    *)
(* recorded the overrun yet.  dying: os._exit comes next.  seen (ghost):   *)
(* the requests that were open when the task was claimed.                  *)
(***************************************************************************)
Snapshot == [id : Nat, kind : Kind \cup {"none"}, payload : Payload, attempts : Nat]

NoTask == [id |-> 0, kind |-> "none", payload |-> Everything, attempts |-> 0]

SnapshotOf(ts, id) ==
  [id |-> id, kind |-> ts[id].kind, payload |-> ts[id].payload, attempts |-> ts[id].attempts]

Off == [pc |-> "off", idle |-> FALSE, task |-> NoTask, orphans |-> {}, extra |-> {},
        armed |-> FALSE, firing |-> {}, dying |-> FALSE, seen |-> {}]

Running(w) == worker[w].pc \notin {"off", "starting"}

Draining(w) == Running(w) /\ worker[w].pc \notin {"recovering", "requeueing"}

Free(l, p) == IF l = p THEN Nobody ELSE l

Init ==
  /\ tasks = << >>
  /\ lock = Nobody
  /\ hook = [h \in Hook |-> "idle"]
  /\ worker = [w \in Worker |-> Off]
  /\ faults = << >>
  /\ fires = 0
  /\ open = {}

\* Ghost: a request made now is served only by a task claimed later.
Ask(r) == open' = open \cup {r}

Forgotten(wk, r) == [w \in Worker |-> [wk[w] EXCEPT !.seen = @ \ {r}]]

CanAdd(kind) == PendingOf(tasks, kind) # {} \/ NextId(tasks) <= MaxId

-----------------------------------------------------------------------------
(* Hooks: _enqueue_and_spawn and ensure_worker *)

\* TaskQueue(...).enqueue(kind, payload).
HookEnqueue(h, r) ==
  /\ hook[h] = "idle"
  /\ CanAdd(r.kind)
  /\ MaxFires = 0 \/ fires < MaxFires
  /\ tasks' = Enqueue(tasks, r.kind, r.payload)
  /\ hook' = [hook EXCEPT ![h] = "probe"]
  /\ fires' = IF MaxFires = 0 THEN 0 ELSE fires + 1
  /\ worker' = Forgotten(worker, r)
  /\ Ask(r)
  /\ UNCHANGED << lock, faults >>

\* ensure_worker: WorkerLock.acquire without blocking; a held lock means a
\* worker is alive and nothing more is done.
HookProbe(h) ==
  /\ hook[h] = "probe"
  /\ IF lock = Nobody
     THEN lock' = h /\ hook' = [hook EXCEPT ![h] = "release"]
     ELSE lock' = lock /\ hook' = [hook EXCEPT ![h] = "idle"]
  /\ UNCHANGED << tasks, worker, faults, fires, open >>

HookRelease(h) ==
  /\ hook[h] = "release"
  /\ lock' = Nobody
  /\ hook' = [hook EXCEPT ![h] = "spawn"]
  /\ UNCHANGED << tasks, worker, faults, fires, open >>

HookSpawn(h, w) ==
  /\ hook[h] = "spawn"
  /\ worker[w].pc = "off"
  /\ worker' = [worker EXCEPT ![w].pc = "starting"]
  /\ hook' = [hook EXCEPT ![h] = "idle"]
  /\ UNCHANGED << tasks, lock, faults, fires, open >>

-----------------------------------------------------------------------------
(* Workers: run_worker *)

\* The worker takes the lock for its lifetime, or exits at once.
Start(w) ==
  /\ worker[w].pc = "starting"
  /\ IF lock = Nobody
     THEN lock' = w /\ worker' = [worker EXCEPT ![w].pc = "recovering"]
     ELSE lock' = lock /\ worker' = [worker EXCEPT ![w] = Off]
  /\ UNCHANGED << tasks, hook, faults, fires, open >>

\* Slip: a new worker polls without recovering what a dead one left running.
ReadOrphansNot(w) ==
  /\ worker[w].pc = "recovering"
  /\ worker' = [worker EXCEPT ![w].pc = "poll"]
  /\ UNCHANGED << tasks, lock, hook, faults, fires, open >>

\* requeue_stale: the SELECT runs before the transaction of the UPDATEs.
ReadOrphans(w) ==
  /\ worker[w].pc = "recovering"
  /\ worker' = [worker EXCEPT
       ![w].pc = "requeueing",
       ![w].orphans = {SnapshotOf(tasks, id) : id \in Ids(tasks, "running")}]
  /\ UNCHANGED << tasks, lock, hook, faults, fires, open >>

RequeueOrphans(w) ==
  /\ worker[w].pc = "requeueing"
  /\ tasks' = [id \in DOMAIN tasks |->
                 IF \E o \in worker[w].orphans : o.id = id
                 THEN Requeue(tasks, id, (CHOOSE o \in worker[w].orphans : o.id = id).attempts)[id]
                 ELSE tasks[id]]
  /\ worker' = [worker EXCEPT ![w].pc = "poll", ![w].orphans = {}]
  /\ UNCHANGED << lock, hook, faults, fires, open >>

\* claim() takes the next task, whose executor starts.
ClaimTask(w) ==
  LET id == NextTask(tasks)
  IN  /\ worker[w].pc = "poll"
      /\ Claimable(tasks) # {}
      /\ tasks' = Claim(tasks, id)
      /\ worker' = [worker EXCEPT ![w].pc = "begin", ![w].idle = FALSE,
                                  ![w].task = SnapshotOf(Claim(tasks, id), id),
                                  ![w].seen = open]
      /\ UNCHANGED << lock, hook, faults, fires, open >>

ClaimNothing(w) ==
  /\ worker[w].pc = "poll"
  /\ Claimable(tasks) = {}
  /\ worker' = [worker EXCEPT ![w].pc = "due"]
  /\ UNCHANGED << tasks, lock, hook, faults, fires, open >>

\* next_due_in(), a read of its own: a retry in backoff is no idleness; an empty
\* queue begins the idle window, and ends the worker once the window is over.
NextDue(w) ==
  /\ worker[w].pc = "due"
  /\ IF Ids(tasks, "pending") # {}
     THEN worker' = [worker EXCEPT ![w].pc = "poll", ![w].idle = FALSE]
     ELSE \/ worker' = [worker EXCEPT ![w].pc = "poll", ![w].idle = TRUE]
          \/ worker[w].idle /\ worker' = [worker EXCEPT ![w].pc = "closing"]
  /\ UNCHANGED << tasks, lock, hook, faults, fires, open >>

\* Leaving the loop: queue.close(), lock.release(), the process ends.
Close(w) ==
  /\ worker[w].pc = "closing"
  /\ worker' = [worker EXCEPT ![w] = Off]
  /\ lock' = Free(lock, w)
  /\ UNCHANGED << tasks, hook, faults, fires, open >>

\* The executor's early returns: hook updates disabled, or suspended because
\* the last one died of its budget.
SkipTask(w) ==
  /\ worker[w].pc = "begin"
  /\ worker[w].task.kind = "update"
  /\ worker' = [worker EXCEPT ![w].pc = "done"]
  /\ UNCHANGED << tasks, lock, hook, faults, fires, open >>

\* Otherwise the watchdog is armed and the work begins.
BeginTask(w) ==
  /\ worker[w].pc = "begin"
  /\ worker[w].task.kind = "update" => ~Suspended(tasks)
  /\ worker' = [worker EXCEPT ![w].pc = "working", ![w].armed = TRUE]
  /\ UNCHANGED << tasks, lock, hook, faults, fires, open >>

\* The `finally` of every executor: a watchdog that is already running its
\* callback is not stopped by cancel().
Cancelled(wk, w, pc) == [wk EXCEPT ![w].pc = pc, ![w].armed = FALSE, ![w].extra = {}]

\* The work succeeds, and may have changed the graph.  An update that changed
\* files asks for an embed of them; an embed cut short asks for itself again.
WorkSucceeds(w) ==
  LET t == worker[w].task
      Embed(files) == [kind |-> "embed",
                       payload |-> [whole |-> FALSE, files |-> files, skip |-> TRUE]]
      Rest == [kind |-> "embed", payload |-> t.payload]
      extras == CASE t.kind = "update" /\ "embed" \in Kind ->
                       {Embed(files) : files \in (SUBSET File) \ {{}}}
                  [] t.kind = "embed" -> {Rest}
                  [] OTHER -> {}
  IN  /\ worker[w].pc = "working"
      /\ \/ worker' = Cancelled(worker, w, "done")
         \/ \E r \in extras :
              worker' = [worker EXCEPT ![w].pc = "followup", ![w].extra = {r}]
      /\ tasks' \in {tasks} \cup
           {ts \in {Landed(tasks)} : t.kind # "postprocess" /\ ~(t.kind = "embed" /\ t.payload.skip)}
      /\ UNCHANGED << lock, hook, faults, fires, open >>

\* The result says "skipped" (another writer has the graph).
WorkSkipped(w) ==
  /\ worker[w].pc = "working"
  /\ worker' = Cancelled(worker, w, "done")
  /\ UNCHANGED << tasks, lock, hook, faults, fires, open >>

\* The executor raises, in its work or in its follow-up.
WorkRaises(w) ==
  /\ worker[w].pc \in {"working", "followup"}
  /\ worker' = Cancelled(worker, w, "raised")
  /\ UNCHANGED << tasks, lock, hook, faults, fires, open >>

\* enqueue_embed_refresh(spawn_worker=False) or queue.enqueue("embed", payload).
FollowUp(w) ==
  /\ worker[w].pc = "followup"
  /\ \E r \in worker[w].extra :
       /\ CanAdd(r.kind)
       /\ tasks' = Enqueue(tasks, r.kind, r.payload)
       /\ worker' = Cancelled(Forgotten(worker, r), w, "done")
       /\ Ask(r)
  /\ UNCHANGED << lock, hook, faults, fires >>

NextRound(w) == [worker EXCEPT ![w].pc = "poll", ![w].task = NoTask, ![w].seen = {}]

Served(t, seen) == {r \in seen : r.kind = t.kind /\ Covers(t.payload, r.payload)}

CompleteTask(w) ==
  /\ worker[w].pc = "done"
  /\ tasks' = Complete(tasks, worker[w].task.id)
  /\ worker' = NextRound(w)
  /\ open' = open \ Served(worker[w].task, worker[w].seen)
  /\ UNCHANGED << lock, hook, faults, fires >>

FailTask(w) ==
  /\ worker[w].pc = "raised"
  /\ tasks' = Fail(tasks, worker[w].task.id, worker[w].task.attempts, FALSE)
  /\ worker' = NextRound(w)
  /\ UNCHANGED << lock, hook, faults, fires, open >>

-----------------------------------------------------------------------------
(* The budget watchdog: start_budget_watchdog and _record_overrun *)

Faulty(f) ==
  /\ f \in Fault
  /\ Len(faults) < MaxFaults
  /\ faults' = Append(faults, f)

\* The timer goes off; the worker's own thread keeps running.
Expire(w) ==
  /\ Faulty("overrun")
  /\ worker[w].armed
  /\ worker' = [worker EXCEPT ![w].armed = FALSE, ![w].firing = @ \cup {worker[w].task}]
  /\ UNCHANGED << tasks, lock, hook, fires, open >>

\* on_expire fails the task through a connection of its own; what it raises
\* does not stop the exit.
RecordOverrun(w, t) ==
  /\ t \in worker[w].firing
  /\ ~worker[w].dying
  /\ tasks' \in {Fail(tasks, t.id, t.attempts, TRUE), tasks}
  /\ worker' = [worker EXCEPT ![w].firing = @ \ {t}, ![w].dying = TRUE]
  /\ UNCHANGED << lock, hook, faults, fires, open >>

\* os._exit: the lock goes with the process.
Exit(w) ==
  /\ worker[w].dying
  /\ worker' = [worker EXCEPT ![w] = Off]
  /\ lock' = Free(lock, w)
  /\ UNCHANGED << tasks, hook, faults, fires, open >>

-----------------------------------------------------------------------------
(* The environment *)

\* A worker is killed between two steps.
Crash(w) ==
  /\ Faulty("crash")
  /\ worker[w].pc # "off"
  /\ worker' = [worker EXCEPT ![w] = Off]
  /\ lock' = Free(lock, w)
  /\ UNCHANGED << tasks, hook, fires, open >>

\* `dagayn queue clear`, whatever a worker is doing.
Clear ==
  /\ Faulty("clear")
  /\ tasks' = << >>
  /\ open' = {}
  /\ UNCHANGED << lock, hook, worker, fires >>

\* not_before of a retry passes.
BackoffElapses(id) ==
  /\ ~tasks[id].ready
  /\ tasks' = [tasks EXCEPT ![id].ready = TRUE]
  /\ UNCHANGED << lock, hook, worker, faults, fires, open >>

\* `dagayn update` or a session prepare moves the graph's last_updated.
ManualUpdate ==
  /\ Suspended(tasks)
  /\ tasks' = Landed(tasks)
  /\ UNCHANGED << lock, hook, worker, faults, fires, open >>

-----------------------------------------------------------------------------
HookStep(h) == HookProbe(h) \/ HookRelease(h) \/ \E w \in Worker : HookSpawn(h, w)

WorkerStep(w) ==
  \/ Start(w) \/ ReadOrphans(w) \/ RequeueOrphans(w)
  \/ ClaimTask(w) \/ ClaimNothing(w) \/ NextDue(w) \/ Close(w)
  \/ SkipTask(w) \/ BeginTask(w)
  \/ WorkSucceeds(w) \/ WorkSkipped(w) \/ WorkRaises(w) \/ FollowUp(w)
  \/ CompleteTask(w) \/ FailTask(w)

Watchdog(w) == Expire(w) \/ Exit(w) \/ \E t \in worker[w].firing : RecordOverrun(w, t)

Environment ==
  \/ \E w \in Worker : Crash(w)
  \/ \E id \in DOMAIN tasks : BackoffElapses(id)
  \/ Clear
  \/ ManualUpdate

Next ==
  \/ \E h \in Hook : HookStep(h) \/ \E r \in Request : HookEnqueue(h, r)
  \/ \E w \in Worker : WorkerStep(w) \/ Watchdog(w)
  \/ Environment

Spec == Init /\ [][Next]_vars

(***************************************************************************)
(* Fairness.  A process that can take a step takes it; a backoff elapses;  *)
(* a hook or a worker that keeps finding the lock free gets it (the other  *)
(* holders of a hook's probe give it up at once).  Nothing forces a fault. *)
(***************************************************************************)
Progress ==
  /\ \A h \in Hook : WF_vars(HookStep(h))
  /\ \A w \in Worker :
       /\ WF_vars(WorkerStep(w)) /\ WF_vars(Exit(w))
       /\ SF_vars(Start(w) /\ lock = Nobody)
       /\ WF_vars(\E t \in worker[w].firing : RecordOverrun(w, t))
  /\ WF_vars(\E id \in DOMAIN tasks : BackoffElapses(id))

\* The user keeps editing: every hook fires again and again.
KeepsFiring == \A h \in Hook : SF_vars(\E r \in Request : HookEnqueue(h, r))

FairSpec == Spec /\ Progress

BusySpec == FairSpec /\ KeepsFiring

-----------------------------------------------------------------------------
(* Properties *)

PC == {"off", "starting", "recovering", "requeueing", "poll", "due", "closing",
       "begin", "working", "followup", "done", "raised"}

\* Rows, snapshots and requests are well formed; no row owes an attempt.
TypeOK ==
  /\ DOMAIN tasks \subseteq Nat /\ \A id \in DOMAIN tasks : tasks[id] \in Row
  /\ lock \in Hook \cup Worker \cup {Nobody}
  /\ hook \in [Hook -> {"idle", "probe", "release", "spawn"}]
  /\ \A w \in Worker :
       /\ worker[w].pc \in PC
       /\ {worker[w].task} \cup worker[w].firing \cup worker[w].orphans \subseteq Snapshot
       /\ worker[w].seen \cup worker[w].extra \subseteq [kind : Kind, payload : Payload]
  /\ faults \in Seq(Fault) /\ Len(faults) <= MaxFaults
  /\ open \subseteq [kind : Kind, payload : Payload]

\* "Running" means "being executed": once a worker has run requeue_stale, the
\* only running row is the one whose snapshot it holds, whatever crashed before
\* and however many workers were spawned at once.
RunningIsOwned ==
  \A w \in Worker : Draining(w) =>
    \A id \in Ids(tasks, "running") : worker[w].task.id = id

\* A row that answers r: one still to be claimed, one parked dead for the user
\* to see, or one running for a worker that claimed it after r was made.
Answers(id, r) ==
  /\ tasks[id].kind = r.kind
  /\ Covers(tasks[id].payload, r.payload)
  /\ \A w \in Worker :
       tasks[id].state = "running" /\ Running(w) /\ worker[w].task.id = id => r \in worker[w].seen

\* No edit falls through coalescing: a request is in the table, in full width,
\* until a task claimed after it completes.  In particular a request is never
\* folded into a task a worker has already read, complete() never deletes a
\* row other than the one it ran, and merging never narrows an embed.
NoLostRequest == \A r \in open : \E id \in DOMAIN tasks : Answers(id, r)

\* The retry bound holds across crashes, requeues and failures: no row is
\* claimed more than MAX_ATTEMPTS times, and only one that was is parked dead.
\* (Of the faults, only crashes are allowed: fail() acts on an id, which after a
\* `queue clear`, or in a watchdog that expires as its task ends, may be the id
\* of a younger row.)
RetriesBounded ==
  (\A i \in 1..Len(faults) : faults[i] = "crash") =>
    \A id \in DOMAIN tasks :
      /\ tasks[id].attempts <= MAX_ATTEMPTS
      /\ tasks[id].state = "dead" => tasks[id].attempts = MAX_ATTEMPTS

\* An update row waits only so long: some worker claims it.
UpdateClaimed ==
  \A id \in 1..MaxId :
    (id \in PendingOf(tasks, "update")) ~> (id \notin PendingOf(tasks, "update"))
=============================================================================

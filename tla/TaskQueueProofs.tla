--------------------------- MODULE TaskQueueProofs ---------------------------
(***************************************************************************)
(* The task queue keeps its promises for every set of hooks and workers,   *)
(* every set of requests, and any number of crashes, budget overruns and   *)
(* `queue clear`s: nothing is folded into a task that already runs, a      *)
(* completed task never takes an unserved request along, "running" means   *)
(* "being executed", and the retry bound holds.                            *)
(***************************************************************************)
EXTENDS TaskQueue, TLAPS, NaturalsInduction, WellFoundedInduction

\* What hooks and follow-ups ask for: only an embed is scoped.
Plain(kind, payload) == kind # "embed" => payload = Everything

Asked == {r \in [kind : Kind, payload : Payload] : Plain(r.kind, r.payload)}

\* A well-formed tasks table.
Table(ts) ==
  /\ ts = [id \in DOMAIN ts |-> ts[id]]
  /\ DOMAIN ts \subseteq 1..MaxId
  /\ \A id \in DOMAIN ts :
       /\ ts[id] \in Row
       /\ ts[id].priority \in {0, 10}
       /\ Plain(ts[id].kind, ts[id].payload)

WorkerState ==
  [pc : PC, idle : BOOLEAN, task : Snapshot, orphans : SUBSET Snapshot,
   extra : SUBSET Asked, armed : BOOLEAN, firing : SUBSET Snapshot,
   dying : BOOLEAN, seen : SUBSET Asked]

Typed ==
  /\ Table(tasks)
  /\ lock \in Hook \cup Worker \cup {Nobody}
  /\ hook \in [Hook -> {"idle", "probe", "release", "spawn"}]
  /\ worker \in [Worker -> WorkerState]
  /\ faults \in Seq(Fault) /\ Len(faults) <= MaxFaults
  /\ open \subseteq Asked

\* Whoever is past the lock holds it, so one worker runs at a time.
LockHeld ==
  /\ \A w \in Worker : Running(w) => lock = w
  /\ \A h \in Hook : hook[h] = "release" => lock = h

Polling == {"off", "starting", "recovering", "requeueing", "poll", "due", "closing"}

\* Outside the execution of a task a worker holds no snapshot.
EmptyHanded == \A w \in Worker : worker[w].pc \in Polling => worker[w].task = NoTask

\* A snapshot still describes its row while the row runs: enqueue leaves running
\* rows alone, and nobody else claims.
SnapshotFaithful ==
  \A w \in Worker :
    LET t == worker[w].task
    IN  Running(w) /\ t.id \in Ids(tasks, "running") =>
          /\ tasks[t.id].kind = t.kind
          /\ tasks[t.id].payload = t.payload
          /\ tasks[t.id].attempts = t.attempts

\* What requeue_stale has read is still all there is to requeue.
OrphansKnown ==
  \A w \in Worker : worker[w].pc = "requeueing" =>
    \A id \in Ids(tasks, "running") :
      /\ \E o \in worker[w].orphans : o.id = id
      /\ \A o \in worker[w].orphans : o.id = id => o.attempts = tasks[id].attempts

Calm == \A i \in 1..Len(faults) : faults[i] = "crash"

Executing == {"begin", "working", "followup", "done", "raised"}

\* Attempts are counted right as long as nothing but crashes went wrong: a
\* worker's task and what it has read as orphaned are then still running rows.
AttemptsCounted ==
  Calm =>
    /\ \A w \in Worker :
         /\ worker[w].firing = {} /\ ~worker[w].dying
         /\ worker[w].pc \in Executing => worker[w].task.id \in Ids(tasks, "running")
         /\ worker[w].pc = "requeueing" =>
              \A o \in worker[w].orphans : o.id \in Ids(tasks, "running")
    /\ \A id \in DOMAIN tasks :
         /\ tasks[id].state = "pending" => tasks[id].attempts < MAX_ATTEMPTS
         /\ tasks[id].state = "running" => tasks[id].attempts <= MAX_ATTEMPTS
         /\ tasks[id].state = "dead" => tasks[id].attempts = MAX_ATTEMPTS

\* The inductive invariant.
IInv ==
  /\ Typed /\ LockHeld /\ EmptyHanded /\ RunningIsOwned
  /\ SnapshotFaithful /\ OrphansKnown /\ AttemptsCounted /\ NoLostRequest

-----------------------------------------------------------------------------
(* The table's operators *)

\* A set of ids has a least and a greatest element.
LEMMA Extremes ==
  ASSUME NEW S, S \subseteq 1..MaxId, S # {}
  PROVE  /\ Min(S) \in S /\ \A y \in S : Min(S) <= y
         /\ Max(S) \in S /\ \A y \in S : Max(S) >= y
<1>0. MaxId \in Nat
  BY BoundsAssumption
<1>1. ASSUME NEW T, T \subseteq Nat, T # {}
      PROVE  \E x \in T : \A y \in T : x <= y
  <2>1. PICK x \in T : \A y \in T : ~(<< y, x >> \in OpToRel(<, Nat))
    BY <1>1, NatLessThanWellFounded, WFMin
  <2>2. \A y \in T : ~(y < x)
    BY <1>1, <2>1 DEF OpToRel
  <2> QED
    BY <1>1, <2>2
<1>2. \E x \in S : \A y \in S : x <= y
  <2>1. S \subseteq Nat
    BY <1>0
  <2> QED
    BY <1>1, <2>1
<1>3. \E x \in S : \A y \in S : x >= y
  <2> DEFINE T == {MaxId - x : x \in S}
  <2>0. \A x \in S : MaxId - x \in Nat
    BY <1>0
  <2>1. T \subseteq Nat /\ T # {}
    BY <2>0
  <2>2. PICK z \in T : \A y \in T : z <= y
    BY <1>1, <2>1
  <2>3. PICK x \in S : z = MaxId - x
    OBVIOUS
  <2>4. ASSUME NEW y \in S
        PROVE  x >= y
    <3>1. MaxId - y \in T
      OBVIOUS
    <3>2. MaxId - x <= MaxId - y
      BY <2>2, <2>3, <3>1
    <3> QED
      BY <1>0, <3>2
  <2> QED
    BY <2>4
<1> QED
  BY <1>2, <1>3 DEF Min, Max

\* enqueue never reuses an id.
LEMMA NextIdFresh ==
  ASSUME NEW ts, Table(ts)
  PROVE  NextId(ts) \in Nat \ {0} /\ NextId(ts) \notin DOMAIN ts
<1>1. CASE DOMAIN ts = {}
  BY <1>1 DEF NextId
<1>2. CASE DOMAIN ts # {}
  <2>1. /\ Max(DOMAIN ts) \in DOMAIN ts
        /\ \A y \in DOMAIN ts : Max(DOMAIN ts) >= y
    BY <1>2, Extremes DEF Table
  <2>2. DOMAIN ts \subseteq 1..MaxId /\ MaxId \in Nat
    BY BoundsAssumption DEF Table
  <2> DEFINE m == Max(DOMAIN ts)
  <2>3. NextId(ts) = m + 1
    BY <1>2 DEF NextId
  <2> HIDE DEF m
  <2> QED
    BY <2>1, <2>2, <2>3 DEF m
<1> QED
  BY <1>1, <1>2

\* The priorities of the kinds.
LEMMA PriorityType ==
  ASSUME NEW kind PROVE DEFAULT_PRIORITIES(kind) \in {0, 10}
BY DEF DEFAULT_PRIORITIES

\* Merging never narrows: the merged payload covers what either one covers.
LEMMA MergeCovers ==
  ASSUME NEW kind, NEW old \in Payload, NEW new \in Payload,
         Plain(kind, old), Plain(kind, new)
  PROVE  LET p == _merge_payloads(kind, old, new)
         IN  /\ p \in Payload /\ Plain(kind, p)
             /\ Covers(p, new)
             /\ \A asked \in Payload : Covers(old, asked) => Covers(p, asked)
<1>1. CASE kind # "embed"
  BY <1>1 DEF _merge_payloads, Plain, Payload, Covers, Everything
<1>2. CASE kind = "embed"
  <2> DEFINE p == _merge_payloads(kind, old, new)
  <2>1. p = [whole |-> old.whole \/ new.whole,
             files |-> IF old.whole \/ new.whole THEN {} ELSE old.files \cup new.files,
             skip  |-> old.skip /\ new.skip]
    BY <1>2 DEF _merge_payloads
  <2>2. /\ p \in Payload
        /\ p.whole = (old.whole \/ new.whole) /\ p.skip = (old.skip /\ new.skip)
        /\ p.files = IF old.whole \/ new.whole THEN {} ELSE old.files \cup new.files
    BY <2>1 DEF Payload
  <2> HIDE DEF p
  <2>3. Covers(p, new)
    BY <2>2 DEF Covers, Payload
  <2>4. \A asked \in Payload : Covers(old, asked) => Covers(p, asked)
    BY <2>2 DEF Covers, Payload
  <2> QED
    BY <1>2, <2>2, <2>3, <2>4 DEF p, Plain
<1> QED
  BY <1>1, <1>2

\* enqueue: one pending row of the kind covers the request and what the row it
\* replaced covered; every other row is as it was.
LEMMA EnqueueTable ==
  ASSUME NEW ts, Table(ts), NEW r \in Asked,
         PendingOf(ts, r.kind) # {} \/ NextId(ts) <= MaxId
  PROVE  LET us == Enqueue(ts, r.kind, r.payload)
         IN  /\ Table(us)
             /\ DOMAIN ts \subseteq DOMAIN us
             /\ \E id \in DOMAIN us :
                  /\ us[id].state = "pending" /\ us[id].kind = r.kind
                  /\ Covers(us[id].payload, r.payload)
                  /\ \A i \in DOMAIN us \ {id} : i \in DOMAIN ts /\ us[i] = ts[i]
                  /\ id \in DOMAIN ts =>
                       /\ ts[id].state = "pending" /\ ts[id].kind = r.kind
                       /\ us[id].attempts = ts[id].attempts
                       /\ \A asked \in Payload :
                            Covers(ts[id].payload, asked) => Covers(us[id].payload, asked)
                  /\ id \notin DOMAIN ts => us[id].attempts = 0
<1> DEFINE kind == r.kind
           twins == PendingOf(ts, kind)
           twin == Min(twins)
           prio == DEFAULT_PRIORITIES(kind)
           us == Enqueue(ts, kind, r.payload)
<1>0. /\ kind \in Kind /\ r.payload \in Payload /\ Plain(kind, r.payload)
      /\ prio \in {0, 10}
  BY PriorityType DEF Asked
<1>1. CASE twins # {}
  <2>1. twin \in DOMAIN ts /\ ts[twin].state = "pending" /\ ts[twin].kind = kind
    <3>1. twins \subseteq 1..MaxId
      BY DEF PendingOf, Ids, Table
    <3>2. twin \in twins
      BY <1>1, <3>1, Extremes
    <3> QED
      BY <3>2 DEF PendingOf, Ids
  <2> DEFINE p == _merge_payloads(kind, ts[twin].payload, r.payload)
             q == IF ts[twin].priority > prio THEN ts[twin].priority ELSE prio
             row == [ts[twin] EXCEPT !.payload = p, !.priority = q, !.unlanded = TRUE]
  <2>3. ts[twin] \in Row /\ ts[twin].priority \in {0, 10} /\ Plain(kind, ts[twin].payload)
    BY <2>1 DEF Table
  <2>2. us = Put(ts, twin, row)
    BY <1>1, <2>3 DEF Enqueue, Row
  <2>4. /\ p \in Payload /\ Plain(kind, p) /\ Covers(p, r.payload)
        /\ \A asked \in Payload : Covers(ts[twin].payload, asked) => Covers(p, asked)
    <3>1. ts[twin].payload \in Payload
      BY <2>3 DEF Row
    <3> QED
      BY <1>0, <2>3, <3>1, MergeCovers
  <2> HIDE DEF twin, p, prio
  <2>8. q \in {0, 10} /\ q \in Int
    BY <1>0, <2>3
  <2> HIDE DEF q
  <2>5. /\ row \in Row /\ row.priority \in {0, 10} /\ row.kind = kind
        /\ row.payload = p /\ row.state = "pending" /\ row.attempts = ts[twin].attempts
    BY <1>0, <2>1, <2>3, <2>4, <2>8 DEF Row
  <2> HIDE DEF row
  <2>6. /\ DOMAIN us = DOMAIN ts /\ us[twin] = row
        /\ \A i \in DOMAIN ts \ {twin} : us[i] = ts[i]
        /\ us = [i \in DOMAIN us |-> us[i]]
    BY <2>1, <2>2 DEF Put
  <2> HIDE DEF us
  <2>7. Table(us)
    BY <2>4, <2>5, <2>6 DEF Table
  <2> QED
    BY <2>1, <2>4, <2>5, <2>6, <2>7 DEF us
<1>2. CASE twins = {}
  <2> DEFINE id == NextId(ts)
             row == NewRow(kind, r.payload, prio)
  <2>1. id \in 1..MaxId /\ id \notin DOMAIN ts
    <3>1. NextId(ts) <= MaxId
      BY <1>2
    <3> QED
      BY <3>1, NextIdFresh, BoundsAssumption
  <2>2. us = Put(ts, id, row)
    BY <1>2 DEF Enqueue
  <2> HIDE DEF id, prio
  <2>3. /\ row \in Row /\ row.priority \in {0, 10} /\ row.kind = kind
        /\ row.payload = r.payload /\ row.state = "pending" /\ row.attempts = 0
    BY <1>0 DEF NewRow, Row
  <2> HIDE DEF row
  <2>4. /\ DOMAIN us = DOMAIN ts \cup {id} /\ us[id] = row
        /\ \A i \in DOMAIN ts : us[i] = ts[i]
        /\ us = [i \in DOMAIN us |-> us[i]]
    BY <2>1, <2>2 DEF Put
  <2> HIDE DEF us
  <2>5. Table(us)
    BY <1>0, <2>1, <2>3, <2>4 DEF Table
  <2>6. Covers(r.payload, r.payload)
    BY <1>0 DEF Covers, Payload
  <2> QED
    BY <2>1, <2>3, <2>4, <2>5, <2>6 DEF us
<1> QED
  BY <1>1, <1>2

\* A row replaced by another one.
LEMMA UpdateTable ==
  ASSUME NEW ts, Table(ts), NEW id \in DOMAIN ts, NEW row \in Row,
         row.priority \in {0, 10}, Plain(row.kind, row.payload),
         NEW us, us = [ts EXCEPT ![id] = row]
  PROVE  /\ Table(us) /\ DOMAIN us = DOMAIN ts /\ us[id] = row
         /\ \A i \in DOMAIN ts \ {id} : us[i] = ts[i]
BY DEF Table

\* The row changed in place: what it asks for, and its attempts, stay.
SameWork(row, old) ==
  row.kind = old.kind /\ row.payload = old.payload /\ row.attempts = old.attempts

\* The row named, if there, stops running.
Failed(ts, us, id, n) ==
  /\ Table(us) /\ DOMAIN us = DOMAIN ts
  /\ \A i \in DOMAIN ts \ {id} : us[i] = ts[i]
  /\ id \in DOMAIN ts =>
       /\ SameWork(us[id], ts[id])
       /\ us[id].state = IF n >= MAX_ATTEMPTS THEN "dead" ELSE "pending"

\* fail and _park_dead.
LEMMA FailTable ==
  ASSUME NEW ts, Table(ts), NEW id, NEW n \in Nat, NEW overrun \in BOOLEAN
  PROVE  Failed(ts, Fail(ts, id, n, overrun), id, n)
<1> DEFINE us == Fail(ts, id, n, overrun)
           dead == [ts[id] EXCEPT !.state = "dead", !.overrun = overrun, !.unlanded = TRUE]
           retry == [ts[id] EXCEPT !.state = "pending", !.ready = FALSE,
                                   !.overrun = overrun, !.unlanded = TRUE]
           row == IF n >= MAX_ATTEMPTS THEN dead ELSE retry
<1>1. CASE id \notin DOMAIN ts
  BY <1>1 DEF Fail, _park_dead, Failed
<1>2. CASE id \in DOMAIN ts
  <2>1. ts[id] \in Row /\ ts[id].priority \in {0, 10} /\ Plain(ts[id].kind, ts[id].payload)
    BY <1>2 DEF Table
  <2>2. us = [ts EXCEPT ![id] = row]
    BY <1>2, <2>1 DEF Fail, _park_dead, Row, Table
  <2>3. /\ dead \in Row /\ SameWork(dead, ts[id]) /\ dead.state = "dead"
        /\ dead.priority = ts[id].priority
    BY <2>1 DEF Row, SameWork
  <2>4. /\ retry \in Row /\ SameWork(retry, ts[id]) /\ retry.state = "pending"
        /\ retry.priority = ts[id].priority
    BY <2>1 DEF Row, SameWork
  <2> HIDE DEF dead, retry
  <2>5. /\ row \in Row /\ SameWork(row, ts[id]) /\ row.priority \in {0, 10}
        /\ row.state = IF n >= MAX_ATTEMPTS THEN "dead" ELSE "pending"
    BY <2>1, <2>3, <2>4
  <2> HIDE DEF row, us
  <2>6. Plain(row.kind, row.payload)
    BY <2>1, <2>5 DEF SameWork
  <2>7. /\ Table(us) /\ DOMAIN us = DOMAIN ts /\ us[id] = row
        /\ \A i \in DOMAIN ts \ {id} : us[i] = ts[i]
    BY <1>2, <2>2, <2>5, <2>6, UpdateTable
  <2> QED
    BY <1>2, <2>5, <2>7 DEF us, Failed
<1> QED
  BY <1>1, <1>2

LEMMA LandedTable ==
  ASSUME NEW ts, Table(ts)
  PROVE  LET us == Landed(ts)
         IN  /\ Table(us) /\ DOMAIN us = DOMAIN ts
             /\ \A i \in DOMAIN ts : SameWork(us[i], ts[i]) /\ us[i].state = ts[i].state
BY DEF Landed, Table, Row, SameWork

LEMMA CompleteTable ==
  ASSUME NEW ts, Table(ts), NEW id
  PROVE  LET us == Complete(ts, id)
         IN  /\ Table(us)
             /\ DOMAIN us = DOMAIN ts \ ({id} \cap Ids(ts, "running"))
             /\ \A i \in DOMAIN us : us[i] = ts[i]
BY DEF Complete, Without, Table

\* claim: the best claimable row exists and starts running.
LEMMA ClaimTable ==
  ASSUME NEW ts, Table(ts), Claimable(ts) # {}
  PROVE  LET id == NextTask(ts)
             us == Claim(ts, id)
         IN  /\ id \in Ids(ts, "pending")
             /\ Table(us) /\ DOMAIN us = DOMAIN ts
             /\ \A i \in DOMAIN ts \ {id} : us[i] = ts[i]
             /\ us[id].state = "running" /\ us[id].kind = ts[id].kind
             /\ us[id].payload = ts[id].payload /\ us[id].attempts = ts[id].attempts + 1
<1> DEFINE C == Claimable(ts)
           T == {i \in C : ts[i].priority = 10}
           Best(i) == \A other \in C : \/ ts[i].priority > ts[other].priority
                                       \/ ts[i].priority = ts[other].priority /\ i <= other
<1>1. /\ C \subseteq 1..MaxId /\ C \subseteq Ids(ts, "pending")
      /\ \A i \in C : ts[i].priority \in {0, 10}
  BY DEF Claimable, Ids, Table
<1> HIDE DEF C
<1>2. \E i \in C : Best(i)
  <2>1. CASE T # {}
    <3>1. Min(T) \in T /\ \A y \in T : Min(T) <= y
      BY <1>1, <2>1, Extremes
    <3>2. Best(Min(T))
      BY <1>1, <3>1
    <3> QED
      BY <3>1, <3>2
  <2>2. CASE T = {}
    <3>1. C # {}
      BY DEF C
    <3>2. Min(C) \in C /\ \A y \in C : Min(C) <= y
      BY <1>1, <3>1, Extremes
    <3>3. \A i \in C : ts[i].priority = 0
      BY <1>1, <2>2
    <3> QED
      BY <3>2, <3>3
  <2> QED
    BY <2>1, <2>2
<1>3. NextTask(ts) \in C
  BY <1>2 DEF NextTask, C
<1> DEFINE id == NextTask(ts)
<1>4. id \in Ids(ts, "pending")
  BY <1>1, <1>3
<1> HIDE DEF id
<1>5. id \in DOMAIN ts /\ ts[id] \in Row
  BY <1>4 DEF Ids, Table
<1> DEFINE us == Claim(ts, id)
           n == ts[id].attempts + 1
           row == [ts[id] EXCEPT !.state = "running", !.attempts = n, !.unlanded = TRUE]
<1>6. us = [ts EXCEPT ![id] = row]
  BY <1>5 DEF Claim, Row, Table
<1>10. n \in Nat
  BY <1>5 DEF Row
<1> HIDE DEF n
<1>7. /\ row \in Row /\ row.state = "running" /\ row.kind = ts[id].kind
      /\ row.payload = ts[id].payload /\ row.attempts = n
      /\ row.priority = ts[id].priority
  BY <1>5, <1>10 DEF Row
<1>8. row.priority \in {0, 10} /\ Plain(row.kind, row.payload)
  BY <1>5, <1>7 DEF Table
<1> HIDE DEF row, us
<1>9. /\ Table(us) /\ DOMAIN us = DOMAIN ts /\ us[id] = row
      /\ \A i \in DOMAIN ts \ {id} : us[i] = ts[i]
  BY <1>5, <1>6, <1>7, <1>8, UpdateTable
<1> QED
  BY <1>4, <1>7, <1>9 DEF id, us, n

-----------------------------------------------------------------------------
(* Steps *)

\* The table changed in nothing the invariant looks at.
Alike(ts, us) ==
  /\ Table(us) /\ DOMAIN us = DOMAIN ts
  /\ \A id \in DOMAIN ts : SameWork(us[id], ts[id]) /\ us[id].state = ts[id].state

\* A worker that holds the lock moves on, its task and what it has read kept.
LEMMA MoveKeeps ==
  ASSUME IInv, NEW w \in Worker, NEW v \in WorkerState, Running(w),
         worker' = [worker EXCEPT ![w] = v],
         v.task = worker[w].task, v.seen = worker[w].seen,
         v.firing = worker[w].firing, v.dying = worker[w].dying,
         v.pc \in Polling <=> worker[w].pc \in Polling,
         worker[w].pc \notin {"recovering", "requeueing"},
         v.pc \notin {"off", "starting", "recovering", "requeueing"},
         Alike(tasks, tasks'), UNCHANGED << lock, hook, faults, open >>
  PROVE  IInv'
<1>1. Typed'
  BY DEF IInv, Typed, Alike
<1>2. /\ \A u \in Worker \ {w} : worker'[u] = worker[u]
      /\ worker'[w] = v /\ Running(w)' /\ Draining(w)
      /\ \A u \in Worker \ {w} : Running(u)' <=> Running(u)
      /\ \A u \in Worker \ {w} : Draining(u)' <=> Draining(u)
  BY DEF IInv, Typed, Running, Draining
<1>3. \A s : Ids(tasks, s)' = Ids(tasks, s)
  BY DEF Alike, Ids
<1>4. LockHeld'
  BY <1>2 DEF IInv, LockHeld
<1>5. EmptyHanded'
  BY <1>2 DEF IInv, EmptyHanded
<1>6. RunningIsOwned'
  BY <1>2, <1>3 DEF IInv, RunningIsOwned
<1>7. SnapshotFaithful'
  BY <1>2, <1>3 DEF IInv, SnapshotFaithful, Alike, SameWork, Ids
<1>8. OrphansKnown'
  BY <1>2, <1>3 DEF IInv, OrphansKnown, Alike, SameWork, Ids
<1>9. AttemptsCounted'
  BY <1>2, <1>3 DEF IInv, AttemptsCounted, Calm, Alike, SameWork, Executing, Polling, Typed, WorkerState, PC
<1>10. NoLostRequest'
  BY <1>2, <1>3 DEF IInv, NoLostRequest, Answers, Alike, SameWork
<1> QED
  BY <1>1, <1>4, <1>5, <1>6, <1>7, <1>8, <1>9, <1>10 DEF IInv

\* A step outside the workers that leaves rows and requests as they are.
LEMMA AlikeKeeps ==
  ASSUME IInv, Alike(tasks, tasks'), UNCHANGED << lock, hook, worker, faults, open >>
  PROVE  IInv'
<1>1. Typed'
  BY DEF IInv, Typed, Alike
<1>2. \A u : (Running(u)' <=> Running(u)) /\ (Draining(u)' <=> Draining(u))
  BY DEF Running, Draining
<1>3. \A s : Ids(tasks, s)' = Ids(tasks, s)
  BY DEF Alike, Ids
<1>4. LockHeld' /\ EmptyHanded' /\ RunningIsOwned'
  BY <1>2, <1>3 DEF IInv, LockHeld, EmptyHanded, RunningIsOwned
<1>5. SnapshotFaithful' /\ OrphansKnown'
  BY <1>2, <1>3 DEF IInv, SnapshotFaithful, OrphansKnown, Alike, SameWork, Ids
<1>6. AttemptsCounted'
  BY <1>3 DEF IInv, AttemptsCounted, Calm, Alike, SameWork
<1>7. NoLostRequest'
  BY <1>2, <1>3 DEF IInv, NoLostRequest, Answers, Alike, SameWork
<1> QED
  BY <1>1, <1>4, <1>5, <1>6, <1>7 DEF IInv

\* A worker that ends, in whatever way, gives the lock up and leaves its row.
LEMMA OffKeeps ==
  ASSUME IInv, NEW w \in Worker, worker' = [worker EXCEPT ![w] = Off],
         lock' \in {lock, Free(lock, w)}, UNCHANGED << tasks, hook, open >>,
         UNCHANGED faults \/ \E f \in Fault : faults' = Append(faults, f),
         Len(faults') <= MaxFaults
  PROVE  IInv'
<1>0. Off \in WorkerState
  BY DEF Off, WorkerState, PC, NoTask, Snapshot, Payload, Everything
<1>1. /\ \A u \in Worker \ {w} : worker'[u] = worker[u]
      /\ worker'[w] = Off /\ ~Running(w)' /\ ~Draining(w)'
      /\ \A u \in Worker \ {w} : Running(u)' <=> Running(u)
      /\ \A u \in Worker \ {w} : Draining(u)' <=> Draining(u)
  BY DEF IInv, Typed, Running, Draining, Off
<1>2. Typed'
  BY <1>0 DEF IInv, Typed, Free
<1>3. LockHeld'
  BY <1>1, ProcessAssumption DEF IInv, LockHeld, Free
<1>4. EmptyHanded' /\ RunningIsOwned' /\ SnapshotFaithful' /\ OrphansKnown'
  BY <1>1 DEF IInv, EmptyHanded, RunningIsOwned, SnapshotFaithful, OrphansKnown, Off
<1>5. Calm' => Calm
  BY DEF IInv, Typed, Calm
<1>6. AttemptsCounted'
  BY <1>1, <1>5 DEF IInv, AttemptsCounted, Off, Executing
<1>7. NoLostRequest'
  BY <1>1 DEF IInv, NoLostRequest, Answers
<1> QED
  BY <1>2, <1>3, <1>4, <1>6, <1>7 DEF IInv

\* A request is folded into a pending row or gets a row of its own; the workers
\* forget that they have seen an equal one.
LEMMA EnqueueKeeps ==
  ASSUME IInv, NEW r \in Asked, CanAdd(r.kind),
         tasks' = Enqueue(tasks, r.kind, r.payload), Ask(r),
         worker' \in [Worker -> WorkerState],
         \A u \in Worker :
           /\ worker'[u].seen = worker[u].seen \ {r}
           /\ worker'[u].task = worker[u].task /\ worker'[u].orphans = worker[u].orphans
           /\ worker'[u].firing = worker[u].firing /\ worker'[u].dying = worker[u].dying
           /\ \/ worker'[u].pc = worker[u].pc
              \/ worker'[u].pc = "done" /\ worker[u].pc = "followup",
         hook' \in [Hook -> {"idle", "probe", "release", "spawn"}],
         \A h \in Hook : hook'[h] = "release" => hook[h] = "release",
         UNCHANGED << lock, faults >>
  PROVE  IInv'
<1>1. PICK id \in DOMAIN tasks' :
        /\ Table(tasks') /\ DOMAIN tasks \subseteq DOMAIN tasks'
        /\ tasks'[id].state = "pending" /\ tasks'[id].kind = r.kind
        /\ Covers(tasks'[id].payload, r.payload)
        /\ \A i \in DOMAIN tasks' \ {id} : i \in DOMAIN tasks /\ tasks'[i] = tasks[i]
        /\ id \in DOMAIN tasks =>
             /\ tasks[id].state = "pending" /\ tasks[id].kind = r.kind
             /\ tasks'[id].attempts = tasks[id].attempts
             /\ \A asked \in Payload :
                  Covers(tasks[id].payload, asked) => Covers(tasks'[id].payload, asked)
        /\ id \notin DOMAIN tasks => tasks'[id].attempts = 0
  BY EnqueueTable DEF IInv, Typed, CanAdd
<1>2. \A u \in Worker : (Running(u)' <=> Running(u)) /\ (Draining(u)' <=> Draining(u))
  BY DEF Running, Draining
<1>3. /\ Ids(tasks, "running")' = Ids(tasks, "running")
      /\ id \notin Ids(tasks, "running")
      /\ \A i \in Ids(tasks, "running") : tasks'[i] = tasks[i]
  BY <1>1 DEF Ids
<1>4. Typed'
  BY <1>1 DEF IInv, Typed, Ask
<1>5. LockHeld' /\ RunningIsOwned'
  BY <1>2, <1>3 DEF IInv, LockHeld, RunningIsOwned
<1>6. EmptyHanded'
  BY DEF IInv, EmptyHanded, Polling
<1>7. SnapshotFaithful' /\ OrphansKnown'
  BY <1>2, <1>3 DEF IInv, SnapshotFaithful, OrphansKnown
<1>8. AttemptsCounted'
  BY <1>1, <1>3, AttemptsAssumption DEF IInv, AttemptsCounted, Calm, Executing
<1>9. NoLostRequest'
  <2> SUFFICES ASSUME NEW q \in open' PROVE \E i \in DOMAIN tasks' : Answers(i, q)'
    BY DEF NoLostRequest
  <2>1. CASE q = r
    BY <1>1, <2>1 DEF Answers
  <2>2. CASE q # r
    <3>1. q \in open /\ q.payload \in Payload
      BY <2>2 DEF Ask, IInv, Typed, Asked
    <3>2. PICK i \in DOMAIN tasks : Answers(i, q)
      BY <3>1 DEF IInv, NoLostRequest
    <3>3. CASE i = id
      BY <1>1, <3>1, <3>2, <3>3 DEF Answers
    <3>4. CASE i # id
      BY <1>1, <1>2, <2>2, <3>2, <3>4 DEF Answers
    <3> QED
      BY <1>1, <3>3, <3>4
  <2> QED
    BY <2>1, <2>2
<1> QED
  BY <1>4, <1>5, <1>6, <1>7, <1>8, <1>9 DEF IInv

\* Only one worker runs: whoever runs beside w is w.
LEMMA OneRuns ==
  ASSUME IInv, NEW w \in Worker, Running(w)
  PROVE  \A u \in Worker : Running(u) => u = w
BY DEF IInv, LockHeld

\* claim.
LEMMA ClaimKeeps ==
  ASSUME IInv, NEW w \in Worker, ClaimTask(w)
  PROVE  IInv'
<1> DEFINE id == NextTask(tasks)
           us == Claim(tasks, id)
           t == SnapshotOf(us, id)
<1>1. /\ worker[w].pc = "poll" /\ Claimable(tasks) # {} /\ tasks' = us
      /\ worker' = [worker EXCEPT ![w].pc = "begin", ![w].idle = FALSE,
                                  ![w].task = t, ![w].seen = open]
      /\ UNCHANGED << lock, hook, faults, open >>
  BY DEF ClaimTask
<1>2. /\ id \in Ids(tasks, "pending")
      /\ Table(us) /\ DOMAIN us = DOMAIN tasks
      /\ \A i \in DOMAIN tasks \ {id} : us[i] = tasks[i]
      /\ us[id].state = "running" /\ us[id].kind = tasks[id].kind
      /\ us[id].payload = tasks[id].payload /\ us[id].attempts = tasks[id].attempts + 1
  BY <1>1, ClaimTable DEF IInv, Typed
<1> HIDE DEF id, us
<1>3. /\ id \in DOMAIN tasks /\ id \in Nat /\ id # 0 /\ us[id] \in Row
  BY <1>2, BoundsAssumption DEF Ids, Table
<1>4. /\ t \in Snapshot /\ t.id = id /\ t.kind = us[id].kind
      /\ t.payload = us[id].payload /\ t.attempts = us[id].attempts
  BY <1>3 DEF SnapshotOf, Snapshot, Row
<1> HIDE DEF t
<1> DEFINE v == [worker[w] EXCEPT !.pc = "begin", !.idle = FALSE, !.task = t, !.seen = open]
<1>16. worker[w] \in WorkerState /\ open \subseteq Asked
  BY DEF IInv, Typed
<1>17. /\ v \in WorkerState /\ v.pc = "begin" /\ v.task = t /\ v.seen = open
       /\ v.firing = worker[w].firing /\ v.dying = worker[w].dying
  BY <1>4, <1>16 DEF WorkerState, PC
<1>18. worker' = [worker EXCEPT ![w] = v]
  BY <1>1, <1>16 DEF IInv, Typed, WorkerState
<1> HIDE DEF v
<1>5. /\ worker'[w] = v
      /\ worker' \in [Worker -> WorkerState]
      /\ \A u \in Worker \ {w} : worker'[u] = worker[u]
  BY <1>17, <1>18 DEF IInv, Typed
<1>6. /\ worker'[w].pc = "begin" /\ worker'[w].task = t /\ worker'[w].seen = open
      /\ worker'[w].firing = worker[w].firing /\ worker'[w].dying = worker[w].dying
  BY <1>5, <1>17
<1>7. /\ Running(w) /\ Running(w)' /\ Draining(w) /\ Draining(w)'
      /\ \A u \in Worker \ {w} : (Running(u)' <=> Running(u)) /\ (Draining(u)' <=> Draining(u))
  BY <1>1, <1>5, <1>6 DEF Running, Draining
<1>8. /\ worker[w].task.id = 0
      /\ Ids(tasks, "running") = {} /\ Ids(tasks, "running")' = {id}
  <2>1. worker[w].task.id = 0
    BY <1>1 DEF IInv, EmptyHanded, Polling, NoTask
  <2>2. Ids(tasks, "running") = {}
    BY <1>7, <2>1, BoundsAssumption DEF IInv, RunningIsOwned, Ids, Typed, Table
  <2> QED
    BY <1>1, <1>2, <1>3, <2>1, <2>2 DEF Ids
<1>9. Typed'
  BY <1>1, <1>2, <1>5 DEF IInv, Typed
<1>10. LockHeld'
  BY <1>1, <1>7 DEF IInv, LockHeld
<1>11. EmptyHanded'
  BY <1>5, <1>6 DEF IInv, EmptyHanded, Polling
<1>12. \A u \in Worker : Running(u)' => u = w
  BY <1>7, OneRuns
<1>13. RunningIsOwned' /\ SnapshotFaithful' /\ OrphansKnown'
  <2>1. \A u \in Worker : worker'[u].pc = "requeueing" => Running(u)'
    BY DEF Running
  <2>2. \A u \in Worker : Draining(u)' => Running(u)'
    BY DEF Draining
  <2> QED
    BY <1>1, <1>2, <1>4, <1>6, <1>8, <1>12, <2>1, <2>2
       DEF RunningIsOwned, SnapshotFaithful, OrphansKnown
<1>14. AttemptsCounted'
  <2> SUFFICES ASSUME Calm' PROVE AttemptsCounted'
    BY DEF AttemptsCounted
  <2>1. Calm
    BY <1>1 DEF Calm
  <2>2. \A u \in Worker \ {w} : worker'[u].pc \notin Executing \cup {"requeueing"}
    BY <1>12 DEF Running, Executing
  <2>3. us[id].attempts <= MAX_ATTEMPTS
    <3>1. tasks[id].attempts < MAX_ATTEMPTS
      BY <1>2, <1>3, <2>1 DEF IInv, AttemptsCounted, Ids
    <3>2. tasks[id].attempts \in Nat
      BY <1>3 DEF IInv, Typed, Table, Row
    <3> QED
      BY <1>2, <3>1, <3>2, AttemptsAssumption
  <2> QED
    BY <1>1, <1>2, <1>4, <1>5, <1>6, <1>8, <2>1, <2>2, <2>3
       DEF IInv, AttemptsCounted
<1>15. NoLostRequest'
  <2> SUFFICES ASSUME NEW q \in open' PROVE \E i \in DOMAIN tasks' : Answers(i, q)'
    BY DEF NoLostRequest
  <2>1. q \in open
    BY <1>1
  <2>2. PICK i \in DOMAIN tasks : Answers(i, q)
    BY <2>1 DEF IInv, NoLostRequest
  <2>3. tasks'[i].kind = tasks[i].kind /\ tasks'[i].payload = tasks[i].payload
    BY <1>1, <1>2
  <2>4. \A u \in Worker : tasks'[i].state = "running" /\ Running(u)' /\ worker'[u].task.id = i
           => q \in worker'[u].seen
    BY <1>6, <1>12, <2>1
  <2>5. Answers(i, q)'
    BY <2>2, <2>3, <2>4 DEF Answers
  <2> QED
    BY <1>1, <1>2, <2>5
<1> QED
  BY <1>9, <1>10, <1>11, <1>13, <1>14, <1>15 DEF IInv

\* The worker polls again, with nothing in hand and nothing running.
LEMMA PollKeeps ==
  ASSUME IInv, NEW w \in Worker, Running(w), NEW v \in WorkerState,
         worker' = [worker EXCEPT ![w] = v], v.pc = "poll", v.task = NoTask,
         v.firing = worker[w].firing, v.dying = worker[w].dying,
         Table(tasks'), DOMAIN tasks' \subseteq DOMAIN tasks,
         \A i \in DOMAIN tasks' : SameWork(tasks'[i], tasks[i]),
         Ids(tasks, "running")' = {},
         \A i \in DOMAIN tasks' : Calm =>
           /\ tasks'[i].state = "pending" => tasks'[i].attempts < MAX_ATTEMPTS
           /\ tasks'[i].state = "dead" => tasks'[i].attempts = MAX_ATTEMPTS,
         \A q \in open' : q \in open /\ \E i \in DOMAIN tasks' : Answers(i, q),
         UNCHANGED << lock, hook, faults >>
  PROVE  IInv'
<1>5. /\ worker'[w] = v /\ worker' \in [Worker -> WorkerState]
      /\ \A u \in Worker \ {w} : worker'[u] = worker[u]
  BY DEF IInv, Typed
<1>6. Running(w)' /\ \A u \in Worker \ {w} : Running(u)' <=> Running(u)
  BY <1>5 DEF Running
<1>7. \A u \in Worker : Running(u)' => u = w
  BY <1>6, OneRuns
<1>9. Typed'
  BY <1>5 DEF IInv, Typed
<1>10. LockHeld' /\ EmptyHanded'
  BY <1>5, <1>6 DEF IInv, LockHeld, EmptyHanded
<1>11. RunningIsOwned' /\ SnapshotFaithful' /\ OrphansKnown'
  BY DEF RunningIsOwned, SnapshotFaithful, OrphansKnown
<1>12. AttemptsCounted'
  <2> SUFFICES ASSUME Calm' PROVE AttemptsCounted'
    BY DEF AttemptsCounted
  <2>1. Calm
    BY DEF Calm
  <2>2. \A u \in Worker : worker'[u].pc \notin Executing \cup {"requeueing"}
    BY <1>5, <1>7 DEF Running, Executing
  <2>3. \A u \in Worker : worker'[u].firing = {} /\ ~worker'[u].dying
    BY <1>5, <2>1 DEF IInv, AttemptsCounted
  <2>4. \A i \in DOMAIN tasks' : tasks'[i].state # "running"
    BY DEF Ids
  <2> QED
    BY <2>1, <2>2, <2>3, <2>4 DEF IInv, AttemptsCounted
<1>13. NoLostRequest'
  <2> SUFFICES ASSUME NEW q \in open' PROVE \E i \in DOMAIN tasks' : Answers(i, q)'
    BY DEF NoLostRequest
  <2>1. PICK i \in DOMAIN tasks' : Answers(i, q)
    OBVIOUS
  <2>2. tasks'[i].state # "running"
    BY DEF Ids
  <2>3. Answers(i, q)'
    BY <2>1, <2>2 DEF Answers, SameWork
  <2> QED
    BY <2>3
<1> QED
  BY <1>9, <1>10, <1>11, <1>12, <1>13 DEF IInv

\* The end of a task.  What its row became is given: it does not run any more,
\* and every open request is still answered.
LEMMA RoundKeeps ==
  ASSUME IInv, NEW w \in Worker, Running(w), worker[w].pc \in {"done", "raised"},
         worker' = NextRound(w), Table(tasks'), DOMAIN tasks' \subseteq DOMAIN tasks,
         \A i \in DOMAIN tasks' : SameWork(tasks'[i], tasks[i]),
         \A i \in DOMAIN tasks' : i # worker[w].task.id => tasks'[i] = tasks[i],
         \A i \in DOMAIN tasks' : i = worker[w].task.id => tasks'[i].state # "running",
         \A i \in DOMAIN tasks' : Calm /\ i = worker[w].task.id =>
           /\ tasks'[i].state = "pending" => tasks'[i].attempts < MAX_ATTEMPTS
           /\ tasks'[i].state = "dead" => tasks'[i].attempts = MAX_ATTEMPTS,
         \A q \in open' : q \in open /\ \E i \in DOMAIN tasks' : Answers(i, q),
         UNCHANGED << lock, hook, faults >>
  PROVE  IInv'
<1> DEFINE v == [worker[w] EXCEPT !.pc = "poll", !.task = NoTask, !.seen = {}]
<1>1. worker[w] \in WorkerState
  BY DEF IInv, Typed
<1>2. NoTask \in Snapshot
  BY DEF NoTask, Snapshot, Payload, Everything
<1>3. /\ v \in WorkerState /\ v.pc = "poll" /\ v.task = NoTask
      /\ v.firing = worker[w].firing /\ v.dying = worker[w].dying
  BY <1>1, <1>2 DEF WorkerState, PC
<1>4. worker' = [worker EXCEPT ![w] = v]
  BY <1>1 DEF IInv, Typed, NextRound, WorkerState
<1> HIDE DEF v
<1>5. Ids(tasks, "running")' = {}
  <2>1. \A i \in Ids(tasks, "running") : i = worker[w].task.id
    BY DEF IInv, RunningIsOwned, Draining
  <2> QED
    BY <2>1 DEF Ids
<1>6. \A i \in DOMAIN tasks' : Calm =>
        /\ tasks'[i].state = "pending" => tasks'[i].attempts < MAX_ATTEMPTS
        /\ tasks'[i].state = "dead" => tasks'[i].attempts = MAX_ATTEMPTS
  BY DEF IInv, AttemptsCounted
<1> QED
  BY <1>3, <1>4, <1>5, <1>6, PollKeeps

\* complete: the requests that were open when the task was claimed are served by
\* it, so the row it deletes answers no other.
LEMMA CompleteKeeps ==
  ASSUME IInv, NEW w \in Worker, CompleteTask(w)
  PROVE  IInv'
<1> DEFINE t == worker[w].task
<1>1. /\ worker[w].pc = "done" /\ Running(w) /\ worker' = NextRound(w)
      /\ tasks' = Complete(tasks, t.id)
      /\ open' = open \ Served(t, worker[w].seen)
      /\ UNCHANGED << lock, hook, faults >>
  BY DEF CompleteTask, Running
<1>2. /\ Table(tasks')
      /\ DOMAIN tasks' = DOMAIN tasks \ ({t.id} \cap Ids(tasks, "running"))
      /\ \A i \in DOMAIN tasks' : tasks'[i] = tasks[i]
  BY <1>1, CompleteTable DEF IInv, Typed
<1>3. \A i \in DOMAIN tasks' : i = t.id => tasks'[i].state # "running"
  BY <1>2 DEF Ids
<1>4. \A i \in DOMAIN tasks' : SameWork(tasks'[i], tasks[i])
  BY <1>2 DEF SameWork
<1>5. \A i \in DOMAIN tasks' : Calm =>
        /\ tasks'[i].state = "pending" => tasks'[i].attempts < MAX_ATTEMPTS
        /\ tasks'[i].state = "dead" => tasks'[i].attempts = MAX_ATTEMPTS
  BY <1>2 DEF IInv, AttemptsCounted
<1>6. ASSUME NEW q \in open'
      PROVE  q \in open /\ \E i \in DOMAIN tasks' : Answers(i, q)
  <2>1. q \in open /\ q \notin Served(t, worker[w].seen)
    BY <1>1
  <2>2. PICK i \in DOMAIN tasks : Answers(i, q)
    BY <2>1 DEF IInv, NoLostRequest
  <2>3. ASSUME i = t.id, i \in Ids(tasks, "running")
        PROVE  FALSE
    <3>1. tasks[i].kind = t.kind /\ tasks[i].payload = t.payload
      BY <1>1, <2>3 DEF IInv, SnapshotFaithful
    <3>2. q \in worker[w].seen /\ q.kind = t.kind /\ Covers(t.payload, q.payload)
      BY <1>1, <2>2, <2>3, <3>1 DEF Answers, Ids
    <3> QED
      BY <2>1, <3>2 DEF Served
  <2> QED
    BY <1>2, <2>1, <2>2, <2>3
<1> HIDE DEF t
<1> QED
  BY <1>1, <1>2, <1>3, <1>4, <1>5, <1>6, RoundKeeps DEF t

\* fail, by the worker itself.
LEMMA FailKeeps ==
  ASSUME IInv, NEW w \in Worker, FailTask(w)
  PROVE  IInv'
<1> DEFINE t == worker[w].task
<1>1. /\ worker[w].pc = "raised" /\ Running(w) /\ worker' = NextRound(w)
      /\ tasks' = Fail(tasks, t.id, t.attempts, FALSE)
      /\ UNCHANGED << lock, hook, faults, open >>
  BY DEF FailTask, Running
<1>2. t.attempts \in Nat
  BY DEF IInv, Typed, WorkerState, Snapshot
<1>3. /\ Table(tasks') /\ DOMAIN tasks' = DOMAIN tasks
      /\ \A i \in DOMAIN tasks \ {t.id} : tasks'[i] = tasks[i]
      /\ t.id \in DOMAIN tasks =>
           /\ SameWork(tasks'[t.id], tasks[t.id])
           /\ tasks'[t.id].state = IF t.attempts >= MAX_ATTEMPTS THEN "dead" ELSE "pending"
  <2>1. Table(tasks) /\ FALSE \in BOOLEAN
    BY DEF IInv, Typed
  <2>2. Failed(tasks, Fail(tasks, t.id, t.attempts, FALSE), t.id, t.attempts)
    BY <1>2, <2>1, FailTable, Zenon
  <2> QED
    BY <1>1, <2>2 DEF Failed
<1>4. \A i \in DOMAIN tasks' : SameWork(tasks'[i], tasks[i])
  BY <1>3 DEF SameWork
<1>5. ASSUME NEW i \in DOMAIN tasks', Calm, i = t.id
      PROVE  /\ tasks'[i].state = "pending" => tasks'[i].attempts < MAX_ATTEMPTS
             /\ tasks'[i].state = "dead" => tasks'[i].attempts = MAX_ATTEMPTS
  <2>1. t.id \in Ids(tasks, "running")
    BY <1>1, <1>5 DEF IInv, AttemptsCounted, Executing
  <2>2. tasks[i].attempts = t.attempts
    BY <1>1, <1>5, <2>1 DEF IInv, SnapshotFaithful
  <2>3. tasks[i].attempts <= MAX_ATTEMPTS
    BY <1>5, <2>1 DEF IInv, AttemptsCounted, Ids
  <2> QED
    BY <1>2, <1>3, <1>5, <2>2, <2>3, AttemptsAssumption DEF SameWork
<1>6. \A q \in open' : q \in open /\ \E i \in DOMAIN tasks' : Answers(i, q)
  BY <1>1, <1>3 DEF IInv, NoLostRequest
<1>7. \A i \in DOMAIN tasks' : i = t.id => tasks'[i].state # "running"
  BY <1>3
<1> HIDE DEF t
<1> QED
  BY <1>1, <1>3, <1>4, <1>5, <1>6, <1>7, RoundKeeps DEF t

\* A step of the watchdog: rows may be failed behind the worker's back, but the
\* workers are where they were, and the run is no longer calm.
LEMMA OverrunKeeps ==
  ASSUME IInv, Table(tasks'), DOMAIN tasks' = DOMAIN tasks,
         \A i \in DOMAIN tasks : SameWork(tasks'[i], tasks[i]),
         \A i \in DOMAIN tasks : tasks'[i].state = "running" => tasks[i].state = "running",
         worker' \in [Worker -> WorkerState],
         \A u \in Worker : /\ worker'[u].pc = worker[u].pc /\ worker'[u].task = worker[u].task
                            /\ worker'[u].seen = worker[u].seen
                            /\ worker'[u].orphans = worker[u].orphans,
         faults' \in Seq(Fault), Len(faults') <= MaxFaults, ~Calm',
         UNCHANGED << lock, hook, open >>
  PROVE  IInv'
<1>1. \A u \in Worker : (Running(u)' <=> Running(u)) /\ (Draining(u)' <=> Draining(u))
  BY DEF Running, Draining
<1>2. Ids(tasks, "running")' \subseteq Ids(tasks, "running")
  BY DEF Ids
<1>3. Typed'
  BY DEF IInv, Typed
<1>4. LockHeld' /\ EmptyHanded' /\ RunningIsOwned'
  BY <1>1, <1>2 DEF IInv, LockHeld, EmptyHanded, RunningIsOwned
<1>5. SnapshotFaithful' /\ OrphansKnown'
  BY <1>1, <1>2 DEF IInv, SnapshotFaithful, OrphansKnown, SameWork, Ids
<1>6. AttemptsCounted'
  BY DEF AttemptsCounted
<1>7. NoLostRequest'
  BY <1>1 DEF IInv, NoLostRequest, Answers, SameWork
<1> QED
  BY <1>3, <1>4, <1>5, <1>6, <1>7 DEF IInv

\* The timer goes off.
LEMMA ExpireKeeps ==
  ASSUME IInv, NEW w \in Worker, Expire(w)
  PROVE  IInv'
<1> DEFINE v == [worker[w] EXCEPT !.armed = FALSE, !.firing = @ \cup {worker[w].task}]
<1>1. worker[w] \in WorkerState /\ worker \in [Worker -> WorkerState]
  BY DEF IInv, Typed
<1>2. /\ v \in WorkerState /\ v.pc = worker[w].pc /\ v.task = worker[w].task
      /\ v.seen = worker[w].seen /\ v.orphans = worker[w].orphans
  BY <1>1 DEF WorkerState
<1>3. worker' = [worker EXCEPT ![w] = v]
  BY <1>1 DEF Expire, WorkerState
<1> HIDE DEF v
<1>4. /\ worker' \in [Worker -> WorkerState] /\ worker'[w] = v
      /\ \A u \in Worker \ {w} : worker'[u] = worker[u]
  BY <1>1, <1>2, <1>3
<1>5. faults' \in Seq(Fault) /\ Len(faults') <= MaxFaults /\ ~Calm'
  <2>1. /\ "overrun" \in Fault /\ faults \in Seq(Fault) /\ Len(faults) < MaxFaults
        /\ faults' = Append(faults, "overrun") /\ MaxFaults \in Nat
    BY BoundsAssumption DEF Expire, Faulty, IInv, Typed
  <2>2. /\ faults' \in Seq(Fault) /\ Len(faults') = Len(faults) + 1
        /\ faults'[Len(faults) + 1] = "overrun" /\ Len(faults) \in Nat
    BY <2>1
  <2> QED
    BY <2>1, <2>2 DEF Calm
<1>6. tasks' = tasks /\ UNCHANGED << lock, hook, open >>
  BY DEF Expire
<1> QED
  BY <1>2, <1>4, <1>5, <1>6, OverrunKeeps DEF IInv, Typed, SameWork

\* on_expire fails whatever row has the id by now, or fails to.
LEMMA RecordKeeps ==
  ASSUME IInv, NEW w \in Worker, NEW t \in worker[w].firing, RecordOverrun(w, t)
  PROVE  IInv'
<1> DEFINE v == [worker[w] EXCEPT !.firing = @ \ {t}, !.dying = TRUE]
<1>1. worker[w] \in WorkerState /\ worker \in [Worker -> WorkerState]
  BY DEF IInv, Typed
<1>2. /\ v \in WorkerState /\ v.pc = worker[w].pc /\ v.task = worker[w].task
      /\ v.seen = worker[w].seen /\ v.orphans = worker[w].orphans
  BY <1>1 DEF WorkerState
<1>3. worker' = [worker EXCEPT ![w] = v]
  BY <1>1 DEF RecordOverrun, WorkerState
<1> HIDE DEF v
<1>4. /\ worker' \in [Worker -> WorkerState] /\ worker'[w] = v
      /\ \A u \in Worker \ {w} : worker'[u] = worker[u]
  BY <1>1, <1>2, <1>3
<1>5. ~Calm' /\ faults' \in Seq(Fault) /\ Len(faults') <= MaxFaults
  <2>1. ~Calm
    BY DEF IInv, AttemptsCounted
  <2> QED
    BY <2>1 DEF RecordOverrun, Calm, IInv, Typed
<1>6. UNCHANGED << lock, hook, open >>
  BY DEF RecordOverrun
<1>7. /\ Table(tasks') /\ DOMAIN tasks' = DOMAIN tasks
      /\ \A i \in DOMAIN tasks : SameWork(tasks'[i], tasks[i])
      /\ \A i \in DOMAIN tasks : tasks'[i].state = "running" => tasks[i].state = "running"
  <2>1. CASE tasks' = tasks
    BY <2>1 DEF IInv, Typed, SameWork
  <2>2. CASE tasks' = Fail(tasks, t.id, t.attempts, TRUE)
    <3>1. Table(tasks) /\ t.attempts \in Nat /\ TRUE \in BOOLEAN
      BY <1>1 DEF IInv, Typed, WorkerState, Snapshot
    <3>2. Failed(tasks, Fail(tasks, t.id, t.attempts, TRUE), t.id, t.attempts)
      BY <3>1, FailTable, Zenon
    <3> QED
      BY <2>2, <3>2 DEF Failed, SameWork
  <2> QED
    BY <2>1, <2>2 DEF RecordOverrun
<1> QED
  BY <1>2, <1>4, <1>5, <1>6, <1>7, OverrunKeeps

\* `queue clear`.
LEMMA ClearKeeps ==
  ASSUME IInv, Clear
  PROVE  IInv'
<1>1. /\ tasks' = << >> /\ DOMAIN tasks' = {} /\ open' = {}
      /\ UNCHANGED << lock, hook, worker >>
  BY DEF Clear
<1>2. faults' \in Seq(Fault) /\ Len(faults') <= MaxFaults /\ ~Calm'
  <2>1. /\ "clear" \in Fault /\ faults \in Seq(Fault) /\ Len(faults) < MaxFaults
        /\ faults' = Append(faults, "clear") /\ MaxFaults \in Nat
    BY BoundsAssumption DEF Clear, Faulty, IInv, Typed
  <2>2. /\ faults' \in Seq(Fault) /\ Len(faults') = Len(faults) + 1
        /\ faults'[Len(faults) + 1] = "clear" /\ Len(faults) \in Nat
    BY <2>1
  <2> QED
    BY <2>1, <2>2 DEF Calm
<1>3. Table(tasks)'
  BY <1>1 DEF Table
<1>4. Typed'
  BY <1>1, <1>2, <1>3 DEF IInv, Typed
<1>5. Ids(tasks, "running")' = {}
  BY <1>1 DEF Ids
<1>6. LockHeld' /\ EmptyHanded'
  BY <1>1 DEF IInv, LockHeld, EmptyHanded, Running
<1> QED
  BY <1>1, <1>2, <1>4, <1>5, <1>6
     DEF IInv, RunningIsOwned, SnapshotFaithful, OrphansKnown, AttemptsCounted, NoLostRequest

\* A hook moves on; what it may still hold is the lock.
LEMMA HookKeeps ==
  ASSUME IInv, NEW h \in Hook, hook' \in [Hook -> {"idle", "probe", "release", "spawn"}],
         \A g \in Hook \ {h} : hook'[g] = hook[g],
         \/ hook'[h] # "release" /\ lock' = lock
         \/ hook'[h] = "release" /\ lock = Nobody /\ lock' = h
         \/ hook'[h] # "release" /\ hook[h] = "release" /\ lock' = Nobody,
         UNCHANGED << tasks, worker, faults, open >>
  PROVE  IInv'
<1>1. lock' \in Hook \cup Worker \cup {Nobody}
  BY DEF IInv, Typed
<1>2. \A u \in Worker : (Running(u)' <=> Running(u)) /\ (Draining(u)' <=> Draining(u))
  BY DEF Running, Draining
<1>3. LockHeld'
  BY <1>2, ProcessAssumption DEF IInv, LockHeld
<1>4. Typed'
  BY <1>1 DEF IInv, Typed
<1> QED
  BY <1>2, <1>3, <1>4 DEF IInv, EmptyHanded, RunningIsOwned, SnapshotFaithful, OrphansKnown,
       AttemptsCounted, Calm, NoLostRequest, Answers

\* A worker without the lock, or one that is about to recover, has no task and
\* has read nothing.
LEMMA IdleKeeps ==
  ASSUME IInv, NEW w \in Worker, NEW v \in WorkerState,
         worker' = [worker EXCEPT ![w] = v],
         worker[w].pc \in {"off", "starting", "recovering"}, v.task = worker[w].task,
         v.pc \in {"starting", "recovering", "requeueing"},
         v.firing = worker[w].firing, v.dying = worker[w].dying,
         v.pc # "starting" => lock' = w,
         lock' \in {lock, w}, lock' # lock => lock = Nobody,
         v.pc = "requeueing" =>
           v.orphans = {SnapshotOf(tasks, id) : id \in Ids(tasks, "running")},
         hook' \in [Hook -> {"idle", "probe", "release", "spawn"}],
         \A h \in Hook : hook'[h] = "release" => hook[h] = "release",
         UNCHANGED << tasks, faults, open >>
  PROVE  IInv'
<1>1. /\ worker'[w] = v /\ worker' \in [Worker -> WorkerState]
      /\ \A u \in Worker \ {w} : worker'[u] = worker[u]
  BY DEF IInv, Typed
<1>2. /\ ~Draining(w)'
      /\ \A u \in Worker \ {w} : (Running(u)' <=> Running(u)) /\ (Draining(u)' <=> Draining(u))
  BY <1>1 DEF Running, Draining
<1>3. v.task = NoTask /\ v.task.id = 0 /\ 0 \notin DOMAIN tasks
  BY BoundsAssumption DEF IInv, EmptyHanded, Polling, NoTask, Typed, Table
<1>4. Typed'
  BY <1>1 DEF IInv, Typed
<1>5. LockHeld'
  BY <1>1, <1>2, ProcessAssumption DEF IInv, LockHeld, Running
<1>6. EmptyHanded' /\ RunningIsOwned'
  BY <1>1, <1>2, <1>3 DEF IInv, EmptyHanded, RunningIsOwned
<1>7. SnapshotFaithful'
  BY <1>1, <1>2, <1>3 DEF IInv, SnapshotFaithful, Ids
<1>8. \A id \in DOMAIN tasks : SnapshotOf(tasks, id).id = id
                               /\ SnapshotOf(tasks, id).attempts = tasks[id].attempts
  BY DEF SnapshotOf
<1>9. OrphansKnown'
  BY <1>1, <1>8 DEF IInv, OrphansKnown, Ids
<1>10. AttemptsCounted'
  BY <1>1, <1>8 DEF IInv, AttemptsCounted, Calm, Executing, Ids
<1>11. NoLostRequest'
  BY <1>1, <1>2, <1>3 DEF IInv, NoLostRequest, Answers
<1> QED
  BY <1>4, <1>5, <1>6, <1>7, <1>9, <1>10, <1>11 DEF IInv

\* The steps of a hook after its enqueue.
LEMMA HookStepKeeps ==
  ASSUME IInv, NEW h \in Hook, HookStep(h)
  PROVE  IInv'
<1>1. CASE HookProbe(h)
  BY <1>1, HookKeeps DEF HookProbe, IInv, Typed
<1>2. CASE HookRelease(h)
  BY <1>2, HookKeeps DEF HookRelease, IInv, Typed
<1>3. ASSUME NEW w \in Worker, HookSpawn(h, w)
      PROVE  IInv'
  <2> DEFINE v == [worker[w] EXCEPT !.pc = "starting"]
  <2>1. worker[w] \in WorkerState /\ worker \in [Worker -> WorkerState]
    BY DEF IInv, Typed
  <2>2. /\ v \in WorkerState /\ v.pc = "starting" /\ v.task = worker[w].task
        /\ v.firing = worker[w].firing /\ v.dying = worker[w].dying
    BY <2>1 DEF WorkerState, PC
  <2>3. worker' = [worker EXCEPT ![w] = v] /\ worker[w].pc = "off"
    BY <1>3, <2>1 DEF HookSpawn, WorkerState
  <2> HIDE DEF v
  <2>4. /\ hook' \in [Hook -> {"idle", "probe", "release", "spawn"}]
        /\ \A g \in Hook : hook'[g] = "release" => hook[g] = "release"
        /\ UNCHANGED << tasks, lock, faults, open >>
    BY <1>3 DEF HookSpawn, IInv, Typed
  <2> QED
    BY <2>2, <2>3, <2>4, IdleKeeps
<1> QED
  BY <1>1, <1>2, <1>3 DEF HookStep

\* A hook's request.
LEMMA HookEnqueueKeeps ==
  ASSUME IInv, NEW h \in Hook, NEW r \in Request, HookEnqueue(h, r)
  PROVE  IInv'
<1>1. r \in Asked
  BY RequestAssumption DEF Asked, Plain
<1>2. worker \in [Worker -> WorkerState]
  BY DEF IInv, Typed
<1>3. ASSUME NEW u \in Worker
      PROVE  /\ worker'[u] \in WorkerState
             /\ worker'[u].seen = worker[u].seen \ {r}
             /\ worker'[u].task = worker[u].task /\ worker'[u].orphans = worker[u].orphans
             /\ worker'[u].firing = worker[u].firing /\ worker'[u].dying = worker[u].dying
             /\ worker'[u].pc = worker[u].pc
  <2>1. worker'[u] = [worker[u] EXCEPT !.seen = @ \ {r}] /\ worker[u] \in WorkerState
    BY <1>2 DEF HookEnqueue, Forgotten
  <2> QED
    BY <2>1 DEF WorkerState
<1>4. worker' \in [Worker -> WorkerState]
  BY <1>3 DEF HookEnqueue, Forgotten
<1>5. /\ hook' \in [Hook -> {"idle", "probe", "release", "spawn"}]
      /\ \A g \in Hook : hook'[g] = "release" => hook[g] = "release"
  BY DEF HookEnqueue, IInv, Typed
<1>6. /\ CanAdd(r.kind) /\ tasks' = Enqueue(tasks, r.kind, r.payload) /\ Ask(r)
      /\ UNCHANGED << lock, faults >>
  BY DEF HookEnqueue
<1> QED
  BY <1>1, <1>3, <1>4, <1>5, <1>6, EnqueueKeeps

\* A follow-up embed.
LEMMA FollowUpKeeps ==
  ASSUME IInv, NEW w \in Worker, FollowUp(w)
  PROVE  IInv'
<1>1. PICK r \in worker[w].extra :
        /\ CanAdd(r.kind)
        /\ tasks' = Enqueue(tasks, r.kind, r.payload)
        /\ worker' = Cancelled(Forgotten(worker, r), w, "done")
        /\ Ask(r)
  BY DEF FollowUp
<1>2. worker \in [Worker -> WorkerState] /\ worker[w].pc = "followup"
  BY DEF IInv, Typed, FollowUp
<1>3. r \in Asked
  BY <1>2 DEF WorkerState
<1> DEFINE f == Forgotten(worker, r)
<1>4. ASSUME NEW u \in Worker
      PROVE  /\ f[u] \in WorkerState
             /\ f[u].seen = worker[u].seen \ {r}
             /\ f[u].task = worker[u].task /\ f[u].orphans = worker[u].orphans
             /\ f[u].firing = worker[u].firing /\ f[u].dying = worker[u].dying
             /\ f[u].pc = worker[u].pc
  <2>1. f[u] = [worker[u] EXCEPT !.seen = @ \ {r}] /\ worker[u] \in WorkerState
    BY <1>2 DEF Forgotten
  <2> QED
    BY <2>1 DEF WorkerState
<1>5. f \in [Worker -> WorkerState]
  BY <1>4 DEF Forgotten
<1> HIDE DEF f
<1> DEFINE v == [f[w] EXCEPT !.pc = "done", !.armed = FALSE, !.extra = {}]
<1>6. worker' = [f EXCEPT ![w] = v]
  BY <1>1, <1>5 DEF f, Cancelled, WorkerState
<1>7. /\ v \in WorkerState /\ v.pc = "done" /\ v.seen = f[w].seen /\ v.task = f[w].task
      /\ v.orphans = f[w].orphans /\ v.firing = f[w].firing /\ v.dying = f[w].dying
  BY <1>5 DEF WorkerState, PC
<1> HIDE DEF v
<1>8. worker' \in [Worker -> WorkerState] /\ worker'[w] = v
      /\ \A u \in Worker \ {w} : worker'[u] = f[u]
  BY <1>5, <1>6, <1>7
<1>9. UNCHANGED << lock, hook, faults >> /\ hook \in [Hook -> {"idle", "probe", "release", "spawn"}]
  BY DEF FollowUp, IInv, Typed
<1> QED
  BY <1>1, <1>2, <1>3, <1>4, <1>7, <1>8, <1>9, EnqueueKeeps

\* The lock decides who starts.
LEMMA StartKeeps ==
  ASSUME IInv, NEW w \in Worker, Start(w)
  PROVE  IInv'
<1>1. CASE lock = Nobody
  <2> DEFINE v == [worker[w] EXCEPT !.pc = "recovering"]
  <2>1. worker[w] \in WorkerState /\ worker \in [Worker -> WorkerState]
    BY DEF IInv, Typed
  <2>2. /\ v \in WorkerState /\ v.pc = "recovering" /\ v.task = worker[w].task
        /\ v.firing = worker[w].firing /\ v.dying = worker[w].dying
    BY <2>1 DEF WorkerState, PC
  <2>3. worker' = [worker EXCEPT ![w] = v] /\ worker[w].pc = "starting" /\ lock' = w
    BY <1>1, <2>1 DEF Start, WorkerState
  <2> HIDE DEF v
  <2>4. /\ UNCHANGED << tasks, hook, faults, open >>
        /\ hook \in [Hook -> {"idle", "probe", "release", "spawn"}]
    BY DEF Start, IInv, Typed
  <2> QED
    BY <1>1, <2>2, <2>3, <2>4, IdleKeeps
<1>2. CASE lock # Nobody
  <2>1. /\ worker' = [worker EXCEPT ![w] = Off]
        /\ UNCHANGED << tasks, lock, hook, faults, open >> /\ Len(faults') <= MaxFaults
    BY <1>2 DEF Start, IInv, Typed
  <2> QED
    BY <2>1, OffKeeps
<1> QED
  BY <1>1, <1>2

\* requeue_stale reads.
LEMMA ReadOrphansKeeps ==
  ASSUME IInv, NEW w \in Worker, ReadOrphans(w)
  PROVE  IInv'
<1> DEFINE found == {SnapshotOf(tasks, id) : id \in Ids(tasks, "running")}
           v == [worker[w] EXCEPT !.pc = "requeueing", !.orphans = found]
<1>1. worker[w] \in WorkerState /\ worker \in [Worker -> WorkerState]
  BY DEF IInv, Typed
<1>2. found \subseteq Snapshot
  <2> SUFFICES ASSUME NEW id \in Ids(tasks, "running") PROVE SnapshotOf(tasks, id) \in Snapshot
    OBVIOUS
  <2>1. tasks[id] \in Row /\ id \in Nat
    BY BoundsAssumption DEF IInv, Typed, Table, Ids
  <2> QED
    BY <2>1 DEF SnapshotOf, Snapshot, Row
<1> HIDE DEF found
<1>3. /\ v \in WorkerState /\ v.pc = "requeueing" /\ v.orphans = found /\ v.task = worker[w].task
      /\ v.firing = worker[w].firing /\ v.dying = worker[w].dying
  BY <1>1, <1>2 DEF WorkerState, PC
<1>4. worker' = [worker EXCEPT ![w] = v] /\ worker[w].pc = "recovering"
  BY <1>1 DEF ReadOrphans, WorkerState, found
<1> HIDE DEF v
<1>5. /\ lock' = w /\ UNCHANGED << tasks, lock, hook, faults, open >>
      /\ hook \in [Hook -> {"idle", "probe", "release", "spawn"}]
  BY <1>4 DEF ReadOrphans, IInv, Typed, LockHeld, Running
<1> QED
  BY <1>3, <1>4, <1>5, IdleKeeps DEF found

\* requeue_stale writes: every running row it has read goes back, or is dead.
LEMMA RequeueKeeps ==
  ASSUME IInv, NEW w \in Worker, RequeueOrphans(w)
  PROVE  IInv'
<1> DEFINE v == [worker[w] EXCEPT !.pc = "poll", !.orphans = {}]
           Lost(id) == CHOOSE o \in worker[w].orphans : o.id = id
<1>1. worker[w] \in WorkerState /\ worker \in [Worker -> WorkerState]
  BY DEF IInv, Typed
<1>2. worker[w].pc = "requeueing" /\ Running(w) /\ worker[w].task = NoTask
  BY DEF RequeueOrphans, Running, IInv, EmptyHanded, Polling
<1>3. /\ v \in WorkerState /\ v.pc = "poll" /\ v.task = NoTask
      /\ v.firing = worker[w].firing /\ v.dying = worker[w].dying
  BY <1>1, <1>2 DEF WorkerState, PC
<1>4. worker' = [worker EXCEPT ![w] = v] /\ UNCHANGED << lock, hook, faults, open >>
  BY <1>1 DEF RequeueOrphans, WorkerState
<1> HIDE DEF v
<1>5. /\ tasks' = [id \in DOMAIN tasks |-> tasks'[id]] /\ DOMAIN tasks' = DOMAIN tasks
      /\ \A id \in DOMAIN tasks :
           tasks'[id] = IF \E o \in worker[w].orphans : o.id = id
                        THEN Requeue(tasks, id, Lost(id).attempts)[id] ELSE tasks[id]
  BY DEF RequeueOrphans
<1> HIDE DEF Lost
<1>6. ASSUME NEW id \in DOMAIN tasks
      PROVE  /\ tasks'[id] \in Row /\ tasks'[id].priority = tasks[id].priority
             /\ SameWork(tasks'[id], tasks[id])
             /\ (\E o \in worker[w].orphans : o.id = id) =>
                  tasks'[id].state = IF Lost(id).attempts >= MAX_ATTEMPTS THEN "dead" ELSE "pending"
             /\ ~(\E o \in worker[w].orphans : o.id = id) => tasks'[id] = tasks[id]
  <2>1. tasks[id] \in Row /\ tasks = [i \in DOMAIN tasks |-> tasks[i]]
    BY DEF IInv, Typed, Table
  <2>2. CASE \E o \in worker[w].orphans : o.id = id
    <3>1. tasks'[id] = Requeue(tasks, id, Lost(id).attempts)[id]
      BY <1>5, <2>2
    <3>2. CASE Lost(id).attempts >= MAX_ATTEMPTS
      <4>1. tasks'[id] = [tasks[id] EXCEPT !.state = "dead", !.overrun = FALSE, !.unlanded = TRUE]
        BY <2>1, <3>1, <3>2 DEF Requeue, _park_dead, Row
      <4> QED
        BY <2>1, <2>2, <3>2, <4>1 DEF Row, SameWork
    <3>3. CASE ~(Lost(id).attempts >= MAX_ATTEMPTS)
      <4>1. tasks'[id] = [tasks[id] EXCEPT !.state = "pending", !.overrun = FALSE, !.unlanded = TRUE]
        BY <2>1, <3>1, <3>3 DEF Requeue, Row
      <4> QED
        BY <2>1, <2>2, <3>3, <4>1 DEF Row, SameWork
    <3> QED
      BY <3>2, <3>3
  <2>3. CASE ~(\E o \in worker[w].orphans : o.id = id)
    BY <1>5, <2>1, <2>3 DEF SameWork
  <2> QED
    BY <2>2, <2>3
<1>7. Table(tasks')
  BY <1>5, <1>6 DEF IInv, Typed, Table, SameWork
<1>8. Ids(tasks, "running")' = {}
  BY <1>2, <1>5, <1>6 DEF Ids, IInv, OrphansKnown
<1>9. ASSUME NEW id \in DOMAIN tasks', Calm
      PROVE  /\ tasks'[id].state = "pending" => tasks'[id].attempts < MAX_ATTEMPTS
             /\ tasks'[id].state = "dead" => tasks'[id].attempts = MAX_ATTEMPTS
  <2>1. CASE \E o \in worker[w].orphans : o.id = id
    <3>1. Lost(id) \in worker[w].orphans /\ Lost(id).id = id
      BY <2>1 DEF Lost
    <3>2. id \in Ids(tasks, "running") /\ Lost(id).attempts = tasks[id].attempts
      BY <1>2, <1>9, <3>1 DEF IInv, AttemptsCounted, OrphansKnown
    <3>3. tasks[id].attempts <= MAX_ATTEMPTS /\ tasks[id].attempts \in Nat
      BY <1>9, <3>2 DEF IInv, AttemptsCounted, Ids, Typed, Table, Row
    <3> QED
      BY <1>5, <1>6, <2>1, <3>2, <3>3, AttemptsAssumption DEF SameWork
  <2>2. CASE ~(\E o \in worker[w].orphans : o.id = id)
    BY <1>5, <1>6, <1>9, <2>2 DEF IInv, AttemptsCounted
  <2> QED
    BY <2>1, <2>2
<1>10. \A q \in open' : q \in open /\ \E i \in DOMAIN tasks' : Answers(i, q)
  BY <1>4, <1>5 DEF IInv, NoLostRequest
<1> QED
  BY <1>2, <1>3, <1>4, <1>5, <1>6, <1>7, <1>8, <1>9, <1>10, PollKeeps

\* The worker's steps that move no row: polling, the executors, their ends.
LEMMA ExecutorKeeps ==
  ASSUME IInv, NEW w \in Worker,
         \/ ClaimNothing(w) \/ NextDue(w) \/ SkipTask(w) \/ BeginTask(w)
         \/ WorkSucceeds(w) \/ WorkSkipped(w) \/ WorkRaises(w)
  PROVE  IInv'
<1>0. worker[w] \in WorkerState /\ worker \in [Worker -> WorkerState]
  BY DEF IInv, Typed
<1>00. Alike(tasks, tasks)
  BY DEF Alike, SameWork, IInv, Typed
<1>1. CASE ClaimNothing(w)
  <2> DEFINE v == [worker[w] EXCEPT !.pc = "due"]
  <2>1. /\ v \in WorkerState /\ v.pc = "due" /\ v.task = worker[w].task
        /\ v.seen = worker[w].seen /\ v.firing = worker[w].firing /\ v.dying = worker[w].dying
    BY <1>0 DEF WorkerState, PC
  <2>2. /\ worker' = [worker EXCEPT ![w] = v] /\ worker[w].pc = "poll"
        /\ UNCHANGED << lock, hook, faults, open >>
    BY <1>0, <1>1 DEF ClaimNothing, WorkerState
  <2> HIDE DEF v
  <2>3. Alike(tasks, tasks')
    BY <1>00, <1>1 DEF ClaimNothing
  <2> QED
    BY <2>1, <2>2, <2>3, MoveKeeps DEF Running, Polling
<1>2. CASE SkipTask(w)
  <2> DEFINE v == [worker[w] EXCEPT !.pc = "done"]
  <2>1. /\ v \in WorkerState /\ v.pc = "done" /\ v.task = worker[w].task
        /\ v.seen = worker[w].seen /\ v.firing = worker[w].firing /\ v.dying = worker[w].dying
    BY <1>0 DEF WorkerState, PC
  <2>2. /\ worker' = [worker EXCEPT ![w] = v] /\ worker[w].pc = "begin"
        /\ UNCHANGED << lock, hook, faults, open >>
    BY <1>0, <1>2 DEF SkipTask, WorkerState
  <2> HIDE DEF v
  <2>3. Alike(tasks, tasks')
    BY <1>00, <1>2 DEF SkipTask
  <2> QED
    BY <2>1, <2>2, <2>3, MoveKeeps DEF Running, Polling
<1>3. CASE BeginTask(w)
  <2> DEFINE v == [worker[w] EXCEPT !.pc = "working", !.armed = TRUE]
  <2>1. /\ v \in WorkerState /\ v.pc = "working" /\ v.task = worker[w].task
        /\ v.seen = worker[w].seen /\ v.firing = worker[w].firing /\ v.dying = worker[w].dying
    BY <1>0 DEF WorkerState, PC
  <2>2. /\ worker' = [worker EXCEPT ![w] = v] /\ worker[w].pc = "begin"
        /\ UNCHANGED << lock, hook, faults, open >>
    BY <1>0, <1>3 DEF BeginTask, WorkerState
  <2> HIDE DEF v
  <2>3. Alike(tasks, tasks')
    BY <1>00, <1>3 DEF BeginTask
  <2> QED
    BY <2>1, <2>2, <2>3, MoveKeeps DEF Running, Polling
<1>4. CASE WorkSkipped(w)
  <2> DEFINE v == [worker[w] EXCEPT !.pc = "done", !.armed = FALSE, !.extra = {}]
  <2>1. /\ v \in WorkerState /\ v.pc = "done" /\ v.task = worker[w].task
        /\ v.seen = worker[w].seen /\ v.firing = worker[w].firing /\ v.dying = worker[w].dying
    BY <1>0 DEF WorkerState, PC
  <2>2. /\ worker' = [worker EXCEPT ![w] = v] /\ worker[w].pc = "working"
        /\ UNCHANGED << lock, hook, faults, open >>
    BY <1>0, <1>4 DEF WorkSkipped, Cancelled, WorkerState
  <2> HIDE DEF v
  <2>3. Alike(tasks, tasks')
    BY <1>00, <1>4 DEF WorkSkipped
  <2> QED
    BY <2>1, <2>2, <2>3, MoveKeeps DEF Running, Polling
<1>5. CASE WorkRaises(w)
  <2> DEFINE v == [worker[w] EXCEPT !.pc = "raised", !.armed = FALSE, !.extra = {}]
  <2>1. /\ v \in WorkerState /\ v.pc = "raised" /\ v.task = worker[w].task
        /\ v.seen = worker[w].seen /\ v.firing = worker[w].firing /\ v.dying = worker[w].dying
    BY <1>0 DEF WorkerState, PC
  <2>2. /\ worker' = [worker EXCEPT ![w] = v] /\ worker[w].pc \in {"working", "followup"}
        /\ UNCHANGED << lock, hook, faults, open >>
    BY <1>0, <1>5 DEF WorkRaises, Cancelled, WorkerState
  <2> HIDE DEF v
  <2>3. Alike(tasks, tasks')
    BY <1>00, <1>5 DEF WorkRaises
  <2> QED
    BY <2>1, <2>2, <2>3, MoveKeeps DEF Running, Polling
<1>6. CASE NextDue(w)
  <2>1. ASSUME NEW pc \in {"poll", "closing"}, NEW v,
               \/ v = [worker[w] EXCEPT !.pc = pc, !.idle = FALSE]
               \/ v = [worker[w] EXCEPT !.pc = pc, !.idle = TRUE]
               \/ v = [worker[w] EXCEPT !.pc = pc],
               worker' = [worker EXCEPT ![w] = v]
        PROVE  IInv'
    <3>1. /\ v \in WorkerState /\ v.pc = pc /\ v.task = worker[w].task
          /\ v.seen = worker[w].seen /\ v.firing = worker[w].firing /\ v.dying = worker[w].dying
      BY <1>0, <2>1 DEF WorkerState, PC
    <3>2. /\ worker' = [worker EXCEPT ![w] = v] /\ worker[w].pc = "due"
          /\ UNCHANGED << tasks, lock, hook, faults, open >>
      BY <1>6, <2>1 DEF NextDue
    <3> QED
      BY <1>00, <3>1, <3>2, MoveKeeps DEF Running, Polling
  <2>2. CASE worker' = [worker EXCEPT ![w].pc = "poll", ![w].idle = FALSE]
    BY <1>0, <2>1, <2>2 DEF WorkerState
  <2>3. CASE worker' = [worker EXCEPT ![w].pc = "poll", ![w].idle = TRUE]
    BY <1>0, <2>1, <2>3 DEF WorkerState
  <2>4. CASE worker' = [worker EXCEPT ![w].pc = "closing"]
    BY <1>0, <2>1, <2>4 DEF WorkerState
  <2> QED
    BY <1>6, <2>2, <2>3, <2>4 DEF NextDue
<1>7. CASE WorkSucceeds(w)
  <2> DEFINE t == worker[w].task
             extras == CASE t.kind = "update" /\ "embed" \in Kind ->
                              {[kind |-> "embed",
                                payload |-> [whole |-> FALSE, files |-> files, skip |-> TRUE]] :
                                 files \in (SUBSET File) \ {{}}}
                         [] t.kind = "embed" -> {[kind |-> "embed", payload |-> t.payload]}
                         [] OTHER -> {}
  <2>0. /\ worker[w].pc = "working" /\ UNCHANGED << lock, hook, faults, open >>
        /\ tasks' \in {tasks, Landed(tasks)}
        /\ \/ worker' = Cancelled(worker, w, "done")
           \/ \E r \in extras :
                worker' = [worker EXCEPT ![w].pc = "followup", ![w].extra = {r}]
    BY <1>7 DEF WorkSucceeds
  <2>1. extras \subseteq Asked
    <3>1. t \in Snapshot
      BY <1>0 DEF WorkerState
    <3>2. CASE t.kind = "update" /\ "embed" \in Kind
      <4>1. extras = {[kind |-> "embed",
                       payload |-> [whole |-> FALSE, files |-> files, skip |-> TRUE]] :
                        files \in (SUBSET File) \ {{}}}
        BY <3>2
      <4> HIDE DEF extras
      <4>2. ASSUME NEW files \in SUBSET File
            PROVE  [kind |-> "embed",
                    payload |-> [whole |-> FALSE, files |-> files, skip |-> TRUE]] \in Asked
        BY <3>2 DEF Asked, Plain, Payload
      <4> QED
        BY <4>1, <4>2
    <3>3. CASE t.kind = "embed"
      BY <3>1, <3>3 DEF Asked, Plain, Snapshot
    <3>4. CASE ~(t.kind = "update" /\ "embed" \in Kind) /\ t.kind # "embed"
      BY <3>4
    <3> QED
      BY <3>2, <3>3, <3>4
  <2> HIDE DEF extras
  <2>2. Alike(tasks, tasks')
    BY <1>00, <2>0, LandedTable DEF Alike, IInv, Typed
  <2>3. CASE worker' = Cancelled(worker, w, "done")
    <3> DEFINE v == [worker[w] EXCEPT !.pc = "done", !.armed = FALSE, !.extra = {}]
    <3>1. /\ v \in WorkerState /\ v.pc = "done" /\ v.task = worker[w].task
          /\ v.seen = worker[w].seen /\ v.firing = worker[w].firing /\ v.dying = worker[w].dying
      BY <1>0 DEF WorkerState, PC
    <3>2. worker' = [worker EXCEPT ![w] = v]
      BY <1>0, <2>3 DEF Cancelled, WorkerState
    <3> HIDE DEF v
    <3> QED
      BY <2>0, <2>2, <3>1, <3>2, MoveKeeps DEF Running, Polling
  <2>4. ASSUME NEW r \in extras,
               worker' = [worker EXCEPT ![w].pc = "followup", ![w].extra = {r}]
        PROVE  IInv'
    <3> DEFINE v == [worker[w] EXCEPT !.pc = "followup", !.extra = {r}]
    <3>1. /\ v \in WorkerState /\ v.pc = "followup" /\ v.task = worker[w].task
          /\ v.seen = worker[w].seen /\ v.firing = worker[w].firing /\ v.dying = worker[w].dying
      BY <1>0, <2>1 DEF WorkerState, PC
    <3>2. worker' = [worker EXCEPT ![w] = v]
      BY <1>0, <2>4 DEF WorkerState
    <3> HIDE DEF v
    <3> QED
      BY <2>0, <2>2, <3>1, <3>2, MoveKeeps DEF Running, Polling
  <2> QED
    BY <2>0, <2>3, <2>4
<1> QED
  BY <1>1, <1>2, <1>3, <1>4, <1>5, <1>6, <1>7

-----------------------------------------------------------------------------
(* The theorems *)

LEMMA InitIInv == Init => IInv
<1> SUFFICES ASSUME Init PROVE IInv
  OBVIOUS
<1>1. tasks = << >> /\ DOMAIN tasks = {} /\ open = {} /\ faults = << >>
  BY DEF Init
<1>2. Table(tasks)
  BY <1>1 DEF Table
<1>3. Off \in WorkerState
  BY DEF Off, WorkerState, PC, NoTask, Snapshot, Payload, Everything
<1>4. worker \in [Worker -> WorkerState] /\ \A w \in Worker : worker[w] = Off
  BY <1>3 DEF Init
<1>5. Typed
  BY <1>1, <1>2, <1>4, BoundsAssumption DEF Typed, Init
<1>6. \A w \in Worker : ~Running(w) /\ ~Draining(w)
  BY <1>4 DEF Running, Draining, Off
<1>7. LockHeld /\ EmptyHanded
  BY <1>4, <1>6 DEF LockHeld, EmptyHanded, Off, Init
<1>8. RunningIsOwned /\ SnapshotFaithful /\ OrphansKnown /\ NoLostRequest
  BY <1>1, <1>4, <1>6 DEF RunningIsOwned, SnapshotFaithful, OrphansKnown, NoLostRequest, Off
<1>9. AttemptsCounted
  BY <1>1, <1>4 DEF AttemptsCounted, Off, Executing
<1> QED
  BY <1>5, <1>7, <1>8, <1>9 DEF IInv

LEMMA StepKeepsIInv == IInv /\ [Next]_vars => IInv'
<1> SUFFICES ASSUME IInv, [Next]_vars PROVE IInv'
  OBVIOUS
<1>0. Len(faults) <= MaxFaults /\ faults \in Seq(Fault) /\ MaxFaults \in Nat
  BY BoundsAssumption DEF IInv, Typed
<1>1. ASSUME NEW h \in Hook, HookStep(h) \/ \E r \in Request : HookEnqueue(h, r)
      PROVE  IInv'
  BY <1>1, HookStepKeeps, HookEnqueueKeeps
<1>2. ASSUME NEW w \in Worker, WorkerStep(w)
      PROVE  IInv'
  <2>1. CASE Close(w)
    <3>1. /\ worker' = [worker EXCEPT ![w] = Off] /\ lock' = Free(lock, w)
          /\ UNCHANGED << tasks, hook, faults, open >>
      BY <2>1 DEF Close
    <3> QED
      BY <1>0, <3>1, OffKeeps
  <2> QED
    BY <1>2, <2>1, StartKeeps, ReadOrphansKeeps, RequeueKeeps, ClaimKeeps, ExecutorKeeps,
       FollowUpKeeps, CompleteKeeps, FailKeeps DEF WorkerStep
<1>3. ASSUME NEW w \in Worker, Watchdog(w)
      PROVE  IInv'
  <2>1. CASE Exit(w)
    <3>1. /\ worker' = [worker EXCEPT ![w] = Off] /\ lock' = Free(lock, w)
          /\ UNCHANGED << tasks, hook, faults, open >>
      BY <2>1 DEF Exit
    <3> QED
      BY <1>0, <3>1, OffKeeps
  <2> QED
    BY <1>3, <2>1, ExpireKeeps, RecordKeeps DEF Watchdog
<1>4. CASE Environment
  <2>1. ASSUME NEW w \in Worker, Crash(w)
        PROVE  IInv'
    <3>1. /\ worker' = [worker EXCEPT ![w] = Off] /\ lock' = Free(lock, w)
          /\ "crash" \in Fault /\ Len(faults) < MaxFaults /\ faults' = Append(faults, "crash")
          /\ UNCHANGED << tasks, hook, open >>
      BY <2>1 DEF Crash, Faulty
    <3>2. Len(faults') <= MaxFaults
      BY <1>0, <3>1
    <3> QED
      BY <3>1, <3>2, OffKeeps
  <2>2. ASSUME NEW id \in DOMAIN tasks, BackoffElapses(id)
        PROVE  IInv'
    <3> DEFINE row == [tasks[id] EXCEPT !.ready = TRUE]
    <3>1. tasks[id] \in Row /\ Table(tasks)
      BY DEF IInv, Typed, Table
    <3>2. /\ row \in Row /\ row.priority = tasks[id].priority /\ SameWork(row, tasks[id])
          /\ row.state = tasks[id].state
      BY <3>1 DEF Row, SameWork
    <3>3. /\ tasks' = [tasks EXCEPT ![id] = row]
          /\ UNCHANGED << lock, hook, worker, faults, open >>
      BY <2>2, <3>1 DEF BackoffElapses, Row
    <3>4. row.priority \in {0, 10} /\ Plain(row.kind, row.payload)
      BY <3>1, <3>2 DEF Table, SameWork
    <3> HIDE DEF row
    <3>5. /\ Table(tasks') /\ DOMAIN tasks' = DOMAIN tasks /\ tasks'[id] = row
          /\ \A i \in DOMAIN tasks \ {id} : tasks'[i] = tasks[i]
      BY <3>1, <3>2, <3>3, <3>4, UpdateTable
    <3>6. Alike(tasks, tasks')
      BY <3>2, <3>5 DEF Alike, SameWork
    <3> QED
      BY <3>3, <3>6, AlikeKeeps
  <2>3. CASE ManualUpdate
    <3>1. tasks' = Landed(tasks) /\ UNCHANGED << lock, hook, worker, faults, open >>
      BY <2>3 DEF ManualUpdate
    <3>2. Alike(tasks, tasks')
      BY <3>1, LandedTable DEF Alike, IInv, Typed
    <3> QED
      BY <3>1, <3>2, AlikeKeeps
  <2> QED
    BY <1>4, <2>1, <2>2, <2>3, ClearKeeps DEF Environment
<1>5. CASE UNCHANGED vars
  <2>1. Alike(tasks, tasks') /\ UNCHANGED << lock, hook, worker, faults, open >>
    BY <1>5 DEF vars, Alike, SameWork, IInv, Typed
  <2> QED
    BY <2>1, AlikeKeeps
<1> QED
  BY <1>1, <1>2, <1>3, <1>4, <1>5 DEF Next

LEMMA InvariantHolds == Spec => []IInv
BY InitIInv, StepKeepsIInv, PTL DEF Spec

\* Rows, snapshots and requests stay well formed under every interleaving of
\* hooks, workers, watchdogs and faults.
THEOREM TypeCorrect == Spec => []TypeOK
<1>1. IInv => TypeOK
  BY BoundsAssumption DEF IInv, Typed, TypeOK, Table, WorkerState, Asked
<1> QED
  BY <1>1, InvariantHolds, PTL

\* Once a worker has run requeue_stale, a running row is the one it executes:
\* for any number of hooks, workers and crashes (run_worker, WorkerLock).
THEOREM OnlyOwnedRowsRun == Spec => []RunningIsOwned
<1>1. IInv => RunningIsOwned
  BY DEF IInv
<1> QED
  BY <1>1, InvariantHolds, PTL

\* enqueue, claim, complete, fail and requeue_stale lose no request: whatever is
\* open is in the table in full width, in a row no worker read before it.
THEOREM NoRequestIsLost == Spec => []NoLostRequest
<1>1. IInv => NoLostRequest
  BY DEF IInv
<1> QED
  BY <1>1, InvariantHolds, PTL

\* With crashes only, no row is claimed more than MAX_ATTEMPTS times, and only
\* a row that was claimed that often is parked dead (claim, fail, _park_dead,
\* requeue_stale).
THEOREM RetriesStayBounded == Spec => []RetriesBounded
<1>1. IInv => RetriesBounded
  <2> SUFFICES ASSUME IInv, Calm, NEW id \in DOMAIN tasks
               PROVE  /\ tasks[id].attempts <= MAX_ATTEMPTS
                      /\ tasks[id].state = "dead" => tasks[id].attempts = MAX_ATTEMPTS
    BY DEF RetriesBounded, Calm
  <2>1. tasks[id] \in Row
    BY DEF IInv, Typed, Table
  <2>2. tasks[id].state \in {"pending", "running", "dead"} /\ tasks[id].attempts \in Nat
    BY <2>1 DEF Row
  <2> QED
    BY <2>2, AttemptsAssumption DEF IInv, AttemptsCounted
<1> QED
  BY <1>1, InvariantHolds, PTL
=============================================================================

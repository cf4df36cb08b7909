----------------------------- MODULE TaskQueueOps -----------------------------
(***************************************************************************)
(* The tasks table of dagayn/task_queue.py (and of its Rust twin,          *)
(* crates/dagayn-build/src/task_queue.rs) as a function from row ids to    *)
(* rows, and what each SQL transaction of TaskQueue does to it.            *)
(***************************************************************************)
EXTENDS Integers, FiniteSetsExt

CONSTANTS Kind,          \* the task kinds in use, a subset of TASK_KINDS
          File,          \* files an embed task may be scoped to
          MAX_ATTEMPTS   \* attempts before a task is parked as dead

ASSUME KindAssumption == Kind \subseteq {"update", "embed", "postprocess", "prepare"}
ASSUME AttemptsAssumption == MAX_ATTEMPTS \in Nat \ {0}

DEFAULT_PRIORITIES(kind) == IF kind \in {"update", "prepare"} THEN 10 ELSE 0

(***************************************************************************)
(* A payload, reduced to what merging and executing tell apart.  whole: no *)
(* "files" key, the whole corpus; otherwise files is the list.  skip: the  *)
(* "skip_structure" flag.  Only embed tasks carry either.                  *)
(***************************************************************************)
Payload == [whole : BOOLEAN, files : SUBSET File, skip : BOOLEAN]

Everything == [whole |-> TRUE, files |-> {}, skip |-> FALSE]

\* _merge_payloads: newer keys win, but an embed stays as wide as both requests
\* and skips the structural update only if both may.
_merge_payloads(kind, old, new) ==
  IF kind # "embed" THEN new
  ELSE LET whole == old.whole \/ new.whole
       IN  [whole |-> whole,
            files |-> IF whole THEN {} ELSE old.files \cup new.files,
            skip  |-> old.skip /\ new.skip]

(***************************************************************************)
(* A row.  ready: not_before has passed.  overrun: last_error starts with  *)
(* "budget exceeded".  unlanded: updated_at is later than the graph's      *)
(* last_updated.                                                           *)
(***************************************************************************)
Row == [kind : Kind, priority : Int, payload : Payload,
        state : {"pending", "running", "dead"}, attempts : Nat,
        ready : BOOLEAN, overrun : BOOLEAN, unlanded : BOOLEAN]

NewRow(kind, payload, prio) ==
  [kind |-> kind, priority |-> prio, payload |-> payload, state |-> "pending",
   attempts |-> 0, ready |-> TRUE, overrun |-> FALSE, unlanded |-> TRUE]

Ids(ts, state) == {id \in DOMAIN ts : ts[id].state = state}

PendingOf(ts, kind) == {id \in Ids(ts, "pending") : ts[id].kind = kind}

\* SQLite's choice for INTEGER PRIMARY KEY without AUTOINCREMENT: one more than
\* the largest id in the table, so the id of a deleted last row comes back.
NextId(ts) == IF DOMAIN ts = {} THEN 1 ELSE Max(DOMAIN ts) + 1

Put(ts, id, row) == [i \in DOMAIN ts \cup {id} |-> IF i = id THEN row ELSE ts[i]]

Without(ts, ids) == [i \in DOMAIN ts \ ids |-> ts[i]]

\* Slip: the lookup takes any twin, a task that is already running included.
EnqueueIntoRunning(ts, kind, payload) ==
  LET twins == {id \in DOMAIN ts : ts[id].kind = kind /\ ts[id].state # "dead"}
      twin  == Min(twins)
  IN  IF twins # {}
      THEN Put(ts, twin, [ts[twin] EXCEPT !.payload = _merge_payloads(kind, @, payload)])
      ELSE Put(ts, NextId(ts), NewRow(kind, payload, DEFAULT_PRIORITIES(kind)))

\* Slip: every coalesced request starts the task's delay again.
EnqueueDebounced(ts, kind, payload) ==
  LET twins == PendingOf(ts, kind)
      twin  == Min(twins)
  IN  IF twins # {}
      THEN Put(ts, twin, [ts[twin] EXCEPT !.payload = _merge_payloads(kind, @, payload),
                                          !.ready = FALSE])
      ELSE Put(ts, NextId(ts), NewRow(kind, payload, DEFAULT_PRIORITIES(kind)))

\* enqueue: fold the request into a pending twin, or add a row.
Enqueue(ts, kind, payload) ==
  LET twins == PendingOf(ts, kind)
      twin  == Min(twins)
      prio  == DEFAULT_PRIORITIES(kind)
  IN  IF twins # {}
      THEN Put(ts, twin,
               [ts[twin] EXCEPT !.payload  = _merge_payloads(kind, @, payload),
                                !.priority = IF @ > prio THEN @ ELSE prio,
                                !.unlanded = TRUE])
      ELSE Put(ts, NextId(ts), NewRow(kind, payload, prio))

Claimable(ts) == {id \in Ids(ts, "pending") : ts[id].ready}

\* ORDER BY priority DESC, id ASC.
NextTask(ts) ==
  CHOOSE id \in Claimable(ts) :
    \A other \in Claimable(ts) :
      \/ ts[id].priority > ts[other].priority
      \/ ts[id].priority = ts[other].priority /\ id <= other

\* claim: the row starts running and the attempt is counted.
Claim(ts, id) ==
  [ts EXCEPT ![id].state = "running", ![id].attempts = @ + 1, ![id].unlanded = TRUE]

\* complete: drop the row, but only while it is still running.
Complete(ts, id) == Without(ts, {id} \cap Ids(ts, "running"))

\* Slip: a task that is out of attempts goes back to the others.
ParkNever(ts, id, overrun) ==
  IF id \notin DOMAIN ts THEN ts
  ELSE [ts EXCEPT ![id].state = "pending", ![id].overrun = overrun, ![id].unlanded = TRUE]

\* _park_dead: whatever the row's state is now.
_park_dead(ts, id, overrun) ==
  IF id \notin DOMAIN ts THEN ts
  ELSE [ts EXCEPT ![id].state = "dead", ![id].overrun = overrun, ![id].unlanded = TRUE]

\* Slip: a retry gives its attempt back.
FailRefunded(ts, id, attempts, overrun) ==
  IF attempts >= MAX_ATTEMPTS THEN _park_dead(ts, id, overrun)
  ELSE IF id \notin DOMAIN ts THEN ts
  ELSE [ts EXCEPT ![id].state = "pending", ![id].ready = FALSE, ![id].attempts = @ - 1,
                  ![id].overrun = overrun, ![id].unlanded = TRUE]

\* fail: back to pending behind a backoff, or dead when the claimed snapshot has
\* no attempts left.  The UPDATE names the id only, not the state.
Fail(ts, id, attempts, overrun) ==
  IF attempts >= MAX_ATTEMPTS THEN _park_dead(ts, id, overrun)
  ELSE IF id \notin DOMAIN ts THEN ts
  ELSE [ts EXCEPT ![id].state = "pending", ![id].ready = FALSE,
                  ![id].overrun = overrun, ![id].unlanded = TRUE]

\* The UPDATEs of requeue_stale for one row it has read as running.
Requeue(ts, id, attempts) ==
  IF attempts >= MAX_ATTEMPTS THEN _park_dead(ts, id, FALSE)
  ELSE IF id \notin DOMAIN ts THEN ts
  ELSE [ts EXCEPT ![id].state = "pending", ![id].overrun = FALSE, ![id].unlanded = TRUE]

\* _suspended_by_overruns: the newest update that died after the graph last
\* changed died of its budget.
Suspended(ts) ==
  LET dead == {id \in Ids(ts, "dead") : ts[id].kind = "update" /\ ts[id].unlanded}
  IN  dead # {} /\ ts[Max(dead)].overrun

\* The graph's last_updated moves past every row.
Landed(ts) == [id \in DOMAIN ts |-> [ts[id] EXCEPT !.unlanded = FALSE]]

Covers(payload, asked) ==
  /\ payload.whole \/ (~asked.whole /\ asked.files \subseteq payload.files)
  /\ payload.skip => asked.skip
=============================================================================

----------------------------- MODULE RWThreadLock -----------------------------
(***************************************************************************)
(* _RWThreadLock of dagayn/write_lock.py: the reader/writer lock between   *)
(* the threads of one process, with reentrant holds, upgrades, time-outs   *)
(* and waiters served in arrival order.                                    *)
(***************************************************************************)
EXTENDS RWLockOps

CONSTANT MaxDepth   \* bound: nested acquisitions per thread

ASSUME DepthAssumption == MaxDepth \in Nat \ {0}

VARIABLE rw   \* the lock, see RWLockOps

vars == << rw >>

Init == rw = FreshLock

CanAcquire(t) == ~Waiting(rw, t) /\ Len(rw.stacks[t]) < MaxDepth

\* acquire(blocking=True): returns at once, or leaves t waiting.
Acquire(t, m) ==
  /\ CanAcquire(t)
  /\ rw' = Acquired(rw, t, m)

\* acquire(blocking=False) that is not granted: queue, dispatch, drop, False.
TryAcquireFails(t, m) ==
  LET d == Dispatch(Queued(rw, t, m))
  IN  /\ CanAcquire(t)
      /\ ~Nests(rw, t, m)
      /\ d.granted[t] = "none"
      /\ rw' = Drop(d, t)

\* A waiter whose flag is set leaves acquire with True.
Wake(t) ==
  /\ rw.granted[t] # "none"
  /\ rw' = Woken(rw, t)

\* The deadline passes first: acquire returns False.
Timeout(t) ==
  /\ InQueue(rw, t)
  /\ rw' = Drop(rw, t)

Release(t) ==
  /\ ~Waiting(rw, t)
  /\ rw.stacks[t] # << >>
  /\ rw' = Released(rw, t)

Next ==
  \E t \in Thread :
    \/ \E m \in Mode : Acquire(t, m) \/ TryAcquireFails(t, m)
    \/ Wake(t)
    \/ Timeout(t)
    \/ Release(t)

Spec == Init /\ [][Next]_vars

(***************************************************************************)
(* Fairness.  A notified thread is scheduled; every `with` block ends,     *)
(* however often the thread nests inside it, so at each depth the release  *)
(* happens; the deadline of an upgrade passes.  There is no fairness on    *)
(* the other time-outs: those waiters must get the lock, not give up.      *)
(***************************************************************************)
ReleaseAt(t, d) == Len(rw.stacks[t]) = d /\ Release(t)

UpgradeTimeout(t) == rw.stacks[t] # << >> /\ Timeout(t)

Fairness ==
  \A t \in Thread :
    /\ WF_vars(Wake(t))
    /\ \A d \in 1..MaxDepth : SF_vars(ReleaseAt(t, d))
    /\ WF_vars(UpgradeTimeout(t))

FairSpec == Spec /\ Fairness

-----------------------------------------------------------------------------
(* Properties *)

\* The record of _RWThreadLock is well formed: counters, writer, queue and stacks.
TypeOK == rw \in LockState

\* While a thread's stack holds an exclusive acquisition no other thread holds
\* anything: what _RWThreadLock exists for, stated over the modes the callers
\* were granted and not over the counters that implement it.
MutualExclusion ==
  \A t, u \in Thread :
    t # u /\ Holds(rw, t, "exclusive") => rw.stacks[u] = << >>

\* The counters never drift from the holds: _shared counts each thread's shared
\* acquisitions and _writer_count the exclusive ones of _writer_tid, those
\* granted to a thread that has not woken up included, through any order of
\* nesting, upgrading, timing out and releasing.
CountsMatchHolds == CountsMatch(rw)

\* No lost wake-up: no step leaves a waiter in the queue that _dispatch would
\* grant, so a thread blocks only while somebody holds what it waits for.
NoLostWakeup == Settled(rw)

Place(l, t) == CHOOSE i \in 1..Len(l.queue) : l.queue[i].tid = t

\* Waiters are served in arrival order: a step that takes u out of the queue
\* with a grant leaves nobody waiting who stood before u, and a request that
\* is no upgrade goes behind everybody who waits already.
NoOvertaking ==
  [][\A t, u \in Thread :
       /\ (/\ InQueue(rw, t) /\ InQueue(rw', t)
           /\ InQueue(rw, u) /\ Place(rw, t) < Place(rw, u))
          => rw'.granted[u] = "none"
       /\ (/\ InQueue(rw, t) /\ InQueue(rw', t)
           /\ rw.stacks[u] = << >> /\ ~Waiting(rw, u))
          => /\ rw'.stacks[u] = << >>
             /\ InQueue(rw', u) => Place(rw', t) < Place(rw', u)]_vars

\* A queued thread that holds the lock waits for an upgrade: every other nested
\* request is granted without queueing, or it would wait for itself.
HolderQueuesOnlyToUpgrade == QueueOfUpgrades(rw)

\* Readers and writers both keep moving: whoever queues leaves the queue, and
\* no waiter but an upgrading one needs its time-out for that.
StarvationFree == \A t \in Thread : InQueue(rw, t) ~> ~InQueue(rw, t)
=============================================================================

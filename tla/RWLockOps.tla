------------------------------- MODULE RWLockOps -------------------------------
(***************************************************************************)
(* The state of one _RWThreadLock (dagayn/write_lock.py) as a record, and  *)
(* what its methods do to it.  Every method runs under the lock's own      *)
(* condition variable, so each operator here is one critical section or a  *)
(* part of one.  RWThreadLock uses the operators for a single lock,        *)
(* GraphLock for one lock per process.                                     *)
(***************************************************************************)
EXTENDS Integers, Sequences, FiniteSets

CONSTANTS Thread,    \* the threads of one process
          NoThread   \* _writer_tid = None

ASSUME ThreadAssumption == NoThread \notin Thread

Mode == {"shared", "exclusive"}

\* _Waiter: a queued request.  Its granted flag lives in the lock record.
Waiter == [tid : Thread, mode : Mode]

(***************************************************************************)
(* shared      _shared: thread -> number of shared holds (0: no entry)     *)
(* writer      _writer_tid       writerCount  _writer_count                *)
(* queue       _queue: waiters in the order in which they are served       *)
(* granted     the mode granted to a waiter that has not woken up yet      *)
(* stacks      _stacks: thread -> modes held, newest last                  *)
(***************************************************************************)
LockState ==
  [shared      : [Thread -> Nat],
   writer      : Thread \cup {NoThread},
   writerCount : Nat,
   queue       : Seq(Waiter),
   granted     : [Thread -> Mode \cup {"none"}],
   stacks      : [Thread -> Seq(Mode)]]

FreshLock ==
  [shared      |-> [t \in Thread |-> 0],
   writer      |-> NoThread,
   writerCount |-> 0,
   queue       |-> << >>,
   granted     |-> [t \in Thread |-> "none"],
   stacks      |-> [t \in Thread |-> << >>]]

InQueue(l, t) == \E i \in 1..Len(l.queue) : l.queue[i].tid = t

\* t is inside acquire, blocked on the condition or about to wake up.
Waiting(l, t) == InQueue(l, t) \/ l.granted[t] # "none"

Holds(l, t, m) == \E i \in 1..Len(l.stacks[t]) : l.stacks[t][i] = m

\* Slip: only a shared request on a shared hold nests, a writer queues again.
NestsReadersOnly(l, t, m) == l.shared[t] > 0 /\ m = "shared"

\* A request on top of a hold the thread already has; it never queues.
Nests(l, t, m) == l.writer = t \/ (l.shared[t] > 0 /\ m = "shared")

\* A reader asking for the exclusive lock while it keeps its shared hold.
Upgrades(l, t, m) == m = "exclusive" /\ l.shared[t] > 0

\* _take: account for a nested acquisition and record its mode.
Take(l, t, m) ==
  [l EXCEPT !.writer      = IF m = "exclusive" THEN t ELSE @,
            !.writerCount = IF m = "exclusive" THEN @ + 1 ELSE @,
            !.shared[t]   = IF m = "shared" THEN @ + 1 ELSE @,
            !.stacks[t]   = Append(@, m)]

\* Slip: every writer jumps the queue, not only an upgrade.
QueuedWriterFirst(l, t, m) ==
  LET w == [tid |-> t, mode |-> m]
  IN  [l EXCEPT !.queue = IF m = "exclusive" THEN << w >> \o @ ELSE Append(@, w)]

\* The waiter joins the queue: an upgrade at its head, any other at its tail.
Queued(l, t, m) ==
  LET w == [tid |-> t, mode |-> m]
  IN  [l EXCEPT !.queue = IF Upgrades(l, t, m) THEN << w >> \o @ ELSE Append(@, w)]

\* How many waiters at the head of q want the shared lock.
ReaderRun(q) ==
  CHOOSE n \in 0..Len(q) :
    /\ \A i \in 1..n : q[i].mode = "shared"
    /\ n < Len(q) => q[n + 1].mode = "exclusive"

\* Slip: the writer looks at the writer field only, not at the other readers.
GrantWriterIgnoringReaders(l) ==
  LET t == Head(l.queue).tid
  IN  [l EXCEPT !.writer = t, !.writerCount = @ + 1, !.queue = Tail(@), !.granted[t] = "exclusive"]

\* The head of the queue, a writer, gets the lock unless another thread reads.
GrantWriter(l) ==
  LET t == Head(l.queue).tid
  IN  IF \E u \in Thread \ {t} : l.shared[u] > 0
      THEN l
      ELSE [l EXCEPT !.writer      = t,
                     !.writerCount = @ + 1,
                     !.queue       = Tail(@),
                     !.granted[t]  = "exclusive"]

\* The readers at the head of the queue get the lock as a batch.
GrantReaders(l) ==
  LET n   == ReaderRun(l.queue)
      won == {l.queue[i].tid : i \in 1..n}
  IN  [l EXCEPT !.shared  = [t \in Thread |-> IF t \in won THEN @[t] + 1 ELSE @[t]],
                !.queue   = SubSeq(@, n + 1, Len(@)),
                !.granted = [t \in Thread |-> IF t \in won THEN "shared" ELSE @[t]]]

(***************************************************************************)
(* _dispatch, a loop that grants what the head of the queue is entitled    *)
(* to.  It stops behind a granted writer, and behind granted readers it    *)
(* stops at the next writer, so it grants one writer or one run of readers.*)
(***************************************************************************)
Dispatch(l) ==
  IF l.queue = << >> \/ l.writer # NoThread THEN l
  ELSE IF Head(l.queue).mode = "exclusive"
       THEN GrantWriter(l)
       ELSE GrantReaders(l)

\* Slip: the mode is recorded after the wait has been cleared.
WokenClearedFirst(l, t) ==
  LET k == [l EXCEPT !.granted[t] = "none"]
  IN  [k EXCEPT !.stacks[t] = Append(@, k.granted[t])]

\* The granted waiter runs again: it clears its wait and records the mode.
Woken(l, t) ==
  [l EXCEPT !.stacks[t] = Append(@, l.granted[t]), !.granted[t] = "none"]

\* Slip: a waiter that gives up wakes nobody.
DropWithoutDispatch(l, t) ==
  LET i == CHOOSE j \in 1..Len(l.queue) : l.queue[j].tid = t
  IN  [l EXCEPT !.queue = SubSeq(@, 1, i - 1) \o SubSeq(@, i + 1, Len(@))]

\* _drop: leave the queue and let whoever was blocked behind move up.
Drop(l, t) ==
  LET i == CHOOSE j \in 1..Len(l.queue) : l.queue[j].tid = t
  IN  Dispatch([l EXCEPT !.queue = SubSeq(@, 1, i - 1) \o SubSeq(@, i + 1, Len(@))])

\* acquire up to its first wait: nested, granted at once, or left in the queue.
Acquired(l, t, m) ==
  LET d == Dispatch(Queued(l, t, m))
  IN  IF Nests(l, t, m) THEN Take(l, t, m)
      ELSE IF d.granted[t] # "none" THEN Woken(d, t)
      ELSE d

\* Slip: release undoes the oldest acquisition of t instead of the newest.
PoppedOldest(l, t) ==
  LET m == l.stacks[t][1]
  IN  [l EXCEPT !.stacks[t]   = SubSeq(@, 1, Len(@) - 1),
                !.writerCount = IF m = "exclusive" THEN @ - 1 ELSE @,
                !.writer      = IF m = "exclusive" THEN NoThread ELSE @,
                !.shared[t]   = IF m = "shared" THEN @ - 1 ELSE @]

\* release: undo the newest acquisition of t, then dispatch.
Popped(l, t) ==
  LET m    == l.stacks[t][Len(l.stacks[t])]
      last == l.writerCount <= 1
  IN  [l EXCEPT !.stacks[t]   = SubSeq(@, 1, Len(@) - 1),
                !.writerCount = IF m = "exclusive" THEN (IF last THEN 0 ELSE @ - 1) ELSE @,
                !.writer      = IF m = "exclusive" /\ last THEN NoThread ELSE @,
                !.shared[t]   = IF m = "shared" THEN (IF @ > 1 THEN @ - 1 ELSE 0) ELSE @]

Released(l, t) == Dispatch(Popped(l, t))

-----------------------------------------------------------------------------
(* What every reachable lock satisfies, in parts; RWThreadLock states them as *)
(* properties of the code, the proofs carry them through every operator.      *)

Count(s, m) == Cardinality({i \in 1..Len(s) : s[i] = m})

\* 1 when t was granted mode m and has not woken up to record it.
Pending(l, t, m) == IF l.granted[t] = m THEN 1 ELSE 0

CountsMatch(l) ==
  /\ l.writer = NoThread => l.writerCount = 0
  /\ \A t \in Thread :
       /\ l.shared[t] = Count(l.stacks[t], "shared") + Pending(l, t, "shared")
       /\ LET n == Count(l.stacks[t], "exclusive") + Pending(l, t, "exclusive")
          IN  IF l.writer = t THEN l.writerCount = n /\ n > 0 ELSE n = 0

\* Only the writer itself may have shared holds beside a writer.
WriterAlone(l) ==
  l.writer # NoThread => \A t \in Thread : l.shared[t] > 0 => t = l.writer

\* A thread waits in one place, and a granted one is no longer queued.
QueueDistinct(l) ==
  /\ \A i, j \in 1..Len(l.queue) : l.queue[i].tid = l.queue[j].tid => i = j
  /\ \A i \in 1..Len(l.queue) : l.granted[l.queue[i].tid] = "none"

\* A queued holder waits for an upgrade.
QueueOfUpgrades(l) ==
  \A i \in 1..Len(l.queue) :
    LET w == l.queue[i]
    IN  /\ l.writer # w.tid
        /\ l.shared[w.tid] > 0 => w.mode = "exclusive"

\* The head of the queue is not entitled to the lock.
Settled(l) == Dispatch(l) = l
=============================================================================

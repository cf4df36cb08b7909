-------------------------- MODULE RWThreadLockProofs --------------------------
(***************************************************************************)
(* The reader/writer lock between threads is correct for every set of      *)
(* threads and every nesting depth.                                        *)
(***************************************************************************)
EXTENDS RWThreadLock, RWLockLemmas

\* The inductive invariant.  MutualExclusion alone is not inductive: a release
\* reads the counters and a grant reads the queue, so both have to be tied to
\* the holds, and nobody may be queued twice.
IInv == Sound(rw) /\ Settled(rw)

\* Every operation of _RWThreadLock keeps the invariant.
LEMMA StepKeepsIInv == IInv /\ [Next]_vars => IInv'
<1> SUFFICES ASSUME IInv, [Next]_vars PROVE IInv'
  OBVIOUS
<1>1. CASE UNCHANGED vars
  BY <1>1 DEF IInv, vars
<1>2. ASSUME NEW t \in Thread, NEW m \in Mode, Acquire(t, m)
      PROVE  IInv'
  BY <1>2, AcquiredSound DEF IInv, Acquire, CanAcquire
<1>3. ASSUME NEW t \in Thread, NEW m \in Mode, TryAcquireFails(t, m)
      PROVE  IInv'
  <2> DEFINE d == Dispatch(Queued(rw, t, m))
  <2>1. Sound(d)
    BY <1>3, QueuedSound, DispatchSound DEF IInv, TryAcquireFails, CanAcquire
  <2>2. InQueue(d, t)
    BY <1>3, QueuedStays DEF IInv, TryAcquireFails, CanAcquire
  <2> QED
    BY <1>3, <2>1, <2>2, DropSound DEF IInv, TryAcquireFails
<1>4. ASSUME NEW t \in Thread, Wake(t)
      PROVE  IInv'
  BY <1>4, WokenSound DEF IInv, Wake
<1>5. ASSUME NEW t \in Thread, Timeout(t)
      PROVE  IInv'
  BY <1>5, DropSound DEF IInv, Timeout
<1>6. ASSUME NEW t \in Thread, Release(t)
      PROVE  IInv'
  BY <1>6, ReleasedSound DEF IInv, Release
<1> QED
  BY <1>1, <1>2, <1>3, <1>4, <1>5, <1>6 DEF Next

\* It holds in every reachable state of the lock.
LEMMA InvariantHolds == Spec => []IInv
<1>1. Init => IInv
  BY FreshSound DEF Init, IInv
<1> QED
  BY <1>1, StepKeepsIInv, PTL DEF Spec

\* The lock record keeps its types.
THEOREM TypeCorrect == Spec => []TypeOK
<1>1. IInv => TypeOK
  BY DEF IInv, Sound, TypeOK
<1> QED
  BY <1>1, InvariantHolds, PTL

\* For any number of threads nesting, upgrading, timing out and releasing in any
\* order, an exclusive hold of one excludes every hold of another.
THEOREM ExclusionHolds == Spec => []MutualExclusion
<1>1. IInv => MutualExclusion
  BY SoundExcludes DEF IInv, MutualExclusion
<1> QED
  BY <1>1, InvariantHolds, PTL

\* The counters always equal the holds, so a release never frees the lock under
\* a holder and never leaves it taken by nobody.
THEOREM CountsHold == Spec => []CountsMatchHolds
<1>1. IInv => CountsMatchHolds
  BY DEF IInv, Sound, CountsMatchHolds
<1> QED
  BY <1>1, InvariantHolds, PTL

\* No operation ends while the head of the queue could be granted.
THEOREM WakeupsHold == Spec => []NoLostWakeup
<1>1. IInv => NoLostWakeup
  BY DEF IInv, NoLostWakeup
<1> QED
  BY <1>1, InvariantHolds, PTL

\* No thread queues behind a hold of its own, except to upgrade it.
THEOREM NestingHolds == Spec => []HolderQueuesOnlyToUpgrade
<1>1. IInv => HolderQueuesOnlyToUpgrade
  BY DEF IInv, Sound, HolderQueuesOnlyToUpgrade
<1> QED
  BY <1>1, InvariantHolds, PTL

-----------------------------------------------------------------------------
(* The order of service *)

Before(l, t, u) ==
  \E i, j \in 1..Len(l.queue) : i < j /\ l.queue[i].tid = t /\ l.queue[j].tid = u

\* u neither holds the lock nor waits for it.
Newcomer(l, u) == l.stacks[u] = << >> /\ ~Waiting(l, u)

\* On the way from l to k nobody passed a waiter that is queued in both.
InOrder(l, k) ==
  \A t, u \in Thread : InQueue(l, t) /\ InQueue(k, t) =>
    /\ Before(l, t, u) \/ Newcomer(l, u) =>
         k.granted[u] = "none" /\ (InQueue(k, u) => Before(k, t, u))
    /\ Newcomer(l, u) => k.stacks[u] = << >>

\* Dispatching grants the first n waiters and nobody else.
LEMMA DispatchSkips ==
  ASSUME NEW l, Sound(l)
  PROVE  \E n \in 0..Len(l.queue) :
           /\ Len(Dispatch(l).queue) = Len(l.queue) - n
           /\ \A i \in 1..(Len(l.queue) - n) : Dispatch(l).queue[i] = l.queue[n + i]
           /\ Dispatch(l).stacks = l.stacks
           /\ \A u \in Thread : (\A i \in 1..n : l.queue[i].tid # u) =>
                 Dispatch(l).granted[u] = l.granted[u]
<1> DEFINE q == l.queue
           d == Dispatch(l)
<1>0. /\ l \in LockState /\ q \in Seq(Waiter) /\ Len(q) \in Nat
      /\ \A j \in 1..Len(q) : q[j].tid \in Thread /\ q[j].mode \in Mode
  BY QueueElement DEF Sound
<1>1. CASE d = l
  <2>1. 0 \in 0..Len(q) /\ Len(q) - 0 = Len(q) /\ \A i \in 1..Len(q) : q[0 + i] = q[i]
    BY <1>0
  <2> HIDE DEF d
  <2> QED BY <1>0, <1>1, <2>1 DEF d
<1>2. CASE d # l /\ Head(q).mode = "exclusive"
  <2>1. q # << >> /\ d = [l EXCEPT !.writer = Head(q).tid, !.writerCount = @ + 1, !.queue = Tail(@),
                                 !.granted[Head(q).tid] = "exclusive"]
    BY <1>2 DEF Dispatch, GrantWriter
  <2>2. /\ d.queue = Tail(q) /\ d.stacks = l.stacks
        /\ d.granted = [l.granted EXCEPT ![Head(q).tid] = "exclusive"]
    BY <1>0, <2>1 DEF LockState
  <2>3. Head(q) = q[1] /\ Len(Tail(q)) = Len(q) - 1 /\ 1 \in 0..Len(q) /\ 1 \in 1..Len(q)
        /\ \A j \in 1..Len(Tail(q)) : Tail(q)[j] = q[j + 1]
    BY <1>0, <2>1, HeadTailProperties, EmptySeq
  <2>4. \A j \in 1..(Len(q) - 1) : d.queue[j] = q[1 + j]
    BY <1>0, <2>2, <2>3
  <2>5. \A u \in Thread : q[1].tid # u => d.granted[u] = l.granted[u]
    BY <1>0, <2>2, <2>3 DEF LockState
  <2>6. \A u \in Thread : (\A i \in 1..1 : q[i].tid # u) => d.granted[u] = l.granted[u]
    BY <2>5
  <2>7. Len(d.queue) = Len(q) - 1
    BY <2>2, <2>3
  <2> HIDE DEF d
  <2> QED BY <2>2, <2>3, <2>4, <2>6, <2>7 DEF d
<1>3. CASE d # l /\ Head(q).mode # "exclusive"
  <2> DEFINE n   == ReaderRun(q)
             won == {q[j].tid : j \in 1..n}
  <2>1. d = GrantReaders(l)
    BY <1>3 DEF Dispatch
  <2>2. n \in 0..Len(q)
    BY <1>0, ReaderRunProperties
  <2>3. /\ d.queue = SubSeq(q, n + 1, Len(q)) /\ d.stacks = l.stacks
        /\ \A u \in Thread : u \notin won => d.granted[u] = l.granted[u]
    <3>1. d = [l EXCEPT !.shared  = [u \in Thread |-> IF u \in won THEN @[u] + 1 ELSE @[u]],
                        !.queue   = SubSeq(@, n + 1, Len(@)),
                        !.granted = [u \in Thread |-> IF u \in won THEN "shared" ELSE @[u]]]
      BY <2>1 DEF GrantReaders
    <3> HIDE DEF n, won, d
    <3> QED
      BY <1>0, <3>1 DEF LockState
  <2>4. \A u \in Thread : (\A i \in 1..n : q[i].tid # u) => u \notin won
    OBVIOUS
  <2> HIDE DEF n, won
  <2>5. n + 1 \in Nat \ {0} /\ Len(q) <= Len(q) /\ n + 1 <= Len(q) + 1
    BY <1>0, <2>2
  <2>6. /\ Len(SubSeq(q, n + 1, Len(q))) = Len(q) - (n + 1) + 1
        /\ \A j \in 1..(Len(q) - (n + 1) + 1) : SubSeq(q, n + 1, Len(q))[j] = q[(n + 1) + j - 1]
    BY <1>0, <2>5, Slice
  <2>7. Len(q) - (n + 1) + 1 = Len(q) - n /\ \A j \in Nat : (n + 1) + j - 1 = n + j
    BY <1>0, <2>2
  <2>8. Len(d.queue) = Len(q) - n /\ \A j \in 1..(Len(q) - n) : d.queue[j] = q[n + j]
    BY <1>0, <2>2, <2>3, <2>6, <2>7
  <2>9. \A u \in Thread : (\A i \in 1..n : q[i].tid # u) => d.granted[u] = l.granted[u]
    BY <2>3, <2>4
  <2> HIDE DEF d
  <2> QED BY <2>2, <2>3, <2>8, <2>9 DEF d
<1> QED BY <1>1, <1>2, <1>3

\* Whoever is granted by a dispatch stood before everybody who stays.
LEMMA DispatchInOrder ==
  ASSUME NEW l, NEW k, Sound(k), InOrder(l, k)
  PROVE  InOrder(l, Dispatch(k))
<1> DEFINE q == k.queue
           d == Dispatch(k)
<1>0. k \in LockState /\ Len(q) \in Nat /\ QueueDistinct(k)
  BY QueueElement DEF Sound
<1>1. PICK n \in 0..Len(q) :
           /\ Len(d.queue) = Len(q) - n
           /\ \A i \in 1..(Len(q) - n) : d.queue[i] = q[n + i]
           /\ d.stacks = k.stacks
           /\ \A u \in Thread : (\A i \in 1..n : q[i].tid # u) => d.granted[u] = k.granted[u]
  BY DispatchSkips
<1> HIDE DEF d
<1>2. ASSUME NEW t, InQueue(d, t)
      PROVE  \E i \in 1..Len(q) : i > n /\ q[i].tid = t
  <2>1. PICK i \in 1..Len(d.queue) : d.queue[i].tid = t
    BY <1>2 DEF InQueue
  <2>2. n + i \in 1..Len(q) /\ n + i > n /\ q[n + i].tid = t
    BY <1>0, <1>1, <2>1
  <2> QED BY <2>2
<1>3. SUFFICES ASSUME NEW t \in Thread, NEW u \in Thread, InQueue(l, t), InQueue(d, t)
               PROVE  /\ Before(l, t, u) \/ Newcomer(l, u) =>
                           d.granted[u] = "none" /\ (InQueue(d, u) => Before(d, t, u))
                      /\ Newcomer(l, u) => d.stacks[u] = << >>
  BY DEF InOrder, d
<1>4. PICK i \in 1..Len(q) : i > n /\ q[i].tid = t
  BY <1>2, <1>3
<1>5. InQueue(k, t)
  BY <1>4 DEF InQueue
<1>6. /\ Before(l, t, u) \/ Newcomer(l, u) =>
           k.granted[u] = "none" /\ (InQueue(k, u) => Before(k, t, u))
      /\ Newcomer(l, u) => k.stacks[u] = << >>
  BY <1>3, <1>5 DEF InOrder
<1>7. ASSUME Before(l, t, u) \/ Newcomer(l, u)
      PROVE  d.granted[u] = "none" /\ (InQueue(d, u) => Before(d, t, u))
  <2>1. ASSUME NEW j \in 1..Len(q), q[j].tid = u PROVE i < j
    <3>1. InQueue(k, u)
      BY <2>1 DEF InQueue
    <3>2. PICK a \in 1..Len(q), b \in 1..Len(q) : a < b /\ q[a].tid = t /\ q[b].tid = u
      BY <1>6, <1>7, <3>1 DEF Before
    <3>3. a = i /\ b = j
      BY <1>0, <1>4, <2>1, <3>2 DEF QueueDistinct
    <3> QED BY <3>2, <3>3
  <2>2. d.granted[u] = "none"
    <3>1. \A j \in 1..n : q[j].tid # u
      <4> SUFFICES ASSUME NEW j \in 1..n, q[j].tid = u PROVE FALSE
        OBVIOUS
      <4>1. j \in 1..Len(q) /\ ~(i < j)
        BY <1>0, <1>1, <1>4
      <4> QED BY <2>1, <4>1
    <3> QED BY <1>1, <1>6, <1>7, <3>1
  <2>3. ASSUME InQueue(d, u) PROVE Before(d, t, u)
    <3>1. PICK j \in 1..Len(q) : j > n /\ q[j].tid = u
      BY <1>2, <2>3
    <3>2. i < j
      BY <2>1, <3>1
    <3>3. i - n \in 1..Len(d.queue) /\ j - n \in 1..Len(d.queue) /\ i - n < j - n
          /\ n + (i - n) = i /\ n + (j - n) = j
      BY <1>0, <1>1, <1>4, <3>1, <3>2
    <3>4. d.queue[i - n] = q[i] /\ d.queue[j - n] = q[j]
      BY <1>1, <3>3
    <3> QED BY <1>4, <3>1, <3>3, <3>4 DEF Before
  <2> QED BY <2>2, <2>3
<1>8. Newcomer(l, u) => d.stacks[u] = << >>
  BY <1>1, <1>6
<1> QED BY <1>7, <1>8

\* Taking a waiter out passes nobody.
LEMMA WithoutInOrder ==
  ASSUME NEW l, NEW k, Sound(k), InOrder(l, k), NEW i \in 1..Len(k.queue)
  PROVE  InOrder(l, [k EXCEPT !.queue = SubSeq(@, 1, i - 1) \o SubSeq(@, i + 1, Len(@))])
<1> DEFINE q == k.queue
           r == SubSeq(q, 1, i - 1) \o SubSeq(q, i + 1, Len(q))
           c == [k EXCEPT !.queue = r]
<1>0. k \in LockState /\ q \in Seq(Waiter) /\ Len(q) \in Nat /\ QueueDistinct(k)
  BY QueueElement DEF Sound
<1>1. /\ Len(r) = Len(q) - 1
      /\ \A j \in 1..Len(r) : r[j] = IF j < i THEN q[j] ELSE q[j + 1]
  BY <1>0, Omitted
<1>2. c = [k EXCEPT !.queue = SubSeq(@, 1, i - 1) \o SubSeq(@, i + 1, Len(@))]
  OBVIOUS
<1> HIDE DEF r
<1>3. c.queue = r /\ c.granted = k.granted /\ c.stacks = k.stacks
  BY <1>0 DEF LockState
<1> HIDE DEF c
<1>4. ASSUME NEW x \in 1..Len(r)
      PROVE  \E y \in 1..Len(q) : y # i /\ r[x] = q[y] /\ x = IF y < i THEN y ELSE y - 1
  <2>1. CASE x < i
    BY <1>0, <1>1, <2>1
  <2>2. CASE ~(x < i)
    <3>1. x + 1 \in 1..Len(q) /\ ~(x + 1 < i) /\ x + 1 # i /\ x = (x + 1) - 1 /\ r[x] = q[x + 1]
      BY <1>0, <1>1, <2>2
    <3> QED BY <3>1
  <2> QED BY <2>1, <2>2
<1>5. SUFFICES ASSUME NEW t \in Thread, NEW u \in Thread, InQueue(l, t), InQueue(c, t)
               PROVE  /\ Before(l, t, u) \/ Newcomer(l, u) =>
                           c.granted[u] = "none" /\ (InQueue(c, u) => Before(c, t, u))
                      /\ Newcomer(l, u) => c.stacks[u] = << >>
  BY <1>2 DEF InOrder
<1>6. PICK x \in 1..Len(r) : r[x].tid = t
  BY <1>3, <1>5 DEF InQueue
<1>7. PICK y \in 1..Len(q) : y # i /\ r[x] = q[y] /\ x = IF y < i THEN y ELSE y - 1
  BY <1>4
<1>8. InQueue(k, t)
  BY <1>6, <1>7 DEF InQueue
<1>9. /\ Before(l, t, u) \/ Newcomer(l, u) =>
           k.granted[u] = "none" /\ (InQueue(k, u) => Before(k, t, u))
      /\ Newcomer(l, u) => k.stacks[u] = << >>
  BY <1>5, <1>8 DEF InOrder
<1>10. ASSUME Before(l, t, u) \/ Newcomer(l, u), InQueue(c, u) PROVE Before(c, t, u)
  <2>1. PICK v \in 1..Len(r) : r[v].tid = u
    BY <1>3, <1>10 DEF InQueue
  <2>2. PICK w \in 1..Len(q) : w # i /\ r[v] = q[w] /\ v = IF w < i THEN w ELSE w - 1
    BY <1>4
  <2>3. InQueue(k, u)
    BY <2>1, <2>2 DEF InQueue
  <2>4. PICK a \in 1..Len(q), b \in 1..Len(q) : a < b /\ q[a].tid = t /\ q[b].tid = u
    BY <1>9, <1>10, <2>3 DEF Before
  <2>5. a = y /\ b = w
    BY <1>0, <1>6, <1>7, <2>1, <2>2, <2>4 DEF QueueDistinct
  <2>6. x < v
    BY <1>7, <2>2, <2>4, <2>5
  <2> QED BY <1>3, <1>6, <2>1, <2>6 DEF Before
<1> QED BY <1>3, <1>9, <1>10

\* Who neither holds the lock nor waits for it is not counted either.
LEMMA NewcomerUncounted ==
  ASSUME NEW l, Sound(l), NEW u \in Thread, Newcomer(l, u)
  PROVE  ~(l.shared[u] > 0) /\ l.writer # u
<1>1. /\ l.stacks[u] \in Seq(Mode) /\ l.stacks[u] = << >> /\ Len(l.stacks[u]) = 0
      /\ l.granted[u] = "none"
  BY DEF Sound, LockState, Newcomer, Waiting
<1>2. Pending(l, u, "shared") = 0 /\ Pending(l, u, "exclusive") = 0
  BY <1>1 DEF Pending
<1>3. Count(l.stacks[u], "shared") = 0 /\ Count(l.stacks[u], "exclusive") = 0
  <2> DEFINE s == l.stacks[u]
  <2>1. s \in Seq(Mode) /\ "shared" \in Mode /\ "exclusive" \in Mode
    BY <1>1 DEF Mode
  <2>2. \A m \in Mode : \A i \in 1..Len(s) : s[i] # m
    BY <1>1
  <2> HIDE DEF s
  <2>3. Count(s, "shared") = 0 /\ Count(s, "exclusive") = 0
    BY <2>1, <2>2, CountType
  <2> QED BY <2>3 DEF s
<1> QED BY <1>2, <1>3 DEF Sound, CountsMatch

\* A change of holds that touches neither the queue nor a newcomer.
LEMMA SameQueueInOrder ==
  ASSUME NEW l, Sound(l), NEW k, k.queue = l.queue, k.granted = l.granted,
         \A u \in Thread : Newcomer(l, u) => k.stacks[u] = << >>
  PROVE  InOrder(l, k)
<1> SUFFICES ASSUME NEW t \in Thread, NEW u \in Thread, InQueue(l, t), InQueue(k, t)
             PROVE  /\ Before(l, t, u) \/ Newcomer(l, u) =>
                         k.granted[u] = "none" /\ (InQueue(k, u) => Before(k, t, u))
                    /\ Newcomer(l, u) => k.stacks[u] = << >>
  BY DEF InOrder
<1>1. ASSUME Before(l, t, u)
      PROVE  k.granted[u] = "none" /\ Before(k, t, u)
  BY <1>1 DEF Before, Sound, QueueDistinct
<1>2. ASSUME Newcomer(l, u)
      PROVE  k.granted[u] = "none" /\ ~InQueue(k, u)
  BY <1>2 DEF Newcomer, Waiting, InQueue
<1> QED BY <1>1, <1>2

\* A request joins the queue behind everybody, unless its thread is a holder.
LEMMA QueuedInOrder ==
  ASSUME NEW l, Sound(l), NEW t \in Thread, NEW m \in Mode, ~Waiting(l, t)
  PROVE  InOrder(l, Queued(l, t, m))
<1> DEFINE q == l.queue
           w == [tid |-> t, mode |-> m]
           r == IF Upgrades(l, t, m) THEN << w >> \o q ELSE Append(q, w)
           k == Queued(l, t, m)
<1>0. l \in LockState /\ q \in Seq(Waiter) /\ Len(q) \in Nat /\ QueueDistinct(l) /\ w \in Waiter
  BY QueueElement DEF Sound, Waiter
<1>1. k.queue = r /\ k.granted = l.granted /\ k.stacks = l.stacks
  BY <1>0 DEF LockState, Queued
<1>2. w.tid = t
  OBVIOUS
<1>3. CASE Upgrades(l, t, m)
  <2>1. ~Newcomer(l, t)
    BY <1>3, NewcomerUncounted DEF Upgrades
  <2>2. /\ Len(r) = Len(q) + 1
        /\ r[1] = w /\ \A i \in 2..Len(r) : r[i] = q[i - 1]
    <3>1. r = << w >> \o q
      BY <1>3
    <3> HIDE DEF w, r
    <3>2. << w >> \in Seq(Waiter) /\ Len(<< w >>) = 1 /\ << w >>[1] = w
      BY <1>0
    <3>3. /\ Len(<< w >> \o q) = 1 + Len(q)
          /\ \A i \in 1..(1 + Len(q)) :
               (<< w >> \o q)[i] = IF i <= 1 THEN << w >>[i] ELSE q[i - 1]
      BY <1>0, <3>2, ConcatProperties
    <3> QED BY <1>0, <3>1, <3>2, <3>3
  <2>3. \A i \in 1..Len(q) : i + 1 \in 1..Len(r) /\ r[i + 1] = q[i]
    <3> HIDE DEF w, r
    <3> SUFFICES ASSUME NEW i \in 1..Len(q) PROVE i + 1 \in 1..Len(r) /\ r[i + 1] = q[i]
      OBVIOUS
    <3>1. i + 1 \in 2..Len(r) /\ (i + 1) - 1 = i
      BY <1>0, <2>2
    <3> QED BY <1>0, <2>2, <3>1
  <2>4. \A i \in 1..Len(r) : i = 1 \/ (i - 1 \in 1..Len(q) /\ r[i] = q[i - 1])
    BY <1>0, <2>2
  <2> HIDE DEF r, k, w
  <2>5. SUFFICES ASSUME NEW x \in Thread, NEW u \in Thread, InQueue(l, x), InQueue(k, x)
                 PROVE  /\ Before(l, x, u) \/ Newcomer(l, u) =>
                             k.granted[u] = "none" /\ (InQueue(k, u) => Before(k, x, u))
                        /\ Newcomer(l, u) => k.stacks[u] = << >>
    BY DEF InOrder, k
  <2>6. ASSUME Before(l, x, u)
        PROVE  k.granted[u] = "none" /\ Before(k, x, u)
    <3>1. PICK i \in 1..Len(q), j \in 1..Len(q) : i < j /\ q[i].tid = x /\ q[j].tid = u
      BY <2>6 DEF Before
    <3>2. i + 1 < j + 1
      BY <1>0, <3>1
    <3>3. Before(k, x, u)
      BY <1>1, <2>3, <3>1, <3>2 DEF Before
    <3>4. k.granted[u] = "none"
      BY <1>0, <1>1, <3>1 DEF QueueDistinct
    <3> QED BY <3>3, <3>4
  <2>7. ASSUME Newcomer(l, u)
        PROVE  k.granted[u] = "none" /\ ~InQueue(k, u) /\ k.stacks[u] = << >>
    <3>1. u # t /\ l.granted[u] = "none" /\ l.stacks[u] = << >> /\ \A i \in 1..Len(q) : q[i].tid # u
      BY <2>1, <2>7 DEF Newcomer, Waiting, InQueue
    <3>2. ~InQueue(k, u)
      BY <1>1, <1>2, <2>2, <2>4, <3>1 DEF InQueue
    <3> QED BY <1>1, <3>1, <3>2
  <2> QED BY <2>6, <2>7
<1>4. CASE ~Upgrades(l, t, m)
  <2>2. /\ Len(r) = Len(q) + 1
        /\ r[Len(q) + 1] = w /\ \A i \in 1..Len(q) : r[i] = q[i]
    <3>1. r = Append(q, w)
      BY <1>4
    <3> HIDE DEF w, r
    <3> QED BY <1>0, <3>1, AppendProperties
  <2>4. \A i \in 1..Len(r) : i = Len(q) + 1 \/ i \in 1..Len(q)
    BY <1>0, <2>2
  <2>3. \A i \in 1..Len(q) : i \in 1..Len(r) /\ i < Len(q) + 1 /\ Len(q) + 1 \in 1..Len(r)
    BY <1>0, <2>2
  <2> HIDE DEF r, k, w
  <2>5. SUFFICES ASSUME NEW x \in Thread, NEW u \in Thread, InQueue(l, x), InQueue(k, x)
                 PROVE  /\ Before(l, x, u) \/ Newcomer(l, u) =>
                             k.granted[u] = "none" /\ (InQueue(k, u) => Before(k, x, u))
                        /\ Newcomer(l, u) => k.stacks[u] = << >>
    BY DEF InOrder, k
  <2>6. ASSUME Before(l, x, u)
        PROVE  k.granted[u] = "none" /\ Before(k, x, u)
    <3>1. PICK i \in 1..Len(q), j \in 1..Len(q) : i < j /\ q[i].tid = x /\ q[j].tid = u
      BY <2>6 DEF Before
    <3>3. Before(k, x, u)
      BY <1>1, <2>2, <2>3, <3>1 DEF Before
    <3>4. k.granted[u] = "none"
      BY <1>0, <1>1, <3>1 DEF QueueDistinct
    <3> QED BY <3>3, <3>4
  <2>7. ASSUME Newcomer(l, u)
        PROVE  k.granted[u] = "none" /\ (InQueue(k, u) => Before(k, x, u)) /\ k.stacks[u] = << >>
    <3>1. l.granted[u] = "none" /\ l.stacks[u] = << >> /\ \A i \in 1..Len(q) : q[i].tid # u
      BY <2>7 DEF Newcomer, Waiting, InQueue
    <3>2. PICK i \in 1..Len(q) : q[i].tid = x
      BY <2>5 DEF InQueue
    <3>3. ASSUME InQueue(k, u) PROVE Before(k, x, u)
      <4>1. PICK j \in 1..Len(r) : r[j].tid = u
        BY <1>1, <3>3 DEF InQueue
      <4>2. j = Len(q) + 1
        BY <2>2, <2>4, <3>1, <4>1
      <4>3. r[i].tid = x /\ i \in 1..Len(r) /\ i < j
        BY <2>2, <2>3, <3>2, <4>2
      <4> QED BY <1>1, <4>1, <4>3 DEF Before
    <3> QED BY <1>1, <3>1, <3>3
  <2> QED BY <2>6, <2>7
<1> QED BY <1>3, <1>4

\* A granted waiter that wakes up passes nobody: it was granted before.
LEMMA WokenInOrder ==
  ASSUME NEW l, NEW k, Sound(k), InOrder(l, k), NEW t \in Thread, k.granted[t] # "none"
  PROVE  InOrder(l, Woken(k, t))
<1> DEFINE c == Woken(k, t)
<1>1. /\ c.queue = k.queue
      /\ \A u \in Thread : c.granted[u] = IF u = t THEN "none" ELSE k.granted[u]
      /\ \A u \in Thread : u # t => c.stacks[u] = k.stacks[u]
  BY DEF Sound, LockState, Woken
<1> HIDE DEF c
<1> SUFFICES ASSUME NEW x \in Thread, NEW u \in Thread, InQueue(l, x), InQueue(c, x)
             PROVE  /\ Before(l, x, u) \/ Newcomer(l, u) =>
                         c.granted[u] = "none" /\ (InQueue(c, u) => Before(c, x, u))
                    /\ Newcomer(l, u) => c.stacks[u] = << >>
  BY DEF InOrder, c
<1>2. InQueue(k, x) /\ (InQueue(c, u) <=> InQueue(k, u)) /\ (Before(k, x, u) <=> Before(c, x, u))
  BY <1>1 DEF InQueue, Before
<1>3. /\ Before(l, x, u) \/ Newcomer(l, u) =>
           k.granted[u] = "none" /\ (InQueue(k, u) => Before(k, x, u))
      /\ Newcomer(l, u) => k.stacks[u] = << >>
  BY <1>2 DEF InOrder
<1> QED BY <1>1, <1>2, <1>3

\* Giving up passes nobody, whoever moves up behind.
LEMMA DropInOrder ==
  ASSUME NEW l, NEW k, Sound(k), InOrder(l, k), NEW t \in Thread, InQueue(k, t)
  PROVE  InOrder(l, Drop(k, t))
<1> DEFINE i == CHOOSE j \in 1..Len(k.queue) : k.queue[j].tid = t
           c == [k EXCEPT !.queue = SubSeq(@, 1, i - 1) \o SubSeq(@, i + 1, Len(@))]
<1>1. i \in 1..Len(k.queue)
  BY DEF InQueue
<1>2. Drop(k, t) = Dispatch(c)
  BY DEF Drop
<1> HIDE DEF i
<1>3. Sound(c) /\ InOrder(l, c)
  BY <1>1, WithoutSound, WithoutInOrder
<1> HIDE DEF c
<1> QED BY <1>2, <1>3, DispatchInOrder

\* A release serves the queue in order.
LEMMA ReleasedInOrder ==
  ASSUME NEW l, Sound(l), NEW t \in Thread, l.stacks[t] # << >>, ~Waiting(l, t)
  PROVE  InOrder(l, Released(l, t))
<1> DEFINE k == Popped(l, t)
<1>1. /\ k.queue = l.queue /\ k.granted = l.granted
      /\ \A u \in Thread : u # t => k.stacks[u] = l.stacks[u]
  BY DEF Sound, LockState, Popped
<1>2. Released(l, t) = Dispatch(k) /\ Sound(k)
  BY PoppedSound DEF Released
<1> HIDE DEF k
<1>3. \A u \in Thread : Newcomer(l, u) => k.stacks[u] = << >>
  BY <1>1 DEF Newcomer
<1>4. InOrder(l, k)
  BY <1>1, <1>3, SameQueueInOrder
<1> QED BY <1>2, <1>4, DispatchInOrder

\* An acquisition passes nobody, whether it nests, is granted at once or waits.
LEMMA AcquiredInOrder ==
  ASSUME NEW l, Sound(l), NEW t \in Thread, NEW m \in Mode, ~Waiting(l, t)
  PROVE  /\ InOrder(l, Acquired(l, t, m))
         /\ ~Nests(l, t, m) => /\ Sound(Dispatch(Queued(l, t, m)))
                               /\ InOrder(l, Dispatch(Queued(l, t, m)))
<1> DEFINE d == Dispatch(Queued(l, t, m))
           k == Take(l, t, m)
<1>1. CASE Nests(l, t, m)
  <2>1. /\ k.queue = l.queue /\ k.granted = l.granted
        /\ \A u \in Thread : u # t => k.stacks[u] = l.stacks[u]
    BY DEF Sound, LockState, Take
  <2>2. ~Newcomer(l, t)
    BY <1>1, NewcomerUncounted DEF Nests
  <2> HIDE DEF k
  <2>3. \A u \in Thread : Newcomer(l, u) => k.stacks[u] = << >>
    BY <2>1, <2>2 DEF Newcomer
  <2>4. InOrder(l, k)
    BY <2>1, <2>3, SameQueueInOrder
  <2> QED BY <1>1, <2>4 DEF Acquired, k
<1>2. CASE ~Nests(l, t, m)
  <2>1. Sound(Queued(l, t, m)) /\ InOrder(l, Queued(l, t, m))
    BY <1>2, QueuedSound, QueuedInOrder
  <2>2. Sound(d) /\ InOrder(l, d)
    BY <2>1, DispatchSound, DispatchInOrder
  <2>3. Acquired(l, t, m) = IF d.granted[t] # "none" THEN Woken(d, t) ELSE d
    BY <1>2 DEF Acquired
  <2> HIDE DEF d
  <2>4. InOrder(l, Acquired(l, t, m))
    BY <2>2, <2>3, WokenInOrder
  <2> QED BY <2>2, <2>4 DEF d
<1> QED BY <1>1, <1>2

\* Every step of the lock serves the waiters in order.
LEMMA StepInOrder == IInv /\ [Next]_vars => InOrder(rw, rw')
<1> SUFFICES ASSUME IInv, [Next]_vars PROVE InOrder(rw, rw')
  OBVIOUS
<1>0. Sound(rw) /\ InOrder(rw, rw)
  <2>1. Sound(rw) /\ \A u \in Thread : Newcomer(rw, u) => rw.stacks[u] = << >>
    BY DEF IInv, Newcomer
  <2> QED BY <2>1, SameQueueInOrder
<1>1. CASE UNCHANGED vars
  BY <1>0, <1>1 DEF vars
<1>2. ASSUME NEW t \in Thread, NEW m \in Mode, Acquire(t, m)
      PROVE  InOrder(rw, rw')
  BY <1>0, <1>2, AcquiredInOrder DEF Acquire, CanAcquire
<1>3. ASSUME NEW t \in Thread, NEW m \in Mode, TryAcquireFails(t, m)
      PROVE  InOrder(rw, rw')
  <2> DEFINE d == Dispatch(Queued(rw, t, m))
  <2>1. Sound(d) /\ InOrder(rw, d)
    BY <1>0, <1>3, AcquiredInOrder DEF TryAcquireFails, CanAcquire
  <2>2. InQueue(d, t)
    BY <1>0, <1>3, QueuedStays DEF TryAcquireFails, CanAcquire
  <2>3. rw' = Drop(d, t)
    BY <1>3 DEF TryAcquireFails
  <2> HIDE DEF d
  <2> QED BY <2>1, <2>2, <2>3, DropInOrder
<1>4. ASSUME NEW t \in Thread, Wake(t)
      PROVE  InOrder(rw, rw')
  BY <1>0, <1>4, WokenInOrder DEF Wake
<1>5. ASSUME NEW t \in Thread, Timeout(t)
      PROVE  InOrder(rw, rw')
  BY <1>0, <1>5, DropInOrder DEF Timeout
<1>6. ASSUME NEW t \in Thread, Release(t)
      PROVE  InOrder(rw, rw')
  BY <1>0, <1>6, ReleasedInOrder DEF Release
<1> QED
  BY <1>1, <1>2, <1>3, <1>4, <1>5, <1>6 DEF Next

\* A waiter has one place, so who stands before whom is a matter of places.
LEMMA PlaceOrder ==
  ASSUME NEW l, Sound(l), NEW t \in Thread, NEW u \in Thread, InQueue(l, t), InQueue(l, u)
  PROVE  Place(l, t) < Place(l, u) <=> Before(l, t, u)
<1>1. /\ Place(l, t) \in 1..Len(l.queue) /\ l.queue[Place(l, t)].tid = t
      /\ Place(l, u) \in 1..Len(l.queue) /\ l.queue[Place(l, u)].tid = u
  BY DEF Place, InQueue
<1>2. ASSUME Before(l, t, u) PROVE Place(l, t) < Place(l, u)
  <2>1. PICK i \in 1..Len(l.queue), j \in 1..Len(l.queue) :
             i < j /\ l.queue[i].tid = t /\ l.queue[j].tid = u
    BY <1>2 DEF Before
  <2>2. i = Place(l, t) /\ j = Place(l, u)
    BY <1>1, <2>1 DEF Sound, QueueDistinct
  <2> QED BY <2>1, <2>2
<1> QED BY <1>1, <1>2 DEF Before

\* For any number of threads, whoever waits is passed by nobody: neither by a
\* waiter behind it nor by a request that comes later, an upgrade excepted.
THEOREM ServedInOrder == Spec => NoOvertaking
<1> DEFINE A == \A t, u \in Thread :
                  /\ (/\ InQueue(rw, t) /\ InQueue(rw', t)
                      /\ InQueue(rw, u) /\ Place(rw, t) < Place(rw, u))
                     => rw'.granted[u] = "none"
                  /\ (/\ InQueue(rw, t) /\ InQueue(rw', t)
                      /\ rw.stacks[u] = << >> /\ ~Waiting(rw, u))
                     => /\ rw'.stacks[u] = << >>
                        /\ InQueue(rw', u) => Place(rw', t) < Place(rw', u)
<1>1. ASSUME IInv, IInv', [Next]_vars PROVE [A]_vars
  <2>1. Sound(rw) /\ Sound(rw') /\ InOrder(rw, rw')
    BY <1>1, StepInOrder DEF IInv
  <2>2. A
    <3> SUFFICES ASSUME NEW t \in Thread, NEW u \in Thread, InQueue(rw, t), InQueue(rw', t)
                 PROVE  /\ InQueue(rw, u) /\ Place(rw, t) < Place(rw, u) => rw'.granted[u] = "none"
                        /\ rw.stacks[u] = << >> /\ ~Waiting(rw, u) =>
                             /\ rw'.stacks[u] = << >>
                             /\ InQueue(rw', u) => Place(rw', t) < Place(rw', u)
      OBVIOUS
    <3>1. /\ Before(rw, t, u) \/ Newcomer(rw, u) =>
               rw'.granted[u] = "none" /\ (InQueue(rw', u) => Before(rw', t, u))
          /\ Newcomer(rw, u) => rw'.stacks[u] = << >>
      BY <2>1 DEF InOrder
    <3>2. InQueue(rw, u) /\ Place(rw, t) < Place(rw, u) => Before(rw, t, u)
      BY <2>1, PlaceOrder
    <3>3. InQueue(rw', u) /\ Before(rw', t, u) => Place(rw', t) < Place(rw', u)
      BY <2>1, PlaceOrder
    <3> QED BY <3>1, <3>2, <3>3 DEF Newcomer
  <2> QED BY <2>2
<1>2. NoOvertaking <=> [][A]_vars
  BY DEF NoOvertaking
<1> HIDE DEF A
<1> QED BY <1>1, <1>2, InvariantHolds, PTL DEF Spec
=============================================================================

----------------------------- MODULE RWLockLemmas -----------------------------
(***************************************************************************)
(* What the operators of RWLockOps preserve, for any set of threads.       *)
(***************************************************************************)
EXTENDS RWLockOps, FiniteSetTheorems, SequenceTheorems,
        WellFoundedInduction, TLAPS

\* Everything but Settled, which holds only where _dispatch has just run.
Sound(l) ==
  /\ l \in LockState
  /\ CountsMatch(l)
  /\ WriterAlone(l)
  /\ QueueDistinct(l)
  /\ QueueOfUpgrades(l)

-----------------------------------------------------------------------------
(* Slices of a sequence *)

\* The elements m to n of a sequence, m to m - 1 included.
LEMMA Slice ==
  ASSUME NEW S, NEW s \in Seq(S), NEW m \in Nat \ {0}, NEW n \in Nat,
         n <= Len(s), m <= n + 1
  PROVE  /\ SubSeq(s, m, n) \in Seq(S)
         /\ Len(SubSeq(s, m, n)) = n - m + 1
         /\ \A i \in 1..(n - m + 1) : SubSeq(s, m, n)[i] = s[m + i - 1]
<1>1. \A i \in m..n : s[i] \in S
  <2>1. Len(s) \in Nat
    BY LenProperties
  <2> QED
    BY <2>1, ElementOfSeq
<1>2. m \in Int /\ n \in Int
  OBVIOUS
<1>3. /\ SubSeq(s, m, n) \in Seq(S)
      /\ Len(SubSeq(s, m, n)) = IF m <= n THEN n - m + 1 ELSE 0
      /\ \A i \in 1..(n - m + 1) : SubSeq(s, m, n)[i] = s[m + i - 1]
  BY <1>1, <1>2, SubSeqProperties
<1>4. (IF m <= n THEN n - m + 1 ELSE 0) = n - m + 1
  OBVIOUS
<1> QED
  BY <1>3, <1>4

\* A nonempty set of naturals has a least element.
LEMMA Least ==
  ASSUME NEW T, T \subseteq Nat, T # {}
  PROVE  \E x \in T : \A y \in T : x <= y
<1>1. PICK x \in T : \A y \in T : ~(<< y, x >> \in OpToRel(<, Nat))
  BY NatLessThanWellFounded, WFMin
<1>2. \A y \in T : ~(y < x)
  BY <1>1 DEF OpToRel
<1> QED
  BY <1>2

-----------------------------------------------------------------------------
(* Counting modes on a stack *)

\* The number of holds of one mode is a natural number, positive exactly when
\* the stack has that mode.
LEMMA CountType ==
  ASSUME NEW s \in Seq(Mode), NEW m \in Mode
  PROVE  /\ Count(s, m) \in Nat
         /\ Count(s, m) = 0 <=> \A i \in 1..Len(s) : s[i] # m
<1> DEFINE S == {i \in 1..Len(s) : s[i] = m}
<1>1. IsFiniteSet(S)
  BY FS_Interval, FS_Subset, 0 \in Int, Len(s) \in Int, S \subseteq 1..Len(s), 1 \in Int
<1>2. Cardinality(S) \in Nat /\ (Cardinality(S) = 0 <=> S = {})
  BY <1>1, FS_CardinalityType, FS_EmptySet
<1>3. S = {} <=> \A i \in 1..Len(s) : s[i] # m
  OBVIOUS
<1> QED
  BY <1>2, <1>3 DEF Count

\* Recording one more acquisition counts it under its own mode only.
LEMMA CountAppend ==
  ASSUME NEW s \in Seq(Mode), NEW m \in Mode, NEW x \in Mode
  PROVE  Count(Append(s, x), m) = Count(s, m) + (IF x = m THEN 1 ELSE 0)
<1> DEFINE u == Append(s, x)
           n == Len(s) + 1
           S == {i \in 1..Len(s) : s[i] = m}
           T == {i \in 1..Len(u) : u[i] = m}
<1>0. Len(s) \in Nat
  BY LenProperties
<1>1. Len(u) = n /\ u[n] = x /\ \A i \in 1..Len(s) : u[i] = s[i]
  BY AppendProperties
<1>2. IsFiniteSet(S) /\ Cardinality(S) \in Nat
  <2>1. IsFiniteSet(1..Len(s)) /\ S \subseteq 1..Len(s)
    BY <1>0, FS_Interval
  <2>2. IsFiniteSet(S)
    BY <2>1, FS_Subset
  <2> QED
    BY <2>2, FS_CardinalityType
<1>3. n \notin S
  BY <1>0
<1>4. T = IF x = m THEN S \cup {n} ELSE S
  BY <1>0, <1>1
<1>5. Cardinality(S \cup {n}) = Cardinality(S) + 1
  BY <1>2, <1>3, FS_AddElement
<1>6. Count(u, m) = Cardinality(T) /\ Count(s, m) = Cardinality(S)
  BY DEF Count
<1> HIDE DEF u, n, S, T
<1>7. Count(u, m) = Count(s, m) + (IF x = m THEN 1 ELSE 0)
  BY <1>2, <1>4, <1>5, <1>6
<1> QED
  BY <1>7 DEF u

\* Undoing the newest acquisition takes it off the count of its own mode only.
LEMMA CountPop ==
  ASSUME NEW s \in Seq(Mode), s # << >>, NEW m \in Mode
  PROVE  /\ SubSeq(s, 1, Len(s) - 1) \in Seq(Mode)
         /\ s[Len(s)] \in Mode
         /\ Count(s, m) = Count(SubSeq(s, 1, Len(s) - 1), m)
                            + (IF s[Len(s)] = m THEN 1 ELSE 0)
<1> DEFINE r == SubSeq(s, 1, Len(s) - 1)
           x == s[Len(s)]
<1>0. Len(s) \in Nat /\ Len(s) > 0 /\ x \in Mode
  BY EmptySeq, ElementOfSeq
<1>1. r \in Seq(Mode) /\ Len(r) = Len(s) - 1 /\ \A i \in 1..Len(r) : r[i] = s[i]
  <2> DEFINE k == Len(s) - 1
  <2>1. k \in Nat /\ k <= Len(s) /\ 1 \in Nat \ {0} /\ 1 <= k + 1
    BY <1>0
  <2>2. /\ SubSeq(s, 1, k) \in Seq(Mode)
        /\ Len(SubSeq(s, 1, k)) = k - 1 + 1
        /\ \A i \in 1..(k - 1 + 1) : SubSeq(s, 1, k)[i] = s[1 + i - 1]
    <3> HIDE DEF k
    <3> QED
      BY <2>1, Slice
  <2> QED
    BY <1>0, <2>2
<1>2. s = Append(r, x)
  <2> DEFINE a == Append(r, x)
  <2>1. a \in Seq(Mode) /\ Len(a) = Len(s)
    BY <1>0, <1>1, AppendProperties
  <2>2. \A i \in 1..Len(s) : s[i] = a[i]
    BY <1>0, <1>1, AppendProperties
  <2> QED
    BY <2>1, <2>2, SeqEqual
<1>3. Count(Append(r, x), m) = Count(r, m) + (IF x = m THEN 1 ELSE 0)
  BY <1>0, <1>1, CountAppend
<1> QED
  BY <1>0, <1>1, <1>2, <1>3

-----------------------------------------------------------------------------
(* The operators *)

\* A queued request names a thread and a mode.
LEMMA QueueElement ==
  ASSUME NEW l \in LockState
  PROVE  /\ l.queue \in Seq(Waiter) /\ Len(l.queue) \in Nat
         /\ \A i \in 1..Len(l.queue) :
              /\ l.queue[i] \in Waiter
              /\ l.queue[i].tid \in Thread
              /\ l.queue[i].mode \in Mode
<1>1. l.queue \in Seq(Waiter)
  BY DEF LockState
<1>2. \A i \in 1..Len(l.queue) : l.queue[i] \in Waiter
  BY <1>1, ElementOfSeq
<1>3. \A w \in Waiter : w.tid \in Thread /\ w.mode \in Mode
  BY DEF Waiter
<1> QED
  BY <1>1, <1>2, <1>3, LenProperties

\* A nested acquisition keeps the lock sound.
LEMMA TakeSound ==
  ASSUME NEW l, Sound(l), NEW t \in Thread, NEW m \in Mode,
         Nests(l, t, m), ~Waiting(l, t)
  PROVE  Sound(Take(l, t, m))
<1> DEFINE k == Take(l, t, m)
<1>0. l \in LockState
  BY DEF Sound
<1>1. /\ k \in LockState
      /\ k.queue = l.queue /\ k.granted = l.granted
      /\ k.writer = (IF m = "exclusive" THEN t ELSE l.writer)
      /\ k.writerCount = (IF m = "exclusive" THEN l.writerCount + 1 ELSE l.writerCount)
      /\ \A u \in Thread :
           /\ k.shared[u] = IF u = t /\ m = "shared" THEN l.shared[u] + 1 ELSE l.shared[u]
           /\ k.stacks[u] = IF u = t THEN Append(l.stacks[u], m) ELSE l.stacks[u]
  <2>1. /\ l.shared \in [Thread -> Nat] /\ l.writer \in Thread \cup {NoThread}
        /\ l.writerCount \in Nat /\ l.stacks \in [Thread -> Seq(Mode)]
    BY <1>0 DEF LockState
  <2>2. Append(l.stacks[t], m) \in Seq(Mode)
    BY <2>1
  <2>3. /\ k.queue = l.queue /\ k.granted = l.granted
        /\ k.writer = (IF m = "exclusive" THEN t ELSE l.writer)
        /\ k.writerCount = (IF m = "exclusive" THEN l.writerCount + 1 ELSE l.writerCount)
        /\ k.shared = [l.shared EXCEPT ![t] = IF m = "shared" THEN @ + 1 ELSE @]
        /\ k.stacks = [l.stacks EXCEPT ![t] = Append(@, m)]
    BY <1>0 DEF LockState, Take
  <2>4. k \in LockState
    <3>1. k.shared \in [Thread -> Nat] /\ k.stacks \in [Thread -> Seq(Mode)]
      BY <2>1, <2>2, <2>3
    <3>2. k.writer \in Thread \cup {NoThread} /\ k.writerCount \in Nat
      BY <2>1, <2>3
    <3>3. k = [l EXCEPT !.writer = k.writer, !.writerCount = k.writerCount,
                        !.shared = k.shared, !.stacks = k.stacks]
      BY <1>0, <2>3 DEF LockState, Take
    <3> HIDE DEF k
    <3> QED
      BY <1>0, <3>1, <3>2, <3>3 DEF LockState
  <2> QED
    BY <2>1, <2>3, <2>4
<1> HIDE DEF k
<1>2. l.stacks[t] \in Seq(Mode) /\ l.granted[t] = "none"
  BY <1>0 DEF LockState, Waiting
<1>3. m = "exclusive" => l.writer = t
  BY DEF Nests, Mode
<1>4. CountsMatch(k)
  <2> SUFFICES ASSUME NEW u \in Thread
               PROVE  /\ k.shared[u] = Count(k.stacks[u], "shared") + Pending(k, u, "shared")
                      /\ LET n == Count(k.stacks[u], "exclusive") + Pending(k, u, "exclusive")
                         IN  IF k.writer = u THEN k.writerCount = n /\ n > 0 ELSE n = 0
    <3>1. k.writer = NoThread => k.writerCount = 0
      BY <1>1, ThreadAssumption DEF Sound, CountsMatch
    <3> QED
      BY <3>1 DEF CountsMatch
  <2>1. CountsMatch(l) /\ l.stacks[u] \in Seq(Mode)
    BY <1>0 DEF Sound, LockState
  <2>2. /\ Pending(k, u, "shared") = Pending(l, u, "shared")
        /\ Pending(k, u, "exclusive") = Pending(l, u, "exclusive")
        /\ Pending(l, u, "shared") \in Nat /\ Pending(l, u, "exclusive") \in Nat
    BY <1>1 DEF Pending
  <2>3. /\ Count(l.stacks[u], "shared") \in Nat /\ Count(l.stacks[u], "exclusive") \in Nat
        /\ Count(Append(l.stacks[u], m), "shared")
             = Count(l.stacks[u], "shared") + (IF m = "shared" THEN 1 ELSE 0)
        /\ Count(Append(l.stacks[u], m), "exclusive")
             = Count(l.stacks[u], "exclusive") + (IF m = "exclusive" THEN 1 ELSE 0)
    BY <2>1, CountAppend, CountType DEF Mode
  <2>4. m = "shared" \/ m = "exclusive"
    BY DEF Mode
  <2>5. l.writerCount \in Nat /\ l.shared[u] \in Nat
    BY <1>0 DEF LockState
  <2>6. /\ l.shared[u] = Count(l.stacks[u], "shared") + Pending(l, u, "shared")
        /\ LET n == Count(l.stacks[u], "exclusive") + Pending(l, u, "exclusive")
           IN  IF l.writer = u THEN l.writerCount = n /\ n > 0 ELSE n = 0
    BY <2>1 DEF CountsMatch
  <2>7. CASE u = t
    <3>1. k.stacks[u] = Append(l.stacks[u], m)
      BY <1>1, <2>7
    <3> QED
      BY <1>1, <1>3, <2>2, <2>3, <2>4, <2>5, <2>6, <2>7, <3>1
  <2>8. CASE u # t
    <3>1. k.stacks[u] = l.stacks[u] /\ k.shared[u] = l.shared[u]
      BY <1>1, <2>8
    <3> QED
      BY <1>1, <1>3, <2>2, <2>3, <2>4, <2>5, <2>6, <2>8, <3>1
  <2> QED
    BY <2>7, <2>8
<1>5. WriterAlone(k)
  BY <1>0, <1>1, <1>3, ThreadAssumption DEF Sound, WriterAlone, Nests, LockState
<1>6. QueueDistinct(k)
  BY <1>1 DEF Sound, QueueDistinct
<1>7. QueueOfUpgrades(k)
  <2>1. \A i \in 1..Len(l.queue) : l.queue[i].tid # t /\ l.queue[i].tid \in Thread
    BY <1>0, QueueElement DEF Waiting, InQueue
  <2> QED
    BY <1>0, <1>1, <2>1 DEF Sound, QueueOfUpgrades
<1> QED
  BY <1>1, <1>4, <1>5, <1>6, <1>7 DEF Sound, k

\* A waiter that joins the queue keeps the lock sound.
LEMMA QueuedSound ==
  ASSUME NEW l, Sound(l), NEW t \in Thread, NEW m \in Mode,
         ~Nests(l, t, m), ~Waiting(l, t)
  PROVE  Sound(Queued(l, t, m))
<1> DEFINE w == [tid |-> t, mode |-> m]
           q == IF Upgrades(l, t, m) THEN << w >> \o l.queue ELSE Append(l.queue, w)
           k == Queued(l, t, m)
<1>0. l \in LockState /\ w \in Waiter /\ l.queue \in Seq(Waiter) /\ Len(l.queue) \in Nat
  BY LenProperties DEF Sound, LockState, Waiter
<1>1. /\ q \in Seq(Waiter) /\ Len(q) = Len(l.queue) + 1
      /\ \/ q[1] = w /\ \A i \in 2..Len(q) : q[i] = l.queue[i - 1]
         \/ q[Len(q)] = w /\ \A i \in 1..Len(l.queue) : q[i] = l.queue[i]
  <2>1. CASE Upgrades(l, t, m)
    <3>1. << w >> \in Seq(Waiter) /\ Len(<< w >>) = 1 /\ << w >>[1] = w
      BY <1>0
    <3>2. q = << w >> \o l.queue
      BY <2>1
    <3> HIDE DEF w, q
    <3>3. /\ q \in Seq(Waiter) /\ Len(q) = 1 + Len(l.queue)
          /\ \A i \in 1..(1 + Len(l.queue)) :
               q[i] = IF i <= 1 THEN << w >>[i] ELSE l.queue[i - 1]
      BY <1>0, <3>1, <3>2, ConcatProperties
    <3> QED
      BY <1>0, <3>1, <3>3
  <2>2. CASE ~Upgrades(l, t, m)
    <3>1. q = Append(l.queue, w)
      BY <2>2
    <3> HIDE DEF w, q
    <3> QED
      BY <1>0, <3>1, AppendProperties
  <2> QED
    BY <2>1, <2>2
<1>2. k = [l EXCEPT !.queue = q]
  BY DEF Queued
<1> HIDE DEF k, q
<1>3. /\ k \in LockState /\ k.queue = q
      /\ k.shared = l.shared /\ k.writer = l.writer /\ k.writerCount = l.writerCount
      /\ k.granted = l.granted /\ k.stacks = l.stacks
  BY <1>0, <1>1, <1>2 DEF LockState
<1>4. CountsMatch(k)
  BY <1>3 DEF Sound, CountsMatch, Pending
<1>5. WriterAlone(k)
  BY <1>3 DEF Sound, WriterAlone
<1>6. QueueDistinct(k)
  <2>1. \A i \in 1..Len(l.queue) : l.queue[i].tid # t
    BY DEF Waiting, InQueue
  <2>2. l.granted[t] = "none"
    BY DEF Waiting
  <2> QED
    <3>1. QueueDistinct(l) /\ w.tid = t
      BY DEF Sound
    <3>2. CASE q[1] = w /\ \A i \in 2..Len(q) : q[i] = l.queue[i - 1]
      <4>1. \A i \in 2..Len(q) : i - 1 \in 1..Len(l.queue) /\ q[i] = l.queue[i - 1]
        BY <1>0, <1>1, <3>2
      <4>2. \A i \in 1..Len(q) : i = 1 \/ i \in 2..Len(q)
        BY <1>0, <1>1
      <4> HIDE DEF w
      <4>3. ASSUME NEW i \in 1..Len(q), NEW j \in 1..Len(q), q[i].tid = q[j].tid
            PROVE  i = j
        <5>1. CASE i = 1 /\ j \in 2..Len(q)
          BY <2>1, <3>1, <3>2, <4>1, <4>3, <5>1
        <5>2. CASE j = 1 /\ i \in 2..Len(q)
          BY <2>1, <3>1, <3>2, <4>1, <4>3, <5>2
        <5>3. CASE i \in 2..Len(q) /\ j \in 2..Len(q)
          <6> DEFINE a == i - 1
                     b == j - 1
          <6>1. a \in 1..Len(l.queue) /\ b \in 1..Len(l.queue)
            BY <4>1, <5>3
          <6>2. l.queue[a].tid = l.queue[b].tid
            BY <4>1, <4>3, <5>3
          <6> HIDE DEF a, b
          <6>3. a = b
            BY <3>1, <6>1, <6>2 DEF QueueDistinct
          <6> QED
            BY <6>3 DEF a, b
        <5> QED
          BY <4>2, <5>1, <5>2, <5>3
      <4>4. ASSUME NEW i \in 1..Len(q)
            PROVE  l.granted[q[i].tid] = "none"
        <5>1. CASE i = 1
          BY <2>2, <3>1, <3>2, <5>1
        <5>2. CASE i \in 2..Len(q)
          <6> DEFINE a == i - 1
          <6>1. a \in 1..Len(l.queue) /\ q[i] = l.queue[a]
            BY <4>1, <5>2
          <6> HIDE DEF a
          <6> QED
            BY <3>1, <6>1 DEF QueueDistinct
        <5> QED
          BY <4>2, <5>1, <5>2
      <4> QED
        BY <1>3, <4>3, <4>4 DEF QueueDistinct
    <3>3. CASE q[Len(q)] = w /\ \A i \in 1..Len(l.queue) : q[i] = l.queue[i]
      <4>1. \A i \in 1..Len(q) : i = Len(q) \/ i \in 1..Len(l.queue)
        BY <1>0, <1>1
      <4> HIDE DEF w
      <4> QED
        BY <1>3, <2>1, <2>2, <3>1, <3>3, <4>1 DEF QueueDistinct
    <3> QED
      BY <1>1, <3>2, <3>3
<1>7. QueueOfUpgrades(k)
  <2>1. l.writer # t /\ (l.shared[t] > 0 => m = "exclusive")
    BY DEF Nests, Mode
  <2> QED
    <3>1. QueueOfUpgrades(l) /\ w.tid = t /\ w.mode = m
      BY DEF Sound
    <3>2. \A i \in 1..Len(q) : q[i] = w \/ \E j \in 1..Len(l.queue) : q[i] = l.queue[j]
      <4>1. \A i \in 2..Len(q) : i - 1 \in 1..Len(l.queue)
        BY <1>0, <1>1
      <4>2. \A i \in 1..Len(q) : /\ i = 1 \/ i \in 2..Len(q)
                                 /\ i = Len(q) \/ i \in 1..Len(l.queue)
        BY <1>0, <1>1
      <4> HIDE DEF w
      <4> QED
        BY <1>1, <4>1, <4>2
    <3> HIDE DEF w
    <3> QED
      BY <1>3, <2>1, <3>1, <3>2 DEF QueueOfUpgrades
<1> QED
  BY <1>3, <1>4, <1>5, <1>6, <1>7 DEF Sound, k

\* There is a longest run of readers at the head of the queue.
LEMMA ReaderRunProperties ==
  ASSUME NEW q \in Seq(Waiter)
  PROVE  /\ ReaderRun(q) \in 0..Len(q)
         /\ \A i \in 1..ReaderRun(q) : q[i].mode = "shared"
         /\ ReaderRun(q) < Len(q) => q[ReaderRun(q) + 1].mode = "exclusive"
<1> DEFINE T == {i \in 1..Len(q) : q[i].mode = "exclusive"}
           Run(n) == /\ \A i \in 1..n : q[i].mode = "shared"
                     /\ n < Len(q) => q[n + 1].mode = "exclusive"
<1>0. Len(q) \in Nat /\ \A i \in 1..Len(q) : q[i].mode = "shared" \/ q[i].mode = "exclusive"
  <2>1. \A w \in Waiter : w.mode = "shared" \/ w.mode = "exclusive"
    BY DEF Waiter, Mode
  <2> QED
    BY <2>1, LenProperties, ElementOfSeq
<1>1. \E n \in 0..Len(q) : Run(n)
  <2>1. CASE T = {}
    <3>1. Run(Len(q))
      BY <1>0, <2>1
    <3> QED
      BY <1>0, <3>1
  <2>2. CASE T # {}
    <3>1. PICK x \in T : \A y \in T : x <= y
      BY <2>2, Least, T \subseteq Nat
    <3>2. x - 1 \in 0..Len(q) /\ (x - 1) + 1 = x /\ q[x].mode = "exclusive"
      BY <1>0, <3>1
    <3>3. \A i \in 1..(x - 1) : i \in 1..Len(q) /\ i \notin T
      BY <1>0, <3>1
    <3>4. Run(x - 1)
      BY <1>0, <3>2, <3>3
    <3> QED
      BY <3>2, <3>4
  <2> QED
    BY <2>1, <2>2
<1>2. ReaderRun(q) = CHOOSE n \in 0..Len(q) : Run(n)
  BY DEF ReaderRun
<1> HIDE DEF Run
<1>3. ReaderRun(q) \in 0..Len(q) /\ Run(ReaderRun(q))
  BY <1>1, <1>2
<1> QED
  BY <1>3 DEF Run

\* A writer granted from the head of the queue keeps the lock sound, and one
\* that is not entitled stays there.
LEMMA GrantWriterSound ==
  ASSUME NEW l, Sound(l), l.queue # << >>, l.writer = NoThread,
         Head(l.queue).mode = "exclusive"
  PROVE  Sound(GrantWriter(l)) /\ Settled(GrantWriter(l))
<1> DEFINE t == Head(l.queue).tid
           k == GrantWriter(l)
<1>0. /\ l \in LockState /\ l.queue \in Seq(Waiter) /\ Len(l.queue) \in Nat
      /\ Len(l.queue) > 0 /\ Head(l.queue) = l.queue[1] /\ t \in Thread
  <2>1. l \in LockState
    BY DEF Sound
  <2>2. l.queue \in Seq(Waiter) /\ Len(l.queue) \in Nat \ {0} /\ Head(l.queue) = l.queue[1]
    BY <2>1, QueueElement, EmptySeq
  <2>3. l.queue[1].tid \in Thread
    BY <2>1, <2>2, QueueElement
  <2> QED
    BY <2>1, <2>2, <2>3
<1>1. CASE \E u \in Thread \ {t} : l.shared[u] > 0
  <2>1. k = l
    BY <1>1 DEF GrantWriter
  <2>2. Dispatch(l) = k
    BY DEF Dispatch
  <2> QED
    BY <2>1, <2>2 DEF Settled
<1>2. CASE ~\E u \in Thread \ {t} : l.shared[u] > 0
  <2> HIDE DEF t
  <2>1. k = [l EXCEPT !.writer = t, !.writerCount = @ + 1, !.queue = Tail(@),
                      !.granted[t] = "exclusive"]
    BY <1>2 DEF GrantWriter, t
  <2>2. /\ Tail(l.queue) \in Seq(Waiter) /\ Len(Tail(l.queue)) = Len(l.queue) - 1
        /\ \A i \in 1..Len(Tail(l.queue)) : Tail(l.queue)[i] = l.queue[i + 1]
    BY <1>0, HeadTailProperties
  <2>3. /\ k.shared = l.shared /\ k.stacks = l.stacks /\ k.writer = t
        /\ k.writerCount = l.writerCount + 1 /\ k.queue = Tail(l.queue)
        /\ k.granted = [l.granted EXCEPT ![t] = "exclusive"]
    BY <1>0, <2>1 DEF LockState
  <2>4. k \in LockState
    <3>1. k.granted \in [Thread -> Mode \cup {"none"}] /\ k.writerCount \in Nat
      BY <1>0, <2>3 DEF LockState, Mode
    <3> QED
      BY <1>0, <2>1, <2>2, <2>3, <3>1 DEF LockState
  <2>5. \A i \in 1..Len(k.queue) :
          i + 1 \in 2..Len(l.queue) /\ i + 1 \in 1..Len(l.queue) /\ k.queue[i] = l.queue[i + 1]
    BY <1>0, <2>2, <2>3
  <2>6. QueueDistinct(l) /\ QueueOfUpgrades(l) /\ CountsMatch(l) /\ l.queue[1].tid = t
    BY <1>0 DEF Sound, t
  <2>7. \A i \in 1..Len(k.queue) : k.queue[i].tid # t
    <3> SUFFICES ASSUME NEW i \in 1..Len(k.queue), k.queue[i].tid = t PROVE FALSE
      OBVIOUS
    <3>1. l.queue[i + 1].tid = l.queue[1].tid /\ i + 1 \in 1..Len(l.queue) /\ 1 \in 1..Len(l.queue)
      BY <1>0, <2>5, <2>6
    <3>2. i + 1 = 1
      BY <2>6, <3>1 DEF QueueDistinct
    <3> QED
      BY <3>2
  <2>8. CountsMatch(k)
    <3>1. l.granted[t] = "none" /\ l.writerCount = 0 /\ t # NoThread
      BY <1>0, <2>6, ThreadAssumption DEF QueueDistinct, CountsMatch
    <3> SUFFICES ASSUME NEW u \in Thread
                 PROVE  /\ k.shared[u] = Count(k.stacks[u], "shared") + Pending(k, u, "shared")
                        /\ LET n == Count(k.stacks[u], "exclusive") + Pending(k, u, "exclusive")
                           IN  IF k.writer = u THEN k.writerCount = n /\ n > 0 ELSE n = 0
      BY <2>3, <3>1 DEF CountsMatch
    <3>2. /\ l.shared[u] = Count(l.stacks[u], "shared") + Pending(l, u, "shared")
          /\ Count(l.stacks[u], "exclusive") + Pending(l, u, "exclusive") = 0
      BY <2>6, ThreadAssumption DEF CountsMatch
    <3>3. Count(l.stacks[u], "exclusive") \in Nat
      BY <1>0, CountType DEF LockState, Mode
    <3>4. /\ Pending(k, u, "shared") = Pending(l, u, "shared")
          /\ Pending(k, u, "exclusive")
               = IF u = t THEN Pending(l, u, "exclusive") + 1 ELSE Pending(l, u, "exclusive")
          /\ Pending(l, u, "exclusive") \in Nat
      BY <1>0, <2>3, <3>1 DEF Pending, LockState
    <3> QED
      BY <2>3, <3>1, <3>2, <3>3, <3>4
  <2>9. WriterAlone(k)
    BY <1>2, <2>3 DEF WriterAlone
  <2>10. QueueDistinct(k)
    <3>1. ASSUME NEW i \in 1..Len(k.queue), NEW j \in 1..Len(k.queue),
                 k.queue[i].tid = k.queue[j].tid
          PROVE  i = j
      <4> DEFINE a == i + 1
                 b == j + 1
      <4>1. /\ a \in 1..Len(l.queue) /\ b \in 1..Len(l.queue)
            /\ l.queue[a].tid = l.queue[b].tid
        BY <2>5, <3>1
      <4> HIDE DEF a, b
      <4>2. a = b
        BY <2>6, <4>1 DEF QueueDistinct
      <4> QED
        BY <4>2 DEF a, b
    <3>2. ASSUME NEW i \in 1..Len(k.queue)
          PROVE  k.granted[k.queue[i].tid] = "none"
      <4> DEFINE a == i + 1
      <4>1. a \in 1..Len(l.queue) /\ k.queue[i] = l.queue[a]
        BY <2>5
      <4> HIDE DEF a
      <4> QED
        BY <1>0, <2>3, <2>6, <2>7, <4>1, QueueElement DEF QueueDistinct, LockState
    <3> QED
      BY <3>1, <3>2 DEF QueueDistinct
  <2>11. QueueOfUpgrades(k)
    <3> SUFFICES ASSUME NEW i \in 1..Len(k.queue)
                 PROVE  LET w == k.queue[i]
                        IN  k.writer # w.tid /\ (k.shared[w.tid] > 0 => w.mode = "exclusive")
      BY DEF QueueOfUpgrades
    <3> DEFINE a == i + 1
    <3>1. a \in 1..Len(l.queue) /\ k.queue[i] = l.queue[a]
      BY <2>5
    <3> HIDE DEF a
    <3> QED
      BY <2>3, <2>6, <2>7, <3>1 DEF QueueOfUpgrades
  <2>12. Settled(k)
    BY <1>0, <2>3, ThreadAssumption DEF Settled, Dispatch
  <2> QED
    BY <2>4, <2>8, <2>9, <2>10, <2>11, <2>12 DEF Sound
<1> QED
  BY <1>1, <1>2

\* Readers granted as a batch keep the lock sound, and behind them the queue is
\* empty or starts with a writer they block.
LEMMA GrantReadersSound ==
  ASSUME NEW l, Sound(l), l.queue # << >>, l.writer = NoThread,
         Head(l.queue).mode = "shared"
  PROVE  Sound(GrantReaders(l)) /\ Settled(GrantReaders(l)) /\ GrantReaders(l) # l
<1> DEFINE n   == ReaderRun(l.queue)
           q   == l.queue
           won == {q[i].tid : i \in 1..n}
           k   == GrantReaders(l)
<1>0. /\ l \in LockState /\ q \in Seq(Waiter) /\ Len(q) \in Nat /\ Len(q) > 0
      /\ Head(q) = q[1]
      /\ \A i \in 1..Len(q) : q[i].tid \in Thread
  <2>1. l \in LockState
    BY DEF Sound
  <2>2. q \in Seq(Waiter) /\ Len(q) \in Nat \ {0} /\ Head(q) = q[1]
    BY <2>1, QueueElement, EmptySeq
  <2> QED
    BY <2>1, <2>2, QueueElement
<1>1. n \in 1..Len(q) /\ (n < Len(q) => q[n + 1].mode = "exclusive")
  BY <1>0, ReaderRunProperties
<1>2. k = [l EXCEPT !.shared  = [t \in Thread |-> IF t \in won THEN @[t] + 1 ELSE @[t]],
                    !.queue   = SubSeq(@, n + 1, Len(@)),
                    !.granted = [t \in Thread |-> IF t \in won THEN "shared" ELSE @[t]]]
  BY DEF GrantReaders
<1>3. \A i \in 1..n : q[i].tid \in won
  OBVIOUS
<1>4. \A t \in won : \E i \in 1..Len(q) : i <= n /\ q[i].tid = t
  BY <1>0, <1>1
<1> HIDE DEF won, n, k
<1>5. /\ SubSeq(q, n + 1, Len(q)) \in Seq(Waiter)
      /\ Len(SubSeq(q, n + 1, Len(q))) = Len(q) - n
      /\ \A i \in 1..(Len(q) - n) : SubSeq(q, n + 1, Len(q))[i] = q[n + i]
  <2>1. n + 1 \in Nat \ {0} /\ Len(q) <= Len(q) /\ n + 1 <= Len(q) + 1
    BY <1>0, <1>1
  <2>2. /\ SubSeq(q, n + 1, Len(q)) \in Seq(Waiter)
        /\ Len(SubSeq(q, n + 1, Len(q))) = Len(q) - (n + 1) + 1
        /\ \A i \in 1..(Len(q) - (n + 1) + 1) :
             SubSeq(q, n + 1, Len(q))[i] = q[(n + 1) + i - 1]
    BY <1>0, <2>1, Slice
  <2>3. Len(q) - (n + 1) + 1 = Len(q) - n /\ \A i \in Nat : (n + 1) + i - 1 = n + i
    BY <1>0, <1>1
  <2> QED
    BY <1>0, <1>1, <2>2, <2>3
<1>6. /\ k.stacks = l.stacks /\ k.writer = NoThread /\ k.writerCount = l.writerCount
      /\ k.queue = SubSeq(q, n + 1, Len(q))
      /\ k.shared = [t \in Thread |-> IF t \in won THEN l.shared[t] + 1 ELSE l.shared[t]]
      /\ k.granted = [t \in Thread |-> IF t \in won THEN "shared" ELSE l.granted[t]]
  BY <1>0, <1>2 DEF LockState
<1>6a. k.stacks = l.stacks /\ k.writer = NoThread
  BY <1>6
<1>6b. \A u \in Thread :
         /\ k.shared[u] = IF u \in won THEN l.shared[u] + 1 ELSE l.shared[u]
         /\ k.granted[u] = IF u \in won THEN "shared" ELSE l.granted[u]
  BY <1>6
<1>7. k \in LockState
  <2>1. k.shared \in [Thread -> Nat] /\ k.granted \in [Thread -> Mode \cup {"none"}]
    BY <1>0, <1>6 DEF LockState, Mode
  <2>2. k.queue \in Seq(Waiter)
    BY <1>5, <1>6
  <2>3. k = [l EXCEPT !.shared = k.shared, !.queue = k.queue, !.granted = k.granted]
    BY <1>0, <1>2, <1>6 DEF LockState
  <2> QED
    BY <1>0, <2>1, <2>2, <2>3 DEF LockState
<1>8. /\ Len(k.queue) = Len(q) - n
      /\ \A i \in 1..Len(k.queue) : n + i \in 1..Len(q) /\ k.queue[i] = q[n + i]
  BY <1>0, <1>1, <1>5, <1>6
<1>9. QueueDistinct(l) /\ QueueOfUpgrades(l) /\ CountsMatch(l)
  BY DEF Sound
<1>10. \A i \in 1..Len(k.queue) : k.queue[i].tid \in Thread \ won
  <2> SUFFICES ASSUME NEW i \in 1..Len(k.queue), k.queue[i].tid \in won PROVE FALSE
    BY <1>0, <1>8
  <2> DEFINE a == n + i
  <2>1. a \in 1..Len(q) /\ k.queue[i] = q[a] /\ a > n
    BY <1>1, <1>8
  <2> HIDE DEF a
  <2>2. PICK b \in 1..Len(q) : b <= n /\ q[b].tid = q[a].tid
    BY <1>4, <2>1
  <2>3. a = b
    BY <1>9, <2>1, <2>2 DEF QueueDistinct
  <2> QED
    BY <1>1, <2>1, <2>2, <2>3
<1>11. CountsMatch(k)
  <2> SUFFICES ASSUME NEW u \in Thread
               PROVE  /\ k.shared[u] = Count(k.stacks[u], "shared") + Pending(k, u, "shared")
                      /\ LET c == Count(k.stacks[u], "exclusive") + Pending(k, u, "exclusive")
                         IN  IF k.writer = u THEN k.writerCount = c /\ c > 0 ELSE c = 0
    BY <1>6, <1>9 DEF CountsMatch
  <2>1. /\ l.shared[u] = Count(l.stacks[u], "shared") + Pending(l, u, "shared")
        /\ Count(l.stacks[u], "exclusive") + Pending(l, u, "exclusive") = 0
    BY <1>9, ThreadAssumption DEF CountsMatch
  <2>2. Count(l.stacks[u], "exclusive") \in Nat /\ Count(l.stacks[u], "shared") \in Nat
    BY <1>0, CountType DEF LockState, Mode
  <2>3. u \in won => l.granted[u] = "none"
    BY <1>4, <1>9 DEF QueueDistinct
  <2>4. /\ Pending(k, u, "exclusive") = Pending(l, u, "exclusive")
        /\ Pending(k, u, "shared")
             = IF u \in won THEN Pending(l, u, "shared") + 1 ELSE Pending(l, u, "shared")
        /\ Pending(l, u, "shared") \in Nat
    BY <1>6b, <2>3 DEF Pending
  <2>5. k.shared[u] = IF u \in won THEN l.shared[u] + 1 ELSE l.shared[u]
    BY <1>6b
  <2> QED
    BY <1>6a, <2>1, <2>2, <2>4, <2>5, ThreadAssumption
<1>12. WriterAlone(k)
  BY <1>6 DEF WriterAlone
<1>13. QueueDistinct(k)
  <2>1. ASSUME NEW i \in 1..Len(k.queue), NEW j \in 1..Len(k.queue),
               k.queue[i].tid = k.queue[j].tid
        PROVE  i = j
    <3> DEFINE a == n + i
               b == n + j
    <3>1. a \in 1..Len(q) /\ b \in 1..Len(q) /\ q[a].tid = q[b].tid
      BY <1>8, <2>1
    <3> HIDE DEF a, b
    <3>2. a = b
      BY <1>9, <3>1 DEF QueueDistinct
    <3> QED
      BY <1>1, <3>2 DEF a, b
  <2>2. ASSUME NEW i \in 1..Len(k.queue)
        PROVE  k.granted[k.queue[i].tid] = "none"
    <3> DEFINE a == n + i
    <3>1. a \in 1..Len(q) /\ k.queue[i] = q[a]
      BY <1>8
    <3> HIDE DEF a
    <3> QED
      BY <1>6b, <1>9, <1>10, <3>1 DEF QueueDistinct
  <2> QED
    BY <2>1, <2>2 DEF QueueDistinct
<1>14. QueueOfUpgrades(k)
  <2> SUFFICES ASSUME NEW i \in 1..Len(k.queue)
               PROVE  LET w == k.queue[i]
                      IN  k.writer # w.tid /\ (k.shared[w.tid] > 0 => w.mode = "exclusive")
    BY DEF QueueOfUpgrades
  <2> DEFINE a == n + i
  <2>1. a \in 1..Len(q) /\ k.queue[i] = q[a]
    BY <1>8
  <2> HIDE DEF a
  <2> QED
    BY <1>6a, <1>6b, <1>9, <1>10, <2>1, ThreadAssumption DEF QueueOfUpgrades
<1>15. Settled(k)
  <2>1. CASE k.queue = << >>
    BY <2>1 DEF Settled, Dispatch
  <2>2. CASE k.queue # << >>
    <3>1. Len(k.queue) \in Nat \ {0} /\ Head(k.queue) = k.queue[1]
      BY <1>7, <2>2, QueueElement, EmptySeq
    <3>2. Head(k.queue).mode = "exclusive"
      BY <1>0, <1>1, <1>8, <3>1
    <3>3. q[1].tid \in Thread \ {Head(k.queue).tid} /\ k.shared[q[1].tid] > 0
      <4>1. q[1].tid \in won /\ q[1].tid \in Thread
        BY <1>0, <1>1, <1>3
      <4>2. l.shared[q[1].tid] \in Nat
        BY <1>0, <4>1 DEF LockState
      <4> QED
        BY <1>6b, <1>10, <3>1, <4>1, <4>2
    <3>4. GrantWriter(k) = k
      BY <3>3 DEF GrantWriter
    <3> QED
      BY <1>6, <2>2, <3>2, <3>4 DEF Settled, Dispatch
  <2> QED
    BY <2>1, <2>2
<1>16. k # l
  BY <1>0, <1>1, <1>8
<1> QED
  BY <1>7, <1>11, <1>12, <1>13, <1>14, <1>15, <1>16 DEF Sound, k

\* _dispatch keeps the lock sound and leaves nobody at the head of the queue
\* who is entitled to the lock.
LEMMA DispatchSound ==
  ASSUME NEW l, Sound(l)
  PROVE  Sound(Dispatch(l)) /\ Settled(Dispatch(l))
<1>1. CASE l.queue = << >> \/ l.writer # NoThread
  BY <1>1 DEF Dispatch, Settled
<1>2. CASE l.queue # << >> /\ l.writer = NoThread
  <2>1. Head(l.queue).mode \in Mode
    <3>1. l \in LockState
      BY DEF Sound
    <3>2. Len(l.queue) \in Nat \ {0} /\ Head(l.queue) = l.queue[1]
      BY <1>2, <3>1, QueueElement, EmptySeq
    <3> QED
      BY <3>1, <3>2, QueueElement
  <2>2. CASE Head(l.queue).mode = "exclusive"
    BY <1>2, <2>2, GrantWriterSound DEF Dispatch
  <2>3. CASE Head(l.queue).mode = "shared"
    BY <1>2, <2>3, GrantReadersSound DEF Dispatch
  <2> QED
    BY <2>1, <2>2, <2>3 DEF Mode
<1> QED
  BY <1>1, <1>2

\* Whether the lock is settled depends on the queue, the writer and the readers.
LEMMA SettledSame ==
  ASSUME NEW l, Sound(l), Settled(l), NEW k, k \in LockState,
         k.queue = l.queue, k.writer = l.writer,
         \A u \in Thread : l.shared[u] > 0 => k.shared[u] > 0
  PROVE  Settled(k)
<1>1. CASE l.queue = << >> \/ l.writer # NoThread
  BY <1>1 DEF Dispatch, Settled
<1>2. CASE l.queue # << >> /\ l.writer = NoThread
  <2> DEFINE t == Head(l.queue).tid
  <2>1. Head(l.queue).mode \in Mode /\ l \in LockState /\ t \in Thread
    <3>1. l \in LockState
      BY DEF Sound
    <3>2. Len(l.queue) \in Nat \ {0} /\ Head(l.queue) = l.queue[1]
      BY <1>2, <3>1, QueueElement, EmptySeq
    <3> QED
      BY <3>1, <3>2, QueueElement
  <2>2. Head(l.queue).mode = "exclusive"
    <3> SUFFICES ASSUME Head(l.queue).mode = "shared" PROVE FALSE
      BY <2>1 DEF Mode
    <3>1. Dispatch(l) = GrantReaders(l)
      BY <1>2 DEF Dispatch
    <3> QED
      BY <1>2, <3>1, GrantReadersSound DEF Settled
  <2>3. \E u \in Thread \ {t} : l.shared[u] > 0
    <3> SUFFICES ASSUME ~\E u \in Thread \ {t} : l.shared[u] > 0 PROVE FALSE
      OBVIOUS
    <3>1. Dispatch(l) = GrantWriter(l)
      BY <1>2, <2>2 DEF Dispatch
    <3>2. GrantWriter(l).writer = t
      BY <2>1 DEF GrantWriter, LockState
    <3> QED
      BY <1>2, <2>1, <3>1, <3>2, ThreadAssumption DEF Settled
  <2>4. GrantWriter(k) = k
    BY <2>3 DEF GrantWriter
  <2> QED
    BY <1>2, <2>2, <2>4 DEF Dispatch, Settled
<1> QED
  BY <1>1, <1>2

\* A granted waiter that wakes up keeps the lock sound and settled.
LEMMA WokenSound ==
  ASSUME NEW l, Sound(l), Settled(l), NEW t \in Thread, l.granted[t] # "none"
  PROVE  Sound(Woken(l, t)) /\ Settled(Woken(l, t))
<1> DEFINE m == l.granted[t]
           k == Woken(l, t)
<1>0. l \in LockState /\ m \in Mode /\ l.stacks[t] \in Seq(Mode)
  BY DEF Sound, LockState
<1>1. /\ k.shared = l.shared /\ k.writer = l.writer /\ k.writerCount = l.writerCount
      /\ k.queue = l.queue
      /\ k.stacks = [l.stacks EXCEPT ![t] = Append(@, m)]
      /\ k.granted = [l.granted EXCEPT ![t] = "none"]
  BY <1>0 DEF Woken, LockState
<1>2. k \in LockState
  <2>1. Append(l.stacks[t], m) \in Seq(Mode)
    BY <1>0
  <2>2. k.stacks \in [Thread -> Seq(Mode)] /\ k.granted \in [Thread -> Mode \cup {"none"}]
    BY <1>0, <1>1, <2>1 DEF LockState
  <2>3. k = [l EXCEPT !.stacks = k.stacks, !.granted = k.granted]
    BY <1>0, <1>1 DEF LockState, Woken
  <2> HIDE DEF k
  <2> QED
    BY <1>0, <2>2, <2>3 DEF LockState
<1> HIDE DEF k, m
<1>3. \A u \in Thread :
        /\ k.stacks[u] = IF u = t THEN Append(l.stacks[u], m) ELSE l.stacks[u]
        /\ k.granted[u] = IF u = t THEN "none" ELSE l.granted[u]
  BY <1>0, <1>1 DEF LockState
<1>4. CountsMatch(k)
  <2> SUFFICES ASSUME NEW u \in Thread
               PROVE  /\ k.shared[u] = Count(k.stacks[u], "shared") + Pending(k, u, "shared")
                      /\ LET n == Count(k.stacks[u], "exclusive") + Pending(k, u, "exclusive")
                         IN  IF k.writer = u THEN k.writerCount = n /\ n > 0 ELSE n = 0
    BY <1>1 DEF Sound, CountsMatch
  <2>1. /\ l.shared[u] = Count(l.stacks[u], "shared") + Pending(l, u, "shared")
        /\ LET n == Count(l.stacks[u], "exclusive") + Pending(l, u, "exclusive")
           IN  IF l.writer = u THEN l.writerCount = n /\ n > 0 ELSE n = 0
    BY DEF Sound, CountsMatch
  <2>2. CASE u # t
    <3>1. /\ k.stacks[u] = l.stacks[u]
          /\ Pending(k, u, "shared") = Pending(l, u, "shared")
          /\ Pending(k, u, "exclusive") = Pending(l, u, "exclusive")
      BY <1>3, <2>2 DEF Pending
    <3> QED
      BY <1>1, <2>1, <3>1
  <2>3. CASE u = t
    <3>1. /\ k.stacks[u] = Append(l.stacks[u], m)
          /\ Pending(k, u, "shared") = 0 /\ Pending(k, u, "exclusive") = 0
          /\ Pending(l, u, "shared") = (IF m = "shared" THEN 1 ELSE 0)
          /\ Pending(l, u, "exclusive") = (IF m = "exclusive" THEN 1 ELSE 0)
      BY <1>3, <2>3 DEF Pending, m
    <3>2. /\ Count(l.stacks[u], "shared") \in Nat /\ Count(l.stacks[u], "exclusive") \in Nat
          /\ Count(Append(l.stacks[u], m), "shared")
               = Count(l.stacks[u], "shared") + (IF m = "shared" THEN 1 ELSE 0)
          /\ Count(Append(l.stacks[u], m), "exclusive")
               = Count(l.stacks[u], "exclusive") + (IF m = "exclusive" THEN 1 ELSE 0)
      BY <1>0, <2>3, CountAppend, CountType DEF Mode
    <3> QED
      BY <1>1, <2>1, <3>1, <3>2
  <2> QED
    BY <2>2, <2>3
<1>5. WriterAlone(k)
  BY <1>1 DEF Sound, WriterAlone
<1>6. QueueDistinct(k)
  <2>1. \A i \in 1..Len(l.queue) : l.queue[i].tid \in Thread
    BY <1>0, QueueElement
  <2> QED
    BY <1>1, <1>3, <2>1 DEF Sound, QueueDistinct
<1>7. QueueOfUpgrades(k)
  BY <1>1 DEF Sound, QueueOfUpgrades
<1>8. Settled(k)
  BY <1>1, SettledSame, <1>0, <1>2 DEF Sound
<1> QED
  BY <1>2, <1>4, <1>5, <1>6, <1>7, <1>8 DEF Sound, k

\* A sequence with its element i taken out.
LEMMA Omitted ==
  ASSUME NEW q \in Seq(Waiter), NEW i \in 1..Len(q)
  PROVE  LET r == SubSeq(q, 1, i - 1) \o SubSeq(q, i + 1, Len(q))
         IN  /\ r \in Seq(Waiter) /\ Len(r) = Len(q) - 1
             /\ \A j \in 1..Len(r) : r[j] = IF j < i THEN q[j] ELSE q[j + 1]
<1> DEFINE r == SubSeq(q, 1, i - 1) \o SubSeq(q, i + 1, Len(q))
<1>0. Len(q) \in Nat
  OBVIOUS
<1> DEFINE a == SubSeq(q, 1, i - 1)
           b == SubSeq(q, i + 1, Len(q))
           c == i - 1
<1>1. /\ c \in Nat /\ c <= Len(q) /\ 1 \in Nat \ {0} /\ 1 <= c + 1
      /\ i + 1 \in Nat \ {0} /\ Len(q) <= Len(q) /\ i + 1 <= Len(q) + 1
  BY <1>0
<1> HIDE DEF c
<1>2. /\ SubSeq(q, 1, c) \in Seq(Waiter) /\ Len(SubSeq(q, 1, c)) = c - 1 + 1
      /\ \A j \in 1..(c - 1 + 1) : SubSeq(q, 1, c)[j] = q[1 + j - 1]
  BY <1>1, Slice
<1>3. a \in Seq(Waiter) /\ Len(a) = i - 1 /\ \A j \in 1..(i - 1) : a[j] = q[j]
  BY <1>0, <1>2 DEF c
<1>4. /\ SubSeq(q, i + 1, Len(q)) \in Seq(Waiter)
      /\ Len(SubSeq(q, i + 1, Len(q))) = Len(q) - (i + 1) + 1
      /\ \A j \in 1..(Len(q) - (i + 1) + 1) :
           SubSeq(q, i + 1, Len(q))[j] = q[(i + 1) + j - 1]
  BY <1>1, Slice
<1>5. b \in Seq(Waiter) /\ Len(b) = Len(q) - i /\ \A j \in 1..(Len(q) - i) : b[j] = q[i + j]
  BY <1>0, <1>4
<1>6. r = a \o b
  OBVIOUS
<1> HIDE DEF a, b, r
<1>7. /\ r \in Seq(Waiter) /\ Len(r) = Len(a) + Len(b)
      /\ \A j \in 1..(Len(a) + Len(b)) : r[j] = IF j <= Len(a) THEN a[j] ELSE b[j - Len(a)]
  BY <1>3, <1>5, <1>6, ConcatProperties
<1>8. Len(r) = Len(q) - 1
  BY <1>0, <1>3, <1>5, <1>7
<1>9. ASSUME NEW j \in 1..Len(r)
      PROVE  r[j] = IF j < i THEN q[j] ELSE q[j + 1]
  <2>1. CASE j < i
    BY <1>0, <1>3, <1>5, <1>7, <1>8, <2>1
  <2>2. CASE ~(j < i)
    <3>1. j - (i - 1) \in 1..(Len(q) - i) /\ i + (j - (i - 1)) = j + 1
      BY <1>0, <1>8, <2>2
    <3>2. r[j] = b[j - (i - 1)]
      BY <1>0, <1>3, <1>5, <1>7, <1>8, <2>2
    <3> QED
      BY <1>5, <2>2, <3>1, <3>2
  <2> QED
    BY <2>1, <2>2
<1> QED
  BY <1>7, <1>8, <1>9 DEF r

\* The lock with one waiter out of the queue is sound.
LEMMA WithoutSound ==
  ASSUME NEW l, Sound(l), NEW i \in 1..Len(l.queue)
  PROVE  Sound([l EXCEPT !.queue = SubSeq(@, 1, i - 1) \o SubSeq(@, i + 1, Len(@))])
<1> DEFINE q == l.queue
           r == SubSeq(q, 1, i - 1) \o SubSeq(q, i + 1, Len(q))
           k == [l EXCEPT !.queue = r]
<1>0. l \in LockState /\ q \in Seq(Waiter) /\ Len(q) \in Nat
  BY QueueElement DEF Sound
<1>2. /\ r \in Seq(Waiter) /\ Len(r) = Len(q) - 1
      /\ \A j \in 1..Len(r) : r[j] = IF j < i THEN q[j] ELSE q[j + 1]
  BY <1>0, Omitted
<1>5. k = [l EXCEPT !.queue = SubSeq(@, 1, i - 1) \o SubSeq(@, i + 1, Len(@))]
  OBVIOUS
<1> HIDE DEF r
<1>3. /\ k \in LockState /\ k.queue = r
      /\ k.shared = l.shared /\ k.writer = l.writer /\ k.writerCount = l.writerCount
      /\ k.granted = l.granted /\ k.stacks = l.stacks
  BY <1>0, <1>2 DEF LockState
<1>4. \A j \in 1..Len(r) : /\ IF j < i THEN j \in 1..Len(q) ELSE j + 1 \in 1..Len(q)
                           /\ \E x \in 1..Len(q) : r[j] = q[x] /\ x = IF j < i THEN j ELSE j + 1
  BY <1>0, <1>2
<1> HIDE DEF k
<1>6. QueueDistinct(k)
  <2>1. QueueDistinct(l)
    BY DEF Sound
  <2>2. ASSUME NEW j \in 1..Len(r), NEW h \in 1..Len(r), r[j].tid = r[h].tid
        PROVE  j = h
    <3>1. PICK x \in 1..Len(q) : r[j] = q[x] /\ x = IF j < i THEN j ELSE j + 1
      BY <1>4
    <3>2. PICK y \in 1..Len(q) : r[h] = q[y] /\ y = IF h < i THEN h ELSE h + 1
      BY <1>4
    <3>3. x = y
      BY <2>1, <2>2, <3>1, <3>2 DEF QueueDistinct
    <3> QED
      BY <1>0, <1>2, <3>1, <3>2, <3>3
  <2> QED
    BY <1>3, <1>4, <2>1, <2>2 DEF QueueDistinct
<1>7. QueueOfUpgrades(k)
  BY <1>3, <1>4 DEF Sound, QueueOfUpgrades
<1>8. CountsMatch(k) /\ WriterAlone(k)
  BY <1>3 DEF Sound, CountsMatch, Pending, WriterAlone
<1> QED
  BY <1>3, <1>5, <1>6, <1>7, <1>8 DEF Sound

\* Dropping a waiter keeps the lock sound and lets the next one move up.
LEMMA DropSound ==
  ASSUME NEW l, Sound(l), NEW t \in Thread, InQueue(l, t)
  PROVE  Sound(Drop(l, t)) /\ Settled(Drop(l, t))
<1> DEFINE i == CHOOSE j \in 1..Len(l.queue) : l.queue[j].tid = t
           k == [l EXCEPT !.queue = SubSeq(@, 1, i - 1) \o SubSeq(@, i + 1, Len(@))]
<1>1. i \in 1..Len(l.queue)
  BY DEF InQueue
<1>2. Drop(l, t) = Dispatch(k)
  BY DEF Drop
<1> HIDE DEF i
<1>3. Sound(k)
  BY <1>1, WithoutSound
<1> QED
  BY <1>2, <1>3, DispatchSound

\* Undoing the newest acquisition of a thread keeps the lock sound.
LEMMA PoppedSound ==
  ASSUME NEW l, Sound(l), NEW t \in Thread, l.stacks[t] # << >>, ~Waiting(l, t)
  PROVE  Sound(Popped(l, t))
<1> DEFINE s == l.stacks[t]
           m == s[Len(s)]
           last == l.writerCount <= 1
           k == Popped(l, t)
<1>0. /\ l \in LockState /\ s \in Seq(Mode) /\ l.granted[t] = "none"
      /\ l.shared[t] \in Nat /\ l.writerCount \in Nat /\ s # << >>
  BY DEF Sound, LockState, Waiting
<1>1. /\ m \in Mode /\ SubSeq(s, 1, Len(s) - 1) \in Seq(Mode)
      /\ \A x \in Mode : Count(s, x) = Count(SubSeq(s, 1, Len(s) - 1), x) + (IF m = x THEN 1 ELSE 0)
      /\ \A x \in Mode : Count(SubSeq(s, 1, Len(s) - 1), x) \in Nat
  <2> HIDE DEF s
  <2>1. \A x \in Mode :
          /\ SubSeq(s, 1, Len(s) - 1) \in Seq(Mode)
          /\ s[Len(s)] \in Mode
          /\ Count(s, x) = Count(SubSeq(s, 1, Len(s) - 1), x)
                             + (IF s[Len(s)] = x THEN 1 ELSE 0)
    BY <1>0, CountPop
  <2>2. m \in Mode /\ SubSeq(s, 1, Len(s) - 1) \in Seq(Mode)
    BY <2>1 DEF Mode
  <2>3. \A x \in Mode : Count(SubSeq(s, 1, Len(s) - 1), x) \in Nat
    BY <2>2, CountType
  <2> QED
    BY <2>1, <2>2, <2>3
<1>2. /\ k.queue = l.queue /\ k.granted = l.granted
      /\ k.writerCount = (IF m = "exclusive" THEN (IF last THEN 0 ELSE l.writerCount - 1)
                                             ELSE l.writerCount)
      /\ k.writer = (IF m = "exclusive" /\ last THEN NoThread ELSE l.writer)
      /\ k.stacks = [l.stacks EXCEPT ![t] = SubSeq(s, 1, Len(s) - 1)]
      /\ k.shared = [l.shared EXCEPT ![t] = IF m = "shared" THEN (IF @ > 1 THEN @ - 1 ELSE 0)
                                                            ELSE @]
  BY <1>0 DEF Popped, LockState
<1>3. k \in LockState
  <2>1. k.shared \in [Thread -> Nat] /\ k.stacks \in [Thread -> Seq(Mode)]
    BY <1>0, <1>1, <1>2 DEF LockState
  <2>2. k.writer \in Thread \cup {NoThread} /\ k.writerCount \in Nat
    BY <1>0, <1>2 DEF LockState
  <2>3. k = [l EXCEPT !.stacks = k.stacks, !.writerCount = k.writerCount,
                      !.writer = k.writer, !.shared = k.shared]
    BY <1>0, <1>2 DEF LockState, Popped
  <2> HIDE DEF k
  <2> QED
    BY <1>0, <2>1, <2>2, <2>3 DEF LockState
<1> HIDE DEF k
<1>4. /\ \A u \in Thread \ {t} : k.stacks[u] = l.stacks[u] /\ k.shared[u] = l.shared[u]
      /\ k.stacks[t] = SubSeq(s, 1, Len(s) - 1)
      /\ k.shared[t] = (IF m = "shared" THEN (IF l.shared[t] > 1 THEN l.shared[t] - 1 ELSE 0)
                                        ELSE l.shared[t])
  BY <1>0, <1>2 DEF LockState
<1>5. \A u \in Thread : /\ Pending(k, u, "shared") = Pending(l, u, "shared")
                        /\ Pending(k, u, "exclusive") = Pending(l, u, "exclusive")
  BY <1>2 DEF Pending
<1>6. /\ l.shared[t] = Count(s, "shared")
      /\ IF l.writer = t THEN l.writerCount = Count(s, "exclusive") /\ l.writerCount > 0
                         ELSE Count(s, "exclusive") = 0
  <2>1. Pending(l, t, "shared") = 0 /\ Pending(l, t, "exclusive") = 0
    BY <1>0 DEF Pending
  <2>2. Count(s, "shared") \in Nat /\ Count(s, "exclusive") \in Nat
    BY <1>0, CountType DEF Mode
  <2>3. /\ l.shared[t] = Count(s, "shared") + Pending(l, t, "shared")
        /\ LET n == Count(s, "exclusive") + Pending(l, t, "exclusive")
           IN  IF l.writer = t THEN l.writerCount = n /\ n > 0 ELSE n = 0
    BY DEF Sound, CountsMatch
  <2> HIDE DEF s
  <2> QED
    BY <2>1, <2>2, <2>3
<1>7. m = "exclusive" => l.writer = t
  BY <1>1, <1>6 DEF Mode
<1>8. CountsMatch(k)
  <2>1. k.writer = NoThread => k.writerCount = 0
    BY <1>2 DEF Sound, CountsMatch
  <2> SUFFICES ASSUME NEW u \in Thread
               PROVE  /\ k.shared[u] = Count(k.stacks[u], "shared") + Pending(k, u, "shared")
                      /\ LET n == Count(k.stacks[u], "exclusive") + Pending(k, u, "exclusive")
                         IN  IF k.writer = u THEN k.writerCount = n /\ n > 0 ELSE n = 0
    BY <2>1 DEF CountsMatch
  <2>2. CASE u # t
    <3>1. /\ l.shared[u] = Count(l.stacks[u], "shared") + Pending(l, u, "shared")
          /\ LET n == Count(l.stacks[u], "exclusive") + Pending(l, u, "exclusive")
             IN  IF l.writer = u THEN l.writerCount = n /\ n > 0 ELSE n = 0
      BY DEF Sound, CountsMatch
    <3>2. /\ k.stacks[u] = l.stacks[u] /\ k.shared[u] = l.shared[u]
          /\ l.writer = u => k.writer = l.writer /\ k.writerCount = l.writerCount
          /\ l.writer # u => k.writer # u
      BY <1>2, <1>4, <1>7, <2>2, ThreadAssumption
    <3> QED
      BY <1>5, <3>1, <3>2
  <2>3. CASE u = t
    <3>1. Pending(k, u, "shared") = 0 /\ Pending(k, u, "exclusive") = 0
      BY <1>0, <1>5, <2>3 DEF Pending
    <3> DEFINE c(x) == Count(SubSeq(s, 1, Len(s) - 1), x)
    <3>2. /\ c("shared") \in Nat /\ c("exclusive") \in Nat
          /\ Count(s, "shared") = c("shared") + (IF m = "shared" THEN 1 ELSE 0)
          /\ Count(s, "exclusive") = c("exclusive") + (IF m = "exclusive" THEN 1 ELSE 0)
          /\ Count(k.stacks[u], "shared") = c("shared")
          /\ Count(k.stacks[u], "exclusive") = c("exclusive")
      BY <1>1, <1>4, <2>3 DEF Mode
    <3> HIDE DEF c, s
    <3>3. CASE m = "shared"
      BY <1>0, <1>2, <1>4, <1>6, <2>3, <3>1, <3>2, <3>3, ThreadAssumption
    <3>4. CASE m = "exclusive"
      BY <1>0, <1>2, <1>4, <1>6, <1>7, <2>3, <3>1, <3>2, <3>4, ThreadAssumption
    <3> QED
      BY <1>1, <3>3, <3>4 DEF Mode
  <2> QED
    BY <2>2, <2>3
<1>9. \A u \in Thread : l.shared[u] \in Nat /\ (k.shared[u] > 0 => l.shared[u] > 0)
  <2>1. \A u \in Thread : l.shared[u] \in Nat
    BY <1>0 DEF LockState
  <2>2. k.shared[t] > 0 => l.shared[t] > 0
    <3> HIDE DEF m
    <3> QED
      BY <1>0, <1>4
  <2> QED
    BY <1>4, <2>1, <2>2
<1>10. WriterAlone(k)
  BY <1>2, <1>9 DEF Sound, WriterAlone
<1>11. QueueDistinct(k)
  BY <1>2 DEF Sound, QueueDistinct
<1>12. QueueOfUpgrades(k)
  BY <1>0, <1>2, <1>9, QueueElement, ThreadAssumption DEF Sound, QueueOfUpgrades
<1> QED
  BY <1>3, <1>8, <1>10, <1>11, <1>12 DEF Sound, k

\* A release keeps the lock sound and settled.
LEMMA ReleasedSound ==
  ASSUME NEW l, Sound(l), NEW t \in Thread, l.stacks[t] # << >>, ~Waiting(l, t)
  PROVE  Sound(Released(l, t)) /\ Settled(Released(l, t))
BY PoppedSound, DispatchSound DEF Released

\* So does an acquisition, whether it nests, is granted at once or has to wait.
LEMMA AcquiredSound ==
  ASSUME NEW l, Sound(l), Settled(l), NEW t \in Thread, NEW m \in Mode, ~Waiting(l, t)
  PROVE  Sound(Acquired(l, t, m)) /\ Settled(Acquired(l, t, m))
<1>1. CASE Nests(l, t, m)
  <2> DEFINE k == Take(l, t, m)
  <2>1. Sound(k) /\ l \in LockState
    BY <1>1, TakeSound DEF Sound
  <2>2. /\ k.queue = l.queue /\ k.writer = l.writer
        /\ \A u \in Thread : l.shared[u] > 0 => k.shared[u] > 0
    BY <1>1, <2>1 DEF Take, LockState, Nests, Mode
  <2>3. Settled(k)
    <3> HIDE DEF k
    <3> QED
      BY <2>1, <2>2, SettledSame DEF Sound
  <2> QED
    BY <1>1, <2>1, <2>3 DEF Acquired
<1>2. CASE ~Nests(l, t, m)
  <2> DEFINE d == Dispatch(Queued(l, t, m))
  <2>1. Sound(d) /\ Settled(d)
    BY <1>2, QueuedSound, DispatchSound
  <2>2. Acquired(l, t, m) = IF d.granted[t] # "none" THEN Woken(d, t) ELSE d
    BY <1>2 DEF Acquired
  <2> HIDE DEF d
  <2> QED
    BY <2>1, <2>2, WokenSound
<1> QED
  BY <1>1, <1>2

\* The lock as it is created.
LEMMA FreshSound == Sound(FreshLock) /\ Settled(FreshLock)
<1>1. FreshLock \in LockState
  BY DEF FreshLock, LockState
<1>2. /\ FreshLock.queue = << >> /\ FreshLock.writer = NoThread /\ FreshLock.writerCount = 0
      /\ \A t \in Thread : /\ FreshLock.shared[t] = 0 /\ FreshLock.granted[t] = "none"
                           /\ FreshLock.stacks[t] = << >>
  BY DEF FreshLock
<1> HIDE DEF FreshLock
<1>3. \A m \in Mode : Count(<< >>, m) = 0
  <2>1. << >> \in Seq(Mode) /\ Len(<< >>) = 0
    OBVIOUS
  <2>2. \A i \in 1..0 : FALSE
    OBVIOUS
  <2> QED
    BY <2>1, <2>2, CountType
<1>4. CountsMatch(FreshLock)
  BY <1>2, <1>3, ThreadAssumption DEF CountsMatch, Pending, Mode
<1> QED
  BY <1>1, <1>2, <1>4
     DEF Sound, Settled, Dispatch, WriterAlone, QueueDistinct, QueueOfUpgrades

\* In a sound lock an exclusive hold excludes every hold of another thread.
LEMMA SoundExcludes ==
  ASSUME NEW l, Sound(l), NEW t \in Thread, NEW u \in Thread, t # u,
         Holds(l, t, "exclusive")
  PROVE  l.stacks[u] = << >>
<1>0. /\ l \in LockState /\ CountsMatch(l) /\ WriterAlone(l)
      /\ l.stacks[t] \in Seq(Mode) /\ l.stacks[u] \in Seq(Mode)
      /\ l.shared[u] \in Nat
  BY DEF Sound, LockState
<1>1. \A v \in Thread, m \in Mode : Pending(l, v, m) \in Nat
  BY DEF Pending
<1>2. l.writer = t
  <2>1. Count(l.stacks[t], "exclusive") \in Nat /\ Count(l.stacks[t], "exclusive") # 0
    BY <1>0, CountType DEF Holds, Mode
  <2>2. Pending(l, t, "exclusive") \in Nat
    BY <1>1 DEF Mode
  <2> QED
    BY <1>0, <2>1, <2>2 DEF CountsMatch
<1>3. l.shared[u] = 0
  BY <1>0, <1>2, ThreadAssumption DEF WriterAlone
<1>4. Count(l.stacks[u], "shared") = 0 /\ Count(l.stacks[u], "exclusive") = 0
  <2>1. /\ Count(l.stacks[u], "shared") \in Nat /\ Count(l.stacks[u], "exclusive") \in Nat
        /\ Pending(l, u, "shared") \in Nat /\ Pending(l, u, "exclusive") \in Nat
    BY <1>0, <1>1, CountType DEF Mode
  <2>2. /\ l.shared[u] = Count(l.stacks[u], "shared") + Pending(l, u, "shared")
        /\ Count(l.stacks[u], "exclusive") + Pending(l, u, "exclusive") = 0
    BY <1>0, <1>2 DEF CountsMatch
  <2> QED
    BY <1>3, <2>1, <2>2
<1>5. \A i \in 1..Len(l.stacks[u]) : l.stacks[u][i] \notin Mode
  BY <1>0, <1>4, CountType DEF Mode
<1> QED
  BY <1>0, <1>5, ElementOfSeq, EmptySeq

\* A waiter leaves the queue by a grant only.
LEMMA DispatchKeeps ==
  ASSUME NEW l, Sound(l), NEW t \in Thread, InQueue(l, t),
         Dispatch(l).granted[t] = "none"
  PROVE  InQueue(Dispatch(l), t)
<1> DEFINE q == l.queue
           d == Dispatch(l)
<1>0. /\ l \in LockState /\ q \in Seq(Waiter) /\ Len(q) \in Nat
      /\ \A j \in 1..Len(q) : q[j].tid \in Thread /\ q[j].mode \in Mode
  BY QueueElement DEF Sound
<1>1. PICK i \in 1..Len(q) : q[i].tid = t
  BY DEF InQueue
<1>2. q # << >> /\ Head(q) = q[1] /\ 1 \in 1..Len(q)
  BY <1>0, <1>1
<1>3. CASE d = l
  BY <1>3
<1>4. CASE d # l /\ Head(q).mode = "exclusive"
  <2>1. d = [l EXCEPT !.writer = Head(q).tid, !.writerCount = @ + 1, !.queue = Tail(@),
                      !.granted[Head(q).tid] = "exclusive"]
    BY <1>4 DEF Dispatch, GrantWriter
  <2>2. d.queue = Tail(q) /\ d.granted[Head(q).tid] = "exclusive"
    BY <1>0, <1>2, <2>1 DEF LockState
  <2>3. i # 1
    BY <1>1, <1>2, <2>2
  <2>4. /\ Len(Tail(q)) = Len(q) - 1
        /\ \A j \in 1..Len(Tail(q)) : Tail(q)[j] = q[j + 1]
    BY <1>0, <1>2, HeadTailProperties
  <2>5. i - 1 \in 1..Len(Tail(q)) /\ Tail(q)[i - 1] = q[i]
    BY <1>0, <1>1, <2>3, <2>4
  <2> QED
    BY <1>1, <2>2, <2>5 DEF InQueue
<1>5. CASE d # l /\ Head(q).mode # "exclusive"
  <2> DEFINE n   == ReaderRun(q)
             won == {q[j].tid : j \in 1..n}
  <2>1. d = GrantReaders(l)
    BY <1>5 DEF Dispatch
  <2>2. n \in 0..Len(q)
    BY <1>0, ReaderRunProperties
  <2>3. d.queue = SubSeq(q, n + 1, Len(q)) /\ (t \in won => d.granted[t] = "shared")
    <3>1. d = [l EXCEPT !.shared  = [u \in Thread |-> IF u \in won THEN @[u] + 1 ELSE @[u]],
                        !.queue   = SubSeq(@, n + 1, Len(@)),
                        !.granted = [u \in Thread |-> IF u \in won THEN "shared" ELSE @[u]]]
      BY <2>1 DEF GrantReaders
    <3> HIDE DEF n, won, d
    <3> QED
      BY <1>0, <3>1 DEF LockState
  <2> HIDE DEF n
  <2>4. ~(i <= n)
    BY <1>1, <2>2, <2>3
  <2>5. n + 1 \in Nat \ {0} /\ Len(q) <= Len(q) /\ n + 1 <= Len(q) + 1
    BY <1>0, <2>2
  <2>6. /\ Len(SubSeq(q, n + 1, Len(q))) = Len(q) - (n + 1) + 1
        /\ \A j \in 1..(Len(q) - (n + 1) + 1) : SubSeq(q, n + 1, Len(q))[j] = q[(n + 1) + j - 1]
    BY <1>0, <2>5, Slice
  <2>7. i - n \in 1..(Len(q) - (n + 1) + 1) /\ (n + 1) + (i - n) - 1 = i
    BY <1>0, <1>1, <2>2, <2>4
  <2>8. i - n \in 1..Len(d.queue) /\ d.queue[i - n] = q[i]
    BY <2>3, <2>6, <2>7
  <2> QED
    BY <1>1, <2>8 DEF InQueue
<1> QED
  BY <1>3, <1>4, <1>5

\* A request that dispatching did not grant stands in the queue.
LEMMA QueuedStays ==
  ASSUME NEW l, Sound(l), NEW t \in Thread, NEW m \in Mode,
         ~Nests(l, t, m), ~Waiting(l, t),
         Dispatch(Queued(l, t, m)).granted[t] = "none"
  PROVE  InQueue(Dispatch(Queued(l, t, m)), t)
<1> DEFINE w == [tid |-> t, mode |-> m]
           k == Queued(l, t, m)
<1>0. l \in LockState /\ l.queue \in Seq(Waiter) /\ w \in Waiter /\ Len(l.queue) \in Nat
  BY QueueElement DEF Sound, Waiter
<1>1. k.queue = IF Upgrades(l, t, m) THEN << w >> \o l.queue ELSE Append(l.queue, w)
  BY <1>0 DEF Queued, LockState
<1>2. InQueue(k, t)
  <2>1. CASE Upgrades(l, t, m)
    <3>1. Len(k.queue) = 1 + Len(l.queue) /\ k.queue[1] = w
      BY <1>0, <1>1, <2>1
    <3> QED
      BY <1>0, <3>1 DEF InQueue
  <2>2. CASE ~Upgrades(l, t, m)
    <3>1. Len(k.queue) = Len(l.queue) + 1 /\ k.queue[Len(l.queue) + 1] = w
      BY <1>0, <1>1, <2>2
    <3> QED
      BY <1>0, <3>1 DEF InQueue
  <2> QED
    BY <2>1, <2>2
<1> QED
  BY <1>2, QueuedSound, DispatchKeeps
=============================================================================

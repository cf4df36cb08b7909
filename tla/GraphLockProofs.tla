---------------------------- MODULE GraphLockProofs ----------------------------
(***************************************************************************)
(* The graph lock for any number of processes, threads and native lockers, *)
(* any nesting and any crashes: two writers never overlap, and the reads   *)
(* of a process of one thread are covered by its flock.                    *)
(***************************************************************************)
EXTENDS GraphLock, RWLockLemmas

Has(s, m) == \E i \in 1..Len(s) : s[i] = m

Front(s) == SubSeq(s, 1, Len(s) - 1)

\* What t asked its thread lock for, whether queued or granted.
Asks(l, t, m) ==
  /\ \A i \in 1..Len(l.queue) : l.queue[i].tid = t => l.queue[i].mode = m
  /\ l.granted[t] \in {"none", m}

Upgrading == {"unshare", "upgrade", "restore", "unwind"}
Acquiring == {"lookup", "wait", "publish"} \cup Upgrading
OnHandle == {"wait", "publish", "unlock", "downgrade", "reshare"} \cup Upgrading

\* The part of t's stack that acquire_graph_lock has registered and
\* release_graph_lock has not yet taken off the registered stack.
Reg(p, t) ==
  IF call[p][t].pc \in {"run", "thread"} \cup Upgrading THEN rw[p].stacks[t]
  ELSE Front(rw[p].stacks[t])

\* The registered modes end with the stack of s from its first exclusive mode on;
\* below that they are shared, left there by whoever.
Aligned(modes, s) ==
  LET d == Len(modes) - Len(s)
  IN  /\ \A i \in 1..Len(s) : (\E j \in 1..i : s[j] = "exclusive") =>
           i + d >= 1 /\ modes[i + d] = s[i]
      /\ \A i \in 1..Len(modes) : modes[i] = "exclusive" =>
           i - d >= 1 /\ s[i - d] = "exclusive"

-----------------------------------------------------------------------------
(* The inductive invariant, in parts *)

Typed ==
  /\ rw \in [Proc -> LockState]
  /\ held \in [Proc -> [handle : Handle \cup {NoHandle}, modes : Seq(Mode)]]
  /\ flock \in [Proc -> [Handle -> Mode \cup {"none", "closed"}]]
  /\ call \in [Proc -> [Thread -> [pc : InCall \cup {"run"}, want : Mode,
                                   fd : Handle \cup {NoHandle}]]]
  /\ native \in [Native -> Mode \cup {"none"}]
  /\ warned \subseteq Proc

\* Where a thread is in its call, and what it has of the thread lock there.
LinkedAt(p, t) ==
  LET c == call[p][t]
      s == rw[p].stacks[t]
  IN  /\ c.pc = "thread" <=> Waiting(rw[p], t)
      /\ c.pc = "thread" => Asks(rw[p], t, c.want)
      /\ c.pc \notin {"run", "thread"} => s # << >>
      /\ c.pc \in Acquiring => s[Len(s)] = c.want
      /\ c.pc \in {"run", "thread", "lookup"} => c.fd = NoHandle
      /\ c.pc \in OnHandle => c.fd \in Handle
      /\ c.pc \in Upgrading => c.want = "exclusive"
      /\ t \notin ThreadsOf[p] => c.pc = "run" /\ s = << >>

\* Every open handle is registered or some thread's, and a mode needs a handle.
OpenedAt(p) ==
  /\ \A h \in Handle : flock[p][h] # "closed" =>
       h = held[p].handle \/ \E t \in Thread : call[p][t].fd = h
  /\ held[p].handle = NoHandle => held[p] = Absent

\* The kernel never grants conflicting locks.
Compatible ==
  /\ \A p, q \in Proc, h, k \in Handle :
       << p, h >> # << q, k >> => ~Conflicts(flock[p][h], flock[q][k])
  /\ \A p \in Proc, h \in Handle, n \in Native : ~Conflicts(flock[p][h], native[n])
  /\ \A n, o \in Native : n # o => ~Conflicts(native[n], native[o])

\* What a thread with an exclusive hold knows of the registry and its handle.
Owns(p, t) ==
  LET c == call[p][t]
      h == held[p].handle
  IN  /\ Aligned(held[p].modes, Reg(p, t))
      /\ c.pc \in {"wait", "publish"} => held[p] = Absent
      /\ c.pc = "publish" => flock[p][c.fd] = c.want
      /\ c.pc \in Upgrading => c.fd = h /\ ~Has(Front(rw[p].stacks[t]), "exclusive")
      /\ c.pc \in {"unlock", "downgrade", "reshare"} => ~Has(Reg(p, t), "exclusive")
      /\ c.pc \notin Upgrading /\ Has(Reg(p, t), "exclusive") =>
           h \in Handle /\ flock[p][h] = "exclusive"

OwnedAt(p) ==
  /\ \A t \in Thread : Holds(rw[p], t, "exclusive") => Owns(p, t)
  /\ (\A t \in Thread : ~Holds(rw[p], t, "exclusive")) => ~Has(held[p].modes, "exclusive")

\* What the thread of a process of one thread knows of the registry, and of its
\* handle while every failed upgrade has got its shared lock back.
AloneAt(p, t) ==
  LET c == call[p][t]
      h == held[p].handle
  IN  /\ held[p].modes = Reg(p, t) /\ (held[p].modes = << >> => held[p] = Absent)
      /\ c.pc \in Upgrading => Front(rw[p].stacks[t]) # << >>
      /\ c.pc \in {"wait", "publish", "unlock"} => held[p] = Absent
      /\ c.pc = "publish" => flock[p][c.fd] = c.want
      /\ c.pc \in {"downgrade", "reshare"} \cup Upgrading => c.fd = h
      /\ p \notin warned /\ c.pc = "unwind" => flock[p][c.fd] = "shared"
      /\ p \notin warned /\ Reg(p, t) # << >>
           /\ c.pc \in {"run", "thread", "lookup", "leave", "downgrade"} =>
             h \in Handle /\ flock[p][h] \in Mode

IInv ==
  /\ Typed /\ Compatible
  /\ \A p \in Proc :
       /\ Sound(rw[p]) /\ Settled(rw[p]) /\ OpenedAt(p) /\ OwnedAt(p)
       /\ \A t \in Thread : LinkedAt(p, t)
       /\ Single(p) => \A t \in ThreadsOf[p] : AloneAt(p, t)

-----------------------------------------------------------------------------
(* Stacks of modes *)

\* A stack without its newest mode.
LEMMA FrontIs ==
  ASSUME NEW s \in Seq(Mode), s # << >>
  PROVE  /\ Front(s) \in Seq(Mode) /\ Len(s) \in Nat \ {0} /\ Len(Front(s)) = Len(s) - 1
         /\ \A i \in 1..(Len(s) - 1) : Front(s)[i] = s[i]
         /\ s[Len(s)] \in Mode /\ s = Append(Front(s), s[Len(s)])
<1> DEFINE k == Len(s) - 1
<1>1. Len(s) \in Nat \ {0} /\ s[Len(s)] \in Mode
  BY EmptySeq, ElementOfSeq
<1>2. k \in Nat /\ k <= Len(s) /\ 1 \in Nat \ {0} /\ 1 <= k + 1
  BY <1>1
<1>3. /\ SubSeq(s, 1, k) \in Seq(Mode) /\ Len(SubSeq(s, 1, k)) = k - 1 + 1
      /\ \A i \in 1..(k - 1 + 1) : SubSeq(s, 1, k)[i] = s[1 + i - 1]
  <2> HIDE DEF k
  <2> QED BY <1>2, Slice
<1>4. /\ Front(s) \in Seq(Mode) /\ Len(Front(s)) = Len(s) - 1
      /\ \A i \in 1..(Len(s) - 1) : Front(s)[i] = s[i]
  BY <1>1, <1>3 DEF Front
<1>5. s = Append(Front(s), s[Len(s)])
  <2> DEFINE a == Append(Front(s), s[Len(s)])
  <2>1. a \in Seq(Mode) /\ Len(a) = Len(s)
    BY <1>1, <1>4, AppendProperties
  <2>2. \A i \in 1..Len(s) : s[i] = a[i]
    BY <1>1, <1>4, AppendProperties
  <2> QED BY <2>1, <2>2, SeqEqual
<1> QED BY <1>1, <1>4, <1>5

\* One more mode on a stack, and the stack under it again.
LEMMA Pushed ==
  ASSUME NEW s \in Seq(Mode), NEW m \in Mode
  PROVE  LET a == Append(s, m)
         IN  /\ a \in Seq(Mode) /\ a # << >> /\ Len(a) = Len(s) + 1 /\ a[Len(a)] = m
             /\ \A i \in 1..Len(s) : a[i] = s[i]
             /\ Front(a) = s
             /\ \A x : Has(a, x) <=> Has(s, x) \/ x = m
<1> DEFINE a == Append(s, m)
<1>1. /\ a \in Seq(Mode) /\ Len(a) = Len(s) + 1 /\ Len(s) \in Nat /\ a[Len(s) + 1] = m
      /\ \A i \in 1..Len(s) : a[i] = s[i]
  BY AppendProperties
<1> HIDE DEF a
<1>2. a # << >>
  BY <1>1
<1>3. /\ Front(a) \in Seq(Mode) /\ Len(Front(a)) = Len(s)
      /\ \A i \in 1..Len(s) : Front(a)[i] = a[i]
  <2>1. /\ Front(a) \in Seq(Mode) /\ Len(Front(a)) = Len(a) - 1
        /\ \A i \in 1..(Len(a) - 1) : Front(a)[i] = a[i]
    BY <1>1, <1>2, FrontIs
  <2>2. Len(a) - 1 = Len(s)
    BY <1>1
  <2> QED BY <2>1, <2>2
<1>4. Front(a) = s
  BY <1>1, <1>3, SeqEqual
<1>5. \A x : Has(a, x) <=> Has(s, x) \/ x = m
  <2>1. ASSUME NEW x, Has(a, x) PROVE Has(s, x) \/ x = m
    BY <1>1, <2>1 DEF Has
  <2>2. ASSUME NEW x, Has(s, x) \/ x = m PROVE Has(a, x)
    <3>1. Len(s) + 1 \in 1..Len(a) /\ \A i \in 1..Len(s) : i \in 1..Len(a)
      BY <1>1
    <3> QED BY <1>1, <2>2, <3>1 DEF Has
  <2> QED BY <2>1, <2>2
<1> QED BY <1>1, <1>2, <1>4, <1>5 DEF a

\* What a stack has is what it has below its newest mode, or that mode.
LEMMA HasFront ==
  ASSUME NEW s \in Seq(Mode), s # << >>, NEW x
  PROVE  Has(s, x) <=> Has(Front(s), x) \/ x = s[Len(s)]
<1>1. Front(s) \in Seq(Mode) /\ s[Len(s)] \in Mode /\ s = Append(Front(s), s[Len(s)])
  BY FrontIs
<1> DEFINE f == Front(s)
           m == s[Len(s)]
<1>2. f \in Seq(Mode) /\ m \in Mode /\ s = Append(f, m)
  BY <1>1
<1> HIDE DEF f, m
<1>3. Has(Append(f, m), x) <=> Has(f, x) \/ x = m
  BY <1>2, Pushed
<1> QED BY <1>2, <1>3 DEF f, m

\* Registered modes and a stack stay aligned when both get a mode ...
LEMMA AlignedPush ==
  ASSUME NEW r \in Seq(Mode), NEW s \in Seq(Mode), NEW m \in Mode, Aligned(r, s)
  PROVE  Aligned(Append(r, m), Append(s, m))
<1> DEFINE a == Append(r, m)
           b == Append(s, m)
<1>1. /\ Len(a) = Len(r) + 1 /\ Len(r) \in Nat /\ a[Len(r) + 1] = m
      /\ \A i \in 1..Len(r) : a[i] = r[i]
      /\ Len(b) = Len(s) + 1 /\ Len(s) \in Nat /\ b[Len(s) + 1] = m
      /\ \A i \in 1..Len(s) : b[i] = s[i]
  BY AppendProperties
<1> HIDE DEF a, b
<1> DEFINE d == Len(r) - Len(s)
<1>2. /\ \A i \in 1..Len(s) : (\E j \in 1..i : s[j] = "exclusive") =>
           i + d >= 1 /\ r[i + d] = s[i]
      /\ \A i \in 1..Len(r) : r[i] = "exclusive" => i - d >= 1 /\ s[i - d] = "exclusive"
  BY DEF Aligned
<1>3. d \in Int /\ Len(a) - Len(b) = d /\ Len(s) + 1 + d = Len(r) + 1
  BY <1>1
<1> HIDE DEF d
<1>4. ASSUME NEW i \in 1..Len(b), \E j \in 1..i : b[j] = "exclusive"
      PROVE  i + d >= 1 /\ a[i + d] = b[i]
  <2>1. CASE i = Len(s) + 1
    BY <1>1, <1>3, <2>1
  <2>2. CASE i # Len(s) + 1
    <3>1. i \in 1..Len(s) /\ \E j \in 1..i : s[j] = "exclusive"
      BY <1>1, <1>4, <2>2
    <3>2. i + d >= 1 /\ r[i + d] = s[i]
      BY <1>2, <3>1
    <3>3. i + d \in 1..Len(r)
      BY <1>1, <1>3, <3>1, <3>2
    <3> QED BY <1>1, <3>1, <3>2, <3>3
  <2> QED BY <2>1, <2>2
<1>5. ASSUME NEW i \in 1..Len(a), a[i] = "exclusive"
      PROVE  i - d >= 1 /\ b[i - d] = "exclusive"
  <2>1. CASE i = Len(r) + 1
    <3>1. i - d = Len(s) + 1
      BY <1>1, <1>3, <2>1
    <3> QED BY <1>1, <1>5, <2>1, <3>1
  <2>2. CASE i # Len(r) + 1
    <3>1. i \in 1..Len(r) /\ r[i] = "exclusive"
      BY <1>1, <1>5, <2>2
    <3>2. i - d >= 1 /\ s[i - d] = "exclusive"
      BY <1>2, <3>1
    <3>3. i - d \in 1..Len(s)
      BY <1>1, <1>3, <3>1, <3>2
    <3> QED BY <1>1, <3>2, <3>3
  <2> QED BY <2>1, <2>2
<1> QED BY <1>3, <1>4, <1>5 DEF Aligned, a, b

\* ... and when both lose one.
LEMMA AlignedPop ==
  ASSUME NEW r \in Seq(Mode), NEW s \in Seq(Mode), r # << >>, s # << >>, Aligned(r, s)
  PROVE  Aligned(Front(r), Front(s))
<1> DEFINE a == Front(r)
           b == Front(s)
           d == Len(r) - Len(s)
<1>1. /\ Len(a) = Len(r) - 1 /\ Len(r) \in Nat \ {0} /\ \A i \in 1..(Len(r) - 1) : a[i] = r[i]
      /\ Len(b) = Len(s) - 1 /\ Len(s) \in Nat \ {0} /\ \A i \in 1..(Len(s) - 1) : b[i] = s[i]
  BY FrontIs
<1>2. /\ \A i \in 1..Len(s) : (\E j \in 1..i : s[j] = "exclusive") =>
           i + d >= 1 /\ r[i + d] = s[i]
      /\ \A i \in 1..Len(r) : r[i] = "exclusive" => i - d >= 1 /\ s[i - d] = "exclusive"
  BY DEF Aligned
<1> HIDE DEF a, b
<1>3. d \in Int /\ Len(a) - Len(b) = d /\ Len(s) + d = Len(r)
  BY <1>1
<1> HIDE DEF d
<1>4. ASSUME NEW i \in 1..Len(b), \E j \in 1..i : b[j] = "exclusive"
      PROVE  i + d >= 1 /\ a[i + d] = b[i]
  <2>1. i \in 1..Len(s) /\ \E j \in 1..i : s[j] = "exclusive"
    BY <1>1, <1>4
  <2>2. i + d >= 1 /\ r[i + d] = s[i]
    BY <1>2, <2>1
  <2>3. i + d \in 1..(Len(r) - 1)
    BY <1>1, <1>3, <2>2
  <2> QED BY <1>1, <2>2, <2>3
<1>5. ASSUME NEW i \in 1..Len(a), a[i] = "exclusive"
      PROVE  i - d >= 1 /\ b[i - d] = "exclusive"
  <2>1. i \in 1..Len(r) /\ r[i] = "exclusive"
    BY <1>1, <1>5
  <2>2. i - d >= 1 /\ s[i - d] = "exclusive"
    BY <1>2, <2>1
  <2>3. i - d \in 1..(Len(s) - 1)
    BY <1>1, <1>3, <2>2
  <2> QED BY <1>1, <2>2, <2>3
<1> QED BY <1>3, <1>4, <1>5 DEF Aligned, a, b

\* What alignment says at its ends: exclusive modes are on both or on neither.
LEMMA AlignedHas ==
  ASSUME NEW r \in Seq(Mode), NEW s \in Seq(Mode)
  PROVE  /\ Aligned(r, s) => (Has(r, "exclusive") <=> Has(s, "exclusive"))
         /\ ~Has(r, "exclusive") /\ ~Has(s, "exclusive") => Aligned(r, s)
<1>0. Len(r) \in Nat /\ Len(s) \in Nat
  OBVIOUS
<1> DEFINE d == Len(r) - Len(s)
<1>1. ASSUME Aligned(r, s), Has(r, "exclusive") PROVE Has(s, "exclusive")
  <2>1. PICK i \in 1..Len(r) : r[i] = "exclusive"
    BY <1>1 DEF Has
  <2>2. i - d >= 1 /\ s[i - d] = "exclusive"
    BY <1>1, <2>1 DEF Aligned
  <2>3. i - d \in 1..Len(s)
    BY <1>0, <2>2
  <2> QED BY <2>2, <2>3 DEF Has
<1>2. ASSUME Aligned(r, s), Has(s, "exclusive") PROVE Has(r, "exclusive")
  <2>1. PICK i \in 1..Len(s) : s[i] = "exclusive"
    BY <1>2 DEF Has
  <2>2. \E j \in 1..i : s[j] = "exclusive"
    BY <1>0, <2>1
  <2>3. i + d >= 1 /\ r[i + d] = s[i]
    BY <1>2, <2>2 DEF Aligned
  <2>4. i + d \in 1..Len(r)
    BY <1>0, <2>3
  <2> QED BY <2>1, <2>3, <2>4 DEF Has
<1>3. ASSUME ~Has(r, "exclusive"), ~Has(s, "exclusive") PROVE Aligned(r, s)
  <2>1. /\ \A i \in 1..Len(r) : r[i] # "exclusive"
        /\ \A i \in 1..Len(s) : s[i] # "exclusive"
    BY <1>3 DEF Has
  <2>2. \A i \in 1..Len(s) : ~\E j \in 1..i : s[j] = "exclusive"
    BY <1>0, <2>1
  <2> QED BY <2>1, <2>2 DEF Aligned
<1> QED BY <1>1, <1>2, <1>3

\* A new registration of the first exclusive mode of a stack.
LEMMA AlignedFresh ==
  ASSUME NEW s \in Seq(Mode), s # << >>, ~Has(Front(s), "exclusive"), NEW m, m = s[Len(s)]
  PROVE  Aligned(<< m >>, s)
<1>1. /\ Front(s) \in Seq(Mode) /\ m \in Mode /\ s = Append(Front(s), m)
  BY FrontIs
<1> DEFINE e == << >>
           f == Front(s)
<1>2. e \in Seq(Mode) /\ ~Has(e, "exclusive") /\ Append(e, m) = << m >>
  BY <1>1 DEF Has
<1> HIDE DEF e, f
<1>3. Aligned(e, f)
  BY <1>1, <1>2, AlignedHas DEF f
<1>4. Aligned(Append(e, m), Append(f, m))
  BY <1>1, <1>2, <1>3, AlignedPush DEF f
<1> QED BY <1>1, <1>2, <1>4 DEF f

-----------------------------------------------------------------------------
(* The thread lock, seen from one thread *)

\* The requests in the queue, in whatever order.
Standing(l) == {l.queue[i] : i \in 1..Len(l.queue)}

LEMMA StandingIs ==
  ASSUME NEW l
  PROVE  /\ \A t : InQueue(l, t) <=> \E w \in Standing(l) : w.tid = t
         /\ \A t, m : Asks(l, t, m) <=> /\ \A w \in Standing(l) : w.tid = t => w.mode = m
                                        /\ l.granted[t] \in {"none", m}
BY DEF Standing, InQueue, Asks

\* What a step of t leaves as it is for the other threads.
Unaffected(l, k, u) ==
  /\ k.stacks[u] = l.stacks[u]
  /\ Waiting(k, u) <=> Waiting(l, u)
  /\ \A m \in Mode : Asks(l, u, m) => Asks(k, u, m)

LEMMA UnaffectedChain ==
  ASSUME NEW a, NEW b, NEW c, NEW u, Unaffected(a, b, u), Unaffected(b, c, u)
  PROVE  Unaffected(a, c, u)
BY DEF Unaffected

\* _dispatch moves waiters from the queue to their grants and nothing else.
LEMMA DispatchFrame ==
  ASSUME NEW l, Sound(l), NEW u \in Thread
  PROVE  Unaffected(l, Dispatch(l), u)
<1> DEFINE q == l.queue
           d == Dispatch(l)
<1>0. /\ l \in LockState /\ q \in Seq(Waiter) /\ Len(q) \in Nat
      /\ \A j \in 1..Len(q) : q[j].tid \in Thread /\ q[j].mode \in Mode
  BY QueueElement DEF Sound
<1>1. CASE d = l
  BY <1>1 DEF Unaffected
<1>2. CASE d # l /\ Head(q).mode = "exclusive"
  <2> DEFINE w == Head(q)
  <2>1. /\ q # << >>
        /\ d = [l EXCEPT !.writer = w.tid, !.writerCount = @ + 1, !.queue = Tail(@),
                         !.granted[w.tid] = "exclusive"]
    BY <1>2 DEF Dispatch, GrantWriter
  <2>2. w = q[1] /\ 1 \in 1..Len(q) /\ w.tid \in Thread
    BY <1>0, <2>1
  <2>3. /\ d.queue = Tail(q) /\ d.stacks = l.stacks
        /\ d.granted = [l.granted EXCEPT ![w.tid] = "exclusive"]
        /\ l.granted \in [Thread -> Mode \cup {"none"}]
    BY <1>0, <2>1, <2>2 DEF LockState
  <2>4. /\ Len(Tail(q)) = Len(q) - 1
        /\ \A j \in 1..Len(Tail(q)) : Tail(q)[j] = q[j + 1]
    BY <1>0, <2>1, HeadTailProperties
  <2>5. \A x : x \in Standing(d) \/ x = w <=> x \in Standing(l)
    <3>1. ASSUME NEW i \in 1..Len(q), i # 1 PROVE q[i] \in Standing(d)
      <4>1. i - 1 \in 1..Len(Tail(q)) /\ Tail(q)[i - 1] = q[i]
        BY <1>0, <2>4, <3>1
      <4> QED BY <2>3, <4>1 DEF Standing
    <3>2. ASSUME NEW j \in 1..Len(Tail(q)) PROVE Tail(q)[j] \in Standing(l)
      <4>1. j + 1 \in 1..Len(q) /\ Tail(q)[j] = q[j + 1]
        BY <1>0, <2>4
      <4> QED BY <4>1 DEF Standing
    <3>3. w \in Standing(l)
      BY <2>2 DEF Standing
    <3>4. \A x \in Standing(d) : \E j \in 1..Len(Tail(q)) : x = Tail(q)[j]
      BY <2>3 DEF Standing
    <3>5. \A x \in Standing(l) : \E i \in 1..Len(q) : x = q[i]
      BY DEF Standing
    <3> QED BY <2>2, <3>1, <3>2, <3>3, <3>4, <3>5
  <2>6. w.mode = "exclusive"
    BY <1>2
  <2>7. d.granted[u] = IF u = w.tid THEN "exclusive" ELSE l.granted[u]
    BY <2>3
  <2> HIDE DEF d, w, q
  <2>8. Waiting(d, u) <=> Waiting(l, u)
    BY <2>5, <2>7, StandingIs DEF Waiting
  <2>9. \A m \in Mode : Asks(l, u, m) => Asks(d, u, m)
    BY <2>5, <2>6, <2>7, StandingIs
  <2> QED BY <2>3, <2>8, <2>9 DEF Unaffected, d
<1>3. CASE d # l /\ Head(q).mode # "exclusive"
  <2> DEFINE n   == ReaderRun(q)
             won == {q[j].tid : j \in 1..n}
  <2>1. d = GrantReaders(l)
    BY <1>3 DEF Dispatch
  <2>2. n \in 0..Len(q) /\ \A i \in 1..n : q[i].mode = "shared"
    BY <1>0, ReaderRunProperties
  <2>3. /\ d.queue = SubSeq(q, n + 1, Len(q)) /\ d.stacks = l.stacks
        /\ d.granted[u] = IF u \in won THEN "shared" ELSE l.granted[u]
    <3>1. d = [l EXCEPT !.shared  = [v \in Thread |-> IF v \in won THEN @[v] + 1 ELSE @[v]],
                        !.queue   = SubSeq(@, n + 1, Len(@)),
                        !.granted = [v \in Thread |-> IF v \in won THEN "shared" ELSE @[v]]]
      BY <2>1 DEF GrantReaders
    <3> HIDE DEF n, won, d
    <3> QED BY <1>0, <3>1 DEF LockState
  <2>4. u \in won <=> \E i \in 1..n : q[i].tid = u
    OBVIOUS
  <2> HIDE DEF n, won
  <2>5. n + 1 \in Nat \ {0} /\ Len(q) <= Len(q) /\ n + 1 <= Len(q) + 1
    BY <1>0, <2>2
  <2>6. /\ Len(SubSeq(q, n + 1, Len(q))) = Len(q) - (n + 1) + 1
        /\ \A j \in 1..(Len(q) - (n + 1) + 1) : SubSeq(q, n + 1, Len(q))[j] = q[(n + 1) + j - 1]
    BY <1>0, <2>5, Slice
  <2>7. \A x : x \in Standing(l) <=> x \in Standing(d) \/ \E i \in 1..n : x = q[i]
    <3> DEFINE r == SubSeq(q, n + 1, Len(q))
    <3>1. ASSUME NEW i \in 1..Len(q), ~(i <= n) PROVE q[i] \in Standing(d)
      <4>1. i - n \in 1..(Len(q) - (n + 1) + 1) /\ (n + 1) + (i - n) - 1 = i
        BY <1>0, <2>2, <3>1
      <4>2. i - n \in 1..Len(r) /\ r[i - n] = q[i]
        BY <2>6, <4>1
      <4> QED BY <2>3, <4>2 DEF Standing
    <3>2. ASSUME NEW j \in 1..Len(r) PROVE r[j] \in Standing(l)
      <4>1. (n + 1) + j - 1 \in 1..Len(q) /\ r[j] = q[(n + 1) + j - 1]
        BY <1>0, <2>2, <2>6
      <4> QED BY <4>1 DEF Standing
    <3>3. \A i \in 1..n : i \in 1..Len(q) /\ q[i] \in Standing(l)
      BY <1>0, <2>2 DEF Standing
    <3>4. \A x \in Standing(d) : \E j \in 1..Len(r) : x = r[j]
      BY <2>3 DEF Standing
    <3>5. \A x \in Standing(l) : \E i \in 1..Len(q) : x = q[i]
      BY DEF Standing
    <3>6. \A i \in 1..Len(q) : i <= n => i \in 1..n
      BY <1>0, <2>2
    <3> HIDE DEF r
    <3> QED BY <3>1, <3>2, <3>3, <3>4, <3>5, <3>6
  <2> HIDE DEF d
  <2>8. Waiting(d, u) <=> Waiting(l, u)
    <3>1. u \in won => InQueue(l, u) /\ Waiting(d, u)
      BY <2>3, <2>4, <2>7, StandingIs DEF Waiting
    <3>2. u \notin won => (InQueue(d, u) <=> InQueue(l, u))
      BY <2>4, <2>7, StandingIs
    <3> QED BY <2>3, <3>1, <3>2 DEF Waiting
  <2>9. \A m \in Mode : Asks(l, u, m) => Asks(d, u, m)
    BY <2>2, <2>3, <2>4, <2>7, StandingIs
  <2> QED BY <2>3, <2>8, <2>9 DEF Unaffected, d
<1> QED BY <1>1, <1>2, <1>3

\* A request joins the queue, the others as they were.
LEMMA QueuedFrame ==
  ASSUME NEW l, Sound(l), NEW t \in Thread, NEW m \in Mode, ~Waiting(l, t)
  PROVE  LET k == Queued(l, t, m)
         IN  /\ k.stacks = l.stacks /\ Waiting(k, t) /\ Asks(k, t, m)
             /\ \A u \in Thread \ {t} : Unaffected(l, k, u)
<1> DEFINE w == [tid |-> t, mode |-> m]
           k == Queued(l, t, m)
<1>0. l \in LockState /\ l.queue \in Seq(Waiter) /\ w \in Waiter /\ Len(l.queue) \in Nat
  BY QueueElement DEF Sound, Waiter
<1>1. /\ k.queue = (IF Upgrades(l, t, m) THEN << w >> \o l.queue ELSE Append(l.queue, w))
      /\ k.stacks = l.stacks /\ k.granted = l.granted
  BY <1>0 DEF Queued, LockState
<1>2. w.tid = t /\ w.mode = m
  OBVIOUS
<1> HIDE DEF k, w
<1>3. \A x : x \in Standing(k) <=> x \in Standing(l) \/ x = w
  <2> DEFINE q == l.queue
             r == k.queue
  <2>1. CASE Upgrades(l, t, m)
    <3>1. << w >> \in Seq(Waiter) /\ Len(<< w >>) = 1 /\ << w >>[1] = w
      BY <1>0
    <3>2. /\ Len(r) = 1 + Len(q)
          /\ \A i \in 1..(1 + Len(q)) : r[i] = IF i <= 1 THEN << w >>[i] ELSE q[i - 1]
      BY <1>0, <1>1, <2>1, <3>1, ConcatProperties
    <3>3. ASSUME NEW i \in 1..Len(q) PROVE i + 1 \in 1..Len(r) /\ r[i + 1] = q[i]
      BY <1>0, <3>2
    <3>4. 1 \in 1..Len(r) /\ r[1] = w
      BY <1>0, <3>1, <3>2
    <3>5. ASSUME NEW i \in 1..Len(r), i # 1 PROVE i - 1 \in 1..Len(q) /\ r[i] = q[i - 1]
      BY <1>0, <3>2, <3>5
    <3> QED BY <3>3, <3>4, <3>5 DEF Standing
  <2>2. CASE ~Upgrades(l, t, m)
    <3>1. /\ Len(r) = Len(q) + 1 /\ r[Len(q) + 1] = w
          /\ \A i \in 1..Len(q) : r[i] = q[i]
      BY <1>0, <1>1, <2>2, AppendProperties
    <3>2. /\ \A i \in 1..Len(q) : i \in 1..Len(r)
          /\ Len(q) + 1 \in 1..Len(r)
          /\ \A i \in 1..Len(r) : i = Len(q) + 1 \/ i \in 1..Len(q)
      BY <1>0, <3>1
    <3> QED BY <3>1, <3>2 DEF Standing
  <2> QED BY <2>1, <2>2
<1>4. ~InQueue(l, t) /\ l.granted[t] = "none"
  BY DEF Waiting
<1>5. Waiting(k, t) /\ Asks(k, t, m)
  BY <1>1, <1>2, <1>3, <1>4, StandingIs DEF Waiting
<1>6. ASSUME NEW u \in Thread \ {t} PROVE Unaffected(l, k, u)
  <2>1. InQueue(k, u) <=> InQueue(l, u)
    BY <1>2, <1>3, StandingIs
  <2>2. \A n \in Mode : Asks(l, u, n) => Asks(k, u, n)
    BY <1>1, <1>2, <1>3, StandingIs
  <2> QED BY <1>1, <2>1, <2>2 DEF Unaffected, Waiting
<1> QED BY <1>1, <1>5, <1>6 DEF k

\* A granted waiter wakes up with the mode it asked for.
LEMMA WokenFrame ==
  ASSUME NEW l, Sound(l), NEW t \in Thread, NEW m \in Mode,
         l.granted[t] # "none", Asks(l, t, m)
  PROVE  LET k == Woken(l, t)
         IN  /\ k.stacks[t] = Append(l.stacks[t], m) /\ ~Waiting(k, t)
             /\ \A u \in Thread \ {t} : Unaffected(l, k, u)
<1> DEFINE k == Woken(l, t)
<1>0. l \in LockState /\ QueueDistinct(l)
  BY DEF Sound
<1>1. /\ k.queue = l.queue /\ l.granted[t] = m
      /\ k.stacks = [l.stacks EXCEPT ![t] = Append(@, l.granted[t])]
      /\ k.granted = [l.granted EXCEPT ![t] = "none"]
      /\ l.stacks \in [Thread -> Seq(Mode)] /\ l.granted \in [Thread -> Mode \cup {"none"}]
  BY <1>0 DEF Woken, LockState, Asks
<1>2. ~InQueue(l, t)
  BY <1>0 DEF QueueDistinct, InQueue
<1> HIDE DEF k
<1>3. k.stacks[t] = Append(l.stacks[t], m) /\ k.granted[t] = "none" /\ ~InQueue(k, t)
  BY <1>1, <1>2 DEF InQueue
<1>4. ASSUME NEW u \in Thread \ {t} PROVE Unaffected(l, k, u)
  BY <1>1 DEF Unaffected, Waiting, InQueue, Asks
<1> QED BY <1>3, <1>4 DEF k, Waiting

\* acquire: the thread has the mode on its stack, or waits for it.
LEMMA AcquiredFrame ==
  ASSUME NEW l, Sound(l), NEW t \in Thread, NEW m \in Mode, ~Waiting(l, t)
  PROVE  LET k == Acquired(l, t, m)
         IN  /\ \/ k.stacks[t] = Append(l.stacks[t], m) /\ ~Waiting(k, t)
                \/ k.stacks[t] = l.stacks[t] /\ Waiting(k, t) /\ Asks(k, t, m)
             /\ \A u \in Thread \ {t} : Unaffected(l, k, u)
<1> DEFINE k == Acquired(l, t, m)
<1>0. l \in LockState
  BY DEF Sound
<1>1. CASE Nests(l, t, m)
  <2>1. k = Take(l, t, m)
    BY <1>1 DEF Acquired
  <2>2. /\ k.queue = l.queue /\ k.granted = l.granted
        /\ k.stacks = [l.stacks EXCEPT ![t] = Append(@, m)]
        /\ l.stacks \in [Thread -> Seq(Mode)]
    BY <1>0, <2>1 DEF Take, LockState
  <2> HIDE DEF k
  <2>3. k.stacks[t] = Append(l.stacks[t], m) /\ ~Waiting(k, t)
    BY <2>2 DEF Waiting, InQueue
  <2>4. ASSUME NEW u \in Thread \ {t} PROVE Unaffected(l, k, u)
    BY <2>2 DEF Unaffected, Waiting, InQueue, Asks
  <2> QED BY <2>3, <2>4 DEF k
<1>2. CASE ~Nests(l, t, m)
  <2> DEFINE j == Queued(l, t, m)
             d == Dispatch(j)
  <2>1. /\ j.stacks = l.stacks /\ Waiting(j, t) /\ Asks(j, t, m) /\ Sound(j)
        /\ \A u \in Thread \ {t} : Unaffected(l, j, u)
    BY <1>2, QueuedFrame, QueuedSound
  <2> HIDE DEF j
  <2>2. Sound(d) /\ \A u \in Thread : Unaffected(j, d, u)
    BY <2>1, DispatchSound, DispatchFrame
  <2>3. k = IF d.granted[t] # "none" THEN Woken(d, t) ELSE d
    BY <1>2 DEF Acquired, j
  <2> HIDE DEF d, k
  <2>4. d.stacks[t] = l.stacks[t] /\ Waiting(d, t) /\ Asks(d, t, m)
    BY <2>1, <2>2 DEF Unaffected
  <2>5. \A u \in Thread \ {t} : Unaffected(l, d, u)
    BY <2>1, <2>2, UnaffectedChain
  <2>6. CASE d.granted[t] = "none"
    BY <2>3, <2>4, <2>5, <2>6 DEF k
  <2>7. CASE d.granted[t] # "none"
    <3>1. /\ k.stacks[t] = Append(d.stacks[t], m) /\ ~Waiting(k, t)
          /\ \A u \in Thread \ {t} : Unaffected(d, k, u)
      BY <2>2, <2>3, <2>4, <2>7, WokenFrame
    <3>2. \A u \in Thread \ {t} : Unaffected(l, k, u)
      BY <2>5, <3>1, UnaffectedChain
    <3> QED BY <2>4, <3>1, <3>2 DEF k
  <2> QED BY <2>6, <2>7
<1> QED BY <1>1, <1>2

\* A waiter that gives up leaves the queue, the others as they were.
LEMMA DropFrame ==
  ASSUME NEW l, Sound(l), NEW t \in Thread, InQueue(l, t)
  PROVE  LET k == Drop(l, t)
         IN  /\ k.stacks[t] = l.stacks[t] /\ ~Waiting(k, t)
             /\ \A u \in Thread \ {t} : Unaffected(l, k, u)
<1> DEFINE q == l.queue
           i == CHOOSE j \in 1..Len(q) : q[j].tid = t
           r == SubSeq(q, 1, i - 1) \o SubSeq(q, i + 1, Len(q))
           k == [l EXCEPT !.queue = r]
<1>0. /\ l \in LockState /\ q \in Seq(Waiter) /\ Len(q) \in Nat /\ QueueDistinct(l)
      /\ \A j \in 1..Len(q) : q[j].tid \in Thread
  BY QueueElement DEF Sound
<1>1. i \in 1..Len(q) /\ q[i].tid = t
  BY DEF InQueue
<1> HIDE DEF i
<1>2. /\ r \in Seq(Waiter) /\ Len(r) = Len(q) - 1
      /\ \A j \in 1..Len(r) : r[j] = IF j < i THEN q[j] ELSE q[j + 1]
  BY <1>0, <1>1, Omitted
<1>3. Drop(l, t) = Dispatch(k)
  BY DEF Drop, i
<1>9. Sound(k)
  BY <1>1, WithoutSound
<1>4. /\ k.queue = r /\ k.stacks = l.stacks /\ k.granted = l.granted
      /\ k.shared = l.shared /\ k.writer = l.writer /\ k.writerCount = l.writerCount
      /\ k \in LockState
  <2> HIDE DEF r
  <2> QED BY <1>0, <1>2 DEF LockState
<1> HIDE DEF r, k
<1>5. \A x : x \in Standing(k) <=> x \in Standing(l) /\ x.tid # t
  <2>1. ASSUME NEW j \in 1..Len(r)
        PROVE  \E x \in 1..Len(q) : x # i /\ r[j] = q[x]
    BY <1>0, <1>1, <1>2
  <2>2. ASSUME NEW x \in 1..Len(q), x # i
        PROVE  \E j \in 1..Len(r) : r[j] = q[x]
    <3>1. CASE x < i
      <4>1. x \in 1..Len(r) /\ r[x] = q[x]
        BY <1>0, <1>1, <1>2, <3>1
      <4> QED BY <4>1
    <3>2. CASE ~(x < i)
      <4>1. x - 1 \in 1..Len(r) /\ ~(x - 1 < i) /\ (x - 1) + 1 = x
        BY <1>0, <1>1, <1>2, <2>2, <3>2
      <4>2. r[x - 1] = q[x]
        BY <1>2, <4>1
      <4> QED BY <4>1, <4>2
    <3> QED BY <3>1, <3>2
  <2>3. \A x \in 1..Len(q) : q[x].tid = t <=> x = i
    BY <1>0, <1>1 DEF QueueDistinct
  <2>4. /\ \A x : x \in Standing(k) <=> \E j \in 1..Len(r) : x = r[j]
        /\ \A x : x \in Standing(l) <=> \E j \in 1..Len(q) : x = q[j]
    BY <1>4 DEF Standing
  <2>5. ASSUME NEW x \in Standing(k) PROVE x \in Standing(l) /\ x.tid # t
    <3>1. PICK y \in 1..Len(q) : y # i /\ x = q[y]
      BY <2>1, <2>4
    <3> QED BY <2>3, <2>4, <3>1
  <2>6. ASSUME NEW x \in Standing(l), x.tid # t PROVE x \in Standing(k)
    <3>1. PICK y \in 1..Len(q) : y # i /\ x = q[y]
      BY <2>3, <2>4, <2>6
    <3>2. PICK j \in 1..Len(r) : r[j] = q[y]
      BY <2>2, <3>1
    <3> QED BY <2>4, <3>1, <3>2
  <2> QED BY <2>5, <2>6
<1>6. l.granted[t] = "none"
  BY <1>0, <1>1 DEF QueueDistinct
<1>7. ~Waiting(k, t)
  BY <1>4, <1>5, <1>6, StandingIs DEF Waiting
<1>8. ASSUME NEW u \in Thread \ {t} PROVE Unaffected(l, k, u)
  <2>1. InQueue(k, u) <=> InQueue(l, u)
    BY <1>5, StandingIs
  <2>2. \A n \in Mode : Asks(l, u, n) => Asks(k, u, n)
    BY <1>4, <1>5, StandingIs
  <2> QED BY <1>4, <2>1, <2>2 DEF Unaffected, Waiting
<1>10. \A u \in Thread : Unaffected(k, Drop(l, t), u)
  BY <1>3, <1>9, DispatchFrame
<1> QED BY <1>4, <1>7, <1>8, <1>10, UnaffectedChain DEF Unaffected

\* release takes the newest mode off the thread's stack, the others as they were.
LEMMA ReleasedFrame ==
  ASSUME NEW l, Sound(l), NEW t \in Thread, l.stacks[t] # << >>, ~Waiting(l, t)
  PROVE  LET k == Released(l, t)
         IN  /\ k.stacks[t] = Front(l.stacks[t]) /\ ~Waiting(k, t)
             /\ \A u \in Thread \ {t} : Unaffected(l, k, u)
<1> DEFINE k == Popped(l, t)
<1>0. l \in LockState
  BY DEF Sound
<1>1. /\ k.queue = l.queue /\ k.granted = l.granted
      /\ k.stacks = [l.stacks EXCEPT ![t] = SubSeq(@, 1, Len(@) - 1)]
      /\ l.stacks \in [Thread -> Seq(Mode)]
  BY <1>0 DEF Popped, LockState
<1>2. Sound(k)
  BY PoppedSound
<1> HIDE DEF k
<1>3. k.stacks[t] = Front(l.stacks[t]) /\ ~Waiting(k, t)
  BY <1>1 DEF Front, Waiting, InQueue
<1>4. ASSUME NEW u \in Thread \ {t} PROVE Unaffected(l, k, u)
  BY <1>1 DEF Unaffected, Waiting, InQueue, Asks
<1>5. \A u \in Thread : Unaffected(k, Released(l, t), u)
  BY <1>2, DispatchFrame DEF Released, k
<1> QED BY <1>3, <1>4, <1>5, UnaffectedChain DEF Unaffected

-----------------------------------------------------------------------------
(* One thread's step *)

\* Nothing of the other processes changes, nor the calls of the other threads.
Elsewhere(p, t) ==
  /\ \A q \in Proc \ {p} : /\ rw'[q] = rw[q] /\ held'[q] = held[q] /\ flock'[q] = flock[q]
                           /\ call'[q] = call[q] /\ (q \in warned' <=> q \in warned)
  /\ \A u \in Thread \ {t} : call'[p][u] = call[p][u]
  /\ native' = native

LEMMA OtherProcess ==
  ASSUME NEW q \in Proc, rw'[q] = rw[q], held'[q] = held[q], flock'[q] = flock[q],
         call'[q] = call[q], q \in warned' <=> q \in warned
  PROVE  /\ OpenedAt(q) => OpenedAt(q)'
         /\ OwnedAt(q) => OwnedAt(q)'
         /\ Sound(rw[q]) /\ Settled(rw[q]) => Sound(rw[q])' /\ Settled(rw[q])'
         /\ \A u \in Thread : (LinkedAt(q, u) => LinkedAt(q, u)') /\ (AloneAt(q, u) => AloneAt(q, u)')
<1>1. /\ rw'[q] = rw[q] /\ held'[q] = held[q] /\ flock'[q] = flock[q]
      /\ call'[q] = call[q] /\ (q \in warned' <=> q \in warned)
  OBVIOUS
<1>2. OpenedAt(q) => OpenedAt(q)'
  BY <1>1 DEF OpenedAt
<1>3. \A u \in Thread : Reg(q, u)' = Reg(q, u)
  BY <1>1 DEF Reg
<1>4. OwnedAt(q) => OwnedAt(q)'
  BY <1>1, <1>3 DEF OwnedAt, Owns
<1>5. Sound(rw[q]) /\ Settled(rw[q]) => Sound(rw[q])' /\ Settled(rw[q])'
  BY <1>1
<1>6. \A u \in Thread : LinkedAt(q, u) => LinkedAt(q, u)'
  BY <1>1 DEF LinkedAt
<1>7. \A u \in Thread : AloneAt(q, u) => AloneAt(q, u)'
  BY <1>1, <1>3 DEF AloneAt
<1> QED BY <1>2, <1>4, <1>5, <1>6, <1>7

LEMMA OtherThread ==
  ASSUME NEW p, NEW t, NEW u \in Thread \ {t}, Elsewhere(p, t), Unaffected(rw[p], rw'[p], u),
         LinkedAt(p, u), call[p][u].want \in Mode
  PROVE  LinkedAt(p, u)'
<1>1. call'[p][u] = call[p][u] /\ rw'[p].stacks[u] = rw[p].stacks[u]
  BY DEF Elsewhere, Unaffected
<1>2. Waiting(rw[p], u)' <=> Waiting(rw[p], u)
  BY DEF Unaffected
<1>3. Asks(rw[p], u, call[p][u].want) => Asks(rw[p], u, call[p][u].want)'
  BY <1>1 DEF Unaffected
<1> QED BY <1>1, <1>2, <1>3 DEF LinkedAt

\* In a process of one thread there is no other.
LEMMA OnlyThread ==
  ASSUME NEW p \in Proc, Single(p), NEW t \in ThreadsOf[p], NEW u \in ThreadsOf[p]
  PROVE  u = t
<1>1. ThreadsOf[p] \subseteq Thread /\ IsFiniteSet(Thread)
  BY GraphLockAssumption
<1>2. IsFiniteSet(ThreadsOf[p])
  BY <1>1, FS_Subset
<1>3. \E x : ThreadsOf[p] = {x}
  BY <1>2, FS_Singleton DEF Single
<1> QED BY <1>3

\* What a step of t has to keep.
LEMMA Assemble ==
  ASSUME IInv, NEW p \in Proc, NEW t \in ThreadsOf[p], Typed', Compatible', Elsewhere(p, t),
         Sound(rw'[p]), Settled(rw'[p]),
         \A u \in Thread \ {t} : Unaffected(rw[p], rw'[p], u),
         LinkedAt(p, t)', OpenedAt(p)', OwnedAt(p)', Single(p) => AloneAt(p, t)'
  PROVE  IInv'
<1>1. ASSUME NEW q \in Proc, q # p
      PROVE  /\ Sound(rw[q])' /\ Settled(rw[q])' /\ OpenedAt(q)' /\ OwnedAt(q)'
             /\ \A u \in Thread : LinkedAt(q, u)'
             /\ Single(q) => \A u \in ThreadsOf[q] : AloneAt(q, u)'
  <2>1. ThreadsOf[q] \subseteq Thread
    BY GraphLockAssumption
  <2>2. /\ rw'[q] = rw[q] /\ held'[q] = held[q] /\ flock'[q] = flock[q]
        /\ call'[q] = call[q] /\ (q \in warned' <=> q \in warned)
    BY <1>1 DEF Elsewhere
  <2> QED BY <2>1, <2>2, OtherProcess DEF IInv
<1>2. ASSUME NEW u \in Thread PROVE LinkedAt(p, u)'
  <2>1. LinkedAt(p, u) /\ call[p][u].want \in Mode
    BY DEF IInv, Typed
  <2>2. u # t => LinkedAt(p, u)'
    BY <2>1, OtherThread
  <2> QED BY <2>2
<1>3. Single(p) => \A u \in ThreadsOf[p] : AloneAt(p, u)'
  BY OnlyThread
<1> QED BY <1>1, <1>2, <1>3 DEF IInv, Single

\* A thread with a hold has the process's exclusive lock, or nobody has it.
LEMMA Before ==
  ASSUME IInv, NEW p \in Proc, NEW t \in ThreadsOf[p], rw[p].stacks[t] # << >>
  PROVE  /\ t \in Thread /\ rw[p].stacks[t] \in Seq(Mode) /\ held[p].modes \in Seq(Mode)
         /\ \A u \in Thread \ {t} : ~Has(rw[p].stacks[u], "exclusive")
         /\ Has(rw[p].stacks[t], "exclusive") => Owns(p, t)
         /\ ~Has(rw[p].stacks[t], "exclusive") => ~Has(held[p].modes, "exclusive")
<1>1. t \in Thread
  BY GraphLockAssumption
<1>2. rw[p].stacks[t] \in Seq(Mode) /\ held[p].modes \in Seq(Mode) /\ Sound(rw[p]) /\ OwnedAt(p)
  BY <1>1 DEF IInv, Typed, LockState
<1>3. \A u \in Thread \ {t} : ~Holds(rw[p], u, "exclusive")
  BY <1>1, <1>2, SoundExcludes
<1>4. \A u \in Thread : Holds(rw[p], u, "exclusive") <=> Has(rw[p].stacks[u], "exclusive")
  BY DEF Holds, Has
<1> QED BY <1>1, <1>2, <1>3, <1>4 DEF OwnedAt

\* What a step inside a call has to keep, the thread lock as it is.
LEMMA Within ==
  ASSUME IInv, NEW p \in Proc, NEW t \in ThreadsOf[p], rw[p].stacks[t] # << >>, rw' = rw,
         Typed', Compatible', Elsewhere(p, t), LinkedAt(p, t)', OpenedAt(p)',
         Has(rw[p].stacks[t], "exclusive") => Owns(p, t)',
         ~Has(rw[p].stacks[t], "exclusive") => ~Has(held'[p].modes, "exclusive"),
         Single(p) => AloneAt(p, t)'
  PROVE  IInv'
<1>1. t \in Thread /\ \A u \in Thread \ {t} : ~Has(rw[p].stacks[u], "exclusive")
  BY Before
<1>2. \A u \in Thread : Holds(rw'[p], u, "exclusive") <=> Has(rw[p].stacks[u], "exclusive")
  BY DEF Holds, Has
<1>3. OwnedAt(p)'
  BY <1>1, <1>2 DEF OwnedAt
<1>4. \A u \in Thread \ {t} : Unaffected(rw[p], rw'[p], u)
  BY DEF Unaffected
<1>5. Sound(rw'[p]) /\ Settled(rw'[p])
  BY DEF IInv
<1> QED BY <1>3, <1>4, <1>5, Assemble

\* Moving on within a call.
LEMMA Goes ==
  ASSUME Typed, NEW p \in Proc, NEW t \in Thread, NEW pc \in InCall \cup {"run"}, Go(p, t, pc)
  PROVE  /\ call' \in [Proc -> [Thread -> [pc : InCall \cup {"run"}, want : Mode,
                                           fd : Handle \cup {NoHandle}]]]
         /\ call'[p][t].pc = pc /\ call'[p][t].want = call[p][t].want
         /\ call'[p][t].fd = call[p][t].fd
         /\ \A q \in Proc \ {p} : call'[q] = call[q]
         /\ \A u \in Thread \ {t} : call'[p][u] = call[p][u]
<1> DEFINE C == [pc : InCall \cup {"run"}, want : Mode, fd : Handle \cup {NoHandle}]
<1>1. call \in [Proc -> [Thread -> C]] /\ call' = [call EXCEPT ![p][t].pc = pc]
  BY DEF Typed, Go
<1> DEFINE v == [call[p][t] EXCEPT !.pc = pc]
<1>2. call[p][t] \in C
  BY <1>1
<1>3. v \in C /\ v.pc = pc /\ v.want = call[p][t].want /\ v.fd = call[p][t].fd
  BY <1>2
<1>4. call' = [call EXCEPT ![p] = [call[p] EXCEPT ![t] = v]]
  BY <1>1
<1> HIDE DEF v, C
<1> QED BY <1>1, <1>3, <1>4 DEF C

\* Setting where a thread is as a whole.
LEMMA Becomes ==
  ASSUME Typed, NEW p \in Proc, NEW t \in Thread,
         NEW v \in [pc : InCall \cup {"run"}, want : Mode, fd : Handle \cup {NoHandle}],
         call' = [call EXCEPT ![p][t] = v]
  PROVE  /\ call' \in [Proc -> [Thread -> [pc : InCall \cup {"run"}, want : Mode,
                                           fd : Handle \cup {NoHandle}]]]
         /\ call'[p][t] = v
         /\ \A q \in Proc \ {p} : call'[q] = call[q]
         /\ \A u \in Thread \ {t} : call'[p][u] = call[p][u]
<1> DEFINE C == [pc : InCall \cup {"run"}, want : Mode, fd : Handle \cup {NoHandle}]
<1>1. call \in [Proc -> [Thread -> C]] /\ v \in C
  BY DEF Typed
<1> HIDE DEF C
<1>2. call' \in [Proc -> [Thread -> C]]
  BY <1>1
<1> QED BY <1>1, <1>2 DEF C

\* A call that returns leaves the thread in the body of its `with` blocks.
LEMMA Returns ==
  ASSUME Typed, NEW p \in Proc, NEW t \in Thread, Return(p, t)
  PROVE  /\ call' \in [Proc -> [Thread -> [pc : InCall \cup {"run"}, want : Mode,
                                           fd : Handle \cup {NoHandle}]]]
         /\ call'[p][t].pc = "run" /\ call'[p][t].fd = NoHandle
         /\ \A q \in Proc \ {p} : call'[q] = call[q]
         /\ \A u \in Thread \ {t} : call'[p][u] = call[p][u]
<1>1. /\ Idle \in [pc : InCall \cup {"run"}, want : Mode, fd : Handle \cup {NoHandle}]
      /\ Idle.pc = "run" /\ Idle.fd = NoHandle
  BY DEF Idle, Mode
<1>2. call' = [call EXCEPT ![p][t] = Idle]
  BY DEF Return
<1> HIDE DEF Idle
<1> QED BY <1>1, <1>2, Becomes

\* One call of flock on the thread's handle.
LEMMA Flocks ==
  ASSUME Typed, NEW p \in Proc, NEW t \in Thread, call[p][t].fd \in Handle,
         NEW m \in Mode \cup {"none", "closed"}, Flock(p, t, m)
  PROVE  /\ flock' \in [Proc -> [Handle -> Mode \cup {"none", "closed"}]]
         /\ flock'[p][call[p][t].fd] = m
         /\ \A q \in Proc \ {p} : flock'[q] = flock[q]
         /\ \A k \in Handle \ {call[p][t].fd} : flock'[p][k] = flock[p][k]
BY DEF Typed, Flock

\* Handles that are released or closed conflict with nothing, and a lock that is
\* granted conflicts with none that is held.
LEMMA FlocksAgree ==
  ASSUME Typed, Compatible, NEW p \in Proc, NEW h \in Handle, native' = native,
         \A q \in Proc \ {p} : flock'[q] = flock[q],
         \A k \in Handle \ {h} : flock'[p][k] \in {flock[p][k], "closed"},
         flock'[p][h] \in {flock[p][h], "none", "closed"} \/ Grantable(p, h, flock'[p][h])
  PROVE  Compatible'
<1>0. /\ \A m : ~Conflicts("none", m) /\ ~Conflicts("closed", m)
      /\ \A m : ~Conflicts(m, "none") /\ ~Conflicts(m, "closed")
      /\ \A m, n : Conflicts(m, n) => Conflicts(n, m)
  BY DEF Conflicts, Mode
<1>1. \A q \in Proc, k \in Handle : << q, k >> # << p, h >> =>
        flock'[q][k] \in {flock[q][k], "closed"}
  OBVIOUS
<1>2. ASSUME NEW q \in Proc, NEW k \in Handle, << q, k >> # << p, h >>
      PROVE  ~Conflicts(flock'[p][h], flock'[q][k])
  BY <1>0, <1>1, <1>2 DEF Compatible, Grantable
<1>3. ASSUME NEW q \in Proc, NEW k \in Handle, NEW r \in Proc, NEW j \in Handle,
             << q, k >> # << r, j >>
      PROVE  ~Conflicts(flock'[q][k], flock'[r][j])
  <2>1. CASE << q, k >> = << p, h >>
    BY <1>2, <1>3, <2>1
  <2>2. CASE << r, j >> = << p, h >>
    BY <1>0, <1>2, <1>3, <2>2
  <2>3. CASE << q, k >> # << p, h >> /\ << r, j >> # << p, h >>
    BY <1>0, <1>1, <1>3, <2>3 DEF Compatible
  <2> QED BY <2>1, <2>2, <2>3
<1>4. ASSUME NEW q \in Proc, NEW k \in Handle, NEW n \in Native
      PROVE  ~Conflicts(flock'[q][k], native'[n])
  BY <1>0, <1>1 DEF Compatible, Grantable
<1> QED BY <1>3, <1>4 DEF Compatible

LEMMA Facts ==
  ASSUME IInv, NEW p \in Proc, NEW t \in ThreadsOf[p]
  PROVE  /\ Typed /\ Compatible /\ t \in Thread /\ LinkedAt(p, t) /\ OpenedAt(p) /\ OwnedAt(p)
         /\ Sound(rw[p]) /\ Settled(rw[p]) /\ (Single(p) => AloneAt(p, t))
         /\ rw[p] \in LockState /\ rw[p].stacks[t] \in Seq(Mode)
         /\ held[p] \in [handle : Handle \cup {NoHandle}, modes : Seq(Mode)]
         /\ call[p][t] \in [pc : InCall \cup {"run"}, want : Mode, fd : Handle \cup {NoHandle}]
         /\ flock[p] \in [Handle -> Mode \cup {"none", "closed"}]
<1>1. t \in Thread
  BY GraphLockAssumption
<1>2. Typed /\ rw[p] \in LockState
  BY DEF IInv, Typed
<1>3. rw[p].stacks[t] \in Seq(Mode)
  BY <1>1, <1>2 DEF LockState
<1> QED BY <1>1, <1>2, <1>3 DEF IInv, Typed

-----------------------------------------------------------------------------
(* Steps on a handle *)

\* A step that moves the call on and calls flock at most.
LEMMA Turns ==
  ASSUME IInv, NEW p \in Proc, NEW t \in ThreadsOf[p], call[p][t].pc \in OnHandle,
         NEW q \in OnHandle \cup {"leave"}, Go(p, t, q),
         q \in Acquiring => call[p][t].pc \in Acquiring,
         q \in Upgrading => call[p][t].pc \in Upgrading,
         NEW m \in Mode \cup {"none", "closed"},
         \/ Flock(p, t, m) /\ (m \in Mode => Grantable(p, call[p][t].fd, m))
         \/ flock' = flock /\ m = flock[p][call[p][t].fd],
         rw' = rw, held' = held, native' = native, warned' \in {warned, warned \cup {p}}
  PROVE  /\ Typed' /\ Compatible' /\ Elsewhere(p, t) /\ OpenedAt(p)' /\ LinkedAt(p, t)'
         /\ call[p][t].fd \in Handle
         /\ call'[p][t].pc = q /\ call'[p][t].want = call[p][t].want
         /\ call'[p][t].fd = call[p][t].fd
         /\ flock'[p][call[p][t].fd] = m
         /\ \A k \in Handle \ {call[p][t].fd} : flock'[p][k] = flock[p][k]
<1> DEFINE h == call[p][t].fd
<1>1. Typed /\ Compatible /\ t \in Thread /\ LinkedAt(p, t) /\ OpenedAt(p)
  BY Facts
<1>2. h \in Handle
  BY <1>1 DEF LinkedAt
<1>3. q \in InCall \cup {"run"}
  BY DEF OnHandle, Upgrading, InCall
<1>4. /\ call' \in [Proc -> [Thread -> [pc : InCall \cup {"run"}, want : Mode,
                                           fd : Handle \cup {NoHandle}]]]
      /\ call'[p][t].pc = q /\ call'[p][t].want = call[p][t].want
      /\ call'[p][t].fd = call[p][t].fd
      /\ \A r \in Proc \ {p} : call'[r] = call[r]
      /\ \A u \in Thread \ {t} : call'[p][u] = call[p][u]
  BY <1>1, <1>3, Goes
<1>5. /\ flock' \in [Proc -> [Handle -> Mode \cup {"none", "closed"}]]
      /\ flock'[p][h] = m
      /\ \A r \in Proc \ {p} : flock'[r] = flock[r]
      /\ \A k \in Handle \ {h} : flock'[p][k] = flock[p][k]
  <2>1. CASE Flock(p, t, m)
    BY <1>1, <1>2, <2>1, Flocks
  <2>2. CASE flock' = flock /\ m = flock[p][h]
    BY <1>1, <2>2 DEF Typed
  <2> QED BY <2>1, <2>2
<1> HIDE DEF h
<1>6. Typed'
  BY <1>1, <1>4, <1>5 DEF Typed
<1>7. Compatible'
  <2>1. flock'[p][h] \in {flock[p][h], "none", "closed"} \/ Grantable(p, h, flock'[p][h])
    BY <1>5 DEF h
  <2>2. \A k \in Handle \ {h} : flock'[p][k] \in {flock[p][k], "closed"}
    BY <1>5
  <2> QED BY <1>1, <1>2, <1>5, <2>1, <2>2, FlocksAgree
<1>8. Elsewhere(p, t)
  BY <1>4, <1>5 DEF Elsewhere
<1>9. OpenedAt(p)'
  <2>1. \A u \in Thread : call'[p][u].fd = call[p][u].fd
    BY <1>4
  <2> QED BY <1>1, <1>4, <1>5, <2>1 DEF OpenedAt, h
<1>10. LinkedAt(p, t)'
  <2>1. ~Waiting(rw[p], t) /\ rw[p].stacks[t] # << >>
    BY <1>1 DEF LinkedAt, OnHandle, Upgrading
  <2>2. q \notin {"run", "thread", "lookup"}
    BY DEF OnHandle, Upgrading
  <2> QED BY <1>1, <1>2, <1>4, <2>1, <2>2 DEF LinkedAt, h
<1> QED BY <1>2, <1>4, <1>5, <1>6, <1>7, <1>8, <1>9, <1>10 DEF h

LEMMA AbsentIs == Absent.handle = NoHandle /\ Absent.modes = << >> /\ NoHandle \notin Handle
BY DEF Absent, NoHandle, Handle

\* Where the registered part of the stack ends.
LEMMA RegIs ==
  ASSUME NEW p, NEW t
  PROVE  /\ call[p][t].pc \in {"run", "thread"} \cup Upgrading => Reg(p, t) = rw[p].stacks[t]
         /\ call[p][t].pc \notin {"run", "thread"} \cup Upgrading =>
              Reg(p, t) = Front(rw[p].stacks[t])
BY DEF Reg

LEMMA WaitKeeps ==
  ASSUME IInv, NEW p \in Proc, NEW t \in ThreadsOf[p], Wait(p, t)
  PROVE  IInv'
<1> DEFINE c == call[p][t]
<1>1. c.pc = "wait" /\ c.want \in Mode /\ rw[p].stacks[t] # << >>
  BY Facts DEF Wait, At, LinkedAt
<1>2. /\ Typed' /\ Compatible' /\ Elsewhere(p, t) /\ OpenedAt(p)' /\ LinkedAt(p, t)'
      /\ c.fd \in Handle
      /\ call'[p][t].pc = "publish" /\ call'[p][t].want = c.want /\ call'[p][t].fd = c.fd
      /\ flock'[p][c.fd] = c.want
  <2>1. c.want \in Mode \cup {"none", "closed"} /\ Flock(p, t, c.want) /\ Go(p, t, "publish")
        /\ Grantable(p, c.fd, c.want) /\ rw' = rw /\ held' = held /\ native' = native
        /\ warned' = warned
    BY <1>1 DEF Wait
  <2>2. "publish" \in OnHandle \cup {"leave"} /\ c.pc \in OnHandle /\ c.pc \in Acquiring
        /\ "publish" \notin Upgrading
    BY <1>1 DEF OnHandle, Acquiring, Upgrading
  <2> QED BY <2>1, <2>2, Turns
<1>3. rw' = rw /\ held' = held /\ warned' = warned
  BY DEF Wait
<1>4. Reg(p, t)' = Reg(p, t)
  BY <1>1, <1>2, <1>3, RegIs DEF Reg, Upgrading
<1>5. Owns(p, t) => Owns(p, t)'
  BY <1>1, <1>2, <1>3, <1>4, AbsentIs DEF Owns, Upgrading
<1>6. AloneAt(p, t) => AloneAt(p, t)'
  BY <1>1, <1>2, <1>3, <1>4 DEF AloneAt, Upgrading
<1> QED BY <1>1, <1>2, <1>3, <1>5, <1>6, Facts, Before, Within

LEMMA WaitFailsKeeps ==
  ASSUME IInv, NEW p \in Proc, NEW t \in ThreadsOf[p], WaitFails(p, t)
  PROVE  IInv'
<1> DEFINE c == call[p][t]
<1>1. c.pc = "wait" /\ rw[p].stacks[t] # << >>
  BY Facts DEF WaitFails, At, LinkedAt
<1>2. /\ Typed' /\ Compatible' /\ Elsewhere(p, t) /\ OpenedAt(p)' /\ LinkedAt(p, t)'
      /\ c.fd \in Handle
      /\ call'[p][t].pc = "leave" /\ call'[p][t].want = c.want /\ call'[p][t].fd = c.fd
      /\ flock'[p][c.fd] = "closed"
  <2>1. /\ Flock(p, t, "closed") /\ Go(p, t, "leave")
        /\ rw' = rw /\ held' = held /\ native' = native
        /\ warned' \in {warned, warned \cup {p}}
    BY <1>1 DEF WaitFails
  <2>2. /\ "leave" \in OnHandle \cup {"leave"} /\ c.pc \in OnHandle
        /\ "leave" \in Acquiring => c.pc \in Acquiring
        /\ "leave" \in Upgrading => c.pc \in Upgrading
    BY <1>1 DEF OnHandle, Acquiring, Upgrading
  <2>3. "closed" \in Mode \cup {"none", "closed"}
    BY DEF Mode
  <2> QED BY <2>1, <2>2, <2>3, Turns DEF Mode
<1>3. rw' = rw /\ held' = held /\ warned' = warned
  BY DEF WaitFails
<1>4. Reg(p, t)' = Reg(p, t)
  BY <1>1, <1>2, <1>3, RegIs DEF Reg, Upgrading
<1>5. Owns(p, t) => Owns(p, t)'
  BY <1>1, <1>2, <1>3, <1>4, AbsentIs DEF Owns, Upgrading
<1>6. AloneAt(p, t) => AloneAt(p, t)'
  BY <1>1, <1>2, <1>3, <1>4, AbsentIs DEF AloneAt, Upgrading, Mode
<1> QED BY <1>1, <1>2, <1>3, <1>5, <1>6, Facts, Before, Within

LEMMA UnshareKeeps ==
  ASSUME IInv, NEW p \in Proc, NEW t \in ThreadsOf[p], Unshare(p, t)
  PROVE  IInv'
<1> DEFINE c == call[p][t]
<1>1. c.pc = "unshare" /\ rw[p].stacks[t] # << >>
  BY Facts DEF Unshare, At, LinkedAt
<1>2. /\ Typed' /\ Compatible' /\ Elsewhere(p, t) /\ OpenedAt(p)' /\ LinkedAt(p, t)'
      /\ c.fd \in Handle
      /\ call'[p][t].pc = "upgrade" /\ call'[p][t].want = c.want /\ call'[p][t].fd = c.fd
      /\ flock'[p][c.fd] = "none"
  <2>1. /\ Flock(p, t, "none") /\ Go(p, t, "upgrade")
        /\ rw' = rw /\ held' = held /\ native' = native
        /\ warned' \in {warned, warned \cup {p}}
    BY <1>1 DEF Unshare
  <2>2. /\ "upgrade" \in OnHandle \cup {"leave"} /\ c.pc \in OnHandle
        /\ "upgrade" \in Acquiring => c.pc \in Acquiring
        /\ "upgrade" \in Upgrading => c.pc \in Upgrading
    BY <1>1 DEF OnHandle, Acquiring, Upgrading
  <2>3. "none" \in Mode \cup {"none", "closed"}
    BY DEF Mode
  <2> QED BY <2>1, <2>2, <2>3, Turns DEF Mode
<1>3. rw' = rw /\ held' = held /\ warned' = warned
  BY DEF Unshare
<1>4. Reg(p, t)' = Reg(p, t)
  BY <1>1, <1>2, <1>3, RegIs DEF Reg, Upgrading
<1>5. Owns(p, t) => Owns(p, t)'
  BY <1>1, <1>2, <1>3, <1>4, AbsentIs DEF Owns, Upgrading
<1>6. AloneAt(p, t) => AloneAt(p, t)'
  BY <1>1, <1>2, <1>3, <1>4, AbsentIs DEF AloneAt, Upgrading, Mode
<1> QED BY <1>1, <1>2, <1>3, <1>5, <1>6, Facts, Before, Within

LEMMA UpgradeFailsKeeps ==
  ASSUME IInv, NEW p \in Proc, NEW t \in ThreadsOf[p], UpgradeFails(p, t)
  PROVE  IInv'
<1> DEFINE c == call[p][t]
<1>1. c.pc = "upgrade" /\ rw[p].stacks[t] # << >>
  BY Facts DEF UpgradeFails, At, LinkedAt
<1>2. /\ Typed' /\ Compatible' /\ Elsewhere(p, t) /\ OpenedAt(p)' /\ LinkedAt(p, t)'
      /\ c.fd \in Handle
      /\ call'[p][t].pc = "restore" /\ call'[p][t].want = c.want /\ call'[p][t].fd = c.fd
      /\ flock'[p][c.fd] = flock[p][c.fd]
  <2>1. /\ flock' = flock /\ Go(p, t, "restore")
        /\ rw' = rw /\ held' = held /\ native' = native
        /\ warned' \in {warned, warned \cup {p}}
    BY <1>1 DEF UpgradeFails
  <2>2. /\ "restore" \in OnHandle \cup {"leave"} /\ c.pc \in OnHandle
        /\ "restore" \in Acquiring => c.pc \in Acquiring
        /\ "restore" \in Upgrading => c.pc \in Upgrading
    BY <1>1 DEF OnHandle, Acquiring, Upgrading
  <2>3. flock[p][c.fd] \in Mode \cup {"none", "closed"}
    <3>1. c.fd \in Handle
      BY <1>1, Facts DEF LinkedAt, OnHandle, Upgrading
    <3> QED BY <3>1, Facts
  <2> QED BY <2>1, <2>2, <2>3, Turns DEF Mode
<1>3. rw' = rw /\ held' = held /\ warned' = warned
  BY DEF UpgradeFails
<1>4. Reg(p, t)' = Reg(p, t)
  BY <1>1, <1>2, <1>3, RegIs DEF Reg, Upgrading
<1>5. Owns(p, t) => Owns(p, t)'
  BY <1>1, <1>2, <1>3, <1>4, AbsentIs DEF Owns, Upgrading
<1>6. AloneAt(p, t) => AloneAt(p, t)'
  BY <1>1, <1>2, <1>3, <1>4, AbsentIs DEF AloneAt, Upgrading, Mode
<1> QED BY <1>1, <1>2, <1>3, <1>5, <1>6, Facts, Before, Within

LEMMA RestoreKeeps ==
  ASSUME IInv, NEW p \in Proc, NEW t \in ThreadsOf[p], Restore(p, t)
  PROVE  IInv'
<1> DEFINE c == call[p][t]
<1>1. c.pc = "restore" /\ rw[p].stacks[t] # << >>
  BY Facts DEF Restore, At, LinkedAt
<1>2. /\ Typed' /\ Compatible' /\ Elsewhere(p, t) /\ OpenedAt(p)' /\ LinkedAt(p, t)'
      /\ c.fd \in Handle
      /\ call'[p][t].pc = "unwind" /\ call'[p][t].want = c.want /\ call'[p][t].fd = c.fd
      /\ flock'[p][c.fd] = "shared"
  <2>1. /\ Flock(p, t, "shared") /\ Grantable(p, c.fd, "shared") /\ Go(p, t, "unwind")
        /\ rw' = rw /\ held' = held /\ native' = native
        /\ warned' \in {warned, warned \cup {p}}
    BY <1>1 DEF Restore
  <2>2. /\ "unwind" \in OnHandle \cup {"leave"} /\ c.pc \in OnHandle
        /\ "unwind" \in Acquiring => c.pc \in Acquiring
        /\ "unwind" \in Upgrading => c.pc \in Upgrading
    BY <1>1 DEF OnHandle, Acquiring, Upgrading
  <2>3. "shared" \in Mode \cup {"none", "closed"}
    BY DEF Mode
  <2> QED BY <2>1, <2>2, <2>3, Turns DEF Mode
<1>3. rw' = rw /\ held' = held /\ warned' = warned
  BY DEF Restore
<1>4. Reg(p, t)' = Reg(p, t)
  BY <1>1, <1>2, <1>3, RegIs DEF Reg, Upgrading
<1>5. Owns(p, t) => Owns(p, t)'
  BY <1>1, <1>2, <1>3, <1>4, AbsentIs DEF Owns, Upgrading
<1>6. AloneAt(p, t) => AloneAt(p, t)'
  BY <1>1, <1>2, <1>3, <1>4, AbsentIs DEF AloneAt, Upgrading, Mode
<1> QED BY <1>1, <1>2, <1>3, <1>5, <1>6, Facts, Before, Within

LEMMA RestoreFailsKeeps ==
  ASSUME IInv, NEW p \in Proc, NEW t \in ThreadsOf[p], RestoreFails(p, t)
  PROVE  IInv'
<1> DEFINE c == call[p][t]
<1>1. c.pc = "restore" /\ rw[p].stacks[t] # << >>
  BY Facts DEF RestoreFails, At, LinkedAt
<1>2. /\ Typed' /\ Compatible' /\ Elsewhere(p, t) /\ OpenedAt(p)' /\ LinkedAt(p, t)'
      /\ c.fd \in Handle
      /\ call'[p][t].pc = "unwind" /\ call'[p][t].want = c.want /\ call'[p][t].fd = c.fd
      /\ flock'[p][c.fd] = flock[p][c.fd]
  <2>1. /\ flock' = flock /\ Go(p, t, "unwind")
        /\ rw' = rw /\ held' = held /\ native' = native
        /\ warned' \in {warned, warned \cup {p}}
    BY <1>1 DEF RestoreFails
  <2>2. /\ "unwind" \in OnHandle \cup {"leave"} /\ c.pc \in OnHandle
        /\ "unwind" \in Acquiring => c.pc \in Acquiring
        /\ "unwind" \in Upgrading => c.pc \in Upgrading
    BY <1>1 DEF OnHandle, Acquiring, Upgrading
  <2>3. flock[p][c.fd] \in Mode \cup {"none", "closed"}
    <3>1. c.fd \in Handle
      BY <1>1, Facts DEF LinkedAt, OnHandle, Upgrading
    <3> QED BY <3>1, Facts
  <2> QED BY <2>1, <2>2, <2>3, Turns DEF Mode
<1>3. rw' = rw /\ held' = held /\ warned' = warned \cup {p}
  BY DEF RestoreFails
<1>4. Reg(p, t)' = Reg(p, t)
  BY <1>1, <1>2, <1>3, RegIs DEF Reg, Upgrading
<1>5. Owns(p, t) => Owns(p, t)'
  BY <1>1, <1>2, <1>3, <1>4, AbsentIs DEF Owns, Upgrading
<1>6. AloneAt(p, t) => AloneAt(p, t)'
  BY <1>1, <1>2, <1>3, <1>4, AbsentIs DEF AloneAt, Upgrading, Mode
<1> QED BY <1>1, <1>2, <1>3, <1>5, <1>6, Facts, Before, Within

LEMMA UnlockKeeps ==
  ASSUME IInv, NEW p \in Proc, NEW t \in ThreadsOf[p], Unlock(p, t)
  PROVE  IInv'
<1> DEFINE c == call[p][t]
<1>1. c.pc = "unlock" /\ rw[p].stacks[t] # << >>
  BY Facts DEF Unlock, At, LinkedAt
<1>2. /\ Typed' /\ Compatible' /\ Elsewhere(p, t) /\ OpenedAt(p)' /\ LinkedAt(p, t)'
      /\ c.fd \in Handle
      /\ call'[p][t].pc = "leave" /\ call'[p][t].want = c.want /\ call'[p][t].fd = c.fd
      /\ flock'[p][c.fd] = "closed"
  <2>1. /\ Flock(p, t, "closed") /\ Go(p, t, "leave")
        /\ rw' = rw /\ held' = held /\ native' = native
        /\ warned' \in {warned, warned \cup {p}}
    BY <1>1 DEF Unlock
  <2>2. /\ "leave" \in OnHandle \cup {"leave"} /\ c.pc \in OnHandle
        /\ "leave" \in Acquiring => c.pc \in Acquiring
        /\ "leave" \in Upgrading => c.pc \in Upgrading
    BY <1>1 DEF OnHandle, Acquiring, Upgrading
  <2>3. "closed" \in Mode \cup {"none", "closed"}
    BY DEF Mode
  <2> QED BY <2>1, <2>2, <2>3, Turns DEF Mode
<1>3. rw' = rw /\ held' = held /\ warned' = warned
  BY DEF Unlock
<1>4. Reg(p, t)' = Reg(p, t)
  BY <1>1, <1>2, <1>3, RegIs DEF Reg, Upgrading
<1>5. Owns(p, t) => Owns(p, t)'
  BY <1>1, <1>2, <1>3, <1>4, AbsentIs DEF Owns, Upgrading
<1>6. AloneAt(p, t) => AloneAt(p, t)'
  BY <1>1, <1>2, <1>3, <1>4, AbsentIs DEF AloneAt, Upgrading, Mode
<1> QED BY <1>1, <1>2, <1>3, <1>5, <1>6, Facts, Before, Within

LEMMA ReshareKeeps ==
  ASSUME IInv, NEW p \in Proc, NEW t \in ThreadsOf[p], Reshare(p, t)
  PROVE  IInv'
<1> DEFINE c == call[p][t]
<1>1. c.pc = "reshare" /\ rw[p].stacks[t] # << >>
  BY Facts DEF Reshare, At, LinkedAt
<1>2. /\ Typed' /\ Compatible' /\ Elsewhere(p, t) /\ OpenedAt(p)' /\ LinkedAt(p, t)'
      /\ c.fd \in Handle
      /\ call'[p][t].pc = "leave" /\ call'[p][t].want = c.want /\ call'[p][t].fd = c.fd
      /\ flock'[p][c.fd] = "shared"
  <2>1. /\ Flock(p, t, "shared") /\ Grantable(p, c.fd, "shared") /\ Go(p, t, "leave")
        /\ rw' = rw /\ held' = held /\ native' = native
        /\ warned' \in {warned, warned \cup {p}}
    BY <1>1 DEF Reshare
  <2>2. /\ "leave" \in OnHandle \cup {"leave"} /\ c.pc \in OnHandle
        /\ "leave" \in Acquiring => c.pc \in Acquiring
        /\ "leave" \in Upgrading => c.pc \in Upgrading
    BY <1>1 DEF OnHandle, Acquiring, Upgrading
  <2>3. "shared" \in Mode \cup {"none", "closed"}
    BY DEF Mode
  <2> QED BY <2>1, <2>2, <2>3, Turns DEF Mode
<1>3. rw' = rw /\ held' = held /\ warned' = warned
  BY DEF Reshare
<1>4. Reg(p, t)' = Reg(p, t)
  BY <1>1, <1>2, <1>3, RegIs DEF Reg, Upgrading
<1>5. Owns(p, t) => Owns(p, t)'
  BY <1>1, <1>2, <1>3, <1>4, AbsentIs DEF Owns, Upgrading
<1>6. AloneAt(p, t) => AloneAt(p, t)'
  BY <1>1, <1>2, <1>3, <1>4, AbsentIs DEF AloneAt, Upgrading, Mode
<1> QED BY <1>1, <1>2, <1>3, <1>5, <1>6, Facts, Before, Within

\* Handles stay accounted for when a step of t gives up or takes over some.
LEMMA StaysOpen ==
  ASSUME NEW p \in Proc, NEW t \in Thread, OpenedAt(p),
         \A u \in Thread \ {t} : call'[p][u] = call[p][u],
         held'[p].handle = NoHandle => held'[p] = Absent,
         \A k \in Handle : flock'[p][k] # "closed" =>
           \/ k = held'[p].handle \/ k = call'[p][t].fd
           \/ \E u \in Thread \ {t} : call[p][u].fd = k
           \/ flock[p][k] # "closed" /\ k # held[p].handle /\ k # call[p][t].fd
  PROVE  OpenedAt(p)'
<1> SUFFICES ASSUME NEW k \in Handle, flock'[p][k] # "closed"
             PROVE  k = held'[p].handle \/ \E u \in Thread : call'[p][u].fd = k
  BY DEF OpenedAt
<1>1. CASE k = held'[p].handle \/ k = call'[p][t].fd
  BY <1>1
<1>2. CASE \E u \in Thread \ {t} : call[p][u].fd = k
  BY <1>2
<1>3. CASE flock[p][k] # "closed" /\ k # held[p].handle /\ k # call[p][t].fd
  <2>1. PICK u \in Thread : call[p][u].fd = k
    BY <1>3 DEF OpenedAt
  <2>2. u # t
    BY <1>3, <2>1
  <2> QED BY <2>1, <2>2
<1> QED BY <1>1, <1>2, <1>3

LEMMA DowngradeKeeps ==
  ASSUME IInv, NEW p \in Proc, NEW t \in ThreadsOf[p], Downgrade(p, t)
  PROVE  IInv'
<1> DEFINE c == call[p][t]
<1>1. /\ c.pc = "downgrade" /\ rw[p].stacks[t] # << >> /\ c.fd \in Handle
      /\ flock[p][c.fd] \in Mode \cup {"none", "closed"}
  BY Facts DEF Downgrade, At, LinkedAt, OnHandle
<1>2. rw' = rw /\ held' = held /\ native' = native /\ warned' = warned
  BY DEF Downgrade
<1>3. \E q \in {"leave", "reshare"}, m \in Mode \cup {"none", "closed"} :
        /\ Typed' /\ Compatible' /\ Elsewhere(p, t) /\ OpenedAt(p)' /\ LinkedAt(p, t)'
        /\ call'[p][t].pc = q /\ call'[p][t].fd = c.fd
        /\ q = "leave" => \A k \in Handle : flock'[p][k] = flock[p][k]
  <2>1. CASE flock[p][c.fd] \in {"closed", "shared"}
    <3> DEFINE m == flock[p][c.fd]
    <3>1. flock' = flock /\ m = flock[p][call[p][t].fd] /\ Go(p, t, "leave")
          /\ m \in Mode \cup {"none", "closed"}
      BY <1>1, <2>1 DEF Downgrade
    <3>2. /\ "leave" \in OnHandle \cup {"leave"} /\ c.pc \in OnHandle
          /\ "leave" \notin Acquiring /\ "leave" \notin Upgrading
      BY <1>1 DEF OnHandle, Acquiring, Upgrading
    <3> HIDE DEF m
    <3>3. /\ Typed' /\ Compatible' /\ Elsewhere(p, t) /\ OpenedAt(p)' /\ LinkedAt(p, t)'
          /\ call'[p][t].pc = "leave" /\ call'[p][t].fd = c.fd
      BY <1>1, <1>2, <3>1, <3>2, Turns
    <3> QED BY <1>1, <3>1, <3>3
  <2>2. CASE flock[p][c.fd] \notin {"closed", "shared"}
    <3>1. Flock(p, t, "none") /\ Go(p, t, "reshare")
      BY <2>2 DEF Downgrade
    <3>2. "reshare" \in OnHandle \cup {"leave"} /\ c.pc \in OnHandle /\ "reshare" \notin Acquiring \cup Upgrading
          /\ "none" \in Mode \cup {"none", "closed"} /\ "none" \notin Mode
      BY <1>1 DEF OnHandle, Acquiring, Upgrading, Mode
    <3>3. /\ Typed' /\ Compatible' /\ Elsewhere(p, t) /\ OpenedAt(p)' /\ LinkedAt(p, t)'
          /\ call'[p][t].pc = "reshare" /\ call'[p][t].fd = c.fd
      BY <1>1, <1>2, <3>1, <3>2, Turns
    <3> QED BY <3>2, <3>3
  <2> QED BY <2>1, <2>2
<1>4. Reg(p, t)' = Reg(p, t)
  BY <1>1, <1>2, <1>3, RegIs DEF Reg, Upgrading
<1>5. Owns(p, t) => Owns(p, t)'
  BY <1>1, <1>2, <1>3, <1>4 DEF Owns, Upgrading
<1>6. AloneAt(p, t) => AloneAt(p, t)'
  BY <1>1, <1>2, <1>3, <1>4 DEF AloneAt, Upgrading, Mode
<1> QED BY <1>1, <1>2, <1>3, <1>5, <1>6, Facts, Before, Within

\* A thread that upgrades has the exclusive thread lock.
LEMMA UpgraderOwns ==
  ASSUME IInv, NEW p \in Proc, NEW t \in ThreadsOf[p], call[p][t].pc \in Upgrading
  PROVE  /\ rw[p].stacks[t] # << >> /\ Has(rw[p].stacks[t], "exclusive") /\ Owns(p, t)
         /\ call[p][t].fd = held[p].handle /\ call[p][t].fd \in Handle
         /\ ~Has(Front(rw[p].stacks[t]), "exclusive")
         /\ Reg(p, t) = rw[p].stacks[t] /\ Aligned(held[p].modes, rw[p].stacks[t])
<1> DEFINE s == rw[p].stacks[t]
<1>1. LinkedAt(p, t) /\ s \in Seq(Mode)
  BY Facts
<1>2. s # << >> /\ s[Len(s)] = "exclusive" /\ call[p][t].fd \in Handle
  BY <1>1 DEF LinkedAt, Acquiring, OnHandle, Upgrading
<1>3. Has(s, "exclusive")
  BY <1>1, <1>2, HasFront
<1>4. Owns(p, t)
  BY <1>2, <1>3, Before
<1> QED BY <1>2, <1>3, <1>4, RegIs DEF Owns

LEMMA UpgradeKeeps ==
  ASSUME IInv, NEW p \in Proc, NEW t \in ThreadsOf[p], Upgrade(p, t)
  PROVE  IInv'
<1> DEFINE c == call[p][t]
           s == rw[p].stacks[t]
<1>1. c.pc = "upgrade" /\ c.pc \in Upgrading
  BY DEF Upgrade, At, Upgrading
<1>2. /\ Typed /\ Compatible /\ t \in Thread /\ LinkedAt(p, t) /\ OpenedAt(p)
      /\ s # << >> /\ Has(s, "exclusive") /\ Owns(p, t)
      /\ c.fd = held[p].handle /\ c.fd \in Handle /\ Reg(p, t) = s
  BY <1>1, Facts, UpgraderOwns
<1>3. /\ rw' = rw /\ held' = held /\ native' = native /\ warned' = warned
      /\ Flock(p, t, "exclusive") /\ Return(p, t) /\ Grantable(p, c.fd, "exclusive")
  BY DEF Upgrade
<1>4. /\ call' \in [Proc -> [Thread -> [pc : InCall \cup {"run"}, want : Mode,
                                           fd : Handle \cup {NoHandle}]]]
      /\ call'[p][t].pc = "run" /\ call'[p][t].fd = NoHandle
      /\ \A q \in Proc \ {p} : call'[q] = call[q]
      /\ \A u \in Thread \ {t} : call'[p][u] = call[p][u]
  BY <1>2, <1>3, Returns
<1>5. /\ flock' \in [Proc -> [Handle -> Mode \cup {"none", "closed"}]]
      /\ flock'[p][c.fd] = "exclusive"
      /\ \A q \in Proc \ {p} : flock'[q] = flock[q]
      /\ \A k \in Handle \ {c.fd} : flock'[p][k] = flock[p][k]
  BY <1>2, <1>3, Flocks DEF Mode
<1>6. Typed' /\ Elsewhere(p, t)
  BY <1>2, <1>3, <1>4, <1>5 DEF Typed, Elsewhere
<1>7. Compatible'
  <2> DEFINE h == c.fd
  <2>1. h \in Handle /\ Grantable(p, h, flock'[p][h])
    BY <1>2, <1>3, <1>5
  <2>2. \A k \in Handle \ {h} : flock'[p][k] \in {flock[p][k], "closed"}
    BY <1>5
  <2> HIDE DEF h
  <2> QED BY <1>2, <1>3, <1>5, <2>1, <2>2, FlocksAgree
<1>8. OpenedAt(p)'
  <2>1. held'[p].handle # NoHandle
    BY <1>2, <1>3, AbsentIs
  <2> QED BY <1>2, <1>3, <1>4, <1>5, <2>1, StaysOpen
<1>9. LinkedAt(p, t)'
  BY <1>1, <1>2, <1>3, <1>4 DEF LinkedAt, Acquiring, OnHandle, Upgrading
<1>10. Reg(p, t)' = s
  BY <1>3, <1>4 DEF Reg
<1>11. Owns(p, t)'
  BY <1>2, <1>3, <1>4, <1>5, <1>10 DEF Owns, Upgrading
<1>12. AloneAt(p, t) => AloneAt(p, t)'
  BY <1>2, <1>3, <1>4, <1>5, <1>10 DEF AloneAt, Upgrading, Mode
<1> QED BY <1>2, <1>3, <1>6, <1>7, <1>8, <1>9, <1>11, <1>12, Facts, Within

LEMMA UnwindKeeps ==
  ASSUME IInv, NEW p \in Proc, NEW t \in ThreadsOf[p], Unwind(p, t)
  PROVE  IInv'
<1> DEFINE c == call[p][t]
           s == rw[p].stacks[t]
           r == held[p].modes
<1>1. c.pc = "unwind" /\ c.pc \in Upgrading
  BY DEF Unwind, At, Upgrading
<1>2. /\ Typed /\ Compatible /\ t \in Thread /\ LinkedAt(p, t) /\ OpenedAt(p)
      /\ s # << >> /\ Has(s, "exclusive") /\ Owns(p, t) /\ ~Has(Front(s), "exclusive")
      /\ c.fd = held[p].handle /\ c.fd \in Handle /\ Reg(p, t) = s /\ Aligned(r, s)
      /\ s \in Seq(Mode) /\ r \in Seq(Mode)
      /\ held[p] \in [handle : Handle \cup {NoHandle}, modes : Seq(Mode)]
  BY <1>1, Facts, UpgraderOwns
<1>3. r # << >>
  <2>1. Has(r, "exclusive")
    BY <1>2, AlignedHas
  <2> QED BY <2>1 DEF Has
<1>4. /\ rw' = rw /\ flock' = flock /\ native' = native /\ warned' = warned
      /\ held' = [held EXCEPT ![p].modes = Front(r)] /\ Go(p, t, "leave")
  BY <1>3 DEF Unwind, Front
<1>5. /\ call' \in [Proc -> [Thread -> [pc : InCall \cup {"run"}, want : Mode,
                                           fd : Handle \cup {NoHandle}]]]
      /\ call'[p][t].pc = "leave" /\ call'[p][t].fd = c.fd
      /\ \A q \in Proc \ {p} : call'[q] = call[q]
      /\ \A u \in Thread \ {t} : call'[p][u] = call[p][u]
  <2>1. "leave" \in InCall \cup {"run"}
    BY DEF InCall
  <2> QED BY <1>2, <1>4, <2>1, Goes
<1>6. Front(r) \in Seq(Mode)
  BY <1>2, <1>3, FrontIs
<1>7. /\ held' \in [Proc -> [handle : Handle \cup {NoHandle}, modes : Seq(Mode)]]
      /\ held'[p].handle = held[p].handle /\ held'[p].modes = Front(r)
      /\ \A q \in Proc \ {p} : held'[q] = held[q]
  <2> DEFINE f == Front(r)
             v == [held[p] EXCEPT !.modes = f]
             H == [handle : Handle \cup {NoHandle}, modes : Seq(Mode)]
  <2>1. f \in Seq(Mode) /\ held[p] \in H
    BY <1>2, <1>6
  <2>2. held' = [held EXCEPT ![p] = v] /\ held \in [Proc -> H]
    BY <1>2, <1>4 DEF Typed
  <2> HIDE DEF f
  <2>3. v \in H /\ v.handle = held[p].handle /\ v.modes = f
    BY <2>1
  <2> HIDE DEF v, H
  <2> QED BY <2>2, <2>3 DEF f, H
<1>8. Typed' /\ Elsewhere(p, t)
  BY <1>2, <1>4, <1>5, <1>7 DEF Typed, Elsewhere
<1>9. Compatible'
  BY <1>2, <1>4 DEF Compatible
<1>10. OpenedAt(p)'
  <2>1. held'[p].handle # NoHandle
    BY <1>2, <1>7, AbsentIs
  <2> QED BY <1>2, <1>4, <1>5, <1>7, <2>1, StaysOpen
<1>11. LinkedAt(p, t)'
  BY <1>1, <1>2, <1>4, <1>5 DEF LinkedAt, Acquiring, OnHandle, Upgrading
<1>12. Reg(p, t)' = Front(s)
  BY <1>4, <1>5 DEF Reg, Upgrading
<1>13. Owns(p, t)'
  <2>1. Aligned(Front(r), Front(s))
    BY <1>2, <1>3, AlignedPop
  <2> QED BY <1>2, <1>5, <1>7, <1>12, <2>1 DEF Owns, Upgrading
<1>14. AloneAt(p, t) => AloneAt(p, t)'
  BY <1>1, <1>2, <1>4, <1>5, <1>7, <1>12 DEF AloneAt, Upgrading, Mode
<1> QED BY <1>2, <1>4, <1>8, <1>9, <1>10, <1>11, <1>13, <1>14, Facts, Within

-----------------------------------------------------------------------------
(* Steps on the registry *)

\* Replacing what is registered for a process.
LEMMA Registers ==
  ASSUME Typed, NEW p \in Proc, NEW v \in [handle : Handle \cup {NoHandle}, modes : Seq(Mode)],
         held' = [held EXCEPT ![p] = v]
  PROVE  /\ held' \in [Proc -> [handle : Handle \cup {NoHandle}, modes : Seq(Mode)]]
         /\ held'[p] = v
         /\ \A q \in Proc \ {p} : held'[q] = held[q]
<1> DEFINE H == [handle : Handle \cup {NoHandle}, modes : Seq(Mode)]
<1>1. held \in [Proc -> H] /\ v \in H
  BY DEF Typed
<1> HIDE DEF H
<1> QED BY <1>1 DEF H

LEMMA ReleaseKeeps ==
  ASSUME IInv, NEW p \in Proc, NEW t \in ThreadsOf[p], Release(p, t)
  PROVE  IInv'
<1> DEFINE c == call[p][t]
           s == rw[p].stacks[t]
           r == held[p].modes
           f == Front(r)
<1>1. c.pc = "run" /\ s # << >>
  BY DEF Release, At
<1>2. /\ Typed /\ Compatible /\ t \in Thread /\ LinkedAt(p, t) /\ OpenedAt(p)
      /\ s \in Seq(Mode) /\ r \in Seq(Mode) /\ Reg(p, t) = s
      /\ held[p] \in [handle : Handle \cup {NoHandle}, modes : Seq(Mode)]
      /\ c.fd = NoHandle /\ ~Waiting(rw[p], t)
  BY <1>1, Facts, RegIs DEF LinkedAt
<1>3. /\ rw' = rw /\ flock' = flock /\ native' = native /\ warned' = warned
  BY DEF Release
<1>4. CASE r = << >>
  <2>1. held' = held /\ Go(p, t, "leave")
    BY <1>4 DEF Release
  <2>2. "leave" \in InCall \cup {"run"}
    BY DEF InCall
  <2>3. /\ call' \in [Proc -> [Thread -> [pc : InCall \cup {"run"}, want : Mode,
                                             fd : Handle \cup {NoHandle}]]]
        /\ call'[p][t].pc = "leave" /\ call'[p][t].fd = c.fd
        /\ \A q \in Proc \ {p} : call'[q] = call[q]
        /\ \A u \in Thread \ {t} : call'[p][u] = call[p][u]
    BY <1>2, <2>1, <2>2, Goes
  <2>4. Typed' /\ Elsewhere(p, t) /\ Compatible'
    BY <1>2, <1>3, <2>1, <2>3 DEF Typed, Elsewhere, Compatible
  <2>5. OpenedAt(p)'
    <3>1. \A u \in Thread : call'[p][u].fd = call[p][u].fd
      BY <2>3
    <3> QED BY <1>2, <1>3, <2>1, <3>1 DEF OpenedAt
  <2>6. LinkedAt(p, t)'
    BY <1>1, <1>2, <1>3, <2>3 DEF LinkedAt, Acquiring, OnHandle, Upgrading
  <2>7. ~Has(r, "exclusive") /\ ~Has(held'[p].modes, "exclusive")
    BY <1>4, <2>1 DEF Has
  <2>8. ~Has(s, "exclusive")
    <3>1. Has(s, "exclusive") => Aligned(r, s)
      BY <1>1, <1>2, Before DEF Owns
    <3> QED BY <1>2, <2>7, <3>1, AlignedHas
  <2>9. ~Single(p)
    BY <1>1, <1>2, <1>4, Facts DEF AloneAt
  <2> QED BY <1>1, <1>3, <2>4, <2>5, <2>6, <2>7, <2>8, <2>9, Within
<1>5. CASE r # << >>
  <2> DEFINE h == held[p].handle
             v == IF f = << >> THEN Absent ELSE [held[p] EXCEPT !.modes = f]
             pc == CASE f = << >> -> "unlock" [] AnyExclusive(f) -> "leave" [] OTHER -> "downgrade"
  <2>1. held' = [held EXCEPT ![p] = v] /\ call' = [call EXCEPT ![p][t].fd = h, ![p][t].pc = pc]
    BY <1>5 DEF Release, Front
  <2>2. f \in Seq(Mode) /\ h \in Handle
    <3>1. h # NoHandle
      BY <1>2, <1>5, AbsentIs DEF OpenedAt
    <3> QED BY <1>2, <1>5, <3>1, FrontIs
  <2>3. /\ f = << >> => pc = "unlock"
        /\ f # << >> => pc = IF Has(f, "exclusive") THEN "leave" ELSE "downgrade"
    BY DEF AnyExclusive, Has
  <2>4. pc \in {"unlock", "leave", "downgrade"} /\ pc \in InCall \cup {"run"}
    BY <2>3 DEF InCall
  <2>5. /\ v \in [handle : Handle \cup {NoHandle}, modes : Seq(Mode)] /\ v.modes = f
        /\ f # << >> => v.handle = h
        /\ f = << >> => v = Absent
    <3> HIDE DEF f
    <3>1. f \in Seq(Mode)
      BY <2>2
    <3> QED BY <1>2, <3>1 DEF Absent
  <2> HIDE DEF v, pc
  <2>6. /\ held' \in [Proc -> [handle : Handle \cup {NoHandle}, modes : Seq(Mode)]]
        /\ held'[p] = v /\ \A q \in Proc \ {p} : held'[q] = held[q]
    BY <1>2, <2>1, <2>5, Registers
  <2>7. /\ call' \in [Proc -> [Thread -> [pc : InCall \cup {"run"}, want : Mode,
                                             fd : Handle \cup {NoHandle}]]]
        /\ call'[p][t].pc = pc /\ call'[p][t].fd = h
        /\ \A q \in Proc \ {p} : call'[q] = call[q]
        /\ \A u \in Thread \ {t} : call'[p][u] = call[p][u]
    <3> DEFINE C == [pc : InCall \cup {"run"}, want : Mode, fd : Handle \cup {NoHandle}]
               x == [[c EXCEPT !.fd = h] EXCEPT !.pc = pc]
    <3>1. call \in [Proc -> [Thread -> C]] /\ c \in C /\ h \in Handle \cup {NoHandle}
      BY <1>2, <2>2 DEF Typed
    <3>2. x \in C /\ x.pc = pc /\ x.fd = h
      BY <2>4, <3>1
    <3>3. call' = [call EXCEPT ![p][t] = x]
      BY <2>1, <3>1
    <3> HIDE DEF x
    <3> QED BY <1>2, <3>2, <3>3, Becomes
  <2>8. Typed' /\ Elsewhere(p, t) /\ Compatible'
    BY <1>2, <1>3, <2>6, <2>7 DEF Typed, Elsewhere, Compatible
  <2>9. OpenedAt(p)'
    <3>1. held'[p].handle = NoHandle => held'[p] = Absent
      BY <2>2, <2>5, <2>6, AbsentIs
    <3>2. \A k \in Handle : flock'[p][k] # "closed" =>
            \/ k = call'[p][t].fd
            \/ flock[p][k] # "closed" /\ k # held[p].handle /\ k # call[p][t].fd
      BY <1>2, <1>3, <2>7, AbsentIs
    <3> QED BY <1>2, <2>7, <3>1, <3>2, StaysOpen
  <2>10. LinkedAt(p, t)'
    BY <1>1, <1>2, <1>3, <2>2, <2>4, <2>7 DEF LinkedAt, Acquiring, OnHandle, Upgrading
  <2>11. Reg(p, t)' = Front(s)
    BY <1>3, <2>4, <2>7 DEF Reg, Upgrading
  <2>12. ASSUME Has(s, "exclusive") PROVE Owns(p, t)'
    <3>1. Aligned(r, s) /\ flock[p][h] = "exclusive"
      BY <1>1, <1>2, <2>12, Before DEF Owns, Upgrading
    <3>2. Aligned(f, Front(s)) /\ Front(s) \in Seq(Mode)
      BY <1>1, <1>2, <1>5, <3>1, AlignedPop, FrontIs
    <3>3. Has(Front(s), "exclusive") <=> Has(f, "exclusive")
      BY <2>2, <3>2, AlignedHas
    <3>4. ~Has(<< >>, "exclusive")
      BY DEF Has
    <3>5. Has(Front(s), "exclusive") => f # << >> /\ pc = "leave"
      BY <2>3, <3>3, <3>4
    <3>6. Reg(p, t)' = Front(s) /\ held'[p].modes = f
      BY <2>5, <2>6, <2>11
    <3>7. Aligned(held[p].modes, Reg(p, t))'
      BY <3>2, <3>6
    <3> QED BY <1>3, <2>2, <2>4, <2>5, <2>6, <2>7, <3>1, <3>5, <3>6, <3>7 DEF Owns, Upgrading
  <2>13. ~Has(s, "exclusive") => ~Has(held'[p].modes, "exclusive")
    <3>1. ~Has(s, "exclusive") => ~Has(r, "exclusive")
      BY <1>1, Before
    <3>2. ~Has(r, "exclusive") => ~Has(f, "exclusive")
      BY <1>2, <1>5, HasFront
    <3> QED BY <2>5, <2>6, <3>1, <3>2
  <2>14. Single(p) => AloneAt(p, t)'
    <3> SUFFICES ASSUME Single(p) PROVE AloneAt(p, t)'
      OBVIOUS
    <3>1. AloneAt(p, t)
      BY Facts
    <3>2. r = s /\ (p \notin warned => flock[p][h] \in Mode)
      BY <1>1, <1>2, <3>1 DEF AloneAt
    <3> QED BY <1>3, <2>2, <2>3, <2>4, <2>5, <2>6, <2>7, <2>11, <3>2 DEF AloneAt, Upgrading
  <2> QED BY <1>1, <1>3, <2>8, <2>9, <2>10, <2>12, <2>13, <2>14, Within
<1> QED BY <1>4, <1>5

\* There is a handle nobody has, though every thread may still refer to one.
LEMMA NewHandleIs ==
  ASSUME IInv, NEW p \in Proc, held[p] = Absent
  PROVE  /\ NewHandle(p) \in Handle /\ flock[p][NewHandle(p)] = "closed"
         /\ \A u \in Thread : call[p][u].fd # NewHandle(p)
<1> DEFINE F == {call[p][u].fd : u \in Thread}
           g == [u \in Thread |-> call[p][u].fd]
           n == Cardinality(Thread)
<1>1. IsFiniteSet(Thread) /\ n \in Nat
  BY GraphLockAssumption, FS_CardinalityType
<1>2. g \in Surjection(Thread, F)
  BY DEF Surjection
<1>3. IsFiniteSet(F) /\ Cardinality(F) <= n
  <2> HIDE DEF F, g
  <2> QED BY <1>1, <1>2, FS_Surjection
<1>4. Cardinality(F) \in Nat
  BY <1>3, FS_CardinalityType
<1>5. Cardinality(Handle) = n + 1
  <2>1. 1 \in Int /\ n + 1 \in Int /\ ~(1 > n + 1) /\ n + 1 - 1 + 1 = n + 1
    BY <1>1
  <2> HIDE DEF n
  <2> QED BY <2>1, FS_Interval DEF Handle, n
<1>6. \E h \in Handle : h \notin F
  <2> SUFFICES ASSUME Handle \subseteq F PROVE FALSE
    OBVIOUS
  <2>1. Cardinality(Handle) <= Cardinality(F)
    BY <1>3, FS_Subset
  <2> QED BY <1>1, <1>3, <1>4, <1>5, <2>1
<1>7. \E h \in Handle : flock[p][h] = "closed" /\ \A u \in Thread : call[p][u].fd # h
  <2>1. PICK h \in Handle : h \notin F
    BY <1>6
  <2>2. \A u \in Thread : call[p][u].fd # h
    BY <2>1
  <2>3. OpenedAt(p) /\ h # held[p].handle
    BY AbsentIs DEF IInv
  <2> QED BY <2>2, <2>3 DEF OpenedAt
<1> QED BY <1>7 DEF NewHandle

LEMMA LookupKeeps ==
  ASSUME IInv, NEW p \in Proc, NEW t \in ThreadsOf[p], Lookup(p, t)
  PROVE  IInv'
<1> DEFINE c == call[p][t]
           m == c.want
           s == rw[p].stacks[t]
           r == held[p].modes
           h == held[p].handle
<1>1. c.pc = "lookup"
  BY DEF Lookup, At
<1>2. /\ Typed /\ Compatible /\ t \in Thread /\ LinkedAt(p, t) /\ OpenedAt(p)
      /\ s \in Seq(Mode) /\ r \in Seq(Mode) /\ s # << >> /\ Reg(p, t) = Front(s)
      /\ held[p] \in [handle : Handle \cup {NoHandle}, modes : Seq(Mode)]
      /\ c.fd = NoHandle /\ ~Waiting(rw[p], t) /\ m \in Mode /\ s[Len(s)] = m
      /\ c \in [pc : InCall \cup {"run"}, want : Mode, fd : Handle \cup {NoHandle}]
  BY <1>1, Facts, RegIs DEF LinkedAt, Acquiring, Upgrading
<1>3. rw' = rw /\ native' = native /\ warned' = warned
  BY DEF Lookup
<1>4. /\ Front(s) \in Seq(Mode) /\ s = Append(Front(s), m)
      /\ Has(s, "exclusive") <=> Has(Front(s), "exclusive") \/ m = "exclusive"
  BY <1>2, FrontIs, HasFront
<1>5. /\ Has(s, "exclusive") => Owns(p, t)
      /\ ~Has(s, "exclusive") => ~Has(r, "exclusive")
      /\ Single(p) => AloneAt(p, t)
  BY <1>2, Before, Facts
<1>6. CASE held[p] # Absent
  <2> DEFINE a == Append(r, m)
             v == [held[p] EXCEPT !.modes = a]
  <2>1. h \in Handle
    BY <1>2, <1>6 DEF OpenedAt
  <2>2. a \in Seq(Mode) /\ a # << >> /\ (Has(a, "exclusive") <=> Has(r, "exclusive") \/ m = "exclusive")
    <3> HIDE DEF r, m
    <3> QED BY <1>2, Pushed
  <2>3. held' = [held EXCEPT ![p] = v] /\ flock' = flock
    BY <1>2, <1>6 DEF Lookup, Typed
  <2>4. v \in [handle : Handle \cup {NoHandle}, modes : Seq(Mode)] /\ v.modes = a /\ v.handle = h
    <3> HIDE DEF a
    <3> QED BY <1>2, <2>2
  <2> HIDE DEF v
  <2>5. /\ held' \in [Proc -> [handle : Handle \cup {NoHandle}, modes : Seq(Mode)]]
        /\ held'[p].modes = a /\ held'[p].handle = h /\ \A q \in Proc \ {p} : held'[q] = held[q]
    BY <1>2, <2>3, <2>4, Registers
  <2> HIDE DEF a
  <2>6. Compatible'
    BY <1>2, <1>3, <2>3 DEF Compatible
  <2>7. Has(s, "exclusive") => Aligned(a, s)
    <3>1. Has(s, "exclusive") => Aligned(r, Front(s))
      BY <1>2, <1>5 DEF Owns
    <3>2. Aligned(r, Front(s)) => Aligned(Append(r, m), Append(Front(s), m))
      BY <1>2, <1>4, AlignedPush
    <3> QED BY <1>4, <3>1, <3>2 DEF a
  <2>8. ~Has(s, "exclusive") => ~Has(held'[p].modes, "exclusive")
    BY <1>4, <1>5, <2>2, <2>5
  <2>9. AloneAt(p, t) => a = s /\ Front(s) # << >>
    BY <1>2, <1>4, <1>6 DEF AloneAt, a
  <2>10. \A k \in Handle : flock'[p][k] # "closed" =>
           \/ k = held'[p].handle
           \/ flock[p][k] # "closed" /\ k # held[p].handle /\ k # call[p][t].fd
    BY <1>2, <2>3, <2>5, AbsentIs
  <2>11. CASE m = "exclusive" /\ ~AnyExclusive(r)
    <3> DEFINE x == [[c EXCEPT !.pc = "unshare"] EXCEPT !.fd = h]
               C == [pc : InCall \cup {"run"}, want : Mode, fd : Handle \cup {NoHandle}]
    <3>1. call' = [call EXCEPT ![p][t] = x]
      <4>1. call' = [call EXCEPT ![p][t].pc = "unshare", ![p][t].fd = h]
        BY <1>6, <2>11 DEF Lookup
      <4>2. call \in [Proc -> [Thread -> C]]
        BY <1>2 DEF Typed
      <4> QED BY <1>2, <4>1, <4>2
    <3>2. x \in C /\ x.pc = "unshare" /\ x.want = m /\ x.fd = h
      BY <1>2, <2>1 DEF InCall
    <3> HIDE DEF x
    <3>3. /\ call' \in [Proc -> [Thread -> C]]
          /\ call'[p][t].pc = "unshare" /\ call'[p][t].want = m /\ call'[p][t].fd = h
          /\ \A q \in Proc \ {p} : call'[q] = call[q]
          /\ \A u \in Thread \ {t} : call'[p][u] = call[p][u]
      <4>1. /\ call' \in [Proc -> [Thread -> C]] /\ call'[p][t] = x
            /\ \A q \in Proc \ {p} : call'[q] = call[q]
            /\ \A u \in Thread \ {t} : call'[p][u] = call[p][u]
        <5>1. Typed /\ t \in Thread /\ x \in C
          BY <1>2, <3>2
        <5> QED BY <3>1, <5>1, Becomes
      <4> QED BY <3>2, <4>1
    <3>4. Typed' /\ Elsewhere(p, t)
      BY <1>2, <1>3, <2>3, <2>5, <3>3 DEF Typed, Elsewhere
    <3>5. OpenedAt(p)'
      <4>1. held'[p].handle # NoHandle
        BY <2>1, <2>5, AbsentIs
      <4> QED BY <1>2, <2>10, <3>3, <4>1, StaysOpen
    <3>6. LinkedAt(p, t)'
      BY <1>1, <1>2, <1>3, <2>1, <2>11, <3>3 DEF LinkedAt, Acquiring, OnHandle, Upgrading
    <3>7. Reg(p, t)' = s
      BY <1>3, <3>3 DEF Reg, Upgrading
    <3>8. ~Has(Front(s), "exclusive") /\ Has(s, "exclusive")
      <4>1. Has(s, "exclusive")
        BY <1>4, <2>11
      <4>2. Aligned(r, Front(s))
        BY <1>2, <1>5, <4>1 DEF Owns
      <4>3. ~Has(r, "exclusive")
        BY <2>11 DEF AnyExclusive, Has
      <4> QED BY <1>2, <1>4, <4>1, <4>2, <4>3, AlignedHas
    <3>9. Owns(p, t)'
      <4>1. Aligned(held[p].modes, Reg(p, t))'
        BY <2>5, <2>7, <3>7, <3>8
      <4> QED BY <1>3, <2>5, <3>3, <3>8, <4>1 DEF Owns, Upgrading
    <3>10. AloneAt(p, t) => AloneAt(p, t)'
      BY <1>3, <2>2, <2>5, <2>9, <3>3, <3>7 DEF AloneAt, Upgrading
    <3> QED BY <1>2, <1>3, <1>5, <2>6, <2>8, <3>4, <3>5, <3>6, <3>9, <3>10, Within
  <2>12. CASE ~(m = "exclusive" /\ ~AnyExclusive(r))
    <3>1. Return(p, t)
      BY <1>6, <2>12 DEF Lookup
    <3>3. /\ call' \in [Proc -> [Thread -> [pc : InCall \cup {"run"}, want : Mode,
                                               fd : Handle \cup {NoHandle}]]]
          /\ call'[p][t].pc = "run" /\ call'[p][t].fd = NoHandle
          /\ \A q \in Proc \ {p} : call'[q] = call[q]
          /\ \A u \in Thread \ {t} : call'[p][u] = call[p][u]
      BY <1>2, <3>1, Returns
    <3>4. Typed' /\ Elsewhere(p, t)
      BY <1>2, <1>3, <2>3, <2>5, <3>3 DEF Typed, Elsewhere
    <3>5. OpenedAt(p)'
      <4>1. held'[p].handle # NoHandle
        BY <2>1, <2>5, AbsentIs
      <4> QED BY <1>2, <2>10, <3>3, <4>1, StaysOpen
    <3>6. LinkedAt(p, t)'
      BY <1>1, <1>2, <1>3, <3>3 DEF LinkedAt, Acquiring, OnHandle, Upgrading
    <3>7. Reg(p, t)' = s
      BY <1>3, <3>3 DEF Reg
    <3>8. ASSUME Has(s, "exclusive") PROVE Owns(p, t)'
      <4>1. Aligned(r, Front(s)) /\ (Has(Front(s), "exclusive") => flock[p][h] = "exclusive")
        BY <1>1, <1>2, <1>5, <3>8 DEF Owns, Upgrading
      <4>2. Has(Front(s), "exclusive")
        <5>1. CASE m = "exclusive"
          <6>1. Has(r, "exclusive")
            BY <2>12, <5>1 DEF AnyExclusive, Has
          <6> QED BY <1>2, <1>4, <4>1, <6>1, AlignedHas
        <5> QED BY <1>4, <3>8, <5>1
      <4>3. Aligned(held[p].modes, Reg(p, t))'
        BY <2>5, <2>7, <3>7, <3>8
      <4> QED BY <1>3, <2>1, <2>3, <2>5, <3>3, <4>1, <4>2, <4>3 DEF Owns, Upgrading
    <3>9. AloneAt(p, t) => AloneAt(p, t)'
      <4> SUFFICES ASSUME AloneAt(p, t) PROVE AloneAt(p, t)'
        OBVIOUS
      <4>1. p \notin warned => flock[p][h] \in Mode
        BY <1>1, <1>2, <2>9 DEF AloneAt
      <4> QED BY <1>3, <2>1, <2>2, <2>3, <2>5, <2>9, <3>3, <3>7, <4>1 DEF AloneAt, Upgrading
    <3> QED BY <1>2, <1>3, <1>5, <2>6, <2>8, <3>4, <3>5, <3>6, <3>8, <3>9, Within
  <2> QED BY <2>11, <2>12
<1>7. CASE held[p] = Absent
  <2> DEFINE n == NewHandle(p)
             x == [[c EXCEPT !.pc = "wait"] EXCEPT !.fd = n]
             C == [pc : InCall \cup {"run"}, want : Mode, fd : Handle \cup {NoHandle}]
  <2>1. n \in Handle /\ flock[p][n] = "closed" /\ h = NoHandle
    BY <1>7, NewHandleIs, AbsentIs
  <2>2. /\ held' = held /\ flock' = [flock EXCEPT ![p][n] = "none"]
        /\ call' = [call EXCEPT ![p][t].pc = "wait", ![p][t].fd = n]
    BY <1>7 DEF Lookup
  <2> HIDE DEF n
  <2>3. call' = [call EXCEPT ![p][t] = x]
    <3>1. call \in [Proc -> [Thread -> C]]
      BY <1>2 DEF Typed
    <3> QED BY <1>2, <2>2, <3>1
  <2>4. x \in C /\ x.pc = "wait" /\ x.want = m /\ x.fd = n
    BY <1>2, <2>1 DEF InCall
  <2> HIDE DEF x
  <2>5. /\ call' \in [Proc -> [Thread -> C]]
        /\ call'[p][t].pc = "wait" /\ call'[p][t].want = m /\ call'[p][t].fd = n
        /\ \A q \in Proc \ {p} : call'[q] = call[q]
        /\ \A u \in Thread \ {t} : call'[p][u] = call[p][u]
    <3>1. /\ call' \in [Proc -> [Thread -> C]] /\ call'[p][t] = x
          /\ \A q \in Proc \ {p} : call'[q] = call[q]
          /\ \A u \in Thread \ {t} : call'[p][u] = call[p][u]
      <4>1. Typed /\ t \in Thread /\ x \in C
        BY <1>2, <2>4
      <4> QED BY <2>3, <4>1, Becomes
    <3> QED BY <2>4, <3>1
  <2>6. /\ flock' \in [Proc -> [Handle -> Mode \cup {"none", "closed"}]]
        /\ flock'[p][n] = "none"
        /\ \A q \in Proc \ {p} : flock'[q] = flock[q]
        /\ \A k \in Handle \ {n} : flock'[p][k] = flock[p][k]
    BY <1>2, <2>1, <2>2 DEF Typed
  <2>7. Typed' /\ Elsewhere(p, t)
    BY <1>2, <1>3, <2>2, <2>5, <2>6 DEF Typed, Elsewhere
  <2>8. Compatible'
    <3>1. /\ \A k \in Handle \ {n} : flock'[p][k] \in {flock[p][k], "closed"}
          /\ flock'[p][n] \in {flock[p][n], "none", "closed"} \/ Grantable(p, n, flock'[p][n])
      BY <2>6
    <3> QED BY <1>2, <1>3, <2>1, <2>6, <3>1, FlocksAgree
  <2>9. OpenedAt(p)'
    <3>1. held'[p].handle = NoHandle => held'[p] = Absent
      BY <1>7, <2>2
    <3>2. \A k \in Handle : flock'[p][k] # "closed" =>
            \/ k = call'[p][t].fd
            \/ flock[p][k] # "closed" /\ k # held[p].handle /\ k # call[p][t].fd
      BY <1>2, <2>1, <2>5, <2>6, AbsentIs
    <3> QED BY <1>2, <2>5, <3>1, <3>2, StaysOpen
  <2>10. LinkedAt(p, t)'
    BY <1>1, <1>2, <1>3, <2>1, <2>5 DEF LinkedAt, Acquiring, OnHandle, Upgrading
  <2>11. Reg(p, t)' = Front(s) /\ Reg(p, t) = Front(s)
    BY <1>2, <1>3, <2>5 DEF Reg, Upgrading
  <2>12. Owns(p, t) => Owns(p, t)'
    BY <1>1, <1>3, <1>7, <2>1, <2>2, <2>5, <2>11, AbsentIs DEF Owns, Upgrading
  <2>13. AloneAt(p, t) => AloneAt(p, t)'
    BY <1>1, <1>3, <1>7, <2>1, <2>2, <2>5, <2>11, AbsentIs DEF AloneAt, Upgrading
  <2> QED BY <1>2, <1>3, <1>5, <2>2, <2>7, <2>8, <2>9, <2>10, <2>12, <2>13, Within
<1> QED BY <1>6, <1>7

LEMMA PublishKeeps ==
  ASSUME IInv, NEW p \in Proc, NEW t \in ThreadsOf[p], Publish(p, t)
  PROVE  IInv'
<1> DEFINE c == call[p][t]
           m == c.want
           s == rw[p].stacks[t]
           h == c.fd
           v == [handle |-> h, modes |-> << m >>]
<1>1. c.pc = "publish"
  BY DEF Publish, At
<1>2. /\ Typed /\ Compatible /\ t \in Thread /\ LinkedAt(p, t) /\ OpenedAt(p)
      /\ s \in Seq(Mode) /\ s # << >> /\ Reg(p, t) = Front(s) /\ h \in Handle
      /\ ~Waiting(rw[p], t) /\ m \in Mode /\ s[Len(s)] = m
      /\ flock[p] \in [Handle -> Mode \cup {"none", "closed"}]
  BY <1>1, Facts, RegIs DEF LinkedAt, Acquiring, OnHandle, Upgrading
<1>3. /\ rw' = rw /\ native' = native /\ warned' = warned /\ Return(p, t)
      /\ held' = [held EXCEPT ![p] = v]
      /\ flock' = [flock EXCEPT ![p] =
                     [k \in Handle |-> IF k = held[p].handle /\ Unused(p, k, t)
                                       THEN "closed" ELSE flock[p][k]]]
  BY DEF Publish
<1>4. /\ Front(s) \in Seq(Mode) /\ s = Append(Front(s), m)
      /\ Has(s, "exclusive") <=> Has(Front(s), "exclusive") \/ m = "exclusive"
  BY <1>2, FrontIs, HasFront
<1>5. /\ << m >> \in Seq(Mode) /\ << m >> # << >>
      /\ Has(<< m >>, "exclusive") <=> m = "exclusive"
      /\ ~Has(<< >>, "exclusive")
  BY <1>2 DEF Has
<1>6. /\ held' \in [Proc -> [handle : Handle \cup {NoHandle}, modes : Seq(Mode)]]
      /\ held'[p].handle = h /\ held'[p].modes = << m >>
      /\ \A q \in Proc \ {p} : held'[q] = held[q]
  <2>1. v \in [handle : Handle \cup {NoHandle}, modes : Seq(Mode)]
        /\ v.handle = h /\ v.modes = << m >>
    BY <1>2, <1>5
  <2> HIDE DEF v
  <2>2. /\ held' \in [Proc -> [handle : Handle \cup {NoHandle}, modes : Seq(Mode)]]
        /\ held'[p] = v /\ \A q \in Proc \ {p} : held'[q] = held[q]
    BY <1>2, <1>3, <2>1, Registers
  <2> QED BY <2>1, <2>2
<1>7. /\ call' \in [Proc -> [Thread -> [pc : InCall \cup {"run"}, want : Mode,
                                           fd : Handle \cup {NoHandle}]]]
      /\ call'[p][t].pc = "run" /\ call'[p][t].fd = NoHandle
      /\ \A q \in Proc \ {p} : call'[q] = call[q]
      /\ \A u \in Thread \ {t} : call'[p][u] = call[p][u]
  BY <1>2, <1>3, Returns
<1>8. /\ flock' \in [Proc -> [Handle -> Mode \cup {"none", "closed"}]]
      /\ \A q \in Proc \ {p} : flock'[q] = flock[q]
      /\ \A k \in Handle : flock'[p][k] =
           IF k = held[p].handle /\ Unused(p, k, t) THEN "closed" ELSE flock[p][k]
  BY <1>2, <1>3 DEF Typed
<1>9. Typed' /\ Elsewhere(p, t)
  BY <1>2, <1>3, <1>6, <1>7, <1>8 DEF Typed, Elsewhere
<1>10. Compatible'
  <2> DEFINE g == h
  <2>1. /\ \A k \in Handle \ {g} : flock'[p][k] \in {flock[p][k], "closed"}
        /\ flock'[p][g] \in {flock[p][g], "none", "closed"} \/ Grantable(p, g, flock'[p][g])
        /\ g \in Handle
    BY <1>2, <1>8
  <2> HIDE DEF g
  <2> QED BY <1>2, <1>3, <1>8, <2>1, FlocksAgree
<1>11. OpenedAt(p)'
  <2>1. held'[p].handle = NoHandle => held'[p] = Absent
    BY <1>2, <1>6, AbsentIs
  <2>2. \A k \in Handle : flock'[p][k] # "closed" =>
          \/ k = held'[p].handle
          \/ \E u \in Thread \ {t} : call[p][u].fd = k
          \/ flock[p][k] # "closed" /\ k # held[p].handle /\ k # call[p][t].fd
    BY <1>6, <1>8 DEF Unused
  <2> QED BY <1>2, <1>7, <2>1, <2>2, StaysOpen
<1>12. LinkedAt(p, t)'
  BY <1>1, <1>2, <1>3, <1>7 DEF LinkedAt, Acquiring, OnHandle, Upgrading
<1>13. Reg(p, t)' = s
  BY <1>3, <1>7 DEF Reg
<1>14. held[p] = Absent => flock'[p][h] = flock[p][h]
  BY <1>2, <1>8, AbsentIs
<1>15. ASSUME Has(s, "exclusive") PROVE Owns(p, t)'
  <2>1. held[p] = Absent /\ flock[p][h] = m /\ Aligned(<< >>, Front(s))
    BY <1>1, <1>2, <1>15, Before, AbsentIs DEF Owns
  <2>2. << >> \in Seq(Mode)
    OBVIOUS
  <2>3. ~Has(Front(s), "exclusive")
    BY <1>4, <1>5, <2>1, <2>2, AlignedHas
  <2>4. Aligned(<< m >>, s) /\ m = "exclusive"
    BY <1>2, <1>4, <1>15, <2>3, AlignedFresh
  <2>5. Aligned(held[p].modes, Reg(p, t))'
    BY <1>6, <1>13, <2>4
  <2> QED BY <1>2, <1>6, <1>7, <1>14, <2>1, <2>4, <2>5 DEF Owns, Upgrading
<1>16. ~Has(s, "exclusive") => ~Has(held'[p].modes, "exclusive")
  BY <1>4, <1>5, <1>6
<1>17. Single(p) => AloneAt(p, t)'
  <2> SUFFICES ASSUME Single(p) PROVE AloneAt(p, t)'
    OBVIOUS
  <2>1. held[p] = Absent /\ flock[p][h] = m /\ Front(s) = << >>
    BY <1>1, <1>2, Facts, AbsentIs DEF AloneAt
  <2>2. s = << m >>
    BY <1>2, <1>4, <2>1
  <2> QED BY <1>2, <1>5, <1>6, <1>7, <1>13, <1>14, <2>1, <2>2 DEF AloneAt, Upgrading
<1> QED BY <1>2, <1>3, <1>9, <1>10, <1>11, <1>12, <1>15, <1>16, <1>17, Within

-----------------------------------------------------------------------------
(* Steps on the thread lock *)

\* An acquisition and the end of a wait leave the registry and the kernel alone:
\* a thread that now has the exclusive lock finds no exclusive mode registered,
\* or its own.
LEMMA Rests ==
  ASSUME IInv, NEW p \in Proc, NEW t \in ThreadsOf[p], NEW k, Sound(k), Settled(k),
         \A u \in Thread \ {t} : Unaffected(rw[p], k, u),
         rw' = [rw EXCEPT ![p] = k],
         held' = held, flock' = flock, native' = native, warned' = warned,
         call' \in [Proc -> [Thread -> [pc : InCall \cup {"run"}, want : Mode,
                                        fd : Handle \cup {NoHandle}]]],
         \A q \in Proc \ {p} : call'[q] = call[q],
         \A u \in Thread \ {t} : call'[p][u] = call[p][u],
         call[p][t].pc \in {"run", "thread"}, call'[p][t].pc \in {"run", "thread", "lookup"},
         call'[p][t].fd = NoHandle, LinkedAt(p, t)', Reg(p, t)' = rw[p].stacks[t],
         Has(rw[p].stacks[t], "exclusive") => Has(k.stacks[t], "exclusive")
  PROVE  IInv'
<1> DEFINE s == rw[p].stacks[t]
           r == held[p].modes
<1>1. /\ Typed /\ Compatible /\ t \in Thread /\ LinkedAt(p, t) /\ OpenedAt(p) /\ OwnedAt(p)
      /\ s \in Seq(Mode) /\ r \in Seq(Mode) /\ Reg(p, t) = s /\ call[p][t].fd = NoHandle
  BY Facts, RegIs DEF LinkedAt
<1>2. rw'[p] = k /\ \A q \in Proc \ {p} : rw'[q] = rw[q]
  BY <1>1 DEF Typed
<1>3. Typed' /\ Compatible' /\ Elsewhere(p, t)
  <2>1. rw' \in [Proc -> LockState]
    BY <1>1 DEF Typed, Sound
  <2>2. Typed'
    BY <1>1, <2>1 DEF Typed
  <2>3. Compatible'
    BY <1>1 DEF Compatible
  <2>4. Elsewhere(p, t)
    BY <1>2 DEF Elsewhere
  <2> QED BY <2>2, <2>3, <2>4
<1>4. OpenedAt(p)'
  <2>1. \A u \in Thread : call'[p][u].fd = call[p][u].fd
    BY <1>1
  <2> QED BY <1>1, <2>1 DEF OpenedAt
<1>5. \A u \in Thread \ {t} : k.stacks[u] = rw[p].stacks[u]
  BY DEF Unaffected
<1>6. \A u \in Thread : /\ Holds(rw'[p], u, "exclusive") <=> Has(k.stacks[u], "exclusive")
                        /\ Holds(rw[p], u, "exclusive") <=> Has(rw[p].stacks[u], "exclusive")
  BY <1>2 DEF Holds, Has
<1>7. ASSUME Has(k.stacks[t], "exclusive") PROVE Owns(p, t)'
  <2>1. CASE Has(s, "exclusive")
    <3>1. Owns(p, t)
      BY <1>1, <1>6, <2>1 DEF OwnedAt
    <3> QED BY <1>1, <3>1 DEF Owns, Upgrading
  <2>2. CASE ~Has(s, "exclusive")
    <3>1. Holds(k, t, "exclusive")
      BY <1>7 DEF Holds, Has
    <3>2. \A u \in Thread \ {t} : k.stacks[u] = << >>
      BY <1>1, <3>1, SoundExcludes
    <3>3. \A u \in Thread : ~Has(rw[p].stacks[u], "exclusive")
      <4>1. ~Has(<< >>, "exclusive")
        BY DEF Has
      <4> QED BY <1>5, <2>2, <3>2, <4>1
    <3>4. ~Has(r, "exclusive")
      BY <1>1, <1>6, <3>3 DEF OwnedAt
    <3>5. Aligned(r, s)
      BY <1>1, <2>2, <3>4, AlignedHas
    <3>6. Aligned(held[p].modes, Reg(p, t))' /\ ~Has(Reg(p, t)', "exclusive")
      BY <2>2, <3>5
    <3> QED BY <3>6 DEF Owns, Upgrading
  <2> QED BY <2>1, <2>2
<1>8. OwnedAt(p)'
  <2>1. ASSUME NEW u \in Thread \ {t}, Holds(rw'[p], u, "exclusive") PROVE Owns(p, u)'
    <3>1. Owns(p, u)
      BY <1>1, <1>5, <1>6, <2>1 DEF OwnedAt
    <3>2. call'[p][u] = call[p][u] /\ rw'[p].stacks[u] = rw[p].stacks[u]
      BY <1>2, <1>5
    <3>3. Reg(p, u)' = Reg(p, u)
      BY <3>2 DEF Reg
    <3> QED BY <3>1, <3>2, <3>3 DEF Owns
  <2>2. (\A u \in Thread : ~Holds(rw'[p], u, "exclusive")) => ~Has(held'[p].modes, "exclusive")
    BY <1>1, <1>5, <1>6 DEF OwnedAt
  <2> QED BY <1>6, <1>7, <2>1, <2>2 DEF OwnedAt
<1>9. Single(p) => AloneAt(p, t)'
  <2> SUFFICES ASSUME Single(p) PROVE AloneAt(p, t)'
    OBVIOUS
  <2>1. AloneAt(p, t)
    BY Facts
  <2> QED BY <1>1, <2>1 DEF AloneAt, Upgrading
<1>10. \A u \in Thread \ {t} : Unaffected(rw[p], rw'[p], u)
  BY <1>2
<1> QED BY <1>2, <1>3, <1>4, <1>8, <1>9, <1>10, Assemble

LEMMA AcquireKeeps ==
  ASSUME IInv, NEW p \in Proc, NEW t \in ThreadsOf[p], NEW m \in Mode, Acquire(p, t, m)
  PROVE  IInv'
<1> DEFINE l == rw[p]
           s == l.stacks[t]
           k == Acquired(l, t, m)
           x == [pc |-> IF Waiting(k, t) THEN "thread" ELSE "lookup", want |-> m, fd |-> NoHandle]
<1>1. call[p][t].pc = "run"
  BY DEF Acquire, At
<1>2. /\ Typed /\ t \in Thread /\ LinkedAt(p, t) /\ Sound(l) /\ Settled(l)
      /\ s \in Seq(Mode) /\ ~Waiting(l, t)
  BY <1>1, Facts DEF LinkedAt
<1>3. /\ rw' = [rw EXCEPT ![p] = k] /\ call' = [call EXCEPT ![p][t] = x]
      /\ held' = held /\ flock' = flock /\ native' = native /\ warned' = warned
  BY DEF Acquire
<1>4. Sound(k) /\ Settled(k)
  BY <1>2, AcquiredSound
<1>5. /\ \/ k.stacks[t] = Append(s, m) /\ ~Waiting(k, t)
         \/ k.stacks[t] = s /\ Waiting(k, t) /\ Asks(k, t, m)
      /\ \A u \in Thread \ {t} : Unaffected(l, k, u)
  BY <1>2, AcquiredFrame
<1> HIDE DEF k
<1>6. /\ x \in [pc : InCall \cup {"run"}, want : Mode, fd : Handle \cup {NoHandle}]
      /\ x.pc = (IF Waiting(k, t) THEN "thread" ELSE "lookup") /\ x.want = m /\ x.fd = NoHandle
  BY DEF InCall
<1> HIDE DEF x
<1>7. /\ call' \in [Proc -> [Thread -> [pc : InCall \cup {"run"}, want : Mode,
                                           fd : Handle \cup {NoHandle}]]]
      /\ call'[p][t] = x
      /\ \A q \in Proc \ {p} : call'[q] = call[q]
      /\ \A u \in Thread \ {t} : call'[p][u] = call[p][u]
  BY <1>2, <1>3, <1>6, Becomes
<1>8. rw'[p] = k
  BY <1>2, <1>3 DEF Typed
<1>9. /\ Append(s, m) # << >> /\ Append(s, m)[Len(Append(s, m))] = m /\ Front(Append(s, m)) = s
      /\ Has(s, "exclusive") => Has(Append(s, m), "exclusive")
  <2> HIDE DEF s
  <2> QED BY <1>2, Pushed
<1>10. LinkedAt(p, t)'
  BY <1>2, <1>5, <1>6, <1>7, <1>8, <1>9 DEF LinkedAt, Acquiring, OnHandle, Upgrading
<1>11. Reg(p, t)' = s
  BY <1>5, <1>6, <1>7, <1>8, <1>9 DEF Reg, Upgrading
<1>12. Has(s, "exclusive") => Has(k.stacks[t], "exclusive")
  BY <1>5, <1>9
<1>13. call'[p][t].pc \in {"run", "thread", "lookup"} /\ call'[p][t].fd = NoHandle
  BY <1>6, <1>7
<1> QED BY <1>1, <1>3, <1>4, <1>5, <1>7, <1>10, <1>11, <1>12, <1>13, Rests

LEMMA ThreadGrantedKeeps ==
  ASSUME IInv, NEW p \in Proc, NEW t \in ThreadsOf[p], ThreadGranted(p, t)
  PROVE  IInv'
<1> DEFINE l == rw[p]
           s == l.stacks[t]
           m == call[p][t].want
           k == Woken(l, t)
<1>1. call[p][t].pc = "thread" /\ l.granted[t] # "none"
  BY DEF ThreadGranted, At
<1>2. /\ Typed /\ t \in Thread /\ LinkedAt(p, t) /\ Sound(l) /\ Settled(l)
      /\ s \in Seq(Mode) /\ m \in Mode /\ Asks(l, t, m) /\ call[p][t].fd = NoHandle
  BY <1>1, Facts DEF LinkedAt
<1>3. /\ rw' = [rw EXCEPT ![p] = k] /\ Go(p, t, "lookup")
      /\ held' = held /\ flock' = flock /\ native' = native /\ warned' = warned
  BY DEF ThreadGranted
<1>4. Sound(k) /\ Settled(k)
  BY <1>1, <1>2, WokenSound
<1>5. /\ k.stacks[t] = Append(s, m) /\ ~Waiting(k, t)
      /\ \A u \in Thread \ {t} : Unaffected(l, k, u)
  BY <1>1, <1>2, WokenFrame
<1> HIDE DEF k
<1>6. "lookup" \in InCall \cup {"run"}
  BY DEF InCall
<1>7. /\ call' \in [Proc -> [Thread -> [pc : InCall \cup {"run"}, want : Mode,
                                           fd : Handle \cup {NoHandle}]]]
      /\ call'[p][t].pc = "lookup" /\ call'[p][t].want = m /\ call'[p][t].fd = NoHandle
      /\ \A q \in Proc \ {p} : call'[q] = call[q]
      /\ \A u \in Thread \ {t} : call'[p][u] = call[p][u]
  BY <1>2, <1>3, <1>6, Goes
<1>8. rw'[p] = k
  BY <1>2, <1>3 DEF Typed
<1>9. /\ Append(s, m) # << >> /\ Append(s, m)[Len(Append(s, m))] = m /\ Front(Append(s, m)) = s
      /\ Has(s, "exclusive") => Has(Append(s, m), "exclusive")
  <2> HIDE DEF s, m
  <2> QED BY <1>2, Pushed
<1>10. LinkedAt(p, t)'
  BY <1>2, <1>5, <1>7, <1>8, <1>9 DEF LinkedAt, Acquiring, OnHandle, Upgrading
<1>11. Reg(p, t)' = s
  BY <1>5, <1>7, <1>8, <1>9 DEF Reg, Upgrading
<1>12. Has(s, "exclusive") => Has(k.stacks[t], "exclusive")
  BY <1>5, <1>9
<1>13. call'[p][t].pc \in {"run", "thread", "lookup"}
  BY <1>7
<1> QED BY <1>1, <1>3, <1>4, <1>5, <1>7, <1>10, <1>11, <1>12, <1>13, Rests

LEMMA ThreadTimeoutKeeps ==
  ASSUME IInv, NEW p \in Proc, NEW t \in ThreadsOf[p], ThreadTimeout(p, t)
  PROVE  IInv'
<1> DEFINE l == rw[p]
           s == l.stacks[t]
           k == Drop(l, t)
<1>1. call[p][t].pc = "thread" /\ InQueue(l, t)
  BY DEF ThreadTimeout, At
<1>2. /\ Typed /\ t \in Thread /\ LinkedAt(p, t) /\ Sound(l)
      /\ call[p][t].fd = NoHandle
  BY <1>1, Facts DEF LinkedAt
<1>3. /\ rw' = [rw EXCEPT ![p] = k] /\ Return(p, t)
      /\ held' = held /\ flock' = flock /\ native' = native /\ warned' = warned
  BY DEF ThreadTimeout
<1>4. Sound(k) /\ Settled(k)
  BY <1>1, <1>2, DropSound
<1>5. /\ k.stacks[t] = s /\ ~Waiting(k, t)
      /\ \A u \in Thread \ {t} : Unaffected(l, k, u)
  BY <1>1, <1>2, DropFrame
<1> HIDE DEF k
<1>7. /\ call' \in [Proc -> [Thread -> [pc : InCall \cup {"run"}, want : Mode,
                                           fd : Handle \cup {NoHandle}]]]
      /\ call'[p][t].pc = "run" /\ call'[p][t].fd = NoHandle
      /\ \A q \in Proc \ {p} : call'[q] = call[q]
      /\ \A u \in Thread \ {t} : call'[p][u] = call[p][u]
  BY <1>2, <1>3, Returns
<1>8. rw'[p] = k
  BY <1>2, <1>3 DEF Typed
<1>10. LinkedAt(p, t)'
  BY <1>2, <1>5, <1>7, <1>8 DEF LinkedAt, Acquiring, OnHandle, Upgrading
<1>11. Reg(p, t)' = s
  BY <1>5, <1>7, <1>8 DEF Reg, Upgrading
<1>12. Has(s, "exclusive") => Has(k.stacks[t], "exclusive")
  BY <1>5
<1>13. call'[p][t].pc \in {"run", "thread", "lookup"}
  BY <1>7
<1> QED BY <1>1, <1>3, <1>4, <1>5, <1>7, <1>10, <1>11, <1>12, <1>13, Rests

\* Closing handles of one process.
LEMMA ClosingAgrees ==
  ASSUME Typed, Compatible, NEW p \in Proc, native' = native,
         \A q \in Proc \ {p} : flock'[q] = flock[q],
         \A k \in Handle : flock'[p][k] \in {flock[p][k], "closed"}
  PROVE  Compatible'
<1>1. 1 \in Handle
  <2>1. Cardinality(Thread) \in Nat
    BY GraphLockAssumption, FS_CardinalityType
  <2> QED BY <2>1 DEF Handle
<1> DEFINE h == 1
<1>2. /\ h \in Handle
      /\ \A k \in Handle \ {h} : flock'[p][k] \in {flock[p][k], "closed"}
      /\ flock'[p][h] \in {flock[p][h], "none", "closed"} \/ Grantable(p, h, flock'[p][h])
  BY <1>1
<1> HIDE DEF h
<1> QED BY <1>2, FlocksAgree

LEMMA LeaveKeeps ==
  ASSUME IInv, NEW p \in Proc, NEW t \in ThreadsOf[p], Leave(p, t)
  PROVE  IInv'
<1> DEFINE c == call[p][t]
           l == rw[p]
           s == l.stacks[t]
           r == held[p].modes
           h == held[p].handle
           k == Released(l, t)
<1>1. c.pc = "leave"
  BY DEF Leave, At
<1>2. /\ Typed /\ Compatible /\ t \in Thread /\ LinkedAt(p, t) /\ OpenedAt(p) /\ Sound(l)
      /\ s \in Seq(Mode) /\ r \in Seq(Mode) /\ s # << >> /\ Reg(p, t) = Front(s) /\ ~Waiting(l, t)
      /\ flock[p] \in [Handle -> Mode \cup {"none", "closed"}]
  BY <1>1, Facts, RegIs DEF LinkedAt, Upgrading
<1>3. /\ held' = held /\ native' = native /\ warned' = warned
      /\ rw' = [rw EXCEPT ![p] = k] /\ Return(p, t)
      /\ flock' = [flock EXCEPT ![p] =
                     [j \in Handle |-> IF j = c.fd /\ j # h /\ Unused(p, j, t)
                                       THEN "closed" ELSE flock[p][j]]]
  BY DEF Leave
<1>4. Sound(k) /\ Settled(k) /\ k \in LockState
  BY <1>2, ReleasedSound DEF Sound
<1>5. /\ k.stacks[t] = Front(s) /\ ~Waiting(k, t)
      /\ \A u \in Thread \ {t} : Unaffected(l, k, u)
  BY <1>2, ReleasedFrame
<1> HIDE DEF k
<1>6. rw'[p] = k /\ rw' \in [Proc -> LockState] /\ \A q \in Proc \ {p} : rw'[q] = rw[q]
  BY <1>2, <1>3, <1>4 DEF Typed
<1>7. /\ call' \in [Proc -> [Thread -> [pc : InCall \cup {"run"}, want : Mode,
                                           fd : Handle \cup {NoHandle}]]]
      /\ call'[p][t].pc = "run" /\ call'[p][t].fd = NoHandle
      /\ \A q \in Proc \ {p} : call'[q] = call[q]
      /\ \A u \in Thread \ {t} : call'[p][u] = call[p][u]
  BY <1>2, <1>3, Returns
<1>8. /\ flock' \in [Proc -> [Handle -> Mode \cup {"none", "closed"}]]
      /\ \A q \in Proc \ {p} : flock'[q] = flock[q]
      /\ \A j \in Handle : flock'[p][j] =
           IF j = c.fd /\ j # h /\ Unused(p, j, t) THEN "closed" ELSE flock[p][j]
  BY <1>2, <1>3 DEF Typed
<1>9. Typed' /\ Elsewhere(p, t)
  BY <1>2, <1>3, <1>6, <1>7, <1>8 DEF Typed, Elsewhere
<1>10. Compatible'
  BY <1>2, <1>3, <1>8, ClosingAgrees
<1>11. OpenedAt(p)'
  <2>1. held'[p].handle = NoHandle => held'[p] = Absent
    BY <1>2, <1>3 DEF OpenedAt
  <2>2. \A j \in Handle : flock'[p][j] # "closed" =>
          \/ j = held'[p].handle
          \/ \E u \in Thread \ {t} : call[p][u].fd = j
          \/ flock[p][j] # "closed" /\ j # held[p].handle /\ j # call[p][t].fd
    BY <1>3, <1>8 DEF Unused
  <2> QED BY <1>2, <1>7, <2>1, <2>2, StaysOpen
<1>12. LinkedAt(p, t)'
  BY <1>5, <1>6, <1>7 DEF LinkedAt, Acquiring, OnHandle, Upgrading
<1>13. Reg(p, t)' = Front(s)
  BY <1>5, <1>6, <1>7 DEF Reg
<1>14. /\ Has(Front(s), "exclusive") => Has(s, "exclusive")
       /\ Has(s, "exclusive") => Owns(p, t)
       /\ ~Has(s, "exclusive") => ~Has(r, "exclusive")
       /\ \A u \in Thread \ {t} : ~Has(l.stacks[u], "exclusive")
       /\ Front(s) \in Seq(Mode)
  BY <1>2, Before, HasFront, FrontIs
<1>15. ASSUME Has(Front(s), "exclusive") PROVE Owns(p, t)'
  <2>1. Owns(p, t)
    BY <1>14, <1>15
  <2>2. Aligned(r, Front(s)) /\ h \in Handle /\ flock[p][h] = "exclusive"
    BY <1>1, <1>2, <1>15, <2>1 DEF Owns, Upgrading
  <2>3. Aligned(held[p].modes, Reg(p, t))'
    BY <1>3, <1>13, <2>2
  <2> QED BY <1>3, <1>7, <1>8, <2>2, <2>3 DEF Owns, Upgrading
<1>16. ~Has(Front(s), "exclusive") => ~Has(r, "exclusive")
  <2>1. Has(s, "exclusive") => Aligned(r, Front(s))
    BY <1>2, <1>14 DEF Owns
  <2> QED BY <1>2, <1>14, <2>1, AlignedHas
<1>17. OwnedAt(p)'
  <2>1. \A u \in Thread \ {t} : k.stacks[u] = l.stacks[u]
    BY <1>5 DEF Unaffected
  <2>2. \A u \in Thread : Holds(rw'[p], u, "exclusive") <=> Has(k.stacks[u], "exclusive")
    BY <1>6 DEF Holds, Has
  <2> QED BY <1>2, <1>3, <1>5, <1>14, <1>15, <1>16, <2>1, <2>2 DEF OwnedAt
<1>18. Single(p) => AloneAt(p, t)'
  <2> SUFFICES ASSUME Single(p) PROVE AloneAt(p, t)'
    OBVIOUS
  <2>1. AloneAt(p, t)
    BY Facts
  <2>2. /\ r = Front(s) /\ (r = << >> => held[p] = Absent)
        /\ p \notin warned /\ Front(s) # << >> => h \in Handle /\ flock[p][h] \in Mode
    BY <1>1, <1>2, <2>1 DEF AloneAt
  <2> QED BY <1>3, <1>7, <1>8, <1>13, <2>2 DEF AloneAt, Upgrading
<1>19. Sound(rw'[p]) /\ Settled(rw'[p]) /\ \A u \in Thread \ {t} : Unaffected(rw[p], rw'[p], u)
  BY <1>4, <1>5, <1>6
<1> QED BY <1>9, <1>10, <1>11, <1>12, <1>17, <1>18, <1>19, Assemble

-----------------------------------------------------------------------------
(* Native lockers and crashes *)

LEMMA CrashKeeps ==
  ASSUME IInv, NEW p \in Proc, Crash(p)
  PROVE  IInv'
<1>1. Typed /\ Compatible
  BY DEF IInv
<1>2. /\ rw' = [rw EXCEPT ![p] = FreshLock] /\ held' = [held EXCEPT ![p] = Absent]
      /\ flock' = [flock EXCEPT ![p] = [h \in Handle |-> "closed"]]
      /\ call' = [call EXCEPT ![p] = [t \in Thread |-> Idle]]
      /\ warned' = warned \ {p} /\ native' = native
  BY DEF Crash
<1>3. Sound(FreshLock) /\ Settled(FreshLock) /\ FreshLock \in LockState
  BY FreshSound DEF Sound
<1>4. /\ Absent \in [handle : Handle \cup {NoHandle}, modes : Seq(Mode)]
      /\ Idle \in [pc : InCall \cup {"run"}, want : Mode, fd : Handle \cup {NoHandle}]
      /\ Idle.pc = "run" /\ Idle.fd = NoHandle
  BY DEF Absent, Idle, Mode
<1> HIDE DEF Absent, Idle, FreshLock
<1>5. /\ rw' \in [Proc -> LockState] /\ rw'[p] = FreshLock /\ \A q \in Proc \ {p} : rw'[q] = rw[q]
  BY <1>1, <1>2, <1>3 DEF Typed
<1>6. /\ held' \in [Proc -> [handle : Handle \cup {NoHandle}, modes : Seq(Mode)]]
      /\ held'[p] = Absent /\ \A q \in Proc \ {p} : held'[q] = held[q]
  BY <1>1, <1>2, <1>4, Registers
<1>7. /\ flock' \in [Proc -> [Handle -> Mode \cup {"none", "closed"}]]
      /\ \A q \in Proc \ {p} : flock'[q] = flock[q]
      /\ \A h \in Handle : flock'[p][h] = "closed"
  BY <1>1, <1>2 DEF Typed
<1>8. /\ call' \in [Proc -> [Thread -> [pc : InCall \cup {"run"}, want : Mode,
                                           fd : Handle \cup {NoHandle}]]]
      /\ \A q \in Proc \ {p} : call'[q] = call[q]
      /\ \A t \in Thread : call'[p][t] = Idle
  <2> DEFINE C == [pc : InCall \cup {"run"}, want : Mode, fd : Handle \cup {NoHandle}]
  <2>1. call \in [Proc -> [Thread -> C]] /\ Idle \in C
    BY <1>1, <1>4 DEF Typed
  <2> HIDE DEF C
  <2>2. [t \in Thread |-> Idle] \in [Thread -> C]
    BY <2>1
  <2>3. /\ call' \in [Proc -> [Thread -> C]]
        /\ \A q \in Proc \ {p} : call'[q] = call[q]
        /\ \A t \in Thread : call'[p][t] = Idle
    BY <1>2, <2>1, <2>2
  <2> QED BY <2>3 DEF C
<1>9. Typed'
  BY <1>1, <1>2, <1>5, <1>6, <1>7, <1>8 DEF Typed
<1>10. Compatible'
  <2>1. \A h \in Handle : flock'[p][h] \in {flock[p][h], "closed"}
    BY <1>7
  <2> QED BY <1>1, <1>2, <1>7, <2>1, ClosingAgrees
<1>11. /\ \A t \in Thread : ~Waiting(FreshLock, t) /\ FreshLock.stacks[t] = << >>
       /\ ~Has(<< >>, "exclusive")
  BY DEF FreshLock, Waiting, InQueue, Has
<1>12. /\ OpenedAt(p)' /\ \A t \in Thread : LinkedAt(p, t)'
  <2>1. OpenedAt(p)'
    BY <1>6, <1>7 DEF OpenedAt
  <2>2. ASSUME NEW t \in Thread PROVE LinkedAt(p, t)'
    BY <1>4, <1>5, <1>8, <1>11 DEF LinkedAt, Acquiring, OnHandle, Upgrading
  <2> QED BY <2>1, <2>2
<1>13. OwnedAt(p)'
  <2>1. \A t \in Thread : Holds(rw'[p], t, "exclusive") <=> Has(FreshLock.stacks[t], "exclusive")
    BY <1>5 DEF Holds, Has
  <2>2. \A t \in Thread : ~Holds(rw'[p], t, "exclusive")
    BY <1>11, <2>1
  <2> QED BY <1>6, <1>11, <2>2, AbsentIs DEF OwnedAt
<1>14. \A t \in Thread : AloneAt(p, t)'
  <2> SUFFICES ASSUME NEW t \in Thread PROVE AloneAt(p, t)'
    OBVIOUS
  <2>1. Reg(p, t)' = << >>
    BY <1>4, <1>5, <1>8, <1>11 DEF Reg
  <2> QED BY <1>4, <1>6, <1>8, <2>1, AbsentIs DEF AloneAt, Upgrading
<1>15. ThreadsOf \in [Proc -> SUBSET Thread]
  BY GraphLockAssumption
<1>16. ASSUME NEW q \in Proc \ {p}
       PROVE  /\ Sound(rw[q])' /\ Settled(rw[q])' /\ OpenedAt(q)' /\ OwnedAt(q)'
              /\ \A u \in Thread : LinkedAt(q, u)'
              /\ Single(q) => \A u \in ThreadsOf[q] : AloneAt(q, u)'
  <2>1. /\ rw'[q] = rw[q] /\ held'[q] = held[q] /\ flock'[q] = flock[q]
        /\ call'[q] = call[q] /\ (q \in warned' <=> q \in warned)
    BY <1>2, <1>5, <1>6, <1>7, <1>8
  <2> QED BY <1>15, <2>1, OtherProcess DEF IInv
<1>17. Sound(rw[p])' /\ Settled(rw[p])'
  BY <1>3, <1>5
<1> QED BY <1>9, <1>10, <1>12, <1>13, <1>14, <1>15, <1>16, <1>17 DEF IInv, Single

\* Nothing of the Python processes changes.
LEMMA ProcessesKeep ==
  ASSUME IInv, rw' = rw, held' = held, flock' = flock, call' = call, warned' = warned,
         Compatible', native' \in [Native -> Mode \cup {"none"}]
  PROVE  IInv'
<1>1. Typed'
  BY DEF IInv, Typed
<1>2. ThreadsOf \in [Proc -> SUBSET Thread]
  BY GraphLockAssumption
<1>3. ASSUME NEW q \in Proc
      PROVE  /\ Sound(rw[q])' /\ Settled(rw[q])' /\ OpenedAt(q)' /\ OwnedAt(q)'
             /\ \A u \in Thread : LinkedAt(q, u)'
             /\ Single(q) => \A u \in ThreadsOf[q] : AloneAt(q, u)'
  <2>1. /\ rw'[q] = rw[q] /\ held'[q] = held[q] /\ flock'[q] = flock[q]
        /\ call'[q] = call[q] /\ (q \in warned' <=> q \in warned)
    OBVIOUS
  <2> QED BY <1>2, <2>1, OtherProcess DEF IInv
<1> QED BY <1>1, <1>3 DEF IInv, Single

LEMMA NativeAcquireKeeps ==
  ASSUME IInv, NEW n \in Native, NEW m \in Mode, NativeAcquire(n, m)
  PROVE  IInv'
<1>1. /\ Typed /\ Compatible /\ GrantableNative(n, m) /\ native' = [native EXCEPT ![n] = m]
      /\ rw' = rw /\ held' = held /\ flock' = flock /\ call' = call /\ warned' = warned
  BY DEF IInv, NativeAcquire
<1>2. /\ native' \in [Native -> Mode \cup {"none"}]
      /\ native'[n] = m /\ \A o \in Native \ {n} : native'[o] = native[o]
  BY <1>1 DEF Typed
<1>3. \A x, y : Conflicts(x, y) => Conflicts(y, x)
  BY DEF Conflicts
<1>4. Compatible'
  BY <1>1, <1>2, <1>3 DEF Compatible, GrantableNative
<1> QED BY <1>1, <1>2, <1>4, ProcessesKeep

LEMMA NativeDropKeeps ==
  ASSUME IInv, NEW n \in Native, NativeDrop(n)
  PROVE  IInv'
<1>1. /\ Typed /\ Compatible /\ native' = [native EXCEPT ![n] = "none"]
      /\ rw' = rw /\ held' = held /\ flock' = flock /\ call' = call /\ warned' = warned
  BY DEF IInv, NativeDrop
<1>2. /\ native' \in [Native -> Mode \cup {"none"}]
      /\ native'[n] = "none" /\ \A o \in Native \ {n} : native'[o] = native[o]
  BY <1>1 DEF Typed
<1>3. \A x : ~Conflicts(x, "none") /\ ~Conflicts("none", x)
  BY DEF Conflicts, Mode
<1>4. Compatible'
  BY <1>1, <1>2, <1>3 DEF Compatible
<1> QED BY <1>1, <1>2, <1>4, ProcessesKeep

-----------------------------------------------------------------------------
(* The invariant of the specification *)

LEMMA InitIInv == Init => IInv
<1> SUFFICES ASSUME Init PROVE IInv
  OBVIOUS
<1>1. /\ rw = [p \in Proc |-> FreshLock] /\ held = [p \in Proc |-> Absent]
      /\ flock = [p \in Proc |-> [h \in Handle |-> "closed"]]
      /\ call = [p \in Proc |-> [t \in Thread |-> Idle]]
      /\ native = [n \in Native |-> "none"] /\ warned = {}
  BY DEF Init
<1>2. Sound(FreshLock) /\ Settled(FreshLock) /\ FreshLock \in LockState
  BY FreshSound DEF Sound
<1>3. /\ Absent \in [handle : Handle \cup {NoHandle}, modes : Seq(Mode)]
      /\ Idle \in [pc : InCall \cup {"run"}, want : Mode, fd : Handle \cup {NoHandle}]
      /\ Idle.pc = "run" /\ Idle.fd = NoHandle
  BY DEF Absent, Idle, Mode
<1>4. \A p \in Proc : /\ rw[p] = FreshLock /\ held[p] = Absent
                      /\ \A h \in Handle : flock[p][h] = "closed"
                      /\ \A t \in Thread : call[p][t] = Idle
  BY <1>1
<1>5. Typed
  <2> DEFINE C == [pc : InCall \cup {"run"}, want : Mode, fd : Handle \cup {NoHandle}]
             H == [handle : Handle \cup {NoHandle}, modes : Seq(Mode)]
  <2>1. Idle \in C /\ Absent \in H
    BY <1>3
  <2> HIDE DEF C, H
  <2>2. /\ rw \in [Proc -> LockState] /\ held \in [Proc -> H] /\ call \in [Proc -> [Thread -> C]]
    BY <1>1, <1>2, <2>1
  <2>3. /\ flock \in [Proc -> [Handle -> Mode \cup {"none", "closed"}]]
        /\ native \in [Native -> Mode \cup {"none"}] /\ warned \subseteq Proc
    BY <1>1
  <2> QED BY <2>2, <2>3 DEF Typed, C, H
<1>6. Compatible
  <2>1. \A x : ~Conflicts(x, "none") /\ ~Conflicts("closed", x)
    BY DEF Conflicts, Mode
  <2>2. \A n \in Native : native[n] = "none"
    BY <1>1
  <2> QED BY <1>4, <2>1, <2>2 DEF Compatible
<1>7. /\ \A t \in Thread : ~Waiting(FreshLock, t) /\ FreshLock.stacks[t] = << >>
      /\ ~Has(<< >>, "exclusive")
  BY DEF FreshLock, Waiting, InQueue, Has
<1>8. ThreadsOf \in [Proc -> SUBSET Thread]
  BY GraphLockAssumption
<1>9. ASSUME NEW p \in Proc
      PROVE  /\ Sound(rw[p]) /\ Settled(rw[p]) /\ OpenedAt(p) /\ OwnedAt(p)
             /\ \A t \in Thread : LinkedAt(p, t) /\ AloneAt(p, t)
  <2>1. OpenedAt(p)
    BY <1>4 DEF OpenedAt
  <2>2. OwnedAt(p)
    <3>1. \A t \in Thread : Holds(rw[p], t, "exclusive") <=> Has(FreshLock.stacks[t], "exclusive")
      BY <1>4 DEF Holds, Has
    <3> QED BY <1>4, <1>7, <3>1, AbsentIs DEF OwnedAt
  <2>3. ASSUME NEW t \in Thread PROVE LinkedAt(p, t) /\ AloneAt(p, t)
    <3>1. LinkedAt(p, t)
      BY <1>3, <1>4, <1>7 DEF LinkedAt, Acquiring, OnHandle, Upgrading
    <3>2. Reg(p, t) = << >>
      BY <1>3, <1>4, <1>7 DEF Reg
    <3> QED BY <1>3, <1>4, <3>1, <3>2, AbsentIs DEF AloneAt, Upgrading
  <2> QED BY <1>2, <1>4, <2>1, <2>2, <2>3
<1> QED BY <1>5, <1>6, <1>8, <1>9 DEF IInv

LEMMA StepKeepsIInv == IInv /\ [Next]_vars => IInv'
<1> SUFFICES ASSUME IInv, [Next]_vars PROVE IInv'
  OBVIOUS
<1>1. CASE UNCHANGED vars
  <2>1. /\ rw' = rw /\ held' = held /\ flock' = flock /\ call' = call /\ warned' = warned
        /\ native' = native
    BY <1>1 DEF vars
  <2>2. Compatible' /\ native' \in [Native -> Mode \cup {"none"}]
    BY <2>1 DEF IInv, Compatible, Typed
  <2> QED BY <2>1, <2>2, ProcessesKeep
<1>2. ASSUME NEW p \in Proc, Crash(p) PROVE IInv'
  BY <1>2, CrashKeeps
<1>3. ASSUME NEW p \in Proc, NEW t \in ThreadsOf[p],
             \/ \E m \in Mode : Acquire(p, t, m)
             \/ Release(p, t) \/ InAcquire(p, t) \/ InRelease(p, t) \/ Leave(p, t)
      PROVE  IInv'
  <2>1. CASE \E m \in Mode : Acquire(p, t, m)
    BY <2>1, AcquireKeeps
  <2>2. CASE Release(p, t)
    BY <2>2, ReleaseKeeps
  <2>3. CASE InAcquire(p, t)
    BY <2>3, ThreadGrantedKeeps, ThreadTimeoutKeeps, LookupKeeps, WaitKeeps, WaitFailsKeeps,
       PublishKeeps, UnshareKeeps, UpgradeKeeps, UpgradeFailsKeeps, RestoreKeeps,
       RestoreFailsKeeps, UnwindKeeps DEF InAcquire
  <2>4. CASE InRelease(p, t)
    BY <2>4, UnlockKeeps, DowngradeKeeps, ReshareKeeps DEF InRelease
  <2>5. CASE Leave(p, t)
    BY <2>5, LeaveKeeps
  <2> QED BY <1>3, <2>1, <2>2, <2>3, <2>4, <2>5
<1>4. ASSUME NEW n \in Native, NativeDrop(n) \/ \E m \in Mode : NativeAcquire(n, m) PROVE IInv'
  BY <1>4, NativeDropKeeps, NativeAcquireKeeps
<1> QED BY <1>1, <1>2, <1>3, <1>4 DEF Next

LEMMA InvariantHolds == Spec => []IInv
BY InitIInv, StepKeepsIInv, PTL DEF Spec

-----------------------------------------------------------------------------
(* What the graph lock promises *)

\* A thread that writes has the exclusive flock on the registered handle.
LEMMA WriterHasFlock ==
  ASSUME IInv, NEW p \in Proc, NEW t \in Thread, Writes(p, t)
  PROVE  held[p].handle \in Handle /\ flock[p][held[p].handle] = "exclusive"
<1>1. call[p][t].pc = "run" /\ Holds(rw[p], t, "exclusive")
  BY DEF Writes, At
<1>2. Owns(p, t) /\ Reg(p, t) = rw[p].stacks[t] /\ Has(rw[p].stacks[t], "exclusive")
  BY <1>1, RegIs DEF IInv, OwnedAt, Holds, Has
<1> QED BY <1>1, <1>2 DEF Owns, Upgrading

\* The variables stay in range and every process's _RWThreadLock stays well formed,
\* whatever acquire_graph_lock, release_graph_lock and the native lockers do.
THEOREM TypeCorrect == Spec => []TypeOK
<1>1. IInv => TypeOK
  BY DEF IInv, Typed, TypeOK
<1> QED BY <1>1, InvariantHolds, PTL

\* Two bodies of `with graph_write_lock` never overlap, in any number of processes
\* of any number of threads, nor does one overlap a native exclusive locker.
THEOREM WritersExclude == Spec => []WriterExclusion
<1>1. IInv => WriterExclusion
  <2> SUFFICES ASSUME IInv, NEW p \in Proc, NEW t \in Thread, Writes(p, t)
               PROVE  /\ \A q \in Proc, u \in Thread : << q, u >> # << p, t >> => ~Writes(q, u)
                      /\ \A n \in Native : native[n] # "exclusive"
    BY DEF WriterExclusion
  <2>1. held[p].handle \in Handle /\ flock[p][held[p].handle] = "exclusive"
    BY WriterHasFlock
  <2>2. ASSUME NEW q \in Proc, NEW u \in Thread, << q, u >> # << p, t >>, Writes(q, u) PROVE FALSE
    <3>1. CASE q = p
      <4>1. Sound(rw[p]) /\ u # t
        BY <2>2, <3>1 DEF IInv
      <4>2. rw[p].stacks[u] = << >>
        BY <4>1, SoundExcludes DEF Writes
      <4> QED BY <2>2, <3>1, <4>2 DEF Writes, Holds
    <3>2. CASE q # p
      <4>1. held[q].handle \in Handle /\ flock[q][held[q].handle] = "exclusive"
        BY <2>2, WriterHasFlock
      <4>2. ~Conflicts(flock[p][held[p].handle], flock[q][held[q].handle])
        BY <2>1, <3>2, <4>1 DEF IInv, Compatible
      <4> QED BY <2>1, <4>1, <4>2 DEF Conflicts, Mode
    <3> QED BY <3>1, <3>2
  <2>3. ASSUME NEW n \in Native PROVE native[n] # "exclusive"
    <3>1. ~Conflicts(flock[p][held[p].handle], native[n])
      BY <2>1 DEF IInv, Compatible
    <3> QED BY <2>1, <3>1 DEF Conflicts, Mode
  <2> QED BY <2>2, <2>3
<1> QED BY <1>1, InvariantHolds, PTL

\* No body of `with graph_write_lock` overlaps a read of a process of one thread that
\* has not logged a failed restore, or a native reader.
THEOREM ReadersExclude == Spec => []ReadWriteExclusion
<1>1. IInv => ReadWriteExclusion
  <2> SUFFICES ASSUME IInv PROVE ReadWriteExclusion
    OBVIOUS
  <2>1. ASSUME NEW q \in Proc, Single(q), NEW u \in Thread, Reads(q, u), q \notin warned
        PROVE  /\ \A p \in Proc, t \in Thread : << p, t >> # << q, u >> => ~Writes(p, t)
               /\ \A n \in Native : native[n] # "exclusive"
    <3>1. call[q][u].pc = "run" /\ rw[q].stacks[u] # << >> /\ LinkedAt(q, u)
      BY <2>1 DEF Reads, At, IInv
    <3>2. u \in ThreadsOf[q]
      BY <3>1 DEF LinkedAt
    <3>3. AloneAt(q, u) /\ Reg(q, u) = rw[q].stacks[u]
      BY <2>1, <3>1, <3>2, RegIs DEF IInv
    <3>4. held[q].handle \in Handle /\ flock[q][held[q].handle] \in Mode
      BY <2>1, <3>1, <3>3 DEF AloneAt
    <3>5. ASSUME NEW p \in Proc, NEW t \in Thread, << p, t >> # << q, u >>, Writes(p, t) PROVE FALSE
      <4>1. CASE p = q
        <5>1. Sound(rw[q]) /\ u # t
          BY <3>5, <4>1 DEF IInv
        <5>2. Holds(rw[q], t, "exclusive")
          BY <3>5, <4>1 DEF Writes
        <5> QED BY <3>1, <5>1, <5>2, SoundExcludes
      <4>2. CASE p # q
        <5>1. held[p].handle \in Handle /\ flock[p][held[p].handle] = "exclusive"
          BY <3>5, WriterHasFlock
        <5>2. ~Conflicts(flock[p][held[p].handle], flock[q][held[q].handle])
          BY <3>4, <4>2, <5>1 DEF IInv, Compatible
        <5> QED BY <3>4, <5>1, <5>2 DEF Conflicts, Mode
      <4> QED BY <4>1, <4>2
    <3>6. ASSUME NEW n \in Native PROVE native[n] # "exclusive"
      <4>1. ~Conflicts(flock[q][held[q].handle], native[n])
        BY <3>4 DEF IInv, Compatible
      <4> QED BY <3>4, <4>1 DEF Conflicts, Mode
    <3> QED BY <3>5, <3>6
  <2>2. ASSUME NEW p \in Proc, NEW t \in Thread, NEW n \in Native, Writes(p, t)
        PROVE  native[n] = "none"
    <3>1. held[p].handle \in Handle /\ flock[p][held[p].handle] = "exclusive"
      BY <2>2, WriterHasFlock
    <3>2. ~Conflicts(flock[p][held[p].handle], native[n]) /\ native[n] \in Mode \cup {"none"}
      BY <3>1 DEF IInv, Compatible, Typed
    <3> QED BY <3>1, <3>2 DEF Conflicts, Mode
  <2> QED BY <2>1, <2>2 DEF ReadWriteExclusion, ReadsUndisturbed
<1> QED BY <1>1, InvariantHolds, PTL

\* In a process of one thread _file_locks lists exactly the modes the thread holds,
\* through nesting, failed upgrades and crashes.
THEOREM RegistryMatches == Spec => []RegistryMatchesHolds
<1>1. IInv => RegistryMatchesHolds
  BY RegIs DEF IInv, AloneAt, RegistryMatchesHolds, At
<1> QED BY <1>1, InvariantHolds, PTL

-----------------------------------------------------------------------------
(* The thread lock of each process is used by its rules *)

\* The operations of the instance are those of this module.
LEMMA SameLock ==
  ASSUME NEW p
  PROVE  /\ ThreadLock(p)!FreshLock = FreshLock /\ ThreadLock(p)!Mode = Mode
         /\ \A l, t : ThreadLock(p)!InQueue(l, t) <=> InQueue(l, t)
         /\ \A l, t : ThreadLock(p)!Woken(l, t) = Woken(l, t)
         /\ \A l, t : ThreadLock(p)!Drop(l, t) = Drop(l, t)
         /\ \A l, t : ThreadLock(p)!Released(l, t) = Released(l, t)
         /\ \A l, t, m : ThreadLock(p)!Acquired(l, t, m) = Acquired(l, t, m)
<1>1. ThreadLock(p)!FreshLock = FreshLock /\ ThreadLock(p)!Mode = Mode
  BY DEF ThreadLock!FreshLock, FreshLock, ThreadLock!Mode, Mode
<1>2. ASSUME NEW l, NEW t PROVE ThreadLock(p)!InQueue(l, t) <=> InQueue(l, t)
  BY DEF ThreadLock!InQueue, InQueue
<1>4. ASSUME NEW l, NEW t PROVE ThreadLock(p)!Woken(l, t) = Woken(l, t)
  BY DEF ThreadLock!Woken, Woken
<1>5. ASSUME NEW q PROVE ThreadLock(p)!ReaderRun(q) = ReaderRun(q)
  BY DEF ThreadLock!ReaderRun, ReaderRun
<1>6. ASSUME NEW l PROVE ThreadLock(p)!GrantWriter(l) = GrantWriter(l)
  BY DEF ThreadLock!GrantWriter, GrantWriter
<1>7. ASSUME NEW l PROVE ThreadLock(p)!GrantReaders(l) = GrantReaders(l)
  <2>1. ThreadLock(p)!ReaderRun(l.queue) = ReaderRun(l.queue)
    BY <1>5
  <2> QED BY <2>1 DEF ThreadLock!GrantReaders, GrantReaders
<1>8. ASSUME NEW l PROVE ThreadLock(p)!Dispatch(l) = Dispatch(l)
  BY <1>6, <1>7 DEF ThreadLock!Dispatch, Dispatch
<1>9. ASSUME NEW l, NEW t PROVE ThreadLock(p)!Drop(l, t) = Drop(l, t)
  BY <1>8 DEF ThreadLock!Drop, Drop
<1>10. ASSUME NEW l, NEW t PROVE ThreadLock(p)!Popped(l, t) = Popped(l, t)
  BY DEF ThreadLock!Popped, Popped
<1>11. ASSUME NEW l, NEW t PROVE ThreadLock(p)!Released(l, t) = Released(l, t)
  BY <1>8, <1>10 DEF ThreadLock!Released, Released
<1>12. ASSUME NEW l, NEW t, NEW m
       PROVE  /\ ThreadLock(p)!Queued(l, t, m) = Queued(l, t, m)
              /\ ThreadLock(p)!Take(l, t, m) = Take(l, t, m)
              /\ ThreadLock(p)!Nests(l, t, m) <=> Nests(l, t, m)
  <2>1. ThreadLock(p)!Upgrades(l, t, m) <=> Upgrades(l, t, m)
    BY DEF ThreadLock!Upgrades, Upgrades
  <2>2. ThreadLock(p)!Queued(l, t, m) = Queued(l, t, m)
    BY <2>1 DEF ThreadLock!Queued, Queued
  <2>3. ThreadLock(p)!Take(l, t, m) = Take(l, t, m)
    BY DEF ThreadLock!Take, Take
  <2>4. ThreadLock(p)!Nests(l, t, m) <=> Nests(l, t, m)
    BY DEF ThreadLock!Nests, Nests
  <2> QED BY <2>2, <2>3, <2>4
<1>13. ASSUME NEW l, NEW t, NEW m PROVE ThreadLock(p)!Acquired(l, t, m) = Acquired(l, t, m)
  <2> DEFINE d == Dispatch(Queued(l, t, m))
  <2>1. ThreadLock(p)!Dispatch(ThreadLock(p)!Queued(l, t, m)) = d
    BY <1>8, <1>12
  <2>2. ThreadLock(p)!Woken(d, t) = Woken(d, t)
    BY <1>4
  <2> QED BY <1>12, <2>1, <2>2 DEF ThreadLock!Acquired, Acquired
<1> QED BY <1>1, <1>2, <1>4, <1>9, <1>11, <1>13

\* A step of one thread moves its process's lock by one of its operations or not at all.
LEMMA ThreadStep ==
  ASSUME IInv, NEW p \in Proc, NEW t \in ThreadsOf[p],
         \/ \E m \in Mode : Acquire(p, t, m)
         \/ Release(p, t) \/ InAcquire(p, t) \/ InRelease(p, t) \/ Leave(p, t)
  PROVE  /\ ThreadLock(p)!Next \/ rw'[p] = rw[p]
         /\ \A q \in Proc \ {p} : rw'[q] = rw[q]
<1>1. /\ t \in Thread /\ rw \in [Proc -> LockState] /\ LinkedAt(p, t)
  BY Facts DEF Typed
<1>2. CASE \E m \in Mode : Acquire(p, t, m)
  <2>1. PICK m \in Mode : Acquire(p, t, m)
    BY <1>2
  <2>2. ~Waiting(rw[p], t) /\ Len(rw[p].stacks[t]) < MaxDepth /\ rw' = [rw EXCEPT ![p] = Acquired(rw[p], t, m)]
    BY <1>1, <2>1 DEF Acquire, At, LinkedAt
  <2>3. rw'[p] = Acquired(rw[p], t, m) /\ \A q \in Proc \ {p} : rw'[q] = rw[q]
    BY <1>1, <2>2
  <2>4. ThreadLock(p)!Acquire(t, m)
    <3>1. ~ThreadLock(p)!Waiting(rw[p], t)
      BY <2>2 DEF ThreadLock!Waiting, ThreadLock!InQueue, Waiting, InQueue
    <3>2. rw'[p] = ThreadLock(p)!Acquired(rw[p], t, m)
      BY <2>3, SameLock
    <3>3. ThreadLock(p)!CanAcquire(t)
      BY <2>2, <3>1, Zenon DEF ThreadLock!CanAcquire
    <3> QED BY <3>2, <3>3, Zenon DEF ThreadLock!Acquire
  <2> QED BY <1>1, <2>3, <2>4, SameLock DEF ThreadLock!Next
<1>3. CASE ThreadGranted(p, t)
  <2>1. rw[p].granted[t] # "none" /\ rw' = [rw EXCEPT ![p] = Woken(rw[p], t)]
    BY <1>3 DEF ThreadGranted
  <2>2. rw'[p] = Woken(rw[p], t) /\ \A q \in Proc \ {p} : rw'[q] = rw[q]
    BY <1>1, <2>1
  <2>3. ThreadLock(p)!Wake(t)
    BY <2>1, <2>2, SameLock DEF ThreadLock!Wake
  <2> QED BY <1>1, <2>2, <2>3 DEF ThreadLock!Next
<1>4. CASE ThreadTimeout(p, t)
  <2>1. InQueue(rw[p], t) /\ rw' = [rw EXCEPT ![p] = Drop(rw[p], t)]
    BY <1>4 DEF ThreadTimeout
  <2>2. rw'[p] = Drop(rw[p], t) /\ \A q \in Proc \ {p} : rw'[q] = rw[q]
    BY <1>1, <2>1
  <2>3. ThreadLock(p)!Timeout(t)
    BY <2>1, <2>2, SameLock DEF ThreadLock!Timeout
  <2> QED BY <1>1, <2>2, <2>3 DEF ThreadLock!Next
<1>5. CASE Leave(p, t)
  <2>1. /\ ~Waiting(rw[p], t) /\ rw[p].stacks[t] # << >>
        /\ rw' = [rw EXCEPT ![p] = Released(rw[p], t)]
    BY <1>1, <1>5 DEF Leave, At, LinkedAt
  <2>2. rw'[p] = Released(rw[p], t) /\ \A q \in Proc \ {p} : rw'[q] = rw[q]
    BY <1>1, <2>1
  <2>3. ThreadLock(p)!Release(t)
    <3>1. ~ThreadLock(p)!Waiting(rw[p], t)
      BY <2>1 DEF ThreadLock!Waiting, ThreadLock!InQueue, Waiting, InQueue
    <3>2. rw'[p] = ThreadLock(p)!Released(rw[p], t)
      BY <2>2, SameLock
    <3> QED BY <2>1, <3>1, <3>2, Zenon DEF ThreadLock!Release
  <2> QED BY <1>1, <2>2, <2>3 DEF ThreadLock!Next
<1>6. CASE rw' = rw
  BY <1>6
<1> QED
  BY <1>2, <1>3, <1>4, <1>5, <1>6 DEF InAcquire, InRelease, Release, Lookup, Wait, WaitFails,
     Publish, Unshare, Upgrade, UpgradeFails, Restore, RestoreFails, Unwind, Unlock, Downgrade, Reshare

\* Every process uses its _RWThreadLock as RWThreadLock specifies, so what is proved
\* of that lock holds of each of them.
THEOREM FollowsThreadLock == Spec => UsesThreadLock
<1>1. Init => \A p \in Proc : ThreadLock(p)!Init
  BY SameLock DEF Init, ThreadLock!Init
<1>2. IInv /\ [Next]_vars =>
        [\A p \in Proc : ThreadLock(p)!Next \/ Crash(p) \/ UNCHANGED rw[p]]_vars
  <2> SUFFICES ASSUME IInv, Next, NEW p \in Proc, rw'[p] # rw[p], ~Crash(p)
               PROVE  ThreadLock(p)!Next
    OBVIOUS
  <2>1. ASSUME NEW q \in Proc, Crash(q) PROVE FALSE
    BY <2>1 DEF Crash, IInv, Typed
  <2>2. ASSUME NEW n \in Native, NativeDrop(n) \/ \E m \in Mode : NativeAcquire(n, m) PROVE FALSE
    BY <2>2 DEF NativeDrop, NativeAcquire
  <2>3. PICK q \in Proc : \E t \in ThreadsOf[q] :
          \/ \E m \in Mode : Acquire(q, t, m)
          \/ Release(q, t) \/ InAcquire(q, t) \/ InRelease(q, t) \/ Leave(q, t)
    BY <2>1, <2>2 DEF Next
  <2>4. PICK t \in ThreadsOf[q] :
          \/ \E m \in Mode : Acquire(q, t, m)
          \/ Release(q, t) \/ InAcquire(q, t) \/ InRelease(q, t) \/ Leave(q, t)
    BY <2>3
  <2>5. (ThreadLock(q)!Next \/ rw'[q] = rw[q]) /\ \A r \in Proc \ {q} : rw'[r] = rw[r]
    BY <2>4, ThreadStep
  <2>6. q = p
    BY <2>5
  <2> QED BY <2>5, <2>6
<1> QED BY <1>1, <1>2, InvariantHolds, PTL DEF Spec, UsesThreadLock
================================================================================

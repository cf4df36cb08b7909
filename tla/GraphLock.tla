------------------------------- MODULE GraphLock -------------------------------
(***************************************************************************)
(* The graph lock of dagayn/write_lock.py: Python processes whose threads  *)
(* first take the process's _RWThreadLock and then share one flock on      *)
(* <graph.db>.write.lock, beside native processes that take the same flock *)
(* through crates/dagayn-build/src/lock.rs.  A step is one critical        *)
(* section (of the thread lock, of _registry_lock) or one flock call.      *)
(***************************************************************************)
EXTENDS RWLockOps

CONSTANTS Proc,       \* Python processes
          ThreadsOf,  \* the threads of each: servers have several, CLI runs and hooks one
          Native,     \* Rust lockers, each with a descriptor of its own
          MaxDepth,   \* bound: nested acquisitions per thread
          Crashes     \* whether processes may be killed

ASSUME GraphLockAssumption ==
  /\ ThreadsOf \in [Proc -> SUBSET Thread] /\ IsFiniteSet(Thread)
  /\ MaxDepth \in Nat \ {0} /\ Crashes \in BOOLEAN

VARIABLES rw,       \* _thread_locks: each process's thread lock
          held,     \* _file_locks: each process's handle and stack of modes
          flock,    \* what the kernel holds for each open handle
          call,     \* where each thread is in acquire_graph_lock or release_graph_lock
          native,   \* the mode each native locker holds
          warned    \* processes that logged "Could not restore shared graph lock"

vars == << rw, held, flock, call, native, warned >>

\* A thread uses one handle of its own at a time, and one is registered.
Handle == 1..(Cardinality(Thread) + 1)

NoHandle == 0

Absent == [handle |-> NoHandle, modes |-> << >>]

\* Outside any call the thread runs the body of its `with` blocks.
Idle == [pc |-> "run", want |-> "shared", fd |-> NoHandle]

FreshProc(p) ==
  /\ rw[p] = FreshLock
  /\ held[p] = Absent
  /\ flock[p] = [h \in Handle |-> "closed"]
  /\ call[p] = [t \in Thread |-> Idle]

Init ==
  /\ rw = [p \in Proc |-> FreshLock]
  /\ held = [p \in Proc |-> Absent]
  /\ flock = [p \in Proc |-> [h \in Handle |-> "closed"]]
  /\ call = [p \in Proc |-> [t \in Thread |-> Idle]]
  /\ native = [n \in Native |-> "none"]
  /\ warned = {}

-----------------------------------------------------------------------------
(* flock(2), external: locks belong to open files, shared ones coexist. *)

Conflicts(m, n) == {m, n} \subseteq Mode /\ "exclusive" \in {m, n}

Grantable(p, h, m) ==
  /\ \A q \in Proc, k \in Handle : << q, k >> # << p, h >> => ~Conflicts(m, flock[q][k])
  /\ \A n \in Native : ~Conflicts(m, native[n])

GrantableNative(n, m) ==
  /\ \A q \in Proc, k \in Handle : ~Conflicts(m, flock[q][k])
  /\ \A o \in Native \ {n} : ~Conflicts(m, native[o])

\* Opening the lock file; a handle some thread still refers to is another object.
NewHandle(p) ==
  CHOOSE h \in Handle :
    /\ flock[p][h] = "closed"
    /\ \A t \in Thread : call[p][t].fd # h

\* No thread but t refers to h: once the registry or t gives it up, it is closed.
Unused(p, h, t) == \A u \in Thread \ {t} : call[p][u].fd # h

Go(p, t, pc) == call' = [call EXCEPT ![p][t].pc = pc]

Return(p, t) == call' = [call EXCEPT ![p][t] = Idle]

At(p, t, pc) == call[p][t].pc = pc

Flock(p, t, m) == flock' = [flock EXCEPT ![p][call[p][t].fd] = m]

AnyExclusive(modes) == \E i \in 1..Len(modes) : modes[i] = "exclusive"

-----------------------------------------------------------------------------
(* acquire_graph_lock *)

\* thread_lock.acquire, up to its first wait.
Acquire(p, t, m) ==
  LET l == Acquired(rw[p], t, m)
  IN  /\ At(p, t, "run")
      /\ Len(rw[p].stacks[t]) < MaxDepth
      /\ rw' = [rw EXCEPT ![p] = l]
      /\ call' = [call EXCEPT ![p][t] =
                    [pc |-> IF Waiting(l, t) THEN "thread" ELSE "lookup",
                     want |-> m, fd |-> NoHandle]]
      /\ UNCHANGED << held, flock, native, warned >>

ThreadGranted(p, t) ==
  /\ At(p, t, "thread")
  /\ rw[p].granted[t] # "none"
  /\ rw' = [rw EXCEPT ![p] = Woken(@, t)]
  /\ Go(p, t, "lookup")
  /\ UNCHANGED << held, flock, native, warned >>

\* Slip: the caller gives up and its waiter stays in the queue.
ThreadTimeoutStays(p, t) ==
  /\ At(p, t, "thread")
  /\ InQueue(rw[p], t)
  /\ Return(p, t)
  /\ UNCHANGED << rw, held, flock, native, warned >>

\* "another thread is using ...".
ThreadTimeout(p, t) ==
  /\ At(p, t, "thread")
  /\ InQueue(rw[p], t)
  /\ rw' = [rw EXCEPT ![p] = Drop(@, t)]
  /\ Return(p, t)
  /\ UNCHANGED << held, flock, native, warned >>

\* _flock_acquire under _registry_lock: join the registered handle, upgrading it
\* if this is its first exclusive mode; with none registered, open the file.
Lookup(p, t) ==
  LET m == call[p][t].want
      h == NewHandle(p)
  IN  /\ At(p, t, "lookup")
      /\ \/ /\ held[p] # Absent
            /\ held' = [held EXCEPT ![p].modes = Append(@, m)]
            /\ IF m = "exclusive" /\ ~AnyExclusive(held[p].modes)
               THEN call' = [call EXCEPT ![p][t].pc = "unshare", ![p][t].fd = held[p].handle]
               ELSE Return(p, t)
            /\ UNCHANGED flock
         \/ /\ held[p] = Absent
            /\ flock' = [flock EXCEPT ![p][h] = "none"]
            /\ call' = [call EXCEPT ![p][t].pc = "wait", ![p][t].fd = h]
            /\ UNCHANGED held
      /\ UNCHANGED << rw, native, warned >>

\* _flock_wait on the new handle: one of its LOCK_NB attempts succeeds ...
Wait(p, t) ==
  /\ At(p, t, "wait")
  /\ Grantable(p, call[p][t].fd, call[p][t].want)
  /\ Flock(p, t, call[p][t].want)
  /\ Go(p, t, "publish")
  /\ UNCHANGED << rw, held, native, warned >>

\* ... or the last of them fails (the only one when not blocking).
WaitFails(p, t) ==
  /\ At(p, t, "wait")
  /\ ~Grantable(p, call[p][t].fd, call[p][t].want)
  /\ Flock(p, t, "closed")
  /\ Go(p, t, "leave")
  /\ UNCHANGED << rw, held, native, warned >>

\* _file_locks[key] = _HeldFileLock(...), whatever is registered by now.
Publish(p, t) ==
  LET h == call[p][t].fd
  IN  /\ At(p, t, "publish")
      /\ held' = [held EXCEPT ![p] = [handle |-> h, modes |-> << call[p][t].want >>]]
      /\ flock' = [flock EXCEPT ![p] =
                     [k \in Handle |-> IF k = held[p].handle /\ Unused(p, k, t)
                                       THEN "closed" ELSE @[k]]]
      /\ Return(p, t)
      /\ UNCHANGED << rw, native, warned >>

\* _flock_release_then_exclusive: LOCK_UN, then LOCK_EX with the caller's
\* time-out; if that fails, LOCK_SH again before the error is raised.
Unshare(p, t) ==
  /\ At(p, t, "unshare")
  /\ Flock(p, t, "none")
  /\ Go(p, t, "upgrade")
  /\ UNCHANGED << rw, held, native, warned >>

\* Slip: the exclusive lock is taken beside readers of other processes.
UpgradeBesideReaders(p, t) ==
  /\ At(p, t, "upgrade")
  /\ Grantable(p, call[p][t].fd, "shared")
  /\ Flock(p, t, "exclusive")
  /\ Return(p, t)
  /\ UNCHANGED << rw, held, native, warned >>

Upgrade(p, t) ==
  /\ At(p, t, "upgrade")
  /\ Grantable(p, call[p][t].fd, "exclusive")
  /\ Flock(p, t, "exclusive")
  /\ Return(p, t)
  /\ UNCHANGED << rw, held, native, warned >>

\* Slip: a blocking LOCK_EX, which no deadline ends.
UpgradeNeverFails(p, t) == FALSE /\ UNCHANGED vars

UpgradeFails(p, t) ==
  /\ At(p, t, "upgrade")
  /\ ~Grantable(p, call[p][t].fd, "exclusive")
  /\ Go(p, t, "restore")
  /\ UNCHANGED << rw, held, flock, native, warned >>

Restore(p, t) ==
  /\ At(p, t, "restore")
  /\ Grantable(p, call[p][t].fd, "shared")
  /\ Flock(p, t, "shared")
  /\ Go(p, t, "unwind")
  /\ UNCHANGED << rw, held, native, warned >>

RestoreFails(p, t) ==
  /\ At(p, t, "restore")
  /\ ~Grantable(p, call[p][t].fd, "shared")
  /\ warned' = warned \cup {p}
  /\ Go(p, t, "unwind")
  /\ UNCHANGED << rw, held, flock, native >>

\* Slip: the mode of the failed upgrade stays on the registered stack.
UnwindKeepsMode(p, t) ==
  /\ At(p, t, "unwind")
  /\ Go(p, t, "leave")
  /\ UNCHANGED << rw, held, flock, native, warned >>

\* The failed upgrade takes its mode off the registered stack.
Unwind(p, t) ==
  /\ At(p, t, "unwind")
  /\ held' = [held EXCEPT ![p].modes =
                IF @ # << >> THEN SubSeq(@, 1, Len(@) - 1) ELSE @]
  /\ Go(p, t, "leave")
  /\ UNCHANGED << rw, flock, native, warned >>

-----------------------------------------------------------------------------
(* release_graph_lock *)

\* Slip: a nested release gives the file lock up with the outer one still held.
ReleaseIgnoresNesting(p, t) ==
  /\ At(p, t, "run")
  /\ rw[p].stacks[t] # << >>
  /\ IF held[p].modes = << >>
     THEN UNCHANGED held /\ Go(p, t, "leave")
     ELSE /\ held' = [held EXCEPT ![p] = Absent]
          /\ call' = [call EXCEPT ![p][t].fd = held[p].handle, ![p][t].pc = "unlock"]
  /\ UNCHANGED << rw, flock, native, warned >>

\* _flock_release under _registry_lock: pop a mode; the last one takes the
\* handle out of the registry, and once no exclusive mode is left the flock is
\* set to shared.
Release(p, t) ==
  LET rest == SubSeq(held[p].modes, 1, Len(held[p].modes) - 1)
  IN  /\ At(p, t, "run")
      /\ rw[p].stacks[t] # << >>
      /\ IF held[p].modes = << >>
         THEN UNCHANGED held /\ Go(p, t, "leave")
         ELSE /\ held' = [held EXCEPT ![p] =
                            IF rest = << >> THEN Absent ELSE [@ EXCEPT !.modes = rest]]
              /\ call' = [call EXCEPT ![p][t].fd = held[p].handle,
                                      ![p][t].pc = CASE rest = << >> -> "unlock"
                                                     [] AnyExclusive(rest) -> "leave"
                                                     [] OTHER -> "downgrade"]
      /\ UNCHANGED << rw, flock, native, warned >>

\* LOCK_UN and close.
Unlock(p, t) ==
  /\ At(p, t, "unlock")
  /\ Flock(p, t, "closed")
  /\ Go(p, t, "leave")
  /\ UNCHANGED << rw, held, native, warned >>

\* LOCK_SH without LOCK_NB.  On a shared handle it changes nothing; otherwise
\* the kernel drops the old lock before it grants the new one.  On a handle that
\* another thread has closed meanwhile, fileno() raises and the call unwinds.
Downgrade(p, t) ==
  LET now == flock[p][call[p][t].fd]
  IN  /\ At(p, t, "downgrade")
      /\ IF now \in {"closed", "shared"}
         THEN UNCHANGED flock /\ Go(p, t, "leave")
         ELSE Flock(p, t, "none") /\ Go(p, t, "reshare")
      /\ UNCHANGED << rw, held, native, warned >>

Reshare(p, t) ==
  /\ At(p, t, "reshare")
  /\ Grantable(p, call[p][t].fd, "shared")
  /\ Flock(p, t, "shared")
  /\ Go(p, t, "leave")
  /\ UNCHANGED << rw, held, native, warned >>

\* thread_lock.release, at the end of a release and of a failed acquire.
Leave(p, t) ==
  /\ At(p, t, "leave")
  /\ rw' = [rw EXCEPT ![p] = Released(@, t)]
  /\ flock' = [flock EXCEPT ![p] =
                 [k \in Handle |-> IF k = call[p][t].fd /\ k # held[p].handle /\ Unused(p, k, t)
                                   THEN "closed" ELSE @[k]]]
  /\ Return(p, t)
  /\ UNCHANGED << held, native, warned >>

-----------------------------------------------------------------------------
(* Native lockers and crashes *)

\* GraphLock::acquire_mode: the attempt that succeeds; one that fails changes nothing.
NativeAcquire(n, m) ==
  /\ native[n] = "none"
  /\ GrantableNative(n, m)
  /\ native' = [native EXCEPT ![n] = m]
  /\ UNCHANGED << rw, held, flock, call, warned >>

\* Drop, or the death of the process.
NativeDrop(n) ==
  /\ native[n] # "none"
  /\ native' = [native EXCEPT ![n] = "none"]
  /\ UNCHANGED << rw, held, flock, call, warned >>

\* The process is killed and started again; the kernel closes its handles.
Crash(p) ==
  /\ Crashes
  /\ ~FreshProc(p)
  /\ rw' = [rw EXCEPT ![p] = FreshLock]
  /\ held' = [held EXCEPT ![p] = Absent]
  /\ flock' = [flock EXCEPT ![p] = [h \in Handle |-> "closed"]]
  /\ call' = [call EXCEPT ![p] = [t \in Thread |-> Idle]]
  /\ warned' = warned \ {p}
  /\ UNCHANGED native

-----------------------------------------------------------------------------
InAcquire(p, t) ==
  \/ ThreadGranted(p, t) \/ ThreadTimeout(p, t) \/ Lookup(p, t)
  \/ Wait(p, t) \/ WaitFails(p, t) \/ Publish(p, t)
  \/ Unshare(p, t) \/ Upgrade(p, t) \/ UpgradeFails(p, t)
  \/ Restore(p, t) \/ RestoreFails(p, t) \/ Unwind(p, t)

InRelease(p, t) == Unlock(p, t) \/ Downgrade(p, t) \/ Reshare(p, t)

Next ==
  \/ \E p \in Proc :
       \/ Crash(p)
       \/ \E t \in ThreadsOf[p] :
            \/ \E m \in Mode : Acquire(p, t, m)
            \/ Release(p, t)
            \/ InAcquire(p, t)
            \/ InRelease(p, t)
            \/ Leave(p, t)
  \/ \E n \in Native : NativeDrop(n) \/ \E m \in Mode : NativeAcquire(n, m)

Spec == Init /\ [][Next]_vars

(***************************************************************************)
(* Fairness: a thread inside an acquire keeps running, and a poll loop     *)
(* whose attempts keep failing reaches its deadline.  Nothing is assumed   *)
(* about when holders release.                                             *)
(***************************************************************************)
FairSpec ==
  Spec /\ \A p \in Proc : \A t \in ThreadsOf[p] :
            WF_vars(InAcquire(p, t)) /\ WF_vars(Leave(p, t))

-----------------------------------------------------------------------------
(* Properties *)

InCall == {"thread", "lookup", "wait", "publish", "unshare", "upgrade", "restore",
           "unwind", "leave", "unlock", "downgrade", "reshare"}

\* Handles, flocks and the places of calls are in range, and every process keeps a
\* well-formed thread lock.
TypeOK ==
  /\ \A p \in Proc : rw[p] \in LockState
  /\ held \in [Proc -> [handle : Handle \cup {NoHandle}, modes : Seq(Mode)]]
  /\ flock \in [Proc -> [Handle -> Mode \cup {"none", "closed"}]]
  /\ call \in [Proc -> [Thread -> [pc : InCall \cup {"run"}, want : Mode,
                                   fd : Handle \cup {NoHandle}]]]
  /\ native \in [Native -> Mode \cup {"none"}]
  /\ warned \subseteq Proc

\* A thread in the body of its `with graph_write_lock` or `with graph_read_lock`.
Writes(p, t) == At(p, t, "run") /\ Holds(rw[p], t, "exclusive")

Reads(p, t) == At(p, t, "run") /\ rw[p].stacks[t] # << >>

\* Two writers never overlap: not two threads, not two processes, not a Python
\* and a native one, whatever races the readers' shared handles go through.
WriterExclusion ==
  \A p \in Proc, t \in Thread : Writes(p, t) =>
    /\ \A q \in Proc, u \in Thread : << q, u >> # << p, t >> => ~Writes(q, u)
    /\ \A n \in Native : native[n] # "exclusive"

\* No writer overlaps process q's reader u, unless q has logged that it could
\* not restore its shared lock.
ReadsUndisturbed(q, u) ==
  Reads(q, u) /\ q \notin warned =>
    /\ \A p \in Proc, t \in Thread : << p, t >> # << q, u >> => ~Writes(p, t)
    /\ \A n \in Native : native[n] # "exclusive"

Single(p) == Cardinality(ThreadsOf[p]) = 1

\* A write never overlaps the reads of a process of one thread, through failed
\* upgrades, timeouts, crashes and the races of other processes' threads; and a
\* writer never overlaps a native reader.
ReadWriteExclusion ==
  /\ \A q \in Proc : Single(q) => \A u \in Thread : ReadsUndisturbed(q, u)
  /\ \A p \in Proc, t \in Thread, n \in Native : Writes(p, t) => native[n] = "none"

\* "Reads now take a shared flock and writes an exclusive flock on the same lock
\* file, so the two do not overlap" (write_lock.py), in every process.
ReadsNeverOverlapWrites == \A q \in Proc, u \in Thread : ReadsUndisturbed(q, u)

\* In a process of one thread the registered stack of modes is what the thread
\* holds: nothing is leaked by a failed upgrade, nothing is popped twice.
RegistryMatchesHolds ==
  \A p \in Proc : Single(p) =>
    \A t \in ThreadsOf[p] : At(p, t, "run") => held[p].modes = rw[p].stacks[t]

\* Every acquire call returns, with the lock or with an error, though nobody
\* ever releases: the upgrade that gives its shared lock up first included.
AcquireReturns ==
  \A p \in Proc, t \in Thread :
    (call[p][t].pc \in InCall \ {"unlock", "downgrade", "reshare"}) ~> At(p, t, "run")

\* Each process uses its thread lock by the rules of RWThreadLock: it releases
\* only what it holds, waits in one place, gives every mode back; a process that
\* is killed starts with a fresh one.
ThreadLock(p) == INSTANCE RWThreadLock WITH rw <- rw[p]

UsesThreadLock ==
  /\ \A p \in Proc : ThreadLock(p)!Init
  /\ [][\A p \in Proc : ThreadLock(p)!Next \/ Crash(p) \/ UNCHANGED rw[p]]_vars
=============================================================================

----------------------------- MODULE StoreCache -----------------------------
(***************************************************************************)
(* The store cache of one `dagayn serve` process (tools/_common.py) over   *)
(* the native GraphStore (dagayn-py): overlapping read tools share one     *)
(* connection, counted by leases, and each call binds one shared graph     *)
(* lock to the store it was given.  The shared lock is taken in the steps  *)
(* of _flock_acquire (GraphLock has the whole of it); a writing tool takes *)
(* the exclusive one in one step, its thread lock keeping other threads    *)
(* out.  Another process writes the graph under the same lock.             *)
(* A step ends wherever the code holds no lock that excludes the others:   *)
(* _store_lock is not one of the store's own mutexes.                      *)
(***************************************************************************)
EXTENDS Integers, SequencesExt

CONSTANTS
    Thread,         \* threads of the server
    Writer,         \* those that also run tools which write the graph
    NoThread,
    MaxStores,      \* stores alive at a time
    MaxCommits,     \* bound on commits
    MaxCalls        \* bound on calls: a lease or a hold that leaks grows with them

ASSUME StoreAssumption ==
    /\ Writer \subseteq Thread /\ NoThread \notin Thread /\ IsFiniteSet(Thread)
    /\ MaxStores \in Nat \ {0} /\ MaxCommits \in Nat /\ MaxCalls \in Nat

VARIABLES
    store,      \* GraphStore objects: open, leases, binds
    cache,      \* _store_cache: the store and the mtime it was cached with
    guard,      \* who holds _store_lock
    modes,      \* _file_locks: shared (FALSE) and exclusive (TRUE) acquisitions
    holds,      \* the thread lock: shared holds of each thread
    writer,     \* the thread lock: the exclusive holder
    other,      \* whether another process holds the write lock
    commits, mtime,
    calls,      \* calls so far; whether a tool of this process wrote, and whether
                \* a registration of the flock was replaced by another thread's
    call        \* each thread's place in its call, its store, what it has read

vars == <<store, cache, guard, modes, holds, writer, other, commits, mtime, calls, call>>
locks == <<modes, holds, writer>>

StoreId == 1..MaxStores
None == 0
NoEntry == [store |-> None, mtime |-> 0]
Idle == [at |-> "idle", store |-> None, owns |-> FALSE, seen |-> 0, then |-> "idle"]

Init ==
    /\ store = [s \in StoreId |-> [open |-> FALSE, leases |-> 0, binds |-> 0]]
    /\ cache = NoEntry /\ guard = NoThread
    /\ modes = <<>> /\ holds = [t \in Thread |-> 0] /\ writer = NoThread
    /\ other = FALSE /\ commits = 0 /\ mtime = 0
    /\ calls = [n |-> 0, wrote |-> FALSE, lost |-> FALSE] /\ call = [t \in Thread |-> Idle]

At(t, place) == call[t].at = place
Goto(t, place) == call' = [call EXCEPT ![t].at = place]
Enter(t) ==
    /\ At(t, "idle") /\ calls.n < MaxCalls
    /\ calls' = [calls EXCEPT !.n = @ + 1]
Free(s) == s # cache.store /\ ~store[s].open /\ store[s].binds = 0
           /\ \A t \in Thread : call[t].store # s

----------------------------------------------------------------------------
(* The graph lock *)

write_lock_is_held == \E j \in DOMAIN modes : modes[j]

(* thread_lock.release: raises for a thread without a hold *)
release(t) == holds' = [holds EXCEPT ![t] = IF @ = 0 THEN 0 ELSE @ - 1]

(* release_graph_lock: the flock first *)
release_graph_lock(t) ==
    /\ modes' = IF modes = <<>> THEN modes ELSE Front(modes)
    /\ release(t)
    /\ UNCHANGED writer

----------------------------------------------------------------------------
(* _get_store *)

(* The process, not this thread, is asked whether it writes *)
GetStore(t) ==
    /\ Enter(t)
    /\ call' = [call EXCEPT ![t] = [Idle EXCEPT
                    !.at = IF write_lock_is_held THEN "opening" ELSE "locking",
                    !.owns = ~write_lock_is_held]]
    /\ UNCHANGED <<store, cache, guard, locks, other, commits, mtime>>

(* acquire_graph_lock(exclusive=False): the thread lock, then _flock_acquire *)
Lock(t) ==
    /\ At(t, "locking") /\ writer \in {NoThread, t}
    /\ holds' = [holds EXCEPT ![t] = @ + 1]
    /\ Goto(t, "flocking")
    /\ UNCHANGED <<store, cache, guard, modes, writer, other, commits, mtime, calls>>

(* An acquisition nests in the one that is registered, or opens its own file *)
FlockLookup(t) ==
    /\ At(t, "flocking")
    /\ modes' = IF modes = <<>> THEN modes ELSE Append(modes, FALSE)
    /\ Goto(t, IF modes = <<>> THEN "waiting" ELSE "opening")
    /\ UNCHANGED <<store, cache, guard, holds, writer, other, commits, mtime, calls>>

FlockWait(t) ==
    /\ At(t, "waiting") /\ ~other
    /\ Goto(t, "publishing")
    /\ UNCHANGED <<store, cache, guard, locks, other, commits, mtime, calls>>

(* _file_locks[key] = ...: what another thread registered since is replaced *)
FlockPublish(t) ==
    /\ At(t, "publishing")
    /\ modes' = <<FALSE>>
    /\ calls' = [calls EXCEPT !.lost = @ \/ modes # <<>>]
    /\ Goto(t, "opening")
    /\ UNCHANGED <<store, cache, guard, holds, writer, other, commits, mtime>>

(* Of the thread lock, and of the flock, after which the former is given back *)
LockTimesOut(t) ==
    /\ \/ At(t, "locking") /\ writer \notin {NoThread, t} /\ UNCHANGED holds
       \/ At(t, "waiting") /\ other /\ release(t)
    /\ call' = [call EXCEPT ![t] = Idle]
    /\ UNCHANGED <<store, cache, guard, modes, writer, other, commits, mtime, calls>>

----------------------------------------------------------------------------
(* _open_store.  _data_version asks a connection of its own, whose answer does
   not depend on what others commit: only the mtime tells entries apart.      *)

usable(entry) ==
    /\ entry.store # None /\ entry.mtime = mtime
    /\ store[entry.store].leases > 0

Lookup(t) ==
    /\ At(t, "opening") /\ guard = NoThread
    /\ guard' = t
    /\ call' = [call EXCEPT
         ![t].at = IF usable(cache) THEN "reading"
                   ELSE IF cache.store # None THEN "releasing" ELSE "fresh",
         ![t].store = cache.store, ![t].then = "fresh"]
    /\ UNCHANGED <<store, cache, locks, other, commits, mtime, calls>>

(* cached_store._leases += 1: the getter and the setter are two calls *)
LeaseRead(t) ==
    /\ At(t, "reading")
    /\ call' = [call EXCEPT ![t].at = "raising",
                            ![t].seen = store[call[t].store].leases]
    /\ UNCHANGED <<store, cache, guard, locks, other, commits, mtime, calls>>

(* Mutant: the shared store is handed out without a lease *)
LeaseRaise_none(t) ==
    /\ At(t, "raising")
    /\ guard' = NoThread
    /\ Goto(t, "binding")
    /\ UNCHANGED <<store, cache, locks, other, commits, mtime, calls>>

LeaseRaise(t) ==
    /\ At(t, "raising")
    /\ store' = [store EXCEPT ![call[t].store].leases = call[t].seen + 1]
    /\ guard' = NoThread
    /\ Goto(t, "binding")
    /\ UNCHANGED <<cache, locks, other, commits, mtime, calls>>

(* Mutant: the guard is kept when an entry is found stale *)
Fresh_guarded(t) ==
    /\ At(t, "fresh")
    /\ \E s \in StoreId :
        /\ Free(s) /\ \A r \in StoreId : Free(r) => s <= r
        /\ store' = [store EXCEPT ![s] = [open |-> TRUE, leases |-> 1, binds |-> 0]]
        /\ cache' = [store |-> s, mtime |-> mtime]
        /\ call' = [call EXCEPT ![t].at = "binding", ![t].store = s]
    /\ UNCHANGED <<guard, locks, other, commits, mtime, calls>>

(* A new store, leased once, takes the entry *)
Fresh(t) ==
    /\ At(t, "fresh")
    /\ \E s \in StoreId :
        /\ Free(s) /\ \A r \in StoreId : Free(r) => s <= r
        /\ store' = [store EXCEPT ![s] = [open |-> TRUE, leases |-> 1, binds |-> 0]]
        /\ cache' = [store |-> s, mtime |-> mtime]
        /\ call' = [call EXCEPT ![t].at = "binding", ![t].store = s]
    /\ guard' = NoThread
    /\ UNCHANGED <<locks, other, commits, mtime, calls>>

(* The store cannot be opened: _get_store gives back the lock it took *)
OpenRaises(t) ==
    /\ At(t, "fresh")
    /\ guard' = NoThread
    /\ call' = [call EXCEPT ![t] = IF @.owns THEN [@ EXCEPT !.at = "failing"] ELSE Idle]
    /\ UNCHANGED <<store, cache, locks, other, commits, mtime, calls>>

GiveBack(t) ==
    /\ At(t, "failing")
    /\ release_graph_lock(t)
    /\ call' = [call EXCEPT ![t] = Idle]
    /\ UNCHANGED <<store, cache, guard, other, commits, mtime, calls>>

(* bind_store_read_lock, on the store's proxy *)
bind_store_read_lock(t) ==
    /\ At(t, "binding")
    /\ store' = IF call[t].owns THEN [store EXCEPT ![call[t].store].binds = @ + 1]
                ELSE store
    /\ Goto(t, "using")
    /\ UNCHANGED <<cache, guard, locks, other, commits, mtime, calls>>

----------------------------------------------------------------------------
(* Dropping an entry: the miss of _open_store and _evict_store_cache *)

_evict_store_cache(t) ==
    /\ Enter(t) /\ guard = NoThread /\ cache.store # None
    /\ guard' = t
    /\ call' = [call EXCEPT ![t] = [Idle EXCEPT !.at = "releasing",
                                                !.store = cache.store]]
    /\ UNCHANGED <<store, cache, locks, other, commits, mtime>>

Dropped(t) ==
    /\ cache' = NoEntry
    /\ guard' = IF call[t].then = "idle" THEN NoThread ELSE guard
    /\ call' = [call EXCEPT ![t] = IF @.then = "idle" THEN Idle
                                   ELSE [@ EXCEPT !.at = "fresh", !.store = None]]

(* Mutant: closes the store whoever leases it *)
_release_cached_store_now(t) ==
    /\ At(t, "releasing")
    /\ store' = [store EXCEPT ![call[t].store].open = FALSE]
    /\ Goto(t, "dropping") /\ UNCHANGED <<cache, guard>>
    /\ UNCHANGED <<locks, other, commits, mtime, calls>>

(* _release_cached_store: closed now if nobody leases it *)
_release_cached_store(t) ==
    /\ At(t, "releasing")
    /\ IF store[call[t].store].leases = 0
       THEN /\ store' = [store EXCEPT ![call[t].store].open = FALSE]
            /\ Goto(t, "dropping") /\ UNCHANGED <<cache, guard>>
       ELSE Dropped(t) /\ UNCHANGED store
    /\ UNCHANGED <<locks, other, commits, mtime, calls>>

(* drop_store_read_locks: every bind of the store, until a release raises;
   the caller swallows the exception                                        *)
drop_store_read_locks(t) ==
    /\ At(t, "dropping")
    /\ LET s == call[t].store IN
       IF store[s].binds = 0
       THEN Dropped(t) /\ UNCHANGED <<store, locks>>
       ELSE /\ store' = [store EXCEPT ![s].binds = @ - 1]
            /\ release_graph_lock(t)
            /\ IF holds[t] = 0 THEN Dropped(t) ELSE UNCHANGED <<cache, guard, call>>
    /\ UNCHANGED <<other, commits, mtime, calls>>

----------------------------------------------------------------------------
(* close: the native store's, then the proxy's finally *)

close(t) ==
    LET s == call[t].store IN
    /\ At(t, "using")
    /\ store' = [store EXCEPT ![s].leases = IF @ > 0 THEN @ - 1 ELSE 0]
    /\ Goto(t, IF store[s].leases > 1 THEN "unbinding" ELSE "closing")
    /\ UNCHANGED <<cache, guard, locks, other, commits, mtime, calls>>

_force_close(t) ==
    /\ At(t, "closing")
    /\ store' = [store EXCEPT ![call[t].store].open = FALSE]
    /\ Goto(t, "unbinding")
    /\ UNCHANGED <<cache, guard, locks, other, commits, mtime, calls>>

unbind_store_read_lock(t) ==
    LET s == call[t].store IN
    /\ At(t, "unbinding")
    /\ IF store[s].binds = 0 THEN UNCHANGED <<store, locks>>
       ELSE /\ store' = [store EXCEPT ![s].binds = @ - 1]
            /\ release_graph_lock(t)
    /\ call' = [call EXCEPT ![t] = Idle]
    /\ UNCHANGED <<cache, guard, other, commits, mtime, calls>>

----------------------------------------------------------------------------
(* Writers: a tool of this process, and another process.  A commit reaches the
   WAL; the file's mtime moves if it is also checkpointed.                   *)

Commit ==
    /\ commits' = commits + 1
    /\ mtime' \in {mtime, commits + 1}

WriteBegins(t) ==
    /\ At(t, "idle") /\ commits < MaxCommits
    /\ writer = NoThread /\ \A u \in Thread \ {t} : holds[u] = 0
    /\ ~other
    /\ writer' = t /\ modes' = Append(modes, TRUE)
    /\ Goto(t, "writing") /\ calls' = [calls EXCEPT !.wrote = TRUE]
    /\ UNCHANGED <<store, cache, guard, holds, other, commits, mtime>>

WriteEnds(t) ==
    /\ At(t, "writing")
    /\ Commit
    /\ writer' = NoThread /\ modes' = Front(modes)
    /\ call' = [call EXCEPT ![t] = Idle]
    /\ UNCHANGED <<store, cache, guard, holds, other, calls>>

OtherBegins ==
    /\ ~other /\ modes = <<>> /\ (\A t \in Thread : ~At(t, "publishing"))
    /\ commits < MaxCommits
    /\ other' = TRUE
    /\ UNCHANGED <<store, cache, guard, locks, commits, mtime, calls, call>>

OtherEnds ==
    /\ other /\ other' = FALSE
    /\ Commit
    /\ UNCHANGED <<store, cache, guard, locks, calls, call>>

----------------------------------------------------------------------------
Step(t) ==
    \/ Lock(t) \/ FlockLookup(t) \/ FlockWait(t) \/ FlockPublish(t) \/ LockTimesOut(t)
    \/ Lookup(t) \/ LeaseRead(t) \/ LeaseRaise(t) \/ Fresh(t) \/ OpenRaises(t) \/ GiveBack(t)
    \/ bind_store_read_lock(t) \/ _release_cached_store(t) \/ drop_store_read_locks(t)
    \/ close(t) \/ _force_close(t) \/ unbind_store_read_lock(t) \/ WriteEnds(t)

Next ==
    \/ \E t \in Thread : GetStore(t) \/ _evict_store_cache(t) \/ Step(t)
    \/ \E t \in Writer : WriteBegins(t)
    \/ OtherBegins \/ OtherEnds

Spec == Init /\ [][Next]_vars
LiveSpec == Spec /\ (\A t \in Thread : WF_vars(Step(t))) /\ WF_vars(OtherEnds)

----------------------------------------------------------------------------
(* Properties *)

Users(s) == {t \in Thread : At(t, "using") /\ call[t].store = s}

(* A call that took the read lock works while the process holds the flock, so
   no other process writes under it, whoever closed or evicted the store: the
   locks the process holds are at least as many as such calls.  Two things break
   this in the code and are left out of it: a registration that replaces another
   thread's (the hold GraphLock's ReadsNeverOverlapWrites loses), and a release
   that pops the exclusive acquisition of a writing tool, the youngest one.  *)
FlockCovers ==
    ~calls.wrote /\ ~calls.lost => \A t \in Thread : At(t, "using") /\ call[t].owns =>
        /\ Cardinality({u \in Thread : At(u, "using") /\ call[u].owns}) <= Len(modes)
        /\ ~other

(* No user is missing from the leases: a store that eviction finds idle is. *)
LeasesCover == \A s \in StoreId : Cardinality(Users(s)) <= store[s].leases

(* A call that began ends, whatever the others do with the cache. *)
EveryCallEnds == \A t \in Thread : ~At(t, "idle") ~> At(t, "idle")
=============================================================================

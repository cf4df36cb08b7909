----------------------------- MODULE StoreProofs -----------------------------
(***************************************************************************)
(* The graph store: how it is shared (StoreCache) and how it is opened     *)
(* (SchemaMigrations).                                                     *)
(*                                                                         *)
(* The store cache for any number of threads, stores, calls and commits:   *)
(* the leases count the users of a store, and as long as the process only  *)
(* reads and no thread's registration of the flock replaces another's, the *)
(* locks it holds are as many as the calls that took one.                  *)
(*                                                                         *)
(* The migrations for any number of processes, of whatever binaries, on a  *)
(* graph of any version: opens that do not overlap never fail and give the *)
(* latest schema, and the version never promises more than is there.       *)
(***************************************************************************)
EXTENDS StoreCache, SchemaMigrations, TLAPS, FiniteSetTheorems, FunctionTheorems,
        SequenceTheorems

\* Where a call takes its shared lock, which is not registered yet.
Acquiring == {"locking", "flocking", "waiting", "publishing"}
Place == Acquiring \cup
         {"idle", "opening", "reading", "raising", "releasing", "dropping", "fresh",
          "failing", "binding", "using", "closing", "unbinding", "writing"}

\* Where a thread holds _store_lock, and where it has a store.
Guarding == {"reading", "raising", "releasing", "dropping", "fresh"}
OnEntry == {"reading", "raising", "releasing", "dropping"}
WithStore == OnEntry \cup {"binding", "using", "closing", "unbinding"}

CallState == [at : Place, store : StoreId \cup {None}, owns : BOOLEAN, seen : Nat,
              then : {"idle", "fresh"}]
StoreState == [open : BOOLEAN, leases : Nat, binds : Nat]

-----------------------------------------------------------------------------
(* The inductive invariant, in parts *)

Typed ==
  /\ store \in [StoreId -> StoreState]
  /\ cache \in [store : StoreId \cup {None}, mtime : Nat]
  /\ guard \in Thread \cup {NoThread}
  /\ modes \in Seq(BOOLEAN) /\ holds \in [Thread -> Nat] /\ writer \in Thread \cup {NoThread}
  /\ other \in BOOLEAN /\ commits \in Nat /\ mtime \in Nat
  /\ calls \in [n : Nat, wrote : BOOLEAN, lost : BOOLEAN]
  /\ call \in [Thread -> CallState]

\* A thread between _store_lock's enter and exit holds it, and the entry it found
\* there is still the entry.
GuardedAt(t) ==
  /\ call[t].at \in Guarding => guard = t
  /\ call[t].at \in OnEntry => call[t].store = cache.store
  /\ call[t].at \in WithStore => call[t].store \in StoreId

\* The calls that were given store s and have not closed it.
Clients(s) == {t \in Thread : call[t].at \in {"binding", "using"} /\ call[t].store = s}

Leased == \A s \in StoreId : Cardinality(Clients(s)) <= store[s].leases

\* The value a lease is raised from may be stale, but only too high.
RaisedAt(t) ==
  call[t].at = "raising" => Cardinality(Clients(call[t].store)) <= call[t].seen

\* The thread that closes an entry has found it without clients.
DroppedAt(t) == call[t].at = "dropping" => Clients(call[t].store) = {}

LInv == /\ Typed /\ Leased
        /\ \A t \in Thread : GuardedAt(t) /\ RaisedAt(t) /\ DroppedAt(t)

\* Where a call that took a shared lock has not bound it yet, and where it has.
Early == {"opening", "reading", "raising", "releasing", "dropping", "fresh", "failing",
          "binding"}
Late == {"using", "closing", "unbinding"}
Owing == {t \in Thread : call[t].at \in Early /\ call[t].owns}
Binders(s) == {t \in Thread : call[t].at \in Late /\ call[t].store = s}
Bound == UNION {{s} \X (1..store[s].binds) : s \in StoreId}

\* Every call owns its lock; an eviction has none.  A thread about to register the
\* flock has it.
OwnsAt(t) ==
  /\ call[t].at \in {"releasing", "dropping"} => (call[t].owns <=> call[t].then = "fresh")
  /\ call[t].at \in (Acquiring \cup Early \cup Late) \ {"releasing", "dropping"}
       => call[t].owns
  /\ call[t].at = "publishing" => ~other
  /\ call[t].at # "writing"

\* Nobody is given store s any more.
Dead(s) == /\ Clients(s) = {}
           /\ s = cache.store => \E t \in Thread : call[t].at = "dropping"

Reading ==
  /\ modes \in Seq({FALSE})
  /\ other => modes = <<>>
  /\ \A t \in Thread : OwnsAt(t)
Tallied == IsFiniteSet(Bound) /\ Cardinality(Owing) + Cardinality(Bound) = Len(modes)
Covered == \A s \in StoreId : Dead(s) \/ Cardinality(Binders(s)) <= store[s].binds

QInv == LInv /\ (~calls.wrote /\ ~calls.lost => Reading /\ Tallied /\ Covered)

-----------------------------------------------------------------------------
(* Sets of threads *)

\* One thread more or less.
LEMMA Counted ==
  ASSUME NEW S, IsFiniteSet(S), NEW x
  PROVE  /\ Cardinality(S) \in Nat
         /\ IsFiniteSet(S \cup {x}) /\ IsFiniteSet(S \ {x})
         /\ x \notin S => Cardinality(S \cup {x}) = Cardinality(S) + 1
         /\ x \in S => Cardinality(S \ {x}) = Cardinality(S) - 1 /\ Cardinality(S) > 0
         /\ Cardinality(S \ {x}) <= Cardinality(S)
         /\ Cardinality(S \cup {x}) <= Cardinality(S) + 1
<1>1. Cardinality(S) \in Nat
  BY FS_CardinalityType
<1>2. IsFiniteSet(S \cup {x}) /\ IsFiniteSet(S \ {x})
  BY FS_AddElement, FS_RemoveElement
<1>3. x \notin S => Cardinality(S \cup {x}) = Cardinality(S) + 1
  BY FS_AddElement
<1>4. x \in S => Cardinality(S \ {x}) = Cardinality(S) - 1
  BY FS_RemoveElement
<1>5. Cardinality(S \ {x}) \in Nat
  BY <1>2, FS_CardinalityType
<1>6. x \notin S => S \ {x} = S
  OBVIOUS
<1>7. x \in S => S \cup {x} = S
  OBVIOUS
<1>8. x \in S => Cardinality(S) > 0
  BY <1>1, <1>4, <1>5
<1>9. Cardinality(S \ {x}) <= Cardinality(S)
  BY <1>1, <1>4, <1>5, <1>6
<1>10. Cardinality(S \cup {x}) <= Cardinality(S) + 1
  <2>1. CASE x \in S
    <3>1. Cardinality(S \cup {x}) = Cardinality(S)
      BY <2>1, <1>7, Zenon
    <3> QED BY <3>1, <1>1
  <2>2. CASE x \notin S
    BY <2>2, <1>1, <1>3
  <2> QED BY <2>1, <2>2
<1> QED BY <1>1, <1>2, <1>3, <1>4, <1>8, <1>9, <1>10

-----------------------------------------------------------------------------
(* One thread moves *)

Goes(t, c) == call' = [call EXCEPT ![t] = c]

\* What becomes of the sets of threads when one of them moves.
LEMMA Moves ==
  ASSUME Typed, NEW t \in Thread, NEW c \in CallState, Goes(t, c)
  PROVE  /\ call' \in [Thread -> CallState]
         /\ call'[t] = c /\ \A u \in Thread \ {t} : call'[u] = call[u]
         /\ \A s : IF c.at \in {"binding", "using"} /\ c.store = s
                    THEN Clients(s)' = Clients(s) \cup {t}
                    ELSE Clients(s)' = Clients(s) \ {t}
         /\ \A s : IF c.at \in Late /\ c.store = s
                    THEN Binders(s)' = Binders(s) \cup {t}
                    ELSE Binders(s)' = Binders(s) \ {t}
         /\ IF c.at \in Early /\ c.owns THEN Owing' = Owing \cup {t}
                                         ELSE Owing' = Owing \ {t}
<1>1. call \in [Thread -> CallState]
  BY DEF Typed
<1>2. /\ call' \in [Thread -> CallState]
      /\ call'[t] = c /\ \A u \in Thread \ {t} : call'[u] = call[u]
  BY <1>1 DEF Goes
<1>3. \A s : IF c.at \in {"binding", "using"} /\ c.store = s
                    THEN Clients(s)' = Clients(s) \cup {t}
                    ELSE Clients(s)' = Clients(s) \ {t}
  BY <1>2, Zenon DEF Clients
<1>4. \A s : IF c.at \in Late /\ c.store = s
                    THEN Binders(s)' = Binders(s) \cup {t}
                    ELSE Binders(s)' = Binders(s) \ {t}
  BY <1>2, Zenon DEF Binders
<1>5. IF c.at \in Early /\ c.owns THEN Owing' = Owing \cup {t}
                                  ELSE Owing' = Owing \ {t}
  <2>1. CASE c.at \in Early /\ c.owns
    BY <1>2, <2>1, Zenon DEF Owing
  <2>2. CASE ~(c.at \in Early /\ c.owns)
    <3>1. t \notin Owing'
      BY <1>2, <2>2, Zenon DEF Owing
    <3>2. \A u \in Thread \ {t} : u \in Owing' <=> u \in Owing
      BY <1>2, Zenon DEF Owing
    <3>3. Owing \subseteq Thread /\ Owing' \subseteq Thread
      BY DEF Owing
    <3>4. Owing' = Owing \ {t}
      BY <3>1, <3>2, <3>3
    <3> QED BY <2>2, <3>4
  <2> QED BY <2>1, <2>2
<1> QED BY <1>2, <1>3, <1>4, <1>5, Zenon

\* The sets are finite.
LEMMA Finite ==
  /\ \A s : IsFiniteSet(Clients(s)) /\ Cardinality(Clients(s)) \in Nat
  /\ \A s : IsFiniteSet(Binders(s)) /\ Cardinality(Binders(s)) \in Nat
  /\ IsFiniteSet(Owing) /\ Cardinality(Owing) \in Nat
<1>1. IsFiniteSet(Thread)
  BY StoreAssumption
<1>2. \A S \in SUBSET Thread : IsFiniteSet(S) /\ Cardinality(S) \in Nat
  BY <1>1, FS_Subset, FS_CardinalityType
<1>3. (\A s : Clients(s) \in SUBSET Thread) /\ (\A s : Binders(s) \in SUBSET Thread)
      /\ Owing \in SUBSET Thread
  BY DEF Clients, Binders, Owing
<1> QED BY <1>2, <1>3

\* A thread that takes no store as a client leaves the others' guard and entry alone.
LEMMA Kept ==
  ASSUME LInv, NEW t \in Thread, NEW c \in CallState, Goes(t, c), Typed',
         c.at \in {"binding", "using"}
           => call[t].at \in {"binding", "using"} /\ c.store = call[t].store,
         c.at = "raising" => Cardinality(Clients(c.store)) <= c.seen,
         c.at = "dropping" => Clients(c.store) = {},
         Leased', GuardedAt(t)', guard' = guard \/ guard \in {t, NoThread},
         cache' = cache \/ guard = t
  PROVE  LInv'
<1> USE DEF LInv
<1>1. call'[t] = c /\ \A u \in Thread \ {t} : call'[u] = call[u]
  BY Moves
<1>2. \A s : Clients(s)' \subseteq Clients(s)
  <2>1. ASSUME NEW s, ~(c.at \in {"binding", "using"} /\ c.store = s)
        PROVE  Clients(s)' \subseteq Clients(s)
    <3>1. Clients(s)' = Clients(s) \ {t}
      BY <2>1, Moves
    <3> QED BY <3>1
  <2>2. ASSUME NEW s, c.at \in {"binding", "using"} /\ c.store = s
        PROVE  Clients(s)' \subseteq Clients(s)
    <3>1. Clients(s)' = Clients(s) \cup {t}
      BY <2>2, Moves
    <3>2. t \in Clients(s)
      BY <2>2 DEF Clients
    <3> QED BY <3>1, <3>2
  <2> QED BY <2>1, <2>2
<1>3. \A s : Cardinality(Clients(s)') <= Cardinality(Clients(s))
             /\ Cardinality(Clients(s)') \in Nat /\ Cardinality(Clients(s)) \in Nat
  BY <1>2, Finite, FS_Subset, FS_CardinalityType
<1>4. ASSUME NEW u \in Thread PROVE (GuardedAt(u) /\ RaisedAt(u) /\ DroppedAt(u))'
  <2>1. CASE u = t
    <3>1. RaisedAt(t)'
      <4>1. SUFFICES ASSUME c.at = "raising"
                     PROVE  Cardinality(Clients(c.store)') <= c.seen
        BY <1>1 DEF RaisedAt, Clients
      <4>2. c.seen \in Nat
        BY DEF CallState
      <4> QED BY <4>1, <4>2, <1>3
    <3>2. DroppedAt(t)'
      <4>1. SUFFICES ASSUME c.at = "dropping" PROVE Clients(c.store)' = {}
        BY <1>1 DEF DroppedAt, Clients
      <4> QED BY <4>1, <1>2
    <3> QED BY <2>1, <3>1, <3>2
  <2>2. CASE u # t
    <3>1. call'[u] = call[u]
      BY <2>2, <1>1
    <3>2. call[u] \in CallState
      BY DEF Typed
    <3>3. GuardedAt(u)'
      <4>1. GuardedAt(u) /\ u # NoThread
        BY StoreAssumption
      <4>2. call[u].at \in OnEntry => call[u].at \in Guarding
        BY DEF OnEntry, Guarding
      <4>3. call[u].at \in Guarding => guard' = guard /\ cache' = cache /\ guard = u
        BY <4>1, <2>2 DEF GuardedAt
      <4> QED BY <3>1, <4>1, <4>2, <4>3 DEF GuardedAt
    <3>4. RaisedAt(u)'
      <4>1. SUFFICES ASSUME call[u].at = "raising", NEW s, s = call[u].store
                     PROVE  Cardinality(Clients(s)') <= call[u].seen
        BY <3>1 DEF RaisedAt, Clients
      <4>2. Cardinality(Clients(s)) <= call[u].seen
        BY <4>1 DEF RaisedAt
      <4>3. call[u].seen \in Nat
        BY <3>2 DEF CallState
      <4> QED BY <4>2, <4>3, <1>3
    <3>5. DroppedAt(u)'
      <4>1. SUFFICES ASSUME call[u].at = "dropping", NEW s, s = call[u].store
                     PROVE  Clients(s)' = {}
        BY <3>1 DEF DroppedAt, Clients
      <4>2. Clients(s) = {}
        BY <4>1 DEF DroppedAt
      <4> QED BY <4>2, <1>2
    <3> QED BY <3>3, <3>4, <3>5
  <2> QED BY <2>1, <2>2
<1> QED BY <1>4

\* Leases that stay cover fewer clients.
LEMMA StillLeased ==
  ASSUME Typed, Leased, NEW t \in Thread, NEW c \in CallState, Goes(t, c),
         c.at \in {"binding", "using"}
           => call[t].at \in {"binding", "using"} /\ c.store = call[t].store,
         store' \in [StoreId -> StoreState],
         \A s \in StoreId : store'[s].leases = store[s].leases
  PROVE  Leased'
<1> SUFFICES ASSUME NEW s \in StoreId
             PROVE  Cardinality(Clients(s)') <= store'[s].leases
  BY DEF Leased
<1>1. Clients(s)' \subseteq Clients(s)
  <2>1. CASE ~(c.at \in {"binding", "using"} /\ c.store = s)
    <3>1. Clients(s)' = Clients(s) \ {t}
      BY <2>1, Moves
    <3> QED BY <3>1
  <2>2. CASE c.at \in {"binding", "using"} /\ c.store = s
    <3>1. Clients(s)' = Clients(s) \cup {t}
      BY <2>2, Moves
    <3>2. t \in Clients(s)
      BY <2>2 DEF Clients
    <3> QED BY <3>1, <3>2
  <2> QED BY <2>1, <2>2
<1>2. Cardinality(Clients(s)') <= Cardinality(Clients(s))
             /\ Cardinality(Clients(s)') \in Nat /\ Cardinality(Clients(s)) \in Nat
  BY <1>1, Finite, FS_Subset, FS_CardinalityType
<1>3. Cardinality(Clients(s)) <= store[s].leases /\ store[s].leases \in Nat
  BY DEF Leased, Typed, StoreState
<1> QED BY <1>2, <1>3

\* Under _store_lock a thread may become a client: nobody else reads the entry.
LEMMA Joined ==
  ASSUME LInv, NEW t \in Thread, NEW c \in CallState, Goes(t, c), Typed',
         call[t].at \in Guarding, c.at = "binding", c.store \in StoreId, Leased'
  PROVE  LInv'
<1> USE DEF LInv
<1>1. call'[t] = c /\ \A u \in Thread \ {t} : call'[u] = call[u]
  BY Moves
<1>2. guard = t
  BY DEF GuardedAt
<1>3. ASSUME NEW u \in Thread PROVE (GuardedAt(u) /\ RaisedAt(u) /\ DroppedAt(u))'
  <2>1. call'[u].at \notin Guarding
    <3>1. CASE u = t
      BY <3>1, <1>1 DEF Guarding
    <3>2. CASE u # t
      BY <3>2, <1>1, <1>2 DEF GuardedAt
    <3> QED BY <3>1, <3>2
  <2>2. call'[u].at \in WithStore => call'[u].store \in StoreId
    <3>1. CASE u = t
      BY <3>1, <1>1
    <3>2. CASE u # t
      BY <3>2, <1>1 DEF GuardedAt
    <3> QED BY <3>1, <3>2
  <2>3. call'[u].at \notin OnEntry /\ call'[u].at # "raising" /\ call'[u].at # "dropping"
    BY <2>1 DEF Guarding, OnEntry
  <2> QED BY <2>1, <2>2, <2>3 DEF GuardedAt, RaisedAt, DroppedAt
<1> QED BY <1>3

-----------------------------------------------------------------------------
(* The leases, action by action *)

\* A change of some fields of a thread's call.
LEMMA AtType == \A t \in Thread : Typed =>
  /\ call[t] \in CallState /\ call[t].at \in Place
  /\ call[t].store \in StoreId \cup {None} /\ call[t].owns \in BOOLEAN
  /\ call[t].seen \in Nat /\ call[t].then \in {"idle", "fresh"}
BY DEF Typed, CallState

LEMMA Gone ==
  ASSUME Typed, NEW t \in Thread, NEW p \in Place, Goto(t, p)
  PROVE  \E c \in CallState : /\ Goes(t, c) /\ c.at = p /\ c.store = call[t].store
                              /\ c.owns = call[t].owns /\ c.seen = call[t].seen
                              /\ c.then = call[t].then
<1> DEFINE c == [call[t] EXCEPT !.at = p]
<1>1. c \in CallState /\ c.at = p /\ c.store = call[t].store
      /\ c.owns = call[t].owns /\ c.seen = call[t].seen /\ c.then = call[t].then
  BY AtType DEF CallState
<1>2. Goes(t, c)
  BY DEF Goto, Goes, Typed
<1> QED BY <1>1, <1>2

LEMMA IdleType == Idle \in CallState /\ Idle.at = "idle" /\ Idle.store = None
                  /\ Idle.owns = FALSE /\ Idle.then = "idle"
BY DEF Idle, CallState, Place, Acquiring, None

LEMMA StoreType == Typed => \A s \in StoreId :
  /\ store[s] \in StoreState /\ store[s].leases \in Nat /\ store[s].binds \in Nat
  /\ store[s].open \in BOOLEAN
BY DEF Typed, StoreState

\* Only bookkeeping of the locks: everything the leases depend on stays.
LEMMA LocksOnly ==
  ASSUME LInv, Typed', UNCHANGED <<store, cache, guard, call>>
  PROVE  LInv'
BY DEF LInv, Leased, GuardedAt, RaisedAt, DroppedAt, Clients

\* The sequence of acquisitions, less its youngest.
LEMMA Popped ==
  ASSUME NEW S, NEW q \in Seq(S), q # <<>>
  PROVE  Front(q) \in Seq(S) /\ Len(Front(q)) = Len(q) - 1
<1>1. Len(q) \in Nat /\ Len(q) # 0
  BY EmptySeq, LenProperties
<1>2. Front(q) = [i \in 1..(Len(q) - 1) |-> q[i]]
  BY <1>1 DEF Front, SubSeq
<1> QED BY <1>1, <1>2

\* Giving back the graph lock keeps its types.
LEMMA LockTypes ==
  ASSUME Typed, NEW t \in Thread, release_graph_lock(t)
  PROVE  /\ modes' \in Seq(BOOLEAN) /\ holds' \in [Thread -> Nat]
         /\ writer' \in Thread \cup {NoThread}
<1>1. modes \in Seq(BOOLEAN) /\ holds \in [Thread -> Nat] /\ writer \in Thread \cup {NoThread}
  BY DEF Typed
<1>2. modes' \in Seq(BOOLEAN)
  BY <1>1, Popped DEF release_graph_lock
<1> QED BY <1>1, <1>2 DEF release_graph_lock, release

LEMMA Entered ==
  ASSUME Typed, NEW t, Enter(t)
  PROVE  calls' \in [n : Nat, wrote : BOOLEAN, lost : BOOLEAN] /\ calls'.wrote = calls.wrote
         /\ calls'.lost = calls.lost
<1>1. calls \in [n : Nat, wrote : BOOLEAN, lost : BOOLEAN]
  BY DEF Typed
<1>2. calls' = [calls EXCEPT !.n = @ + 1]
  BY DEF Enter
<1> QED BY <1>1, <1>2

LEMMA LGetStore ==
  ASSUME LInv, NEW t \in Thread, GetStore(t) PROVE LInv'
<1> DEFINE c == [Idle EXCEPT !.at = IF write_lock_is_held THEN "opening" ELSE "locking",
                             !.owns = ~write_lock_is_held]
<1>1. c \in CallState /\ c.at \in {"opening", "locking"}
  BY DEF Idle, CallState, Place, Acquiring, None, write_lock_is_held
<1>2. Goes(t, c)
  BY DEF GetStore, Goes
<1> HIDE DEF c
<1>3. Typed'
  <2>1. call' \in [Thread -> CallState]
    BY <1>1, <1>2, Moves DEF LInv
  <2>2. calls' \in [n : Nat, wrote : BOOLEAN, lost : BOOLEAN] /\ calls'.wrote = calls.wrote
    BY Entered DEF GetStore, LInv
  <2>3. UNCHANGED <<store, cache, guard, modes, holds, writer, other, commits, mtime>>
    BY DEF GetStore, locks
  <2> QED BY <2>1, <2>2, <2>3 DEF LInv, Typed
<1>4. Leased'
  BY <1>1, <1>2, StillLeased DEF LInv, GetStore, Typed
<1>5. GuardedAt(t)'
  <2>1. call'[t] = c
    BY <1>1, <1>2, Moves DEF LInv
  <2> QED BY <2>1, <1>1 DEF GuardedAt, Guarding, OnEntry, WithStore
<1> QED BY <1>1, <1>2, <1>3, <1>4, <1>5, Kept DEF GetStore

\* A thread that goes where it has neither _store_lock nor a store.
LEMMA Elsewhere ==
  ASSUME LInv, NEW t \in Thread, NEW c \in CallState, Goes(t, c),
         c.at \notin Guarding \cup WithStore, Typed', UNCHANGED <<store, cache>>,
         guard' = guard \/ guard \in {t, NoThread}
  PROVE  LInv'
<1>1. call'[t] = c
  BY Moves DEF LInv
<1>2. c.at \notin {"binding", "using"} /\ c.at # "raising" /\ c.at # "dropping"
  BY DEF Guarding, WithStore
<1>3. Leased'
  BY <1>2, StillLeased DEF LInv, Typed
<1>4. GuardedAt(t)'
  BY <1>1 DEF GuardedAt, WithStore
<1> QED BY <1>2, <1>3, <1>4, Kept

LEMMA OffStore == (Acquiring \cup {"idle", "opening", "failing"}) \cap (Guarding \cup WithStore) = {}
BY DEF Acquiring, Guarding, WithStore, OnEntry

LEMMA LLock ==
  ASSUME LInv, NEW t \in Thread, Lock(t) PROVE LInv'
<1>1. PICK c \in CallState : Goes(t, c) /\ c.at = "flocking"
  BY Gone DEF LInv, Lock, Place, Acquiring
<1>2. Typed'
  <2>1. call' \in [Thread -> CallState]
    BY <1>1, Moves DEF LInv
  <2>2. holds' \in [Thread -> Nat]
    BY DEF LInv, Typed, Lock
  <2> QED BY <2>1, <2>2 DEF LInv, Typed, Lock
<1>3. UNCHANGED <<store, cache, guard>>
  BY DEF Lock
<1>4. c.at \notin Guarding \cup WithStore
  BY <1>1, OffStore DEF Acquiring
<1> QED BY <1>1, <1>2, <1>3, <1>4, Elsewhere

LEMMA LFlockLookup ==
  ASSUME LInv, NEW t \in Thread, FlockLookup(t) PROVE LInv'
<1> DEFINE p == IF modes = <<>> THEN "waiting" ELSE "opening"
<1>0. p \in {"waiting", "opening"} /\ p \in Place /\ Goto(t, p)
  BY DEF Place, Acquiring, FlockLookup
<1> HIDE DEF p
<1>1. PICK c \in CallState : Goes(t, c) /\ c.at = p
  BY <1>0, Gone DEF LInv
<1>2. Typed'
  <2>1. call' \in [Thread -> CallState]
    BY <1>1, Moves DEF LInv
  <2>2. modes' \in Seq(BOOLEAN)
    <3>1. modes \in Seq(BOOLEAN) /\ FALSE \in BOOLEAN
      BY DEF LInv, Typed
    <3>2. Append(modes, FALSE) \in Seq(BOOLEAN)
      BY <3>1, AppendProperties
    <3>3. modes' = modes \/ modes' = Append(modes, FALSE)
      BY DEF FlockLookup
    <3> QED BY <3>1, <3>2, <3>3
  <2> QED BY <2>1, <2>2 DEF LInv, Typed, FlockLookup
<1>3. UNCHANGED <<store, cache, guard>>
  BY DEF FlockLookup
<1>4. c.at \notin Guarding \cup WithStore
  BY <1>0, <1>1, OffStore DEF Acquiring
<1> QED BY <1>1, <1>2, <1>3, <1>4, Elsewhere

LEMMA LFlockWait ==
  ASSUME LInv, NEW t \in Thread, FlockWait(t) PROVE LInv'
<1>1. PICK c \in CallState : Goes(t, c) /\ c.at = "publishing"
  BY Gone DEF LInv, FlockWait, Place, Acquiring
<1>2. Typed'
  <2>1. call' \in [Thread -> CallState]
    BY <1>1, Moves DEF LInv
  <2> QED BY <2>1 DEF LInv, Typed, FlockWait, locks
<1>3. UNCHANGED <<store, cache, guard>>
  BY DEF FlockWait
<1>4. c.at \notin Guarding \cup WithStore
  BY <1>1, OffStore DEF Acquiring
<1> QED BY <1>1, <1>2, <1>3, <1>4, Elsewhere

\* What registering the flock makes of the calls' history.
LEMMA Published ==
  ASSUME Typed, NEW t, FlockPublish(t)
  PROVE  /\ calls' \in [n : Nat, wrote : BOOLEAN, lost : BOOLEAN]
         /\ calls'.wrote = calls.wrote /\ (~calls'.lost => ~calls.lost /\ modes = <<>>)
<1> DEFINE b == calls.lost \/ modes # <<>>
<1>1. calls \in [n : Nat, wrote : BOOLEAN, lost : BOOLEAN] /\ b \in BOOLEAN
  BY DEF Typed
<1>2. calls' = [calls EXCEPT !.lost = b]
  BY DEF FlockPublish
<1> HIDE DEF b
<1>3. calls' \in [n : Nat, wrote : BOOLEAN, lost : BOOLEAN]
      /\ calls'.wrote = calls.wrote /\ calls'.lost = b
  BY <1>1, <1>2
<1> QED BY <1>3 DEF b

LEMMA LFlockPublish ==
  ASSUME LInv, NEW t \in Thread, FlockPublish(t) PROVE LInv'
<1>1. PICK c \in CallState : Goes(t, c) /\ c.at = "opening"
  BY Gone DEF LInv, FlockPublish, Place, Acquiring
<1>2. Typed'
  <2>1. call' \in [Thread -> CallState]
    BY <1>1, Moves DEF LInv
  <2>2. modes' \in Seq(BOOLEAN)
    BY DEF FlockPublish
  <2>3. calls' \in [n : Nat, wrote : BOOLEAN, lost : BOOLEAN]
    BY Published DEF LInv
  <2> QED BY <2>1, <2>2, <2>3 DEF LInv, Typed, FlockPublish
<1>3. UNCHANGED <<store, cache, guard>>
  BY DEF FlockPublish
<1>4. c.at \notin Guarding \cup WithStore
  BY <1>1, OffStore
<1> QED BY <1>1, <1>2, <1>3, <1>4, Elsewhere

LEMMA LLockTimesOut ==
  ASSUME LInv, NEW t \in Thread, LockTimesOut(t) PROVE LInv'
<1>1. Goes(t, Idle)
  BY DEF LockTimesOut, Goes
<1>2. Typed'
  <2>1. call' \in [Thread -> CallState]
    BY <1>1, IdleType, Moves DEF LInv
  <2>2. holds' \in [Thread -> Nat]
    BY DEF LInv, Typed, LockTimesOut, release
  <2> QED BY <2>1, <2>2 DEF LInv, Typed, LockTimesOut
<1>3. UNCHANGED <<store, cache, guard>>
  BY DEF LockTimesOut
<1>4. Idle.at \notin Guarding \cup WithStore
  BY IdleType, OffStore
<1> QED BY <1>1, <1>2, <1>3, <1>4, IdleType, Elsewhere

LEMMA LOpenRaises ==
  ASSUME LInv, NEW t \in Thread, OpenRaises(t) PROVE LInv'
<1> DEFINE d == [call[t] EXCEPT !.at = "failing"]
           c == IF call[t].owns THEN d ELSE Idle
<1>1. d \in CallState /\ d.at = "failing"
  BY AtType DEF LInv, CallState, Place, Acquiring
<1>2. Goes(t, c) /\ guard = t
  BY DEF OpenRaises, Goes, LInv, Typed, GuardedAt, Guarding, At
<1> HIDE DEF d
<1>3. c \in CallState /\ c.at \in {"failing", "idle"}
  BY <1>1, IdleType
<1> HIDE DEF c
<1>4. Typed'
  <2>1. call' \in [Thread -> CallState]
    BY <1>2, <1>3, Moves DEF LInv
  <2> QED BY <2>1 DEF LInv, Typed, OpenRaises, locks
<1>5. UNCHANGED <<store, cache>>
  BY DEF OpenRaises
<1>6. c.at \notin Guarding \cup WithStore
  BY <1>3, OffStore
<1> QED BY <1>2, <1>3, <1>4, <1>5, <1>6, Elsewhere

LEMMA LGiveBack ==
  ASSUME LInv, NEW t \in Thread, GiveBack(t) PROVE LInv'
<1>1. Goes(t, Idle)
  BY DEF GiveBack, Goes
<1>2. Typed'
  <2>1. call' \in [Thread -> CallState]
    BY <1>1, IdleType, Moves DEF LInv
  <2>2. /\ modes' \in Seq(BOOLEAN) /\ holds' \in [Thread -> Nat]
        /\ writer' \in Thread \cup {NoThread}
    BY LockTypes DEF GiveBack, LInv
  <2> QED BY <2>1, <2>2 DEF LInv, Typed, GiveBack
<1>3. UNCHANGED <<store, cache, guard>>
  BY DEF GiveBack
<1>4. Idle.at \notin Guarding \cup WithStore
  BY IdleType, OffStore
<1> QED BY <1>1, <1>2, <1>3, <1>4, IdleType, Elsewhere

\* What a look at the cache finds.
LEMMA Looked ==
  ASSUME Typed, NEW t \in Thread, Lookup(t)
  PROVE  \E c \in CallState :
           /\ Goes(t, c) /\ c.at \in {"reading", "releasing", "fresh"}
           /\ c.at # "fresh" => cache.store \in StoreId
           /\ c.store = cache.store /\ c.then = "fresh" /\ c.owns = call[t].owns
<1> DEFINE p == IF usable(cache) THEN "reading"
                ELSE IF cache.store # None THEN "releasing" ELSE "fresh"
           c == [call[t] EXCEPT !.at = p, !.store = cache.store, !.then = "fresh"]
<1>0. p \in {"reading", "releasing", "fresh"} /\ (p # "fresh" => cache.store # None)
  BY DEF usable
<1> HIDE DEF p
<1>1. cache.store \in StoreId \cup {None}
  BY DEF Typed
<1>2. c \in CallState /\ c.at = p /\ c.store = cache.store /\ c.then = "fresh"
      /\ c.owns = call[t].owns
  BY <1>0, <1>1, AtType DEF CallState, Place, Acquiring
<1>3. Goes(t, c)
  BY DEF Lookup, Goes, Typed, p
<1> QED BY <1>0, <1>1, <1>2, <1>3

LEMMA LLookup ==
  ASSUME LInv, NEW t \in Thread, Lookup(t) PROVE LInv'
<1>1. PICK c \in CallState :
           /\ Goes(t, c) /\ c.at \in {"reading", "releasing", "fresh"}
           /\ c.at # "fresh" => cache.store \in StoreId
           /\ c.store = cache.store
  BY Looked DEF LInv
<1>2. call' \in [Thread -> CallState] /\ call'[t] = c
  BY <1>1, Moves DEF LInv
<1>3. Typed'
  BY <1>2 DEF LInv, Typed, Lookup, locks
<1>4. Leased'
  BY <1>1, StillLeased DEF LInv, Lookup, Typed
<1>5. GuardedAt(t)'
  BY <1>1, <1>2 DEF GuardedAt, Guarding, OnEntry, WithStore, Lookup
<1> QED BY <1>1, <1>3, <1>4, <1>5, Kept DEF Lookup

LEMMA LLeaseRead ==
  ASSUME LInv, NEW t \in Thread, LeaseRead(t) PROVE LInv'
<1> DEFINE s == call[t].store
           c == [call[t] EXCEPT !.at = "raising", !.seen = store[s].leases]
<1>0. s \in StoreId /\ GuardedAt(t)
  BY DEF LInv, GuardedAt, LeaseRead, At, OnEntry, WithStore
<1>1. c \in CallState /\ c.at = "raising" /\ c.store = s /\ c.seen = store[s].leases
  BY <1>0, AtType, StoreType DEF LInv, CallState, Place, Acquiring
<1>2. Goes(t, c)
  BY DEF LeaseRead, Goes, LInv, Typed
<1> HIDE DEF c
<1>3. call' \in [Thread -> CallState] /\ call'[t] = c
  BY <1>1, <1>2, Moves DEF LInv
<1>4. Typed'
  BY <1>3 DEF LInv, Typed, LeaseRead, locks
<1>5. Leased'
  BY <1>1, <1>2, StillLeased DEF LInv, LeaseRead, Typed
<1>6. GuardedAt(t)'
  BY <1>0, <1>1, <1>3 DEF GuardedAt, Guarding, OnEntry, WithStore, LeaseRead, At
<1>7. Cardinality(Clients(c.store)) <= c.seen
  BY <1>0, <1>1 DEF LInv, Leased
<1> QED BY <1>1, <1>2, <1>4, <1>5, <1>6, <1>7, Kept DEF LeaseRead

\* One store changes.
LEMMA Restored ==
  ASSUME Typed, NEW s \in StoreId, NEW r \in StoreState, store' = [store EXCEPT ![s] = r]
  PROVE  /\ store' \in [StoreId -> StoreState] /\ store'[s] = r
         /\ \A q \in StoreId \ {s} : store'[q] = store[q]
BY DEF Typed

LEMMA LLeaseRaise ==
  ASSUME LInv, NEW t \in Thread, LeaseRaise(t) PROVE LInv'
<1>0. /\ call[t].at = "raising" /\ call[t].store \in StoreId /\ call[t].seen \in Nat
      /\ Cardinality(Clients(call[t].store)) <= call[t].seen
  BY AtType DEF LInv, GuardedAt, RaisedAt, LeaseRaise, At, OnEntry, WithStore
<1>1. PICK c \in CallState : Goes(t, c) /\ c.at = "binding" /\ c.store = call[t].store
  BY Gone DEF LInv, LeaseRaise, Place, Acquiring
<1>2. PICK s \in StoreId : s = call[t].store
  BY <1>0
<1> DEFINE r == [store[s] EXCEPT !.leases = call[t].seen + 1]
<1>3. r \in StoreState /\ r.leases = call[t].seen + 1
  BY <1>0, StoreType DEF LInv, StoreState
<1>4. store' = [store EXCEPT ![s] = r]
  BY <1>2 DEF LeaseRaise, LInv, Typed
<1> HIDE DEF r
<1>5. /\ store' \in [StoreId -> StoreState] /\ store'[s] = r
      /\ \A q \in StoreId \ {s} : store'[q] = store[q]
  BY <1>3, <1>4, Restored DEF LInv
<1>6. Typed'
  <2>1. call' \in [Thread -> CallState]
    BY <1>1, Moves DEF LInv
  <2> QED BY <1>5, <2>1 DEF LInv, Typed, LeaseRaise, locks
<1>7. Leased'
  <2> SUFFICES ASSUME NEW q \in StoreId
               PROVE  Cardinality(Clients(q)') <= store'[q].leases
    BY DEF Leased
  <2>0. IsFiniteSet(Clients(q)) /\ Cardinality(Clients(q)) \in Nat
    BY Finite
  <2>1. CASE q = s
    <3>1. Clients(q)' = Clients(q) \cup {t}
      BY <1>1, <1>2, <2>1, Moves DEF LInv
    <3>2. Cardinality(Clients(q) \cup {t}) <= Cardinality(Clients(q)) + 1
      BY <2>0, Counted
    <3>3. Cardinality(Clients(q)') \in Nat
      BY <3>1, <2>0, FS_AddElement, FS_CardinalityType
    <3>4. Cardinality(Clients(q)) <= call[t].seen /\ store'[q].leases = call[t].seen + 1
      BY <1>0, <1>2, <1>3, <1>5, <2>1
    <3> QED BY <2>0, <3>1, <3>2, <3>3, <3>4, <1>0
  <2>2. CASE q # s
    <3>1. Clients(q)' = Clients(q) \ {t}
      BY <1>1, <1>2, <2>2, Moves DEF LInv
    <3>2. Cardinality(Clients(q) \ {t}) <= Cardinality(Clients(q))
      BY <2>0, Counted
    <3>3. Cardinality(Clients(q)') \in Nat
      BY <3>1, <2>0, FS_RemoveElement, FS_CardinalityType
    <3>4. store'[q].leases = store[q].leases /\ store[q].leases \in Nat
          /\ Cardinality(Clients(q)) <= store[q].leases
      BY <1>5, <2>2, StoreType DEF LInv, Leased
    <3> QED BY <2>0, <3>1, <3>2, <3>3, <3>4
  <2> QED BY <2>1, <2>2
<1> QED BY <1>0, <1>1, <1>6, <1>7, Joined DEF Guarding

\* A store nobody has is taken.
LEMMA Taken ==
  ASSUME Typed, NEW t \in Thread, Fresh(t)
  PROVE  \E s \in StoreId : \E c \in CallState :
           /\ Goes(t, c) /\ c.at = "binding" /\ c.store = s /\ c.owns = call[t].owns
           /\ Free(s) /\ store' = [store EXCEPT ![s] = [open |-> TRUE, leases |-> 1, binds |-> 0]]
           /\ cache' = [store |-> s, mtime |-> mtime]
<1>1. PICK s \in StoreId :
        /\ Free(s) /\ store' = [store EXCEPT ![s] = [open |-> TRUE, leases |-> 1, binds |-> 0]]
        /\ cache' = [store |-> s, mtime |-> mtime]
        /\ call' = [call EXCEPT ![t].at = "binding", ![t].store = s]
  BY DEF Fresh
<1> DEFINE c == [call[t] EXCEPT !.at = "binding", !.store = s]
<1>2. c \in CallState /\ c.at = "binding" /\ c.store = s /\ c.owns = call[t].owns
  BY AtType DEF CallState, Place, Acquiring
<1>3. Goes(t, c)
  BY <1>1 DEF Goes, Typed
<1> QED BY <1>1, <1>2, <1>3

LEMMA LFresh ==
  ASSUME LInv, NEW t \in Thread, Fresh(t) PROVE LInv'
<1>1. PICK s \in StoreId, c \in CallState :
           /\ Goes(t, c) /\ c.at = "binding" /\ c.store = s
           /\ Free(s) /\ store' = [store EXCEPT ![s] = [open |-> TRUE, leases |-> 1, binds |-> 0]]
           /\ cache' = [store |-> s, mtime |-> mtime]
  BY Taken DEF LInv
<1> DEFINE r == [open |-> TRUE, leases |-> 1, binds |-> 0]
<1>2. r \in StoreState /\ r.leases = 1
  BY DEF StoreState
<1>3. store' = [store EXCEPT ![s] = r]
  BY <1>1
<1> HIDE DEF r
<1>4. /\ store' \in [StoreId -> StoreState] /\ store'[s] = r
      /\ \A q \in StoreId \ {s} : store'[q] = store[q]
  BY <1>2, <1>3, Restored DEF LInv
<1>5. Typed'
  <2>1. call' \in [Thread -> CallState]
    BY <1>1, Moves DEF LInv
  <2>2. cache' \in [store : StoreId \cup {None}, mtime : Nat]
    BY <1>1 DEF LInv, Typed
  <2> QED BY <1>4, <2>1, <2>2 DEF LInv, Typed, Fresh, locks
<1>6. Leased'
  <2> SUFFICES ASSUME NEW q \in StoreId
               PROVE  Cardinality(Clients(q)') <= store'[q].leases
    BY DEF Leased
  <2>0. IsFiniteSet(Clients(q)) /\ Cardinality(Clients(q)) \in Nat
    BY Finite
  <2>1. CASE q = s
    <3>1. Clients(q)' = Clients(q) \cup {t}
      BY <1>1, <2>1, Moves DEF LInv
    <3>2. Clients(q) = {}
      BY <1>1, <2>1 DEF Free, Clients
    <3>3. Clients(q)' = {t}
      BY <3>1, <3>2
    <3>4. Cardinality(Clients(q)') = 1
      BY <3>3, FS_Singleton
    <3> QED BY <3>4, <1>2, <1>4, <2>1
  <2>2. CASE q # s
    <3>1. Clients(q)' = Clients(q) \ {t}
      BY <1>1, <2>2, Moves DEF LInv
    <3>2. Cardinality(Clients(q) \ {t}) <= Cardinality(Clients(q))
      BY <2>0, Counted
    <3>3. Cardinality(Clients(q)') \in Nat
      BY <3>1, <2>0, FS_RemoveElement, FS_CardinalityType
    <3>4. store'[q].leases = store[q].leases /\ store[q].leases \in Nat
          /\ Cardinality(Clients(q)) <= store[q].leases
      BY <1>4, <2>2, StoreType DEF LInv, Leased
    <3> QED BY <2>0, <3>1, <3>2, <3>3, <3>4
  <2> QED BY <2>1, <2>2
<1>7. call[t].at \in Guarding
  BY DEF Fresh, At, Guarding
<1> QED BY <1>1, <1>5, <1>6, <1>7, Joined

LEMMA LBind ==
  ASSUME LInv, NEW t \in Thread, bind_store_read_lock(t) PROVE LInv'
<1>0. call[t].at = "binding" /\ call[t].store \in StoreId
  BY DEF LInv, GuardedAt, bind_store_read_lock, At, WithStore
<1>1. PICK c \in CallState : Goes(t, c) /\ c.at = "using" /\ c.store = call[t].store
  BY Gone DEF LInv, bind_store_read_lock, Place, Acquiring
<1>2. PICK s \in StoreId : s = call[t].store
  BY <1>0
<1>3. /\ store' \in [StoreId -> StoreState]
      /\ \A q \in StoreId : store'[q].leases = store[q].leases
  <2>1. CASE ~call[t].owns
    BY <2>1 DEF bind_store_read_lock, LInv, Typed
  <2>2. CASE call[t].owns
    <3> DEFINE r == [store[s] EXCEPT !.binds = @ + 1]
    <3>1. r \in StoreState /\ r.leases = store[s].leases
      BY StoreType DEF LInv, StoreState
    <3>2. store' = [store EXCEPT ![s] = r]
      BY <1>2, <2>2 DEF bind_store_read_lock, LInv, Typed
    <3> HIDE DEF r
    <3> QED BY <3>1, <3>2, Restored DEF LInv
  <2> QED BY <2>1, <2>2
<1>4. call' \in [Thread -> CallState] /\ call'[t] = c
  BY <1>1, Moves DEF LInv
<1>5. Typed'
  BY <1>3, <1>4 DEF LInv, Typed, bind_store_read_lock, locks
<1>6. Leased'
  BY <1>0, <1>1, <1>3, StillLeased DEF LInv
<1>7. GuardedAt(t)'
  BY <1>0, <1>1, <1>4 DEF GuardedAt, Guarding, OnEntry, WithStore
<1> QED BY <1>0, <1>1, <1>5, <1>6, <1>7, Kept DEF bind_store_read_lock

LEMMA LEvict ==
  ASSUME LInv, NEW t \in Thread, _evict_store_cache(t) PROVE LInv'
<1> DEFINE c == [Idle EXCEPT !.at = "releasing", !.store = cache.store]
<1>0. cache.store \in StoreId
  BY DEF LInv, Typed, _evict_store_cache
<1>1. c \in CallState /\ c.at = "releasing" /\ c.store = cache.store
  BY <1>0 DEF Idle, CallState, Place, Acquiring, None
<1>2. Goes(t, c)
  BY DEF _evict_store_cache, Goes
<1> HIDE DEF c
<1>3. call' \in [Thread -> CallState] /\ call'[t] = c
  BY <1>1, <1>2, Moves DEF LInv
<1>4. Typed'
  <2>2. calls' \in [n : Nat, wrote : BOOLEAN, lost : BOOLEAN]
    BY Entered DEF _evict_store_cache, LInv
  <2>3. UNCHANGED <<store, cache, modes, holds, writer, other, commits, mtime>> /\ guard' = t
    BY DEF _evict_store_cache, locks
  <2> QED BY <1>3, <2>2, <2>3 DEF LInv, Typed
<1>5. Leased'
  BY <1>1, <1>2, StillLeased DEF LInv, _evict_store_cache, Typed
<1>6. GuardedAt(t)'
  BY <1>0, <1>1, <1>3 DEF GuardedAt, Guarding, OnEntry, WithStore, _evict_store_cache
<1> QED BY <1>1, <1>2, <1>4, <1>5, <1>6, Kept DEF _evict_store_cache

\* A thread that drops the entry holds _store_lock, and gives it up or goes on to open.
LEMMA DropShape ==
  ASSUME LInv, NEW t \in Thread, call[t].at \in {"releasing", "dropping"}, Dropped(t)
  PROVE  \E c \in CallState :
           /\ Goes(t, c)
           /\ IF call[t].then = "idle" THEN c = Idle
              ELSE c.at = "fresh" /\ c.store = None /\ c.owns = call[t].owns
           /\ guard = t /\ cache' = NoEntry
           /\ guard' = IF call[t].then = "idle" THEN NoThread ELSE t
<1> DEFINE d == [call[t] EXCEPT !.at = "fresh", !.store = None]
           c == IF call[t].then = "idle" THEN Idle ELSE d
<1>1. d \in CallState /\ d.at = "fresh" /\ d.store = None /\ d.owns = call[t].owns
  BY AtType DEF LInv, CallState, Place, Acquiring
<1>2. Goes(t, c)
  BY DEF Dropped, Goes, LInv, Typed
<1>3. guard = t
  BY DEF LInv, GuardedAt, Guarding
<1> HIDE DEF d
<1>4. c \in CallState
  BY <1>1, IdleType
<1> QED BY <1>1, <1>2, <1>3, <1>4 DEF Dropped

LEMMA LDropped ==
  ASSUME LInv, NEW t \in Thread, call[t].at \in {"releasing", "dropping"}, Dropped(t),
         store' \in [StoreId -> StoreState],
         \A q \in StoreId : store'[q].leases = store[q].leases,
         modes' \in Seq(BOOLEAN) /\ holds' \in [Thread -> Nat],
         writer' \in Thread \cup {NoThread}, UNCHANGED <<other, commits, mtime, calls>>
  PROVE  LInv'
<1>1. PICK c \in CallState :
           /\ Goes(t, c)
           /\ IF call[t].then = "idle" THEN c = Idle ELSE c.at = "fresh" /\ c.store = None
           /\ guard = t /\ cache' = NoEntry
           /\ guard' = IF call[t].then = "idle" THEN NoThread ELSE t
  BY DropShape
<1>2. c.at \in {"idle", "fresh"} /\ (c.at = "fresh" => guard' = t)
  BY <1>1, IdleType
<1>3. call' \in [Thread -> CallState] /\ call'[t] = c
  BY <1>1, Moves DEF LInv
<1>4. Typed'
  <2>1. cache' \in [store : StoreId \cup {None}, mtime : Nat]
    BY <1>1 DEF NoEntry
  <2>2. guard' \in Thread \cup {NoThread}
    BY <1>1
  <2> QED BY <1>3, <2>1, <2>2 DEF LInv, Typed
<1>5. Leased'
  BY <1>1, <1>2, StillLeased DEF LInv
<1>6. GuardedAt(t)'
  BY <1>2, <1>3 DEF GuardedAt, Guarding, OnEntry, WithStore
<1> QED BY <1>1, <1>2, <1>4, <1>5, <1>6, Kept

\* Closing the connection of store s.
LEMMA Shut ==
  ASSUME Typed, NEW s \in StoreId, store' = [store EXCEPT ![s].open = FALSE]
  PROVE  /\ store' \in [StoreId -> StoreState]
         /\ \A q \in StoreId : /\ store'[q].leases = store[q].leases
                               /\ store'[q].binds = store[q].binds
<1> DEFINE r == [store[s] EXCEPT !.open = FALSE]
<1>1. r \in StoreState /\ r.leases = store[s].leases /\ r.binds = store[s].binds
  BY StoreType DEF StoreState
<1>2. store' = [store EXCEPT ![s] = r]
  BY DEF Typed
<1> HIDE DEF r
<1> QED BY <1>1, <1>2, Restored

LEMMA LRelease ==
  ASSUME LInv, NEW t \in Thread, _release_cached_store(t) PROVE LInv'
<1>0. call[t].at = "releasing" /\ call[t].store \in StoreId /\ GuardedAt(t)
  BY DEF LInv, GuardedAt, _release_cached_store, At, OnEntry, WithStore
<1>1. PICK s \in StoreId : s = call[t].store
  BY <1>0
<1>2. CASE store[call[t].store].leases = 0
  <2>1. PICK c \in CallState : Goes(t, c) /\ c.at = "dropping" /\ c.store = s
    BY <1>1, <1>2, Gone DEF LInv, _release_cached_store, Place, Acquiring
  <2>2. store' = [store EXCEPT ![s].open = FALSE]
    BY <1>1, <1>2 DEF _release_cached_store
  <2>3. /\ store' \in [StoreId -> StoreState]
        /\ \A q \in StoreId : store'[q].leases = store[q].leases
    BY <2>2, Shut DEF LInv
  <2>4. call' \in [Thread -> CallState] /\ call'[t] = c
    BY <2>1, Moves DEF LInv
  <2>5. Typed'
    BY <1>2, <2>3, <2>4 DEF LInv, Typed, _release_cached_store, locks
  <2>6. Leased'
    BY <2>1, <2>3, StillLeased DEF LInv
  <2>7. UNCHANGED <<cache, guard>>
    BY <1>2 DEF _release_cached_store
  <2>8. GuardedAt(t)'
    BY <1>0, <1>1, <2>1, <2>4, <2>7 DEF GuardedAt, Guarding, OnEntry, WithStore
  <2>9. Clients(s) = {}
    <3>1. Cardinality(Clients(s)) <= 0 /\ Cardinality(Clients(s)) \in Nat
      BY <1>1, <1>2, Finite DEF LInv, Leased
    <3> QED BY <3>1, Finite, FS_EmptySet
  <2> QED BY <2>1, <2>5, <2>6, <2>7, <2>8, <2>9, Kept
<1>3. CASE store[call[t].store].leases # 0
  <2>1. Dropped(t) /\ UNCHANGED <<store, modes, holds, writer, other, commits, mtime, calls>>
    BY <1>3 DEF _release_cached_store, locks
  <2>2. /\ store' \in [StoreId -> StoreState] /\ modes' \in Seq(BOOLEAN)
        /\ holds' \in [Thread -> Nat] /\ writer' \in Thread \cup {NoThread}
        /\ \A q \in StoreId : store'[q].leases = store[q].leases
    BY <2>1 DEF LInv, Typed
  <2> QED BY <1>0, <2>1, <2>2, LDropped
<1> QED BY <1>2, <1>3

\* One bind less on store s.
LEMMA Unbound ==
  ASSUME Typed, NEW s \in StoreId, store[s].binds # 0,
         store' = [store EXCEPT ![s].binds = @ - 1]
  PROVE  /\ store' \in [StoreId -> StoreState]
         /\ store'[s].binds = store[s].binds - 1
         /\ \A q \in StoreId \ {s} : store'[q].binds = store[q].binds
         /\ \A q \in StoreId : store'[q].leases = store[q].leases
<1> DEFINE r == [store[s] EXCEPT !.binds = @ - 1]
<1>1. r \in StoreState /\ r.leases = store[s].leases /\ r.binds = store[s].binds - 1
  BY StoreType DEF StoreState
<1>2. store' = [store EXCEPT ![s] = r]
  BY DEF Typed
<1> HIDE DEF r
<1> QED BY <1>1, <1>2, Restored

LEMMA LDropLocks ==
  ASSUME LInv, NEW t \in Thread, drop_store_read_locks(t) PROVE LInv'
<1>0. call[t].at = "dropping" /\ call[t].store \in StoreId
  BY DEF LInv, GuardedAt, drop_store_read_locks, At, OnEntry, WithStore
<1>1. PICK s \in StoreId : s = call[t].store
  BY <1>0
<1>2. UNCHANGED <<other, commits, mtime, calls>>
  BY DEF drop_store_read_locks
<1>3. CASE store[s].binds = 0
  <2>1. Dropped(t) /\ UNCHANGED <<store, modes, holds, writer>>
    BY <1>1, <1>3 DEF drop_store_read_locks, locks
  <2>2. /\ store' \in [StoreId -> StoreState] /\ modes' \in Seq(BOOLEAN)
        /\ holds' \in [Thread -> Nat] /\ writer' \in Thread \cup {NoThread}
        /\ \A q \in StoreId : store'[q].leases = store[q].leases
    BY <2>1 DEF LInv, Typed
  <2> QED BY <1>0, <1>2, <2>1, <2>2, LDropped
<1>4. CASE store[s].binds # 0
  <2>1. /\ store' = [store EXCEPT ![s].binds = @ - 1] /\ release_graph_lock(t)
        /\ Dropped(t) \/ UNCHANGED <<cache, guard, call>>
    BY <1>1, <1>4 DEF drop_store_read_locks
  <2>2. /\ store' \in [StoreId -> StoreState]
        /\ \A q \in StoreId : store'[q].leases = store[q].leases
    BY <1>4, <2>1, Unbound DEF LInv
  <2>3. /\ modes' \in Seq(BOOLEAN) /\ holds' \in [Thread -> Nat]
        /\ writer' \in Thread \cup {NoThread}
    BY <2>1, LockTypes DEF LInv
  <2>4. CASE Dropped(t)
    BY <1>0, <1>2, <2>2, <2>3, <2>4, LDropped
  <2>5. CASE UNCHANGED <<cache, guard, call>>
    <3>1. Typed'
      BY <1>2, <2>2, <2>3, <2>5 DEF LInv, Typed
    <3> QED BY <2>2, <2>5, <3>1 DEF LInv, Leased, GuardedAt, RaisedAt, DroppedAt, Clients
  <2> QED BY <2>1, <2>4, <2>5
<1> QED BY <1>3, <1>4

LEMMA LClose ==
  ASSUME LInv, NEW t \in Thread, close(t) PROVE LInv'
<1>0. call[t].at = "using" /\ call[t].store \in StoreId
  BY DEF LInv, GuardedAt, close, At, WithStore
<1>1. PICK s \in StoreId : s = call[t].store
  BY <1>0
<1>2. PICK c \in CallState : Goes(t, c) /\ c.at \in {"unbinding", "closing"} /\ c.store = s
  <2> DEFINE p == IF store[s].leases > 1 THEN "unbinding" ELSE "closing"
  <2>1. p \in Place /\ p \in {"unbinding", "closing"}
    BY DEF Place, Acquiring
  <2>2. Goto(t, p)
    BY <1>1 DEF close
  <2> HIDE DEF p
  <2> QED BY <1>1, <2>1, <2>2, Gone DEF LInv
<1>3. t \in Clients(s)
  BY <1>0, <1>1 DEF Clients
<1>4. IsFiniteSet(Clients(s)) /\ Cardinality(Clients(s)) \in Nat
      /\ Cardinality(Clients(s)) <= store[s].leases /\ store[s].leases \in Nat
  BY Finite, StoreType DEF LInv, Leased
<1>5. Cardinality(Clients(s) \ {t}) = Cardinality(Clients(s)) - 1 /\ Cardinality(Clients(s)) > 0
  BY <1>3, <1>4, Counted
<1> DEFINE r == [store[s] EXCEPT !.leases = store[s].leases - 1]
<1>6. store[s].leases > 0
  BY <1>4, <1>5
<1>7. r \in StoreState /\ r.leases = store[s].leases - 1
  BY <1>6, StoreType DEF LInv, StoreState
<1>8. store' = [store EXCEPT ![s] = r]
  BY <1>1, <1>6 DEF close, LInv, Typed
<1> HIDE DEF r
<1>9. /\ store' \in [StoreId -> StoreState] /\ store'[s] = r
      /\ \A q \in StoreId \ {s} : store'[q] = store[q]
  BY <1>7, <1>8, Restored DEF LInv
<1>10. call' \in [Thread -> CallState] /\ call'[t] = c /\ \A q : Clients(q)' = Clients(q) \ {t}
  BY <1>2, Moves DEF LInv
<1>11. Typed'
  BY <1>9, <1>10 DEF LInv, Typed, close, locks
<1>12. Leased'
  <2> SUFFICES ASSUME NEW q \in StoreId
               PROVE  Cardinality(Clients(q)') <= store'[q].leases
    BY DEF Leased
  <2>0. IsFiniteSet(Clients(q)) /\ Cardinality(Clients(q)) \in Nat
    BY Finite
  <2>1. CASE q = s
    <3>1. Clients(q)' = Clients(s) \ {t} /\ store'[q].leases = store[s].leases - 1
      BY <1>7, <1>9, <1>10, <2>1
    <3> QED BY <3>1, <1>4, <1>5
  <2>2. CASE q # s
    <3>1. Cardinality(Clients(q) \ {t}) <= Cardinality(Clients(q))
      BY <2>0, Counted
    <3>2. Cardinality(Clients(q)') \in Nat
      BY <1>10, <2>0, FS_RemoveElement, FS_CardinalityType
    <3>3. store'[q].leases = store[q].leases /\ store[q].leases \in Nat
          /\ Cardinality(Clients(q)) <= store[q].leases
      BY <1>9, <2>2, StoreType DEF LInv, Leased
    <3>4. Clients(q)' = Clients(q) \ {t}
      BY <1>10
    <3> QED BY <2>0, <3>1, <3>2, <3>3, <3>4
  <2> QED BY <2>1, <2>2
<1>13. GuardedAt(t)'
  BY <1>2, <1>10 DEF GuardedAt, Guarding, OnEntry, WithStore
<1> QED BY <1>2, <1>11, <1>12, <1>13, Kept DEF close

LEMMA LForceClose ==
  ASSUME LInv, NEW t \in Thread, _force_close(t) PROVE LInv'
<1>0. call[t].at = "closing" /\ call[t].store \in StoreId
  BY DEF LInv, GuardedAt, _force_close, At, WithStore
<1>1. PICK s \in StoreId : s = call[t].store
  BY <1>0
<1>2. PICK c \in CallState : Goes(t, c) /\ c.at = "unbinding" /\ c.store = s
  BY <1>1, Gone DEF LInv, _force_close, Place, Acquiring
<1>3. store' = [store EXCEPT ![s].open = FALSE]
  BY <1>1 DEF _force_close
<1>4. /\ store' \in [StoreId -> StoreState]
      /\ \A q \in StoreId : store'[q].leases = store[q].leases
  BY <1>3, Shut DEF LInv
<1>5. call' \in [Thread -> CallState] /\ call'[t] = c
  BY <1>2, Moves DEF LInv
<1>6. Typed'
  BY <1>4, <1>5 DEF LInv, Typed, _force_close, locks
<1>7. Leased'
  BY <1>2, <1>4, StillLeased DEF LInv
<1>8. GuardedAt(t)'
  BY <1>2, <1>5 DEF GuardedAt, Guarding, OnEntry, WithStore
<1> QED BY <1>2, <1>6, <1>7, <1>8, Kept DEF _force_close

LEMMA LUnbind ==
  ASSUME LInv, NEW t \in Thread, unbind_store_read_lock(t) PROVE LInv'
<1>0. call[t].at = "unbinding" /\ call[t].store \in StoreId
  BY DEF LInv, GuardedAt, unbind_store_read_lock, At, WithStore
<1>1. PICK s \in StoreId : s = call[t].store
  BY <1>0
<1>2. Goes(t, Idle) /\ UNCHANGED <<cache, guard, other, commits, mtime, calls>>
  BY DEF unbind_store_read_lock, Goes
<1>3. /\ store' \in [StoreId -> StoreState]
      /\ \A q \in StoreId : store'[q].leases = store[q].leases
      /\ modes' \in Seq(BOOLEAN) /\ holds' \in [Thread -> Nat]
      /\ writer' \in Thread \cup {NoThread}
  <2>1. CASE store[s].binds = 0
    <3>1. UNCHANGED <<store, modes, holds, writer>>
      BY <1>1, <2>1 DEF unbind_store_read_lock, locks
    <3> QED BY <3>1 DEF LInv, Typed
  <2>2. CASE store[s].binds # 0
    <3>1. store' = [store EXCEPT ![s].binds = @ - 1] /\ release_graph_lock(t)
      BY <1>1, <2>2 DEF unbind_store_read_lock
    <3> QED BY <2>2, <3>1, Unbound, LockTypes DEF LInv
  <2> QED BY <2>1, <2>2
<1>4. call' \in [Thread -> CallState] /\ call'[t] = Idle
  BY <1>2, IdleType, Moves DEF LInv
<1>5. Typed'
  BY <1>2, <1>3, <1>4 DEF LInv, Typed
<1>6. Leased'
  BY <1>2, <1>3, IdleType, StillLeased DEF LInv
<1>7. GuardedAt(t)'
  BY <1>4, IdleType DEF GuardedAt, Guarding, OnEntry, WithStore
<1> QED BY <1>2, <1>5, <1>6, <1>7, IdleType, Kept

LEMMA LWriteBegins ==
  ASSUME LInv, NEW t \in Thread, WriteBegins(t) PROVE LInv'
<1>1. PICK c \in CallState : Goes(t, c) /\ c.at = "writing"
  BY Gone DEF LInv, WriteBegins, Place, Acquiring
<1>2. call' \in [Thread -> CallState] /\ call'[t] = c
  BY <1>1, Moves DEF LInv
<1>3. Typed'
  <2>1. modes' \in Seq(BOOLEAN) /\ writer' \in Thread
    BY DEF WriteBegins, LInv, Typed
  <2>2. calls' \in [n : Nat, wrote : BOOLEAN, lost : BOOLEAN]
    <3>1. calls \in [n : Nat, wrote : BOOLEAN, lost : BOOLEAN]
      BY DEF LInv, Typed
    <3> QED BY <3>1 DEF WriteBegins
  <2> QED BY <1>2, <2>1, <2>2 DEF LInv, Typed, WriteBegins
<1>4. Leased'
  BY <1>1, StillLeased DEF LInv, WriteBegins, Typed
<1>5. GuardedAt(t)'
  BY <1>1, <1>2 DEF GuardedAt, Guarding, OnEntry, WithStore
<1> QED BY <1>1, <1>3, <1>4, <1>5, Kept DEF WriteBegins

LEMMA Committed ==
  ASSUME Typed, Commit PROVE commits' \in Nat /\ mtime' \in Nat
BY DEF Typed, Commit

LEMMA LWriteEnds ==
  ASSUME LInv, NEW t \in Thread, WriteEnds(t) PROVE LInv'
<1>1. Goes(t, Idle)
  BY DEF WriteEnds, Goes
<1>2. call' \in [Thread -> CallState] /\ call'[t] = Idle
  BY <1>1, IdleType, Moves DEF LInv
<1>3. Typed'
  <2>1. modes \in Seq(BOOLEAN) /\ modes' = Front(modes)
    BY DEF LInv, Typed, WriteEnds
  <2>2. modes' \in Seq(BOOLEAN)
    <3>1. CASE modes # <<>>
      BY <2>1, <3>1, Popped
    <3>2. CASE modes = <<>>
      <4>1. Front(modes) = <<>>
        BY <3>2 DEF Front, SubSeq
      <4> QED BY <2>1, <4>1
    <3> QED BY <3>1, <3>2
  <2>3. commits' \in Nat /\ mtime' \in Nat /\ writer' \in Thread \cup {NoThread}
    BY Committed DEF LInv, WriteEnds
  <2> QED BY <1>2, <2>2, <2>3 DEF LInv, Typed, WriteEnds
<1>4. Leased'
  BY <1>1, IdleType, StillLeased DEF LInv, WriteEnds, Typed
<1>5. GuardedAt(t)'
  BY <1>2, IdleType DEF GuardedAt, Guarding, OnEntry, WithStore
<1> QED BY <1>1, <1>3, <1>4, <1>5, IdleType, Kept DEF WriteEnds

LEMMA LOther ==
  ASSUME LInv, OtherBegins \/ OtherEnds PROVE LInv'
<1>1. UNCHANGED <<store, cache, guard, call>>
  BY DEF OtherBegins, OtherEnds
<1>2. Typed'
  <2>1. commits' \in Nat /\ mtime' \in Nat /\ other' \in BOOLEAN
    BY Committed DEF OtherBegins, OtherEnds, LInv, Typed
  <2> QED BY <1>1, <2>1 DEF LInv, Typed, OtherBegins, OtherEnds, locks
<1> QED BY <1>1, <1>2, LocksOnly

LEMMA LInit == Init => LInv
<1> SUFFICES ASSUME Init PROVE LInv
  OBVIOUS
<1>1. \A t \in Thread : call[t] = Idle
  BY DEF Init
<1>2. Typed
  <2>1. call \in [Thread -> CallState]
    BY IdleType DEF Init
  <2>2. store \in [StoreId -> StoreState]
    BY DEF Init, StoreState
  <2>3. calls \in [n : Nat, wrote : BOOLEAN, lost : BOOLEAN] /\ cache \in [store : StoreId \cup {None}, mtime : Nat]
    BY DEF Init, NoEntry
  <2>4. modes \in Seq(BOOLEAN) /\ holds \in [Thread -> Nat]
    BY DEF Init
  <2> QED BY <2>1, <2>2, <2>3, <2>4 DEF Init, Typed
<1>3. Leased
  <2> SUFFICES ASSUME NEW s \in StoreId PROVE Cardinality(Clients(s)) <= store[s].leases
    BY DEF Leased
  <2>1. Clients(s) = {}
    BY <1>1, IdleType DEF Clients
  <2>2. Cardinality(Clients(s)) = 0
    BY <2>1, FS_EmptySet
  <2> QED BY <2>2 DEF Init
<1> QED BY <1>1, <1>2, <1>3, IdleType
        DEF LInv, GuardedAt, RaisedAt, DroppedAt, Guarding, OnEntry, WithStore

LEMMA LStep == LInv /\ [Next]_vars => LInv'
<1> SUFFICES ASSUME LInv, [Next]_vars PROVE LInv'
  OBVIOUS
<1>1. CASE UNCHANGED vars
  <2>1. Typed'
    BY <1>1 DEF LInv, Typed, vars
  <2> QED BY <1>1, <2>1, LocksOnly DEF vars
<1>2. ASSUME NEW t \in Thread, GetStore(t) PROVE LInv'
  BY <1>2, LGetStore
<1>3. ASSUME NEW t \in Thread, _evict_store_cache(t) PROVE LInv'
  BY <1>3, LEvict
<1>4. ASSUME NEW t \in Thread, Step(t) PROVE LInv'
  BY <1>4, LLock, LFlockLookup, LFlockWait, LFlockPublish, LLockTimesOut, LOpenRaises,
     LGiveBack, LLookup, LLeaseRead, LLeaseRaise, LFresh, LBind, LRelease,
     LDropLocks, LClose, LForceClose, LUnbind, LWriteEnds DEF Step
<1>5. ASSUME NEW t \in Writer, WriteBegins(t) PROVE LInv'
  BY <1>5, LWriteBegins, StoreAssumption
<1>6. CASE OtherBegins \/ OtherEnds
  BY <1>6, LOther
<1> QED BY <1>1, <1>2, <1>3, <1>4, <1>5, <1>6 DEF Next

\* Every call that works on a store has a lease of its own in the count, whatever the
\* interleaving of _leases += 1, of close and of eviction (tools/_common.py, the native
\* GraphStore): _release_cached_store never closes the connection of a store in use.
THEOREM LeasesCount == Spec => []LeasesCover
<1>1. LInv => LeasesCover
  <2> SUFFICES ASSUME LInv, NEW s \in StoreId PROVE Cardinality(Users(s)) <= store[s].leases
    BY DEF LeasesCover
  <2>1. Users(s) \subseteq Clients(s) /\ IsFiniteSet(Clients(s))
    BY Finite DEF Users, Clients, At
  <2>2. Cardinality(Users(s)) <= Cardinality(Clients(s)) /\ Cardinality(Users(s)) \in Nat
        /\ Cardinality(Clients(s)) \in Nat
    BY <2>1, FS_Subset, FS_CardinalityType
  <2>3. Cardinality(Clients(s)) <= store[s].leases /\ store[s].leases \in Nat
    BY StoreType DEF LInv, Leased
  <2> QED BY <2>2, <2>3
<1> QED BY <1>1, LInit, LStep, PTL DEF Spec

-----------------------------------------------------------------------------
(* The shared locks of a process that only reads *)

LEMMA BoundSame ==
  ASSUME \A q \in StoreId : store'[q].binds = store[q].binds PROVE Bound' = Bound
BY DEF Bound

LEMMA BoundPairs == \A s, i : <<s, i>> \in Bound <=> s \in StoreId /\ i \in 1..store[s].binds
BY DEF Bound

LEMMA BoundSet == \A p \in Bound : \E s \in StoreId : \E i \in 1..store[s].binds : p = <<s, i>>
BY DEF Bound

LEMMA SamePairs ==
  ASSUME NEW A, NEW B, \A p \in A : \E q, i : p = <<q, i>>, \A p \in B : \E q, i : p = <<q, i>>,
         \A q, i : <<q, i>> \in A <=> <<q, i>> \in B
  PROVE  A = B
<1>1. ASSUME NEW p \in A PROVE p \in B
  <2>1. PICK q, i : p = <<q, i>>
    OBVIOUS
  <2> QED BY <2>1
<1>2. ASSUME NEW p \in B PROVE p \in A
  <2>1. PICK q, i : p = <<q, i>>
    OBVIOUS
  <2> QED BY <2>1
<1> QED BY <1>1, <1>2

LEMMA BoundMore ==
  ASSUME Typed, Typed', NEW s \in StoreId, NEW n, n = store[s].binds + 1, store'[s].binds = n,
         \A q \in StoreId \ {s} : store'[q].binds = store[q].binds
  PROVE  Bound' = Bound \cup {<<s, n>>} /\ <<s, n>> \notin Bound
<1>1. store[s].binds \in Nat
  BY StoreType
<1>2. <<s, n>> \notin Bound
  BY <1>1, BoundPairs
<1>3. ASSUME NEW q, NEW i PROVE <<q, i>> \in Bound' <=> <<q, i>> \in Bound \cup {<<s, n>>}
  <2>1. <<q, i>> \in Bound' <=> q \in StoreId /\ i \in 1..store'[q].binds
    BY DEF Bound
  <2>2. <<q, i>> \in Bound <=> q \in StoreId /\ i \in 1..store[q].binds
    BY BoundPairs
  <2>3. CASE q = s
    <3>1. i \in 1..n <=> i \in 1..store[s].binds \/ i = n
      BY <1>1
    <3> QED BY <2>1, <2>2, <2>3, <3>1
  <2>4. CASE q # s
    BY <2>1, <2>2, <2>4
  <2> QED BY <2>3, <2>4
<1>4. \A p \in Bound' : \E q, i : p = <<q, i>>
  BY DEF Bound
<1>5. \A p \in Bound \cup {<<s, n>>} : \E q, i : p = <<q, i>>
  BY BoundSet
<1>6. Bound' = Bound \cup {<<s, n>>}
  BY <1>3, <1>4, <1>5, SamePairs
<1> QED BY <1>2, <1>6

LEMMA BoundLess ==
  ASSUME Typed, Typed', NEW s \in StoreId, NEW n, n = store[s].binds, n # 0,
         store'[s].binds = n - 1,
         \A q \in StoreId \ {s} : store'[q].binds = store[q].binds
  PROVE  Bound' = Bound \ {<<s, n>>} /\ <<s, n>> \in Bound
<1>1. n \in Nat
  BY StoreType
<1>2. <<s, n>> \in Bound
  BY <1>1, BoundPairs
<1>3. ASSUME NEW q, NEW i PROVE <<q, i>> \in Bound' <=> <<q, i>> \in Bound \ {<<s, n>>}
  <2>1. <<q, i>> \in Bound' <=> q \in StoreId /\ i \in 1..store'[q].binds
    BY DEF Bound
  <2>2. <<q, i>> \in Bound <=> q \in StoreId /\ i \in 1..store[q].binds
    BY BoundPairs
  <2>3. CASE q = s
    <3>1. i \in 1..(n - 1) <=> i \in 1..n /\ i # n
      BY <1>1
    <3> QED BY <2>1, <2>2, <2>3, <3>1
  <2>4. CASE q # s
    BY <2>1, <2>2, <2>4
  <2> QED BY <2>3, <2>4
<1>4. \A p \in Bound' : \E q, i : p = <<q, i>>
  BY DEF Bound
<1>5. \A p \in Bound \ {<<s, n>>} : \E q, i : p = <<q, i>>
  BY BoundSet
<1>6. Bound' = Bound \ {<<s, n>>}
  BY <1>3, <1>4, <1>5, SamePairs
<1> QED BY <1>2, <1>6

RInv == Reading /\ Tallied /\ Covered

\* The thread's own ownership is all that a step can change of Reading.
LEMMA StillReading ==
  ASSUME Typed, Reading, NEW t \in Thread, NEW c \in CallState, Goes(t, c),
         modes' \in Seq({FALSE}), other' => modes' = <<>>, other' = other, OwnsAt(t)'
  PROVE  Reading'
<1>1. \A u \in Thread \ {t} : call'[u] = call[u]
  BY Moves
<1>2. ASSUME NEW u \in Thread PROVE OwnsAt(u)'
  <2>1. CASE u = t
    BY <2>1
  <2>2. CASE u # t
    <3>1. call'[u] = call[u] /\ OwnsAt(u)
      BY <1>1, <2>2 DEF Reading
    <3> QED BY <3>1 DEF OwnsAt
  <2> QED BY <2>1, <2>2
<1> QED BY <1>2 DEF Reading

\* The tally stays, or both sides change by one.
LEMMA TallySame ==
  ASSUME Tallied, Bound' = Bound, Owing' = Owing, modes' = modes
  PROVE  Tallied'
BY DEF Tallied

LEMMA TallyPopped ==
  ASSUME Tallied, modes \in Seq({FALSE}), NEW x \in Bound, Bound' = Bound \ {x}, Owing' = Owing,
         NEW t, release_graph_lock(t)
  PROVE  Tallied' /\ modes' \in Seq({FALSE}) /\ modes # <<>>
<1>1. IsFiniteSet(Bound) /\ Cardinality(Owing) + Cardinality(Bound) = Len(modes)
  BY DEF Tallied
<1>2. /\ IsFiniteSet(Bound \ {x}) /\ Cardinality(Bound) \in Nat
      /\ Cardinality(Bound \ {x}) = Cardinality(Bound) - 1 /\ Cardinality(Bound) > 0
  BY <1>1, Counted
<1>3. Cardinality(Owing) \in Nat
  BY Finite
<1>4. Len(modes) # 0 /\ Len(modes) \in Nat
  BY <1>1, <1>2, <1>3
<1>5. modes # <<>>
  BY <1>4
<1>6. modes' \in Seq({FALSE}) /\ Len(modes') = Len(modes) - 1
  BY <1>5, Popped DEF release_graph_lock
<1>7. IsFiniteSet(Bound') /\ Cardinality(Owing') + Cardinality(Bound') = Len(modes')
  <2>1. Cardinality(Owing') = Cardinality(Owing) /\ Cardinality(Bound') = Cardinality(Bound) - 1
    BY <1>2
  <2>2. IsFiniteSet(Bound')
    BY <1>2
  <2> QED BY <2>1, <2>2, <1>1, <1>2, <1>3, <1>4, <1>6
<1>8. Tallied'
  BY <1>7 DEF Tallied
<1> QED BY <1>5, <1>6, <1>8

\* A store nobody is given any more stays so; one that is covered stays covered.
LEMMA StillCovered ==
  ASSUME Typed, NEW t \in Thread, NEW c \in CallState, Goes(t, c), NEW s \in StoreId,
         Dead(s) \/ Cardinality(Binders(s)) <= store[s].binds,
         c.at \in {"binding", "using"} /\ c.store = s
           => call[t].at \in {"binding", "using"} /\ call[t].store = s,
         c.at \in Late /\ c.store = s => call[t].at \in Late /\ call[t].store = s,
         store'[s].binds = store[s].binds,
         \/ cache' = cache /\ (call[t].at = "dropping" => c.at = "dropping")
         \/ cache'.store # s
  PROVE  Dead(s)' \/ Cardinality(Binders(s)') <= store'[s].binds
<1>0. call'[t] = c /\ \A u \in Thread \ {t} : call'[u] = call[u]
  BY Moves
<1>1. CASE Dead(s)
  <2>1. Clients(s)' \subseteq Clients(s)
    <3>1. CASE c.at \in {"binding", "using"} /\ c.store = s
      <4>1. Clients(s)' = Clients(s) \cup {t} /\ t \in Clients(s)
        BY <3>1, Moves DEF Clients
      <4> QED BY <4>1
    <3>2. CASE ~(c.at \in {"binding", "using"} /\ c.store = s)
      <4>1. Clients(s)' = Clients(s) \ {t}
        BY <3>2, Moves
      <4> QED BY <4>1
    <3> QED BY <3>1, <3>2
  <2>2. Clients(s)' = {}
    BY <1>1, <2>1 DEF Dead
  <2>3. s = cache'.store => \E u \in Thread : call'[u].at = "dropping"
    <3>1. SUFFICES ASSUME s = cache'.store PROVE \E u \in Thread : call'[u].at = "dropping"
      OBVIOUS
    <3>2. cache' = cache /\ (call[t].at = "dropping" => c.at = "dropping")
      BY <3>1
    <3>3. PICK u \in Thread : call[u].at = "dropping"
      BY <1>1, <3>1, <3>2 DEF Dead
    <3>4. call'[u].at = "dropping"
      BY <1>0, <3>2, <3>3
    <3> QED BY <3>4
  <2> QED BY <2>2, <2>3 DEF Dead
<1>2. CASE Cardinality(Binders(s)) <= store[s].binds
  <2>1. Binders(s)' \subseteq Binders(s)
    <3>1. CASE c.at \in Late /\ c.store = s
      <4>1. Binders(s)' = Binders(s) \cup {t} /\ t \in Binders(s)
        BY <3>1, Moves DEF Binders
      <4> QED BY <4>1
    <3>2. CASE ~(c.at \in Late /\ c.store = s)
      <4>1. Binders(s)' = Binders(s) \ {t}
        BY <3>2, Moves
      <4> QED BY <4>1
    <3> QED BY <3>1, <3>2
  <2>2. Cardinality(Binders(s)') <= Cardinality(Binders(s))
        /\ Cardinality(Binders(s)') \in Nat /\ Cardinality(Binders(s)) \in Nat
    BY <2>1, Finite, FS_Subset, FS_CardinalityType
  <2>3. store[s].binds \in Nat
    BY StoreType
  <2> QED BY <1>2, <2>2, <2>3
<1> QED BY <1>1, <1>2

LEMMA AllCovered ==
  ASSUME Typed, Covered, NEW t \in Thread, NEW c \in CallState, Goes(t, c),
         c.at \in {"binding", "using"}
           => call[t].at \in {"binding", "using"} /\ c.store = call[t].store,
         c.at \in Late => call[t].at \in Late /\ c.store = call[t].store,
         \A s \in StoreId : store'[s].binds = store[s].binds,
         \/ cache' = cache /\ (call[t].at = "dropping" => c.at = "dropping")
         \/ cache' = NoEntry
  PROVE  Covered'
<1> SUFFICES ASSUME NEW s \in StoreId
             PROVE  Dead(s)' \/ Cardinality(Binders(s)') <= store'[s].binds
  BY DEF Covered
<1>1. Dead(s) \/ Cardinality(Binders(s)) <= store[s].binds
  BY DEF Covered
<1>2. NoEntry.store # s
  BY DEF NoEntry, None, StoreId
<1>3. \/ cache' = cache /\ (call[t].at = "dropping" => c.at = "dropping")
      \/ cache'.store # s
  BY <1>2
<1>4. c.at \in {"binding", "using"} /\ c.store = s
           => call[t].at \in {"binding", "using"} /\ call[t].store = s
  OBVIOUS
<1>5. c.at \in Late /\ c.store = s => call[t].at \in Late /\ call[t].store = s
  OBVIOUS
<1> QED BY <1>1, <1>3, <1>4, <1>5, StillCovered

LEMMA OwingSame ==
  ASSUME Typed, NEW t \in Thread, NEW c \in CallState, Goes(t, c),
         (c.at \in Early /\ c.owns) <=> (call[t].at \in Early /\ call[t].owns)
  PROVE  Owing' = Owing
<1>1. CASE c.at \in Early /\ c.owns
  <2>1. Owing' = Owing \cup {t}
    BY <1>1, Moves
  <2>2. t \in Owing
    BY <1>1 DEF Owing
  <2> QED BY <2>1, <2>2
<1>2. CASE ~(c.at \in Early /\ c.owns)
  <2>1. Owing' = Owing \ {t}
    BY <1>2, Moves
  <2>2. t \notin Owing
    BY <1>2 DEF Owing
  <2> QED BY <2>1, <2>2
<1> QED BY <1>1, <1>2

\* A step that takes, binds and gives back no lock.
LEMMA Quiet ==
  ASSUME LInv, RInv, NEW t \in Thread, NEW c \in CallState, Goes(t, c),
         OwnsAt(t)', UNCHANGED <<modes, other>>,
         \A s \in StoreId : store'[s].binds = store[s].binds,
         (c.at \in Early /\ c.owns) <=> (call[t].at \in Early /\ call[t].owns),
         c.at \in {"binding", "using"}
           => call[t].at \in {"binding", "using"} /\ c.store = call[t].store,
         c.at \in Late => call[t].at \in Late /\ c.store = call[t].store,
         \/ cache' = cache /\ (call[t].at = "dropping" => c.at = "dropping")
         \/ cache' = NoEntry
  PROVE  RInv'
<1>1. Typed /\ Reading /\ Tallied /\ Covered
  BY DEF LInv, RInv
<1>2. Reading'
  BY <1>1, StillReading DEF Reading
<1>3. Bound' = Bound
  BY BoundSame
<1>4. Owing' = Owing
  BY <1>1, OwingSame
<1>5. Tallied'
  BY <1>1, <1>3, <1>4, TallySame
<1>6. Covered'
  BY <1>1, AllCovered
<1> QED BY <1>2, <1>5, <1>6 DEF RInv

LEMMA RGetStore ==
  ASSUME LInv, RInv, NEW t \in Thread, GetStore(t) PROVE RInv'
<1>0. ~write_lock_is_held
  <2>1. modes \in Seq({FALSE})
    BY DEF RInv, Reading
  <2>2. \A j \in DOMAIN modes : modes[j] \in {FALSE}
    BY <2>1, ElementOfSeq, LenProperties
  <2> QED BY <2>2, Zenon DEF write_lock_is_held
<1> DEFINE c == [Idle EXCEPT !.at = "locking", !.owns = TRUE]
<1>1. c \in CallState /\ c.at = "locking" /\ c.owns = TRUE
  BY DEF Idle, CallState, Place, Acquiring, None
<1>2. Goes(t, c) /\ call[t].at = "idle"
  BY <1>0 DEF GetStore, Goes, Enter, At
<1> HIDE DEF c
<1>3. OwnsAt(t)'
  <2>1. call'[t] = c
    BY <1>1, <1>2, Moves DEF LInv
  <2> QED BY <2>1, <1>1 DEF OwnsAt
<1>4. UNCHANGED <<store, cache, modes, other>>
  BY DEF GetStore, locks
<1>5. c.at \notin Early /\ call[t].at \notin Early /\ c.at \notin Late
  BY <1>1, <1>2 DEF Early, Late
<1>6. \A s \in StoreId : store'[s].binds = store[s].binds
  BY <1>4
<1> QED BY <1>1, <1>2, <1>3, <1>4, <1>5, <1>6, Quiet

LEMMA RLockTimesOut ==
  ASSUME LInv, RInv, NEW t \in Thread, LockTimesOut(t) PROVE RInv'
<1>1. Goes(t, Idle) /\ call[t].at \in {"locking", "waiting"}
  BY DEF LockTimesOut, Goes, At
<1>2. OwnsAt(t)'
  <2>1. call'[t] = Idle
    BY <1>1, IdleType, Moves DEF LInv
  <2> QED BY <2>1, IdleType DEF OwnsAt, Acquiring, Early, Late
<1>3. UNCHANGED <<store, cache, modes, other>>
  BY DEF LockTimesOut
<1>4. Idle.at \notin Early /\ call[t].at \notin Early /\ Idle.at \notin Late
      /\ Idle.at \notin {"binding", "using"} /\ call[t].at # "dropping"
  BY <1>1, IdleType DEF Early, Late
<1>5. \A s \in StoreId : store'[s].binds = store[s].binds
  BY <1>3
<1> QED BY <1>1, <1>2, <1>3, <1>4, <1>5, IdleType, Quiet

\* On the way to the flock nothing is registered.
LEMMA RAcquires ==
  ASSUME LInv, RInv, NEW t \in Thread, NEW c \in CallState, Goes(t, c),
         call[t].at \in Acquiring, c.at \in Acquiring, c.owns = call[t].owns,
         c.at = "publishing" => ~other, UNCHANGED <<store, cache, modes, other>>
  PROVE  RInv'
<1>1. call[t].owns
  BY DEF RInv, Reading, OwnsAt, Acquiring
<1>2. call'[t] = c
  BY Moves DEF LInv
<1>3. OwnsAt(t)'
  BY <1>1, <1>2 DEF OwnsAt, Acquiring
<1>4. /\ c.at \notin Early /\ call[t].at \notin Early /\ c.at \notin Late
      /\ c.at \notin {"binding", "using"} /\ call[t].at # "dropping"
  BY DEF Acquiring, Early, Late
<1>5. \A s \in StoreId : store'[s].binds = store[s].binds
  OBVIOUS
<1> QED BY <1>3, <1>4, <1>5, Quiet

LEMMA RLock ==
  ASSUME LInv, RInv, NEW t \in Thread, Lock(t) PROVE RInv'
<1>1. PICK c \in CallState : Goes(t, c) /\ c.at = "flocking" /\ c.owns = call[t].owns
  BY Gone DEF LInv, Lock, Place, Acquiring
<1>2. call[t].at \in Acquiring /\ c.at \in Acquiring /\ UNCHANGED <<store, cache, modes, other>>
  BY <1>1 DEF Lock, At, Acquiring
<1> QED BY <1>1, <1>2, RAcquires

LEMMA RFlockWait ==
  ASSUME LInv, RInv, NEW t \in Thread, FlockWait(t) PROVE RInv'
<1>1. PICK c \in CallState : Goes(t, c) /\ c.at = "publishing" /\ c.owns = call[t].owns
  BY Gone DEF LInv, FlockWait, Place, Acquiring
<1>2. call[t].at \in Acquiring /\ c.at \in Acquiring /\ UNCHANGED <<store, cache, modes, other>>
      /\ ~other
  BY <1>1 DEF FlockWait, At, Acquiring, locks
<1> QED BY <1>1, <1>2, RAcquires

\* The shared lock is registered: the call owes its release.
LEMMA RRegisters ==
  ASSUME LInv, RInv, NEW t \in Thread, Goto(t, "opening"),
         call[t].at \in {"flocking", "publishing"}, modes' = Append(modes, FALSE),
         ~other, UNCHANGED <<store, cache, other>>
  PROVE  RInv'
<1>1. PICK c \in CallState : Goes(t, c) /\ c.at = "opening" /\ c.owns = call[t].owns
  BY Gone DEF LInv, Place
<1>2. call[t].owns
  BY DEF RInv, Reading, OwnsAt, Acquiring
<1>3. modes \in Seq({FALSE})
  BY DEF RInv, Reading
<1>4. modes' \in Seq({FALSE}) /\ Len(modes') = Len(modes) + 1 /\ Len(modes) \in Nat
  BY <1>3
<1>5. Reading'
  <2>1. OwnsAt(t)'
    <3>1. call'[t] = c
      BY <1>1, Moves DEF LInv
    <3> QED BY <3>1, <1>1, <1>2 DEF OwnsAt
  <2> QED BY <1>1, <1>3, <1>4, <2>1, StillReading DEF RInv, LInv
<1>6. Tallied'
  <2>1. Owing' = Owing \cup {t}
    BY <1>1, <1>2, Moves DEF LInv, Early
  <2>2. t \notin Owing
    BY DEF Owing, Early
  <2>3. Bound' = Bound
    BY BoundSame
  <2>4. Cardinality(Owing \cup {t}) = Cardinality(Owing) + 1 /\ Cardinality(Owing) \in Nat
    BY <2>2, Finite, Counted
  <2>5. IsFiniteSet(Bound) /\ Cardinality(Owing) + Cardinality(Bound) = Len(modes)
        /\ Cardinality(Bound) \in Nat
    BY FS_CardinalityType DEF RInv, Tallied
  <2>6. Cardinality(Owing') = Cardinality(Owing) + 1 /\ Cardinality(Bound') = Cardinality(Bound)
        /\ IsFiniteSet(Bound')
    BY <2>1, <2>3, <2>4, <2>5
  <2>7. Cardinality(Owing') + Cardinality(Bound') = Len(modes')
    BY <2>4, <2>5, <2>6, <1>4
  <2> QED BY <2>6, <2>7 DEF Tallied
<1>7. Covered'
  <2>1. c.at \notin Late /\ c.at \notin {"binding", "using"} /\ call[t].at # "dropping"
    BY <1>1 DEF Late
  <2>2. \A s \in StoreId : store'[s].binds = store[s].binds
    OBVIOUS
  <2> QED BY <1>1, <2>1, <2>2, AllCovered DEF LInv, RInv
<1> QED BY <1>5, <1>6, <1>7 DEF RInv

LEMMA RFlockLookup ==
  ASSUME LInv, RInv, NEW t \in Thread, FlockLookup(t) PROVE RInv'
<1>1. call[t].at = "flocking" /\ UNCHANGED <<store, cache, other>>
  BY DEF FlockLookup, At
<1>2. CASE modes = <<>>
  <2>1. Goto(t, "waiting") /\ modes' = modes
    BY <1>2 DEF FlockLookup
  <2>2. PICK c \in CallState : Goes(t, c) /\ c.at = "waiting" /\ c.owns = call[t].owns
    BY <2>1, Gone DEF LInv, Place, Acquiring
  <2>3. call[t].at \in Acquiring /\ c.at \in Acquiring /\ c.at # "publishing"
    BY <1>1, <2>2 DEF Acquiring
  <2> QED BY <1>1, <2>1, <2>2, <2>3, RAcquires
<1>3. CASE modes # <<>>
  <2>1. Goto(t, "opening") /\ modes' = Append(modes, FALSE) /\ ~other
    BY <1>3 DEF FlockLookup, RInv, Reading
  <2> QED BY <1>1, <2>1, RRegisters
<1> QED BY <1>2, <1>3

LEMMA RFlockPublish ==
  ASSUME LInv, RInv, NEW t \in Thread, FlockPublish(t), modes = <<>> PROVE RInv'
<1>1. call[t].at = "publishing" /\ Goto(t, "opening") /\ UNCHANGED <<store, cache, other>>
  BY DEF FlockPublish, At
<1>2. modes' = Append(modes, FALSE)
  BY DEF FlockPublish
<1>3. ~other
  BY <1>1 DEF RInv, Reading, OwnsAt
<1> QED BY <1>1, <1>2, <1>3, RRegisters

LEMMA RLookup ==
  ASSUME LInv, RInv, NEW t \in Thread, Lookup(t) PROVE RInv'
<1>1. PICK c \in CallState :
           /\ Goes(t, c) /\ c.at \in {"reading", "releasing", "fresh"}
           /\ c.then = "fresh" /\ c.owns = call[t].owns
  BY Looked DEF LInv
<1>2. call[t].at = "opening" /\ call[t].owns
  BY DEF Lookup, At, RInv, Reading, OwnsAt, Early
<1>3. OwnsAt(t)'
  <2>1. call'[t] = c
    BY <1>1, Moves DEF LInv
  <2> QED BY <2>1, <1>1, <1>2 DEF OwnsAt
<1>4. UNCHANGED <<store, cache, modes, other>>
  BY DEF Lookup, locks
<1>5. c.at \in Early /\ call[t].at \in Early /\ c.at \notin Late /\ c.at \notin {"binding", "using"}
  BY <1>1, <1>2 DEF Early, Late
<1>6. \A s \in StoreId : store'[s].binds = store[s].binds
  BY <1>4
<1> QED BY <1>1, <1>2, <1>3, <1>4, <1>5, <1>6, Quiet

LEMMA RLeaseRead ==
  ASSUME LInv, RInv, NEW t \in Thread, LeaseRead(t) PROVE RInv'
<1> DEFINE s == call[t].store
           c == [call[t] EXCEPT !.at = "raising", !.seen = store[s].leases]
<1>0. s \in StoreId
  BY DEF LInv, GuardedAt, LeaseRead, At, OnEntry, WithStore
<1>1. c \in CallState /\ c.at = "raising" /\ c.owns = call[t].owns
  BY <1>0, AtType, StoreType DEF LInv, CallState, Place, Acquiring
<1>2. Goes(t, c)
  BY DEF LeaseRead, Goes, LInv, Typed
<1> HIDE DEF c
<1>3. call[t].at = "reading" /\ call[t].owns
  BY DEF LeaseRead, At, RInv, Reading, OwnsAt, Early
<1>4. OwnsAt(t)'
  <2>1. call'[t] = c
    BY <1>1, <1>2, Moves DEF LInv
  <2> QED BY <2>1, <1>1, <1>3 DEF OwnsAt
<1>5. UNCHANGED <<store, cache, modes, other>>
  BY DEF LeaseRead, locks
<1>6. c.at \in Early /\ call[t].at \in Early /\ c.at \notin Late
  BY <1>1, <1>3 DEF Early, Late
<1>7. \A q \in StoreId : store'[q].binds = store[q].binds
  BY <1>5
<1> QED BY <1>1, <1>2, <1>3, <1>4, <1>5, <1>6, <1>7, Quiet

LEMMA REvict ==
  ASSUME LInv, RInv, NEW t \in Thread, _evict_store_cache(t) PROVE RInv'
<1> DEFINE c == [Idle EXCEPT !.at = "releasing", !.store = cache.store]
<1>0. cache.store \in StoreId
  BY DEF LInv, Typed, _evict_store_cache
<1>1. c \in CallState /\ c.at = "releasing" /\ c.owns = FALSE /\ c.then = "idle"
  BY <1>0 DEF Idle, CallState, Place, Acquiring, None
<1>2. Goes(t, c) /\ call[t].at = "idle"
  BY DEF _evict_store_cache, Goes, Enter, At
<1> HIDE DEF c
<1>3. OwnsAt(t)'
  <2>1. call'[t] = c
    BY <1>1, <1>2, Moves DEF LInv
  <2> QED BY <2>1, <1>1 DEF OwnsAt
<1>4. UNCHANGED <<store, cache, modes, other>>
  BY DEF _evict_store_cache, locks
<1>5. call[t].at \notin Early /\ c.at \notin Late
  BY <1>1, <1>2 DEF Early, Late
<1>6. \A q \in StoreId : store'[q].binds = store[q].binds
  BY <1>4
<1> QED BY <1>1, <1>2, <1>3, <1>4, <1>5, <1>6, Quiet

LEMMA RDropped ==
  ASSUME LInv, RInv, NEW t \in Thread, call[t].at \in {"releasing", "dropping"}, Dropped(t)
  PROVE  \E c \in CallState :
           /\ Goes(t, c) /\ OwnsAt(t)' /\ cache' = NoEntry /\ c.at \in {"idle", "fresh"}
           /\ (c.at \in Early /\ c.owns) <=> (call[t].at \in Early /\ call[t].owns)
<1>1. PICK c \in CallState :
           /\ Goes(t, c)
           /\ IF call[t].then = "idle" THEN c = Idle ELSE c.at = "fresh" /\ c.owns = call[t].owns
           /\ cache' = NoEntry
  BY DropShape
<1>2. call[t].owns <=> call[t].then = "fresh"
  BY DEF RInv, Reading, OwnsAt
<1>3. call[t].then \in {"idle", "fresh"} /\ call[t].at \in Early
  BY AtType DEF LInv, Early
<1>4. call'[t] = c
  BY <1>1, Moves DEF LInv
<1>5. CASE call[t].then = "idle"
  <2>1. c = Idle /\ ~call[t].owns
    BY <1>1, <1>2, <1>5
  <2>2. c.at = "idle" /\ c.at \notin Early
    BY <2>1, IdleType DEF Early
  <2>3. OwnsAt(t)'
    BY <1>4, <2>2 DEF OwnsAt, Acquiring, Early, Late
  <2> QED BY <1>1, <2>1, <2>2, <2>3
<1>6. CASE call[t].then = "fresh"
  <2>1. c.at = "fresh" /\ c.owns = call[t].owns /\ call[t].owns
    BY <1>1, <1>2, <1>6
  <2>2. OwnsAt(t)' /\ c.at \in Early
    BY <1>4, <2>1 DEF OwnsAt, Early
  <2> QED BY <1>1, <1>3, <2>1, <2>2
<1> QED BY <1>3, <1>5, <1>6

LEMMA RRelease ==
  ASSUME LInv, RInv, NEW t \in Thread, _release_cached_store(t) PROVE RInv'
<1>0. call[t].at = "releasing" /\ call[t].store \in StoreId
  BY DEF LInv, GuardedAt, _release_cached_store, At, OnEntry, WithStore
<1>1. PICK s \in StoreId : s = call[t].store
  BY <1>0
<1>2. UNCHANGED <<modes, other>>
  BY DEF _release_cached_store, locks
<1>3. CASE store[call[t].store].leases = 0
  <2>1. PICK c \in CallState : /\ Goes(t, c) /\ c.at = "dropping"
                               /\ c.owns = call[t].owns /\ c.then = call[t].then
    BY <1>3, Gone DEF LInv, _release_cached_store, Place, Acquiring
  <2>2. store' = [store EXCEPT ![s].open = FALSE]
    BY <1>1, <1>3 DEF _release_cached_store
  <2>3. \A q \in StoreId : store'[q].binds = store[q].binds
    BY <2>2, Shut DEF LInv
  <2>4. OwnsAt(t)'
    <3>1. call'[t] = c
      BY <2>1, Moves DEF LInv
    <3>2. call[t].owns <=> call[t].then = "fresh"
      BY <1>0 DEF RInv, Reading, OwnsAt
    <3> QED BY <3>1, <3>2, <2>1 DEF OwnsAt
  <2>5. cache' = cache
    BY <1>3 DEF _release_cached_store
  <2>6. c.at \in Early /\ call[t].at \in Early /\ c.at \notin Late
    BY <2>1, <1>0 DEF Early, Late
  <2> QED BY <1>0, <1>2, <2>1, <2>3, <2>4, <2>5, <2>6, Quiet
<1>4. CASE store[call[t].store].leases # 0
  <2>1. Dropped(t) /\ store' = store
    BY <1>4 DEF _release_cached_store
  <2>2. PICK c \in CallState :
           /\ Goes(t, c) /\ OwnsAt(t)' /\ cache' = NoEntry /\ c.at \in {"idle", "fresh"}
           /\ (c.at \in Early /\ c.owns) <=> (call[t].at \in Early /\ call[t].owns)
    BY <1>0, <2>1, RDropped
  <2>3. \A q \in StoreId : store'[q].binds = store[q].binds
    BY <2>1
  <2>4. c.at \notin Late /\ c.at \notin {"binding", "using"}
    BY <2>2 DEF Late
  <2> QED BY <1>2, <2>2, <2>3, <2>4, Quiet
<1> QED BY <1>3, <1>4

LEMMA RClose ==
  ASSUME LInv, RInv, NEW t \in Thread, close(t) PROVE RInv'
<1>0. call[t].at = "using" /\ call[t].store \in StoreId /\ call[t].owns
  BY DEF LInv, GuardedAt, close, At, WithStore, RInv, Reading, OwnsAt, Late
<1>1. PICK s \in StoreId : s = call[t].store
  BY <1>0
<1>2. PICK c \in CallState : /\ Goes(t, c) /\ c.at \in {"unbinding", "closing"}
                             /\ c.store = call[t].store /\ c.owns = call[t].owns
  <2> DEFINE p == IF store[s].leases > 1 THEN "unbinding" ELSE "closing"
  <2>1. p \in Place /\ p \in {"unbinding", "closing"}
    BY DEF Place, Acquiring
  <2>2. Goto(t, p)
    BY <1>1 DEF close
  <2> HIDE DEF p
  <2> QED BY <1>1, <2>1, <2>2, Gone DEF LInv
<1> DEFINE k == IF store[s].leases > 0 THEN store[s].leases - 1 ELSE 0
           r == [store[s] EXCEPT !.leases = k]
<1>3. k \in Nat
  BY StoreType DEF LInv
<1>4. store' = [store EXCEPT ![s] = r]
  BY <1>1 DEF close, LInv, Typed
<1> HIDE DEF k
<1>5. r \in StoreState /\ r.binds = store[s].binds
  BY <1>3, StoreType DEF LInv, StoreState
<1> HIDE DEF r
<1>6. \A q \in StoreId : store'[q].binds = store[q].binds
  BY <1>4, <1>5, Restored DEF LInv
<1>7. OwnsAt(t)'
  <2>1. call'[t] = c
    BY <1>2, Moves DEF LInv
  <2> QED BY <2>1, <1>0, <1>2 DEF OwnsAt
<1>8. UNCHANGED <<cache, modes, other>>
  BY DEF close, locks
<1>9. c.at \notin Early /\ call[t].at \notin Early /\ c.at \in Late /\ call[t].at \in Late
      /\ c.at \notin {"binding", "using"}
  BY <1>0, <1>2 DEF Early, Late
<1> QED BY <1>0, <1>2, <1>6, <1>7, <1>8, <1>9, Quiet

LEMMA RForceClose ==
  ASSUME LInv, RInv, NEW t \in Thread, _force_close(t) PROVE RInv'
<1>0. call[t].at = "closing" /\ call[t].store \in StoreId /\ call[t].owns
  BY DEF LInv, GuardedAt, _force_close, At, WithStore, RInv, Reading, OwnsAt, Late
<1>1. PICK s \in StoreId : s = call[t].store
  BY <1>0
<1>2. PICK c \in CallState : /\ Goes(t, c) /\ c.at = "unbinding" /\ c.store = call[t].store
                             /\ c.owns = call[t].owns
  BY Gone DEF LInv, _force_close, Place, Acquiring
<1>3. store' = [store EXCEPT ![s].open = FALSE]
  BY <1>1 DEF _force_close
<1>4. \A q \in StoreId : store'[q].binds = store[q].binds
  BY <1>3, Shut DEF LInv
<1>5. OwnsAt(t)'
  <2>1. call'[t] = c
    BY <1>2, Moves DEF LInv
  <2> QED BY <2>1, <1>0, <1>2 DEF OwnsAt
<1>6. UNCHANGED <<cache, modes, other>>
  BY DEF _force_close, locks
<1>7. c.at \notin Early /\ call[t].at \notin Early /\ c.at \in Late /\ call[t].at \in Late
  BY <1>0, <1>2 DEF Early, Late
<1> QED BY <1>0, <1>2, <1>4, <1>5, <1>6, <1>7, Quiet

LEMMA RLeaseRaise ==
  ASSUME LInv, RInv, NEW t \in Thread, LeaseRaise(t) PROVE RInv'
<1>0. /\ call[t].at = "raising" /\ call[t].store \in StoreId /\ call[t].store = cache.store
      /\ call[t].seen \in Nat /\ call[t].owns /\ guard = t
  BY AtType DEF LInv, GuardedAt, LeaseRaise, At, OnEntry, Guarding, WithStore, RInv, Reading,
                OwnsAt, Early
<1>1. PICK c \in CallState : /\ Goes(t, c) /\ c.at = "binding" /\ c.store = call[t].store
                             /\ c.owns = call[t].owns
  BY Gone DEF LInv, LeaseRaise, Place, Acquiring
<1>2. PICK s \in StoreId : s = call[t].store
  BY <1>0
<1> DEFINE r == [store[s] EXCEPT !.leases = call[t].seen + 1]
<1>3. r \in StoreState /\ r.binds = store[s].binds
  BY <1>0, StoreType DEF LInv, StoreState
<1>4. store' = [store EXCEPT ![s] = r]
  BY <1>2 DEF LeaseRaise, LInv, Typed
<1> HIDE DEF r
<1>5. \A q \in StoreId : store'[q].binds = store[q].binds
  BY <1>3, <1>4, Restored DEF LInv
<1>6. UNCHANGED <<cache, modes, other>>
  BY DEF LeaseRaise, locks
<1>7. OwnsAt(t)'
  <2>1. call'[t] = c
    BY <1>1, Moves DEF LInv
  <2> QED BY <2>1, <1>0, <1>1 DEF OwnsAt
<1>8. c.at \in Early /\ call[t].at \in Early /\ c.at \notin Late
  BY <1>0, <1>1 DEF Early, Late
<1>9. Typed /\ Reading /\ Tallied /\ Covered
  BY DEF LInv, RInv
<1>10. Reading'
  BY <1>1, <1>6, <1>7, <1>9, StillReading DEF Reading
<1>11. Tallied'
  <2>1. Bound' = Bound
    BY <1>5, BoundSame
  <2>2. Owing' = Owing
    BY <1>0, <1>1, <1>8, <1>9, OwingSame
  <2> QED BY <1>6, <1>9, <2>1, <2>2, TallySame
<1>12. Covered'
  <2> SUFFICES ASSUME NEW q \in StoreId
               PROVE  Dead(q)' \/ Cardinality(Binders(q)') <= store'[q].binds
    BY DEF Covered
  <2>1. Dead(q) \/ Cardinality(Binders(q)) <= store[q].binds
    BY <1>9 DEF Covered
  <2>2. CASE q # s
    BY <2>1, <2>2, <1>0, <1>1, <1>2, <1>5, <1>6, <1>8, <1>9, StillCovered
  <2>3. CASE q = s
    <3>1. \A u \in Thread : call[u].at # "dropping"
      <4> SUFFICES ASSUME NEW u \in Thread, call[u].at = "dropping" PROVE FALSE
        OBVIOUS
      <4>1. guard = u
        BY DEF LInv, GuardedAt, Guarding
      <4> QED BY <4>1, <1>0
    <3>2. ~Dead(q)
      BY <3>1, <2>3, <1>0, <1>2 DEF Dead
    <3>3. Binders(q)' = Binders(q) \ {t}
      BY <1>1, <1>8, <1>9, Moves
    <3>4. Cardinality(Binders(q) \ {t}) <= Cardinality(Binders(q))
      BY Finite, Counted
    <3>5. Cardinality(Binders(q)') \in Nat /\ Cardinality(Binders(q)) \in Nat
      BY <3>3, Finite, FS_RemoveElement, FS_CardinalityType
    <3>6. store'[q].binds = store[q].binds /\ store[q].binds \in Nat
      BY <1>5, <1>9, StoreType
    <3> QED BY <2>1, <3>2, <3>3, <3>4, <3>5, <3>6
  <2> QED BY <2>2, <2>3
<1> QED BY <1>10, <1>11, <1>12 DEF RInv

LEMMA RFresh ==
  ASSUME LInv, RInv, NEW t \in Thread, Fresh(t) PROVE RInv'
<1>0. call[t].at = "fresh" /\ call[t].owns
  BY DEF Fresh, At, RInv, Reading, OwnsAt, Early
<1>1. PICK s \in StoreId, c \in CallState :
           /\ Goes(t, c) /\ c.at = "binding" /\ c.store = s /\ c.owns = call[t].owns
           /\ Free(s) /\ store' = [store EXCEPT ![s] = [open |-> TRUE, leases |-> 1, binds |-> 0]]
           /\ cache' = [store |-> s, mtime |-> mtime]
  BY Taken DEF LInv
<1> DEFINE r == [open |-> TRUE, leases |-> 1, binds |-> 0]
<1>2. r \in StoreState /\ r.binds = 0 /\ store[s].binds = 0
  BY <1>1 DEF StoreState, Free
<1>3. store' = [store EXCEPT ![s] = r]
  BY <1>1
<1> HIDE DEF r
<1>4. \A q \in StoreId : store'[q].binds = store[q].binds
  BY <1>2, <1>3, Restored DEF LInv
<1>5. UNCHANGED <<modes, other>>
  BY DEF Fresh, locks
<1>6. OwnsAt(t)'
  <2>1. call'[t] = c
    BY <1>1, Moves DEF LInv
  <2> QED BY <2>1, <1>0, <1>1 DEF OwnsAt
<1>7. c.at \in Early /\ call[t].at \in Early /\ c.at \notin Late
  BY <1>0, <1>1 DEF Early, Late
<1>8. Typed /\ Reading /\ Tallied /\ Covered
  BY DEF LInv, RInv
<1>9. Reading'
  BY <1>1, <1>5, <1>6, <1>8, StillReading DEF Reading
<1>10. Tallied'
  <2>1. Bound' = Bound
    BY <1>4, BoundSame
  <2>2. Owing' = Owing
    BY <1>0, <1>1, <1>7, <1>8, OwingSame
  <2> QED BY <1>5, <1>8, <2>1, <2>2, TallySame
<1>11. Covered'
  <2> SUFFICES ASSUME NEW q \in StoreId
               PROVE  Dead(q)' \/ Cardinality(Binders(q)') <= store'[q].binds
    BY DEF Covered
  <2>1. Dead(q) \/ Cardinality(Binders(q)) <= store[q].binds
    BY <1>8 DEF Covered
  <2>2. CASE q # s
    <3>1. cache'.store # q
      BY <2>2, <1>1
    <3> QED BY <2>1, <2>2, <3>1, <1>1, <1>4, <1>7, <1>8, StillCovered
  <2>3. CASE q = s
    <3>1. Binders(q)' = Binders(q) \ {t}
      BY <1>1, <1>7, <1>8, Moves
    <3>2. Binders(q) = {}
      BY <1>1, <2>3 DEF Free, Binders
    <3>3. Cardinality(Binders(q)') = 0
      BY <3>1, <3>2, FS_EmptySet
    <3> QED BY <1>2, <1>4, <2>3, <3>3
  <2> QED BY <2>2, <2>3
<1> QED BY <1>9, <1>10, <1>11 DEF RInv

LEMMA ROpenRaises ==
  ASSUME LInv, RInv, NEW t \in Thread, OpenRaises(t) PROVE RInv'
<1>0. call[t].at = "fresh" /\ call[t].owns
  BY DEF OpenRaises, At, RInv, Reading, OwnsAt, Early
<1> DEFINE c == [call[t] EXCEPT !.at = "failing"]
<1>1. c \in CallState /\ c.at = "failing" /\ c.owns = call[t].owns
  BY AtType DEF LInv, CallState, Place, Acquiring
<1>2. Goes(t, c)
  BY <1>0 DEF OpenRaises, Goes, LInv, Typed
<1> HIDE DEF c
<1>3. OwnsAt(t)'
  <2>1. call'[t] = c
    BY <1>1, <1>2, Moves DEF LInv
  <2> QED BY <2>1, <1>0, <1>1 DEF OwnsAt
<1>4. UNCHANGED <<store, cache, modes, other>>
  BY DEF OpenRaises, locks
<1>5. c.at \in Early /\ call[t].at \in Early /\ c.at \notin Late /\ c.at \notin {"binding", "using"}
  BY <1>0, <1>1 DEF Early, Late
<1>6. \A s \in StoreId : store'[s].binds = store[s].binds
  BY <1>4
<1> QED BY <1>0, <1>1, <1>2, <1>3, <1>4, <1>5, <1>6, Quiet

LEMMA RGiveBack ==
  ASSUME LInv, RInv, NEW t \in Thread, GiveBack(t) PROVE RInv'
<1>0. call[t].at = "failing" /\ call[t].owns /\ Goes(t, Idle) /\ UNCHANGED <<store, cache, other>>
      /\ release_graph_lock(t)
  BY DEF GiveBack, Goes, At, RInv, Reading, OwnsAt, Early
<1>1. call'[t] = Idle
  BY <1>0, IdleType, Moves DEF LInv
<1>2. OwnsAt(t)'
  BY <1>1, IdleType DEF OwnsAt, Acquiring, Early, Late
<1>3. Typed /\ Reading /\ Tallied /\ Covered
  BY DEF LInv, RInv
<1>4. Owing' = Owing \ {t} /\ t \in Owing
  <2>1. Idle.at \notin Early
    BY IdleType DEF Early
  <2>2. Owing' = Owing \ {t}
    BY <1>0, <1>3, <2>1, IdleType, Moves
  <2>3. t \in Owing
    BY <1>0 DEF Owing, Early
  <2> QED BY <2>2, <2>3
<1>5. Bound' = Bound
  BY <1>0, BoundSame
<1>6. Cardinality(Owing \ {t}) = Cardinality(Owing) - 1 /\ Cardinality(Owing) > 0
      /\ Cardinality(Owing) \in Nat
  BY <1>4, Finite, Counted
<1>7. IsFiniteSet(Bound) /\ Cardinality(Owing) + Cardinality(Bound) = Len(modes)
      /\ Cardinality(Bound) \in Nat
  BY <1>3, FS_CardinalityType DEF Tallied
<1>8. modes \in Seq({FALSE}) /\ modes # <<>>
  BY <1>3, <1>6, <1>7 DEF Reading
<1>9. modes' \in Seq({FALSE}) /\ Len(modes') = Len(modes) - 1
  BY <1>0, <1>8, Popped DEF release_graph_lock
<1>10. Tallied'
  <2>1. /\ Cardinality(Owing') = Cardinality(Owing) - 1
        /\ Cardinality(Bound') = Cardinality(Bound) /\ IsFiniteSet(Bound')
    BY <1>4, <1>5, <1>6, <1>7
  <2>2. Cardinality(Owing') + Cardinality(Bound') = Len(modes')
    BY <2>1, <1>6, <1>7, <1>9
  <2> QED BY <2>1, <2>2 DEF Tallied
<1>11. Reading'
  <2>1. ~other
    BY <1>3, <1>8 DEF Reading
  <2> QED BY <1>0, <1>2, <1>3, <1>9, <2>1, IdleType, StillReading
<1>12. Covered'
  <2>1. Idle.at \notin Late /\ Idle.at \notin {"binding", "using"} /\ call[t].at # "dropping"
    BY <1>0, IdleType DEF Late
  <2>2. \A s \in StoreId : store'[s].binds = store[s].binds
    BY <1>0
  <2> QED BY <1>0, <1>3, <2>1, <2>2, IdleType, AllCovered
<1> QED BY <1>10, <1>11, <1>12 DEF RInv

LEMMA RBind ==
  ASSUME LInv, LInv', RInv, NEW t \in Thread, bind_store_read_lock(t) PROVE RInv'
<1>0. call[t].at = "binding" /\ call[t].store \in StoreId /\ call[t].owns
  BY DEF LInv, GuardedAt, bind_store_read_lock, At, WithStore, RInv, Reading, OwnsAt, Early
<1>1. PICK c \in CallState : /\ Goes(t, c) /\ c.at = "using" /\ c.store = call[t].store
                             /\ c.owns = call[t].owns
  BY Gone DEF LInv, bind_store_read_lock, Place, Acquiring
<1>2. PICK s \in StoreId : s = call[t].store
  BY <1>0
<1> DEFINE r == [store[s] EXCEPT !.binds = @ + 1]
<1>3. r \in StoreState /\ r.binds = store[s].binds + 1
  BY StoreType DEF LInv, StoreState
<1>4. store' = [store EXCEPT ![s] = r]
  BY <1>0, <1>2 DEF bind_store_read_lock, LInv, Typed
<1> HIDE DEF r
<1>5. store'[s].binds = store[s].binds + 1
      /\ \A q \in StoreId \ {s} : store'[q].binds = store[q].binds
  BY <1>3, <1>4, Restored DEF LInv
<1>6. UNCHANGED <<cache, modes, other>>
  BY DEF bind_store_read_lock, locks
<1>7. OwnsAt(t)'
  <2>1. call'[t] = c
    BY <1>1, Moves DEF LInv
  <2> QED BY <2>1, <1>0, <1>1 DEF OwnsAt
<1>8. c.at \notin Early /\ call[t].at \in Early /\ c.at \in Late /\ call[t].at \notin Late
  BY <1>0, <1>1 DEF Early, Late
<1>9. Typed /\ Reading /\ Tallied /\ Covered /\ Typed'
  BY DEF LInv, RInv
<1>10. Reading'
  BY <1>1, <1>6, <1>7, <1>9, StillReading DEF Reading
<1>11. Tallied'
  <2>1. PICK n : n = store[s].binds + 1
    OBVIOUS
  <2>2. store'[s].binds = n
    BY <1>5, <2>1
  <2>3. Bound' = Bound \cup {<<s, n>>} /\ <<s, n>> \notin Bound
    BY <1>5, <1>9, <2>1, <2>2, BoundMore
  <2>4. Owing' = Owing \ {t}
    BY <1>1, <1>8, <1>9, Moves
  <2>5. t \in Owing
    BY <1>0, <1>8 DEF Owing
  <2>6. Cardinality(Owing \ {t}) = Cardinality(Owing) - 1 /\ Cardinality(Owing) \in Nat
    BY <2>5, Finite, Counted
  <2>7. IsFiniteSet(Bound) /\ Cardinality(Owing) + Cardinality(Bound) = Len(modes)
    BY <1>9 DEF Tallied
  <2>8. Cardinality(Bound \cup {<<s, n>>}) = Cardinality(Bound) + 1 /\ Cardinality(Bound) \in Nat
        /\ IsFiniteSet(Bound \cup {<<s, n>>})
    BY <2>3, <2>7, Counted
  <2>9. /\ Cardinality(Owing') = Cardinality(Owing) - 1
        /\ Cardinality(Bound') = Cardinality(Bound) + 1 /\ IsFiniteSet(Bound')
    BY <2>3, <2>4, <2>6, <2>8
  <2>10. Cardinality(Owing') + Cardinality(Bound') = Len(modes')
    BY <2>6, <2>7, <2>8, <2>9, <1>6
  <2> QED BY <2>9, <2>10 DEF Tallied
<1>12. Covered'
  <2> SUFFICES ASSUME NEW q \in StoreId
               PROVE  Dead(q)' \/ Cardinality(Binders(q)') <= store'[q].binds
    BY DEF Covered
  <2>1. Dead(q) \/ Cardinality(Binders(q)) <= store[q].binds
    BY <1>9 DEF Covered
  <2>2. CASE q # s
    BY <2>1, <2>2, <1>0, <1>1, <1>2, <1>5, <1>6, <1>9, StillCovered
  <2>3. CASE q = s
    <3>1. t \in Clients(q)
      BY <1>0, <1>2, <2>3 DEF Clients
    <3>2. Cardinality(Binders(q)) <= store[q].binds
      BY <2>1, <3>1 DEF Dead
    <3>3. Binders(q)' = Binders(q) \cup {t}
      BY <1>1, <1>2, <1>8, <1>9, <2>3, Moves
    <3>4. Cardinality(Binders(q) \cup {t}) <= Cardinality(Binders(q)) + 1
      BY Finite, Counted
    <3>5. Cardinality(Binders(q)') \in Nat /\ Cardinality(Binders(q)) \in Nat
      BY <3>3, Finite, FS_AddElement, FS_CardinalityType
    <3>6. store'[q].binds = store[q].binds + 1 /\ store[q].binds \in Nat
      BY <1>5, <1>9, <2>3, StoreType
    <3> QED BY <3>2, <3>3, <3>4, <3>5, <3>6
  <2> QED BY <2>2, <2>3
<1> QED BY <1>10, <1>11, <1>12 DEF RInv

LEMMA RUnbind ==
  ASSUME LInv, LInv', RInv, NEW t \in Thread, unbind_store_read_lock(t) PROVE RInv'
<1>0. call[t].at = "unbinding" /\ call[t].store \in StoreId
  BY DEF LInv, GuardedAt, unbind_store_read_lock, At, WithStore
<1>1. PICK s \in StoreId : s = call[t].store
  BY <1>0
<1>2. Goes(t, Idle) /\ UNCHANGED <<cache, other>>
  BY DEF unbind_store_read_lock, Goes
<1>3. OwnsAt(t)'
  <2>1. call'[t] = Idle
    BY <1>2, IdleType, Moves DEF LInv
  <2> QED BY <2>1, IdleType DEF OwnsAt, Acquiring, Early, Late
<1>4. /\ Idle.at \notin Early /\ call[t].at \notin Early /\ Idle.at \notin Late
      /\ call[t].at \in Late /\ Idle.at \notin {"binding", "using"} /\ call[t].at # "dropping"
  BY <1>0, IdleType DEF Early, Late
<1>5. CASE store[s].binds = 0
  <2>1. UNCHANGED <<store, modes>>
    BY <1>1, <1>5 DEF unbind_store_read_lock, locks
  <2>2. \A q \in StoreId : store'[q].binds = store[q].binds
    BY <2>1
  <2> QED BY <1>2, <1>3, <1>4, <2>1, <2>2, IdleType, Quiet
<1>6. CASE store[s].binds # 0
  <2>1. store' = [store EXCEPT ![s].binds = @ - 1] /\ release_graph_lock(t)
    BY <1>1, <1>6 DEF unbind_store_read_lock
  <2>2. store'[s].binds = store[s].binds - 1
        /\ \A q \in StoreId \ {s} : store'[q].binds = store[q].binds
    BY <1>6, <2>1, Unbound DEF LInv
  <2>3. Typed /\ Reading /\ Tallied /\ Covered /\ Typed'
    BY DEF LInv, RInv
  <2>4. PICK n : n = store[s].binds
    OBVIOUS
  <2>5. Bound' = Bound \ {<<s, n>>} /\ <<s, n>> \in Bound
    BY <1>6, <2>2, <2>3, <2>4, BoundLess
  <2>6. Owing' = Owing
    BY <1>2, <1>4, <2>3, IdleType, OwingSame
  <2>7. Tallied' /\ modes' \in Seq({FALSE}) /\ modes # <<>>
    BY <2>1, <2>3, <2>5, <2>6, TallyPopped DEF Reading
  <2>8. Reading'
    BY <1>2, <1>3, <2>3, <2>7, IdleType, StillReading DEF Reading
  <2>9. Covered'
    <3> SUFFICES ASSUME NEW q \in StoreId
                 PROVE  Dead(q)' \/ Cardinality(Binders(q)') <= store'[q].binds
      BY DEF Covered
    <3>1. Dead(q) \/ Cardinality(Binders(q)) <= store[q].binds
      BY <2>3 DEF Covered
    <3>2. CASE q # s
      BY <3>1, <3>2, <1>2, <1>4, <2>2, <2>3, IdleType, StillCovered
    <3>3. CASE q = s
      <4>1. CASE Dead(q)
        <5>1. Clients(q)' = Clients(q) \ {t}
          BY <1>2, <1>4, <2>3, IdleType, Moves
        <5>2. Clients(q)' = {}
          BY <4>1, <5>1 DEF Dead
        <5>3. \A u \in Thread : call[u].at = "dropping" => call'[u].at = "dropping"
          BY <1>2, <1>4, <2>3, IdleType, Moves
        <5> QED BY <4>1, <5>2, <5>3, <1>2 DEF Dead
      <4>2. CASE Cardinality(Binders(q)) <= store[q].binds
        <5>1. Binders(q)' = Binders(q) \ {t}
          BY <1>2, <1>4, <2>3, IdleType, Moves
        <5>2. t \in Binders(q)
          BY <1>1, <1>4, <3>3 DEF Binders
        <5>3. Cardinality(Binders(q) \ {t}) = Cardinality(Binders(q)) - 1
              /\ Cardinality(Binders(q)) \in Nat
          BY <5>2, Finite, Counted
        <5>4. store'[q].binds = store[q].binds - 1 /\ store[q].binds \in Nat
          BY <2>2, <2>3, <3>3, StoreType
        <5> QED BY <4>2, <5>1, <5>3, <5>4
      <4> QED BY <3>1, <4>1, <4>2
    <3> QED BY <3>2, <3>3
  <2> QED BY <2>7, <2>8, <2>9 DEF RInv
<1> QED BY <1>5, <1>6

LEMMA RDropLocks ==
  ASSUME LInv, LInv', RInv, NEW t \in Thread, drop_store_read_locks(t) PROVE RInv'
<1>0. /\ call[t].at = "dropping" /\ call[t].store \in StoreId
      /\ Clients(call[t].store) = {}
  BY DEF LInv, GuardedAt, DroppedAt, drop_store_read_locks, At, OnEntry, WithStore
<1>1. PICK s \in StoreId : s = call[t].store
  BY <1>0
<1>2. other' = other
  BY DEF drop_store_read_locks
<1>3. Typed /\ Reading /\ Tallied /\ Covered /\ Typed'
  BY DEF LInv, RInv
<1>4. PICK c \in CallState :
        /\ Goes(t, c) /\ OwnsAt(t)' /\ c.at \in {"idle", "fresh", "dropping"}
        /\ cache' = NoEntry \/ (cache' = cache /\ c.at = "dropping")
        /\ (c.at \in Early /\ c.owns) <=> (call[t].at \in Early /\ call[t].owns)
  <2>1. CASE Dropped(t)
    BY <1>0, <2>1, RDropped
  <2>2. CASE UNCHANGED <<cache, guard, call>>
    <3>1. Goes(t, call[t]) /\ call[t] \in CallState
      BY <2>2 DEF Goes, LInv, Typed
    <3>2. OwnsAt(t)'
      BY <1>2, <2>2 DEF RInv, Reading, OwnsAt
    <3> QED BY <1>0, <2>2, <3>1, <3>2
  <2> QED BY <2>1, <2>2 DEF drop_store_read_locks
<1>5. c.at \notin Late /\ c.at \notin {"binding", "using"}
  BY <1>4 DEF Late
<1>6. CASE store[s].binds = 0
  <2>1. UNCHANGED <<store, modes>>
    BY <1>1, <1>6 DEF drop_store_read_locks, locks
  <2>2. \A q \in StoreId : store'[q].binds = store[q].binds
    BY <2>1
  <2> QED BY <1>2, <1>4, <1>5, <2>1, <2>2, Quiet
<1>7. CASE store[s].binds # 0
  <2>1. store' = [store EXCEPT ![s].binds = @ - 1] /\ release_graph_lock(t)
    BY <1>1, <1>7 DEF drop_store_read_locks
  <2>2. store'[s].binds = store[s].binds - 1
        /\ \A q \in StoreId \ {s} : store'[q].binds = store[q].binds
    BY <1>7, <2>1, Unbound DEF LInv
  <2>3. PICK n : n = store[s].binds
    OBVIOUS
  <2>4. Bound' = Bound \ {<<s, n>>} /\ <<s, n>> \in Bound
    BY <1>3, <1>7, <2>2, <2>3, BoundLess
  <2>5. Owing' = Owing
    BY <1>3, <1>4, OwingSame
  <2>6. Tallied' /\ modes' \in Seq({FALSE}) /\ modes # <<>>
    BY <1>3, <2>1, <2>4, <2>5, TallyPopped DEF Reading
  <2>7. Reading'
    BY <1>2, <1>3, <1>4, <2>6, StillReading DEF Reading
  <2>8. Covered'
    <3> SUFFICES ASSUME NEW q \in StoreId
                 PROVE  Dead(q)' \/ Cardinality(Binders(q)') <= store'[q].binds
      BY DEF Covered
    <3>1. Dead(q) \/ Cardinality(Binders(q)) <= store[q].binds
      BY <1>3 DEF Covered
    <3>2. NoEntry.store # q
      BY DEF NoEntry, None, StoreId
    <3>3. CASE q # s
      <4>1. \/ cache' = cache /\ (call[t].at = "dropping" => c.at = "dropping")
            \/ cache'.store # q
        BY <1>4, <3>2
      <4>2. store'[q].binds = store[q].binds
        BY <2>2, <3>3
      <4> QED BY <3>1, <4>1, <4>2, <1>3, <1>4, <1>5, StillCovered
    <3>4. CASE q = s
      <4>1. Clients(q)' = Clients(q) \ {t}
        BY <1>3, <1>4, <1>5, Moves
      <4>2. Clients(q)' = {}
        BY <1>0, <1>1, <3>4, <4>1
      <4>3. call'[t] = c
        BY <1>3, <1>4, Moves
      <4>4. q = cache'.store => call'[t].at = "dropping"
        BY <1>4, <3>2, <4>3
      <4> QED BY <4>2, <4>4 DEF Dead
    <3> QED BY <3>3, <3>4
  <2> QED BY <2>6, <2>7, <2>8 DEF RInv
<1> QED BY <1>6, <1>7

\* Nothing of this process changes.
LEMMA RStays ==
  ASSUME RInv, UNCHANGED <<store, cache, modes, call>>, other' => modes = <<>>,
         other' => \A t \in Thread : call[t].at # "publishing"
  PROVE  RInv'
<1>1. Reading'
  BY DEF RInv, Reading, OwnsAt
<1>2. Bound' = Bound /\ Owing' = Owing
  BY DEF Bound, Owing
<1>3. Tallied'
  BY <1>2, TallySame DEF RInv
<1>4. Covered'
  BY DEF RInv, Covered, Dead, Clients, Binders
<1> QED BY <1>1, <1>3, <1>4 DEF RInv

LEMMA RInit == Init => RInv
<1> SUFFICES ASSUME Init PROVE RInv
  OBVIOUS
<1>1. \A t \in Thread : call[t] = Idle
  BY DEF Init
<1>2. Reading
  BY <1>1, IdleType DEF Init, Reading, OwnsAt, Acquiring, Early, Late
<1>3. Tallied
  <2>1. Owing = {}
    BY <1>1, IdleType DEF Owing, Early
  <2>2. \A s \in StoreId : store[s].binds = 0
    BY DEF Init
  <2>3. Bound = {}
    BY <2>2 DEF Bound
  <2>4. IsFiniteSet(Bound) /\ Cardinality(Bound) = 0 /\ Cardinality(Owing) = 0
    BY <2>1, <2>3, FS_EmptySet
  <2>5. Len(modes) = 0
    BY DEF Init
  <2> QED BY <2>4, <2>5 DEF Tallied
<1>4. Covered
  <2> SUFFICES ASSUME NEW s \in StoreId PROVE Cardinality(Binders(s)) <= store[s].binds
    BY DEF Covered
  <2>1. Binders(s) = {}
    BY <1>1, IdleType DEF Binders, Late
  <2>2. Cardinality(Binders(s)) = 0
    BY <2>1, FS_EmptySet
  <2> QED BY <2>2 DEF Init
<1> QED BY <1>2, <1>3, <1>4 DEF RInv

LEMMA QStep == QInv /\ [Next]_vars => QInv'
<1> SUFFICES ASSUME QInv, [Next]_vars PROVE QInv'
  OBVIOUS
<1>1. LInv /\ LInv'
  BY LStep DEF QInv
<1>2. SUFFICES ASSUME ~calls'.wrote, ~calls'.lost PROVE RInv'
  BY <1>1 DEF QInv, RInv
<1>3. ~calls.wrote /\ ~calls.lost
  <2>1. CASE calls' = calls
    BY <1>2, <2>1
  <2>2. ASSUME NEW t, Enter(t) PROVE ~calls.wrote /\ ~calls.lost
    BY <1>1, <1>2, <2>2, Entered DEF LInv
  <2>3. ASSUME NEW t, WriteBegins(t) PROVE FALSE
    <3>1. calls \in [n : Nat, wrote : BOOLEAN, lost : BOOLEAN]
          /\ calls' = [calls EXCEPT !.wrote = TRUE]
      BY <1>1, <2>3 DEF LInv, Typed, WriteBegins
    <3> QED BY <3>1, <1>2
  <2>4. ASSUME NEW t \in Thread, Step(t), ~FlockPublish(t) PROVE calls' = calls
    BY <2>4 DEF Step, Lock, FlockLookup, FlockWait, LockTimesOut, Lookup, LeaseRead, LeaseRaise,
       Fresh, OpenRaises, GiveBack, bind_store_read_lock, _release_cached_store,
       drop_store_read_locks, close, _force_close, unbind_store_read_lock, WriteEnds
  <2>5. ASSUME NEW t \in Thread, FlockPublish(t) PROVE ~calls.wrote /\ ~calls.lost
    BY <1>1, <1>2, <2>5, Published DEF LInv
  <2> QED BY <2>1, <2>2, <2>3, <2>4, <2>5
          DEF Next, vars, GetStore, _evict_store_cache, OtherBegins, OtherEnds
<1>4. RInv
  BY <1>3 DEF QInv, RInv
<1>5. CASE UNCHANGED vars
  <2>1. /\ other' => modes = <<>>
        /\ other' => \A t \in Thread : call[t].at # "publishing"
    BY <1>4, <1>5 DEF RInv, Reading, OwnsAt, vars
  <2> QED BY <1>4, <1>5, <2>1, RStays DEF vars
<1>6. ASSUME NEW t \in Thread, GetStore(t) PROVE RInv'
  BY <1>1, <1>4, <1>6, RGetStore
<1>7. ASSUME NEW t \in Thread, _evict_store_cache(t) PROVE RInv'
  BY <1>1, <1>4, <1>7, REvict
<1>8. ASSUME NEW t \in Thread, Step(t) PROVE RInv'
  <2>1. ~WriteEnds(t)
    BY <1>4 DEF WriteEnds, At, RInv, Reading, OwnsAt
  <2>2. CASE Lookup(t) \/ LeaseRead(t) \/ LeaseRaise(t) \/ Fresh(t) \/ OpenRaises(t) \/ GiveBack(t)
    BY <1>1, <1>4, <2>2, RLookup, RLeaseRead, RLeaseRaise, RFresh, ROpenRaises, RGiveBack
  <2>5. CASE Lock(t) \/ FlockLookup(t) \/ FlockWait(t) \/ LockTimesOut(t)
    BY <1>1, <1>4, <2>5, RLock, RFlockLookup, RFlockWait, RLockTimesOut
  <2>6. CASE FlockPublish(t)
    <3>1. modes = <<>>
      BY <1>1, <1>2, <2>6, Published DEF LInv
    <3> QED BY <1>1, <1>4, <2>6, <3>1, RFlockPublish
  <2>3. CASE bind_store_read_lock(t) \/ _release_cached_store(t) \/ drop_store_read_locks(t)
    BY <1>1, <1>4, <2>3, RBind, RRelease, RDropLocks
  <2>4. CASE close(t) \/ _force_close(t) \/ unbind_store_read_lock(t)
    BY <1>1, <1>4, <2>4, RClose, RForceClose, RUnbind
  <2> QED BY <1>8, <2>1, <2>2, <2>3, <2>4, <2>5, <2>6 DEF Step
<1>9. ASSUME NEW t \in Writer, WriteBegins(t) PROVE RInv'
  <2>1. calls \in [n : Nat, wrote : BOOLEAN, lost : BOOLEAN] /\ calls' = [calls EXCEPT !.wrote = TRUE]
    BY <1>1, <1>9 DEF LInv, Typed, WriteBegins
  <2> QED BY <2>1, <1>2
<1>10. CASE OtherBegins
  <2>1. UNCHANGED <<store, cache, modes, call>> /\ modes = <<>>
        /\ \A t \in Thread : call[t].at # "publishing"
    BY <1>10 DEF OtherBegins, locks, At
  <2> QED BY <1>4, <2>1, RStays
<1>11. CASE OtherEnds
  <2>1. UNCHANGED <<store, cache, modes, call>> /\ ~other'
    BY <1>11 DEF OtherEnds, locks
  <2> QED BY <1>4, <2>1, RStays
<1> QED BY <1>5, <1>6, <1>7, <1>8, <1>9, <1>10, <1>11 DEF Next

-----------------------------------------------------------------------------
(* The users of the stores, counted against the binds *)

\* Every user of a store has a bind of its own.
LEMMA UsersBound ==
  ASSUME LInv, RInv
  PROVE  Cardinality({u \in Thread : At(u, "using")}) <= Cardinality(Bound)
<1> DEFINE All == {u \in Thread : At(u, "using")}
<1>0. Typed /\ Covered /\ IsFiniteSet(Bound)
  BY DEF LInv, RInv, Tallied
<1>1. ASSUME NEW s \in StoreId
      PROVE  /\ IsFiniteSet(Users(s)) /\ Cardinality(Users(s)) \in Nat
             /\ Cardinality(Users(s)) <= store[s].binds
  <2>1. Users(s) \subseteq Clients(s) /\ Users(s) \subseteq Binders(s)
    BY DEF Users, Clients, Binders, Late, At
  <2>2. IsFiniteSet(Users(s)) /\ Cardinality(Users(s)) \in Nat
        /\ Cardinality(Users(s)) <= Cardinality(Binders(s)) /\ Cardinality(Binders(s)) \in Nat
    BY <2>1, Finite, FS_Subset, FS_CardinalityType
  <2>3. store[s].binds \in Nat
    BY <1>0, StoreType
  <2>4. CASE Dead(s)
    <3>1. Users(s) = {}
      BY <2>1, <2>4 DEF Dead
    <3>2. Cardinality(Users(s)) = 0
      BY <3>1, FS_EmptySet
    <3> QED BY <2>2, <2>3, <3>2
  <2>5. CASE Cardinality(Binders(s)) <= store[s].binds
    BY <2>2, <2>3, <2>5
  <2> QED BY <1>0, <2>4, <2>5 DEF Covered
<1>2. \A s \in StoreId : \E g : g \in Injection(Users(s), 1..Cardinality(Users(s)))
  <2> SUFFICES ASSUME NEW s \in StoreId
               PROVE  \E g : g \in Injection(Users(s), 1..Cardinality(Users(s)))
    OBVIOUS
  <2>1. ExistsBijection(1..Cardinality(Users(s)), Users(s))
    BY <1>1, FS_CardinalityType
  <2>2. ExistsBijection(Users(s), 1..Cardinality(Users(s)))
    BY <2>1, Fun_ExistsBijSymmetric
  <2> QED BY <2>2 DEF ExistsBijection, Bijection
<1> DEFINE G == [s \in StoreId |-> CHOOSE g : g \in Injection(Users(s), 1..Cardinality(Users(s)))]
<1>3. ASSUME NEW s \in StoreId
      PROVE  /\ \A u \in Users(s) : G[s][u] \in 1..Cardinality(Users(s))
             /\ \A u, v \in Users(s) : G[s][u] = G[s][v] => u = v
  <2>1. G[s] \in Injection(Users(s), 1..Cardinality(Users(s)))
    BY <1>2
  <2>2. PICK g : g = G[s]
    OBVIOUS
  <2> HIDE DEF G
  <2>3. PICK n : n = Cardinality(Users(s))
    OBVIOUS
  <2>4. g \in Injection(Users(s), 1..n)
    BY <2>1, <2>2, <2>3
  <2>5. g \in [Users(s) -> 1..n] /\ \A u, v \in Users(s) : g[u] = g[v] => u = v
    BY <2>4, Fun_InjectionProperties
  <2> QED BY <2>2, <2>3, <2>5
<1> HIDE DEF G
<1>4. \A u \in All : call[u].store \in StoreId /\ u \in Users(call[u].store)
  BY DEF LInv, GuardedAt, WithStore, Users, At
<1> DEFINE f == [u \in All |-> <<call[u].store, G[call[u].store][u]>>]
<1>5. ASSUME NEW u \in All PROVE f[u] \in Bound
  <2>1. PICK s \in StoreId : s = call[u].store
    BY <1>4
  <2>2. PICK i : i = G[s][u]
    OBVIOUS
  <2>3. i \in 1..Cardinality(Users(s))
    BY <1>3, <1>4, <2>1, <2>2
  <2>4. i \in 1..store[s].binds
    BY <1>0, <1>1, <2>3, StoreType
  <2>5. <<s, i>> \in Bound
    BY <2>4, BoundPairs
  <2> QED BY <2>1, <2>2, <2>5
<1>6. ASSUME NEW u \in All, NEW v \in All, f[u] = f[v] PROVE u = v
  <2>1. call[u].store = call[v].store
    BY <1>6
  <2>2. G[call[u].store][u] = G[call[v].store][v]
    BY <1>6
  <2> QED BY <1>3, <1>4, <2>1, <2>2
<1>7. f \in Injection(All, Bound)
  <2>1. f \in [All -> Bound]
    BY <1>5
  <2> HIDE DEF f
  <2> QED BY <2>1, <1>6 DEF Injection, IsInjective
<1> HIDE DEF f, All
<1>8. Cardinality(All) <= Cardinality(Bound)
  BY <1>0, <1>7, FS_Injection
<1> QED BY <1>8 DEF All

\* As long as no tool of the process writes and no thread that was waiting in _flock_acquire
\* replaces what another registered meanwhile, the flock acquisitions the process holds are
\* at least as many as the calls that took the read lock and work, and no other process
\* writes, whatever calls share, close, evict, fail to open and reopen the store meanwhile
\* (bind_store_read_lock, unbind_store_read_lock, drop_store_read_locks).
THEOREM FlockIsHeld == Spec => []FlockCovers
<1>1. Init => QInv
  BY LInit, RInit DEF QInv, RInv
<1>2. QInv => FlockCovers
  <2> SUFFICES ASSUME QInv, ~calls.wrote, ~calls.lost, NEW t \in Thread, At(t, "using")
               PROVE  /\ Cardinality({u \in Thread : At(u, "using") /\ call[u].owns}) <= Len(modes)
                      /\ ~other
    BY DEF FlockCovers
  <2> DEFINE All == {u \in Thread : At(u, "using")}
             Own == {u \in Thread : At(u, "using") /\ call[u].owns}
  <2>1. LInv /\ RInv
    BY DEF QInv, RInv
  <2>2. Cardinality(All) <= Cardinality(Bound)
    BY <2>1, UsersBound
  <2>3. IsFiniteSet(All) /\ IsFiniteSet(Bound) /\ t \in All /\ Own \subseteq All
    BY <2>1, StoreAssumption, FS_Subset DEF RInv, Tallied
  <2>4. Cardinality(Owing) + Cardinality(Bound) = Len(modes) /\ Cardinality(Owing) \in Nat
    BY <2>1, Finite DEF RInv, Tallied
  <2> HIDE DEF All, Own
  <2>5. Cardinality(All) \in Nat /\ Cardinality(Bound) \in Nat
    BY <2>3, FS_CardinalityType
  <2>6. Cardinality(Own) \in Nat /\ Cardinality(Own) <= Cardinality(All)
    BY <2>3, FS_Subset, FS_CardinalityType
  <2>7. Cardinality(All) > 0
    BY <2>3, Counted
  <2>8. Cardinality(Own) <= Len(modes) /\ Len(modes) # 0
    BY <2>2, <2>4, <2>5, <2>6, <2>7
  <2>9. ~other
    BY <2>1, <2>8 DEF RInv, Reading
  <2> QED BY <2>8, <2>9 DEF Own
<1> QED BY <1>1, <1>2, QStep, PTL DEF Spec

-----------------------------------------------------------------------------
(***************************************************************************)
(* The schema and its migrations, for any processes, binaries, versions    *)
(* found and crashes: SchemaSpec of SchemaMigrations.                      *)
(***************************************************************************)

\* What a statement that creates leaves behind, the first n statements of round w,
\* and all rounds before w.
Gives(s) == IF s.op \in {"create", "column"} THEN s.objs ELSE {}
Given(w, n) == UNION {Gives(Statements(w)[j]) : j \in 1..n}
Before(w) == UNION {Given(x, Len(Statements(x))) : x \in 2..(w - 1)}

\* The tables of the schema batch; what no migration and no bulk load takes away;
\* the most that a graph of version v may hold.
Base == {"nodes", "edges", "metadata"}
Lasting == Complete \ (WRITE_INDEXES \cup {"nodes_fts"})
Upper(v) == Complete \cup UNION {Lost(x) : x \in (v + 1)..LATEST_VERSION}

Stages == {"closed", "check", "schema", "plan", "run", "open", "bulk", "failed", "refused"}

\* Types, and the places a process may be at.
PlacedAt(p) ==
  /\ pc[p] # "run" => round[p] = LastRound /\ step[p] = 1 /\ ~half[p]
  /\ round[p] # LastRound => round[p] <= Latest[p] /\ step[p] <= Len(Statements(round[p]))
  /\ step[p] <= Len(Statements(round[p])) + 1
  /\ half[p] => /\ step[p] <= Len(Statements(round[p]))
                /\ Statement(p).op \in {"column", "fts_table", "fts_check"}

Placed ==
  /\ version \in 1..LATEST_VERSION
  /\ fts \in {"empty", "blank", "built"}
  /\ pc \in [Openers -> Stages]
  /\ round \in [Openers -> 2..LastRound]
  /\ step \in [Openers -> Nat \ {0}]
  /\ half \in [Openers -> BOOLEAN]
  /\ shared \in BOOLEAN /\ stale \in BOOLEAN /\ unnamed \in BOOLEAN
  /\ crashes \in Nat
  /\ \A p \in Openers : PlacedAt(p)

\* What the version, and what the place of each process, says was made is there.
StoredAt(p) ==
  /\ pc[p] \in {"plan", "run", "open", "bulk"} => Base \subseteq objects
  /\ Lasting \cap Given(round[p], step[p] - 1) \subseteq objects
  /\ round[p] # LastRound => Lasting \cap Before(round[p]) \subseteq objects

Stored ==
  /\ objects # {} => Base \subseteq objects
  /\ objects = {} => version = 1
  /\ Lasting \cap Before(version + 1) \subseteq objects
  /\ \A p \in Openers : StoredAt(p)

\* Process p is beyond statement k of round w, or at it.
Past(p, w, k) == round[p] # LastRound /\ (round[p] > w \/ (round[p] = w /\ step[p] > k))
On(p, w, k) == round[p] = w /\ step[p] = k

Purged ==
  /\ version >= 12 => ~stale
  /\ \A p \in Openers : Past(p, 12, 1) => ~stale

\* Who is about to create the FTS table, to fill it, to drop and so refill it, to
\* check it, to rebuild it.
WillCreate(p) == On(p, 13, 2) \/ (On(p, 5, 1) /\ half[p])
WillFill(p) == On(p, 13, 3)
WillDrop(p) == ~half[p] /\ Past(p, 5, 1) /\ ~Past(p, 13, 1)
WillCheck(p) == Past(p, 13, 3) /\ ~Past(p, 15, 1)
WillRebuild(p) == On(p, 15, 1) /\ half[p]

\* Somebody has filled the table, or checked it.
Filled == version >= 13 \/ \E p \in Openers : Past(p, 13, 3)
Checked == version >= 15 \/ \E p \in Openers : Past(p, 15, 1)

\* When opens overlap and nobody dies: a table that is not as it was promised has
\* a process that will repair it.
Watched ==
  /\ Filled /\ "nodes_fts" \notin objects =>
       \E p \in Openers : WillCreate(p) \/ WillRebuild(p)
  /\ Filled /\ "nodes_fts" \in objects /\ fts = "empty" =>
       \E p \in Openers : WillFill(p) \/ WillDrop(p) \/ WillRebuild(p)
  /\ Checked /\ "nodes_fts" \in objects /\ fts = "blank" =>
       \E p \in Openers : WillCheck(p)

\* When they do not overlap it is as promised.
Sure ==
  /\ Filled => "nodes_fts" \in objects /\ fts # "empty"
  /\ Checked => fts = "built"

\* When they do not overlap: the versions, the schema batch, what the round has
\* dropped, what the statement in hand needs, and what the last round leaves.
InOrder(p) ==
  /\ pc[p] # "failed"
  /\ pc[p] \in {"schema", "plan", "run", "open", "bulk"} => version <= Latest[p]
  /\ round[p] # LastRound => version = round[p] - 1
  /\ (pc[p] = "run" /\ round[p] = LastRound) \/ pc[p] \in {"open", "bulk"} => version = Latest[p]

Batch(p) ==
  /\ pc[p] \in {"plan", "run", "open"} => SCHEMA_SQL \subseteq objects
  /\ pc[p] = "bulk" => SCHEMA_SQL \ WRITE_INDEXES \subseteq objects

RoundDropped(p) ==
  round[p] # LastRound => \A j \in 1..(step[p] - 1) : Statements(round[p])[j].op = "drop" =>
      (Falls(Statements(round[p])[j].objs) \ {"nodes_fts"}) \cap objects = {}

Ready(p) ==
  /\ On(p, 3, 2) => Flows \subseteq objects
  /\ On(p, 16, 2) \/ On(p, 16, 3) \/ On(p, 16, 4) => "flows" \in objects
  /\ half[p] /\ Statement(p).op = "column" => Statement(p).objs \cap objects = {}
  /\ WillCreate(p) => "nodes_fts" \notin objects
  /\ WillFill(p) => "nodes_fts" \in objects /\ fts = "empty"

Named(p) ==
  /\ (pc[p] = "run" /\ round[p] = LastRound /\ step[p] >= 3) \/ pc[p] \in {"open", "bulk"} =>
       ~unnamed /\ "edges.target_name" \in objects
  /\ (pc[p] = "run" /\ round[p] = LastRound /\ step[p] >= 4) \/ pc[p] = "open" =>
       "idx_edges_target_name_kind" \in objects

SoloAt(p) == InOrder(p) /\ Batch(p) /\ RoundDropped(p) /\ Ready(p) /\ Named(p)

Solo == ~shared =>
  /\ \A p, q \in Openers : Under(p) /\ Under(q) => p = q
  /\ objects \subseteq Upper(version)
  /\ \A p \in Openers : SoloAt(p)

\* A migration that does nothing is a round with its stamp.
LEMMA Stamped0 ==
  ASSUME NEW x
  PROVE  /\ Len(<<>>) = 0 /\ Len(<<>> \o <<x>>) = 1 /\ (<<>> \o <<x>>)[1] = x
<1> DEFINE t == <<x>>
<1>1. t \in Seq({x}) /\ Len(t) = 1 /\ t[1] = x
  OBVIOUS
<1>2. <<>> \o t = t
  <2> HIDE DEF t
  <2> QED BY <1>1, ConcatEmptySeq
<1> QED
  BY <1>1, <1>2

\* One statement of a migration and the stamp that ends its round.
LEMMA Stamped1 ==
  ASSUME NEW a, NEW x
  PROVE  /\ Len(<<a>>) = 1 /\ Len(<<a>> \o <<x>>) = 2
         /\ (<<a>> \o <<x>>)[1] = a
         /\ (<<a>> \o <<x>>)[2] = x
         /\ <<a>>[1] = a
<1> DEFINE S == {a, x}
           s == <<a>>
           t == <<x>>
<1>1. s \in Seq(S) /\ t \in Seq(S) /\ Len(s) = 1 /\ Len(t) = 1
  OBVIOUS
<1>2. s[1] = a /\ t[1] = x
  OBVIOUS
<1> HIDE DEF s, t, S
<1>3. /\ Len(s \o t) = Len(s) + Len(t)
      /\ \A i \in 1..(Len(s) + Len(t)) :
            (s \o t)[i] = IF i <= Len(s) THEN s[i] ELSE t[i - Len(s)]
  BY <1>1, ConcatProperties
<1>4. Len(s \o t) = 2 /\ (s \o t)[2] = x
  BY <1>1, <1>2, <1>3
<1>5. (s \o t)[1] = a
  BY <1>1, <1>2, <1>3
<1> QED
  BY <1>1, <1>2, <1>4, <1>5 DEF s, t

\* Two statements of a migration and the stamp that ends its round.
LEMMA Stamped2 ==
  ASSUME NEW a, NEW b, NEW x
  PROVE  /\ Len(<<a, b>>) = 2 /\ Len(<<a, b>> \o <<x>>) = 3
         /\ (<<a, b>> \o <<x>>)[1] = a /\ (<<a, b>> \o <<x>>)[2] = b
         /\ (<<a, b>> \o <<x>>)[3] = x
         /\ <<a, b>>[1] = a /\ <<a, b>>[2] = b
<1> DEFINE S == {a, b, x}
           s == <<a, b>>
           t == <<x>>
<1>1. s \in Seq(S) /\ t \in Seq(S) /\ Len(s) = 2 /\ Len(t) = 1
  OBVIOUS
<1>2. s[1] = a /\ s[2] = b /\ t[1] = x
  OBVIOUS
<1> HIDE DEF s, t, S
<1>3. /\ Len(s \o t) = Len(s) + Len(t)
      /\ \A i \in 1..(Len(s) + Len(t)) :
            (s \o t)[i] = IF i <= Len(s) THEN s[i] ELSE t[i - Len(s)]
  BY <1>1, ConcatProperties
<1>4. Len(s \o t) = 3 /\ (s \o t)[3] = x
  BY <1>1, <1>2, <1>3
<1>5. (s \o t)[1] = a /\ (s \o t)[2] = b
  BY <1>1, <1>2, <1>3
<1> QED
  BY <1>1, <1>2, <1>4, <1>5 DEF s, t

\* Three statements of a migration and the stamp that ends its round.
LEMMA Stamped3 ==
  ASSUME NEW a, NEW b, NEW c, NEW x
  PROVE  /\ Len(<<a, b, c>>) = 3 /\ Len(<<a, b, c>> \o <<x>>) = 4
         /\ (<<a, b, c>> \o <<x>>)[1] = a /\ (<<a, b, c>> \o <<x>>)[2] = b
             /\ (<<a, b, c>> \o <<x>>)[3] = c
         /\ (<<a, b, c>> \o <<x>>)[4] = x
         /\ <<a, b, c>>[1] = a /\ <<a, b, c>>[2] = b /\ <<a, b, c>>[3] = c
<1> DEFINE S == {a, b, c, x}
           s == <<a, b, c>>
           t == <<x>>
<1>1. s \in Seq(S) /\ t \in Seq(S) /\ Len(s) = 3 /\ Len(t) = 1
  OBVIOUS
<1>2. s[1] = a /\ s[2] = b /\ s[3] = c /\ t[1] = x
  OBVIOUS
<1> HIDE DEF s, t, S
<1>3. /\ Len(s \o t) = Len(s) + Len(t)
      /\ \A i \in 1..(Len(s) + Len(t)) :
            (s \o t)[i] = IF i <= Len(s) THEN s[i] ELSE t[i - Len(s)]
  BY <1>1, ConcatProperties
<1>4. Len(s \o t) = 4 /\ (s \o t)[4] = x
  BY <1>1, <1>2, <1>3
<1>5. (s \o t)[1] = a /\ (s \o t)[2] = b /\ (s \o t)[3] = c
  BY <1>1, <1>2, <1>3
<1> QED
  BY <1>1, <1>2, <1>4, <1>5 DEF s, t

\* Four statements of a migration and the stamp that ends its round.
LEMMA Stamped4 ==
  ASSUME NEW a, NEW b, NEW c, NEW d, NEW x
  PROVE  /\ Len(<<a, b, c, d>>) = 4 /\ Len(<<a, b, c, d>> \o <<x>>) = 5
         /\ (<<a, b, c, d>> \o <<x>>)[1] = a /\ (<<a, b, c, d>> \o <<x>>)[2] = b
             /\ (<<a, b, c, d>> \o <<x>>)[3] = c /\ (<<a, b, c, d>> \o <<x>>)[4] = d
         /\ (<<a, b, c, d>> \o <<x>>)[5] = x
         /\ <<a, b, c, d>>[1] = a /\ <<a, b, c, d>>[2] = b /\ <<a, b, c, d>>[3] = c
             /\ <<a, b, c, d>>[4] = d
<1> DEFINE S == {a, b, c, d, x}
           s == <<a, b, c, d>>
           t == <<x>>
<1>1. s \in Seq(S) /\ t \in Seq(S) /\ Len(s) = 4 /\ Len(t) = 1
  OBVIOUS
<1>2. s[1] = a /\ s[2] = b /\ s[3] = c /\ s[4] = d /\ t[1] = x
  OBVIOUS
<1> HIDE DEF s, t, S
<1>3. /\ Len(s \o t) = Len(s) + Len(t)
      /\ \A i \in 1..(Len(s) + Len(t)) :
            (s \o t)[i] = IF i <= Len(s) THEN s[i] ELSE t[i - Len(s)]
  BY <1>1, ConcatProperties
<1>4. Len(s \o t) = 5 /\ (s \o t)[5] = x
  BY <1>1, <1>2, <1>3
<1>5. (s \o t)[1] = a /\ (s \o t)[2] = b /\ (s \o t)[3] = c /\ (s \o t)[4] = d
  BY <1>1, <1>2, <1>3
<1> QED
  BY <1>1, <1>2, <1>4, <1>5 DEF s, t

\* The statements of round 2.
LEMMA Round2 ==
  /\ Migration(2) = migrate_v2 /\ Len(Migration(2)) = 1 /\ Len(Statements(2)) = 2
  /\ Statements(2)[1] = Column("nodes", "nodes.signature")
  /\ Statements(2)[2] = SetVersion
  /\ Migration(2)[1] = Column("nodes", "nodes.signature")
<1>1. Migration(2) = migrate_v2
  BY DEF Migration
<1>2. Statements(2) = Migration(2) \o <<SetVersion>>
  BY DEF Statements, StampedMigration, LastRound, LATEST_VERSION
<1> QED
  <2>1. Statements(2) = migrate_v2 \o <<SetVersion>>
    BY <1>1, <1>2
  <2> QED
    BY <1>1, <2>1, Stamped1 DEF migrate_v2

\* The statements of round 3.
LEMMA Round3 ==
  /\ Migration(3) = migrate_v3 /\ Len(Migration(3)) = 2 /\ Len(Statements(3)) = 3
  /\ Statements(3)[1] = Create(Flows, {})
  /\ Statements(3)[2] = Create(FlowIndexes, Flows)
  /\ Statements(3)[3] = SetVersion
  /\ Migration(3)[1] = Create(Flows, {})
  /\ Migration(3)[2] = Create(FlowIndexes, Flows)
<1>1. Migration(3) = migrate_v3
  BY DEF Migration
<1>2. Statements(3) = Migration(3) \o <<SetVersion>>
  BY DEF Statements, StampedMigration, LastRound, LATEST_VERSION
<1> QED
  <2>1. Statements(3) = migrate_v3 \o <<SetVersion>>
    BY <1>1, <1>2
  <2> QED
    BY <1>1, <2>1, Stamped2 DEF migrate_v3

\* The statements of round 4.
LEMMA Round4 ==
  /\ Migration(4) = migrate_v4 /\ Len(Migration(4)) = 3 /\ Len(Statements(4)) = 4
  /\ Statements(4)[1] = Create({"communities"}, {})
  /\ Statements(4)[2] = Column("nodes", "nodes.community_id")
  /\ Statements(4)[3] = Create({"idx_nodes_community", "idx_communities"}, {"nodes.community_id",
      "communities"})
  /\ Statements(4)[4] = SetVersion
  /\ Migration(4)[1] = Create({"communities"}, {})
  /\ Migration(4)[2] = Column("nodes", "nodes.community_id")
  /\ Migration(4)[3] = Create({"idx_nodes_community", "idx_communities"}, {"nodes.community_id",
      "communities"})
<1>1. Migration(4) = migrate_v4
  BY DEF Migration
<1>2. Statements(4) = Migration(4) \o <<SetVersion>>
  BY DEF Statements, StampedMigration, LastRound, LATEST_VERSION
<1> QED
  <2>1. Statements(4) = migrate_v4 \o <<SetVersion>>
    BY <1>1, <1>2
  <2> QED
    BY <1>1, <2>1, Stamped3 DEF migrate_v4

\* The statements of round 5.
LEMMA Round5 ==
  /\ Migration(5) = migrate_v5 /\ Len(Migration(5)) = 1 /\ Len(Statements(5)) = 2
  /\ Statements(5)[1] = Plain("fts_table")
  /\ Statements(5)[2] = SetVersion
  /\ Migration(5)[1] = Plain("fts_table")
<1>1. Migration(5) = migrate_v5
  BY DEF Migration
<1>2. Statements(5) = Migration(5) \o <<SetVersion>>
  BY DEF Statements, StampedMigration, LastRound, LATEST_VERSION
<1> QED
  <2>1. Statements(5) = migrate_v5 \o <<SetVersion>>
    BY <1>1, <1>2
  <2> QED
    BY <1>1, <2>1, Stamped1 DEF migrate_v5

\* The statements of round 6.
LEMMA Round6 ==
  /\ Migration(6) = migrate_v6 /\ Len(Migration(6)) = 2 /\ Len(Statements(6)) = 3
  /\ Statements(6)[1] = Create({"community_summaries", "flow_snapshots", "risk_index"}, {})
  /\ Statements(6)[2] = Create({"idx_risk_index_score"}, {"risk_index"})
  /\ Statements(6)[3] = SetVersion
  /\ Migration(6)[1] = Create({"community_summaries", "flow_snapshots", "risk_index"}, {})
  /\ Migration(6)[2] = Create({"idx_risk_index_score"}, {"risk_index"})
<1>1. Migration(6) = migrate_v6
  BY DEF Migration
<1>2. Statements(6) = Migration(6) \o <<SetVersion>>
  BY DEF Statements, StampedMigration, LastRound, LATEST_VERSION
<1> QED
  <2>1. Statements(6) = migrate_v6 \o <<SetVersion>>
    BY <1>1, <1>2
  <2> QED
    BY <1>1, <2>1, Stamped2 DEF migrate_v6

\* The statements of round 7.
LEMMA Round7 ==
  /\ Migration(7) = migrate_v7 /\ Len(Migration(7)) = 1 /\ Len(Statements(7)) = 2
  /\ Statements(7)[1] = Create({"idx_edges_target_kind", "idx_edges_source_kind"}, {"edges"})
  /\ Statements(7)[2] = SetVersion
  /\ Migration(7)[1] = Create({"idx_edges_target_kind", "idx_edges_source_kind"}, {"edges"})
<1>1. Migration(7) = migrate_v7
  BY DEF Migration
<1>2. Statements(7) = Migration(7) \o <<SetVersion>>
  BY DEF Statements, StampedMigration, LastRound, LATEST_VERSION
<1> QED
  <2>1. Statements(7) = migrate_v7 \o <<SetVersion>>
    BY <1>1, <1>2
  <2> QED
    BY <1>1, <2>1, Stamped1 DEF migrate_v7

\* The statements of round 8.
LEMMA Round8 ==
  /\ Migration(8) = migrate_v8 /\ Len(Migration(8)) = 1 /\ Len(Statements(8)) = 2
  /\ Statements(8)[1] = Create({"idx_edges_composite"}, {"edges"})
  /\ Statements(8)[2] = SetVersion
  /\ Migration(8)[1] = Create({"idx_edges_composite"}, {"edges"})
<1>1. Migration(8) = migrate_v8
  BY DEF Migration
<1>2. Statements(8) = Migration(8) \o <<SetVersion>>
  BY DEF Statements, StampedMigration, LastRound, LATEST_VERSION
<1> QED
  <2>1. Statements(8) = migrate_v8 \o <<SetVersion>>
    BY <1>1, <1>2
  <2> QED
    BY <1>1, <2>1, Stamped1 DEF migrate_v8

\* The statements of round 9.
LEMMA Round9 ==
  /\ Migration(9) = migrate_v9 /\ Len(Migration(9)) = 2 /\ Len(Statements(9)) = 3
  /\ Statements(9)[1] = Column("edges", "edges.confidence")
  /\ Statements(9)[2] = Column("edges", "edges.confidence_tier")
  /\ Statements(9)[3] = SetVersion
  /\ Migration(9)[1] = Column("edges", "edges.confidence")
  /\ Migration(9)[2] = Column("edges", "edges.confidence_tier")
<1>1. Migration(9) = migrate_v9
  BY DEF Migration
<1>2. Statements(9) = Migration(9) \o <<SetVersion>>
  BY DEF Statements, StampedMigration, LastRound, LATEST_VERSION
<1> QED
  <2>1. Statements(9) = migrate_v9 \o <<SetVersion>>
    BY <1>1, <1>2
  <2> QED
    BY <1>1, <2>1, Stamped2 DEF migrate_v9

\* The statements of round 10.
LEMMA Round10 ==
  /\ Migration(10) = migrate_v10 /\ Len(Migration(10)) = 1 /\ Len(Statements(10)) = 2
  /\ Statements(10)[1] = Create({"idx_nodes_parent_name"}, {"nodes"})
  /\ Statements(10)[2] = SetVersion
  /\ Migration(10)[1] = Create({"idx_nodes_parent_name"}, {"nodes"})
<1>1. Migration(10) = migrate_v10
  BY DEF Migration
<1>2. Statements(10) = Migration(10) \o <<SetVersion>>
  BY DEF Statements, StampedMigration, LastRound, LATEST_VERSION
<1> QED
  <2>1. Statements(10) = migrate_v10 \o <<SetVersion>>
    BY <1>1, <1>2
  <2> QED
    BY <1>1, <2>1, Stamped1 DEF migrate_v10

\* The statements of round 11.
LEMMA Round11 ==
  /\ Migration(11) = migrate_v11 /\ Len(Migration(11)) = 1 /\ Len(Statements(11)) = 2
  /\ Statements(11)[1] = Column("nodes", "nodes.mtime_ns")
  /\ Statements(11)[2] = SetVersion
  /\ Migration(11)[1] = Column("nodes", "nodes.mtime_ns")
<1>1. Migration(11) = migrate_v11
  BY DEF Migration
<1>2. Statements(11) = Migration(11) \o <<SetVersion>>
  BY DEF Statements, StampedMigration, LastRound, LATEST_VERSION
<1> QED
  <2>1. Statements(11) = migrate_v11 \o <<SetVersion>>
    BY <1>1, <1>2
  <2> QED
    BY <1>1, <2>1, Stamped1 DEF migrate_v11

\* The statements of round 12.
LEMMA Round12 ==
  /\ Migration(12) = migrate_v12 /\ Len(Migration(12)) = 1 /\ Len(Statements(12)) = 2
  /\ Statements(12)[1] = Plain("purge")
  /\ Statements(12)[2] = SetVersion
  /\ Migration(12)[1] = Plain("purge")
<1>1. Migration(12) = migrate_v12
  BY DEF Migration
<1>2. Statements(12) = Migration(12) \o <<SetVersion>>
  BY DEF Statements, StampedMigration, LastRound, LATEST_VERSION
<1> QED
  <2>1. Statements(12) = migrate_v12 \o <<SetVersion>>
    BY <1>1, <1>2
  <2> QED
    BY <1>1, <2>1, Stamped1 DEF migrate_v12

\* The statements of round 13.
LEMMA Round13 ==
  /\ Migration(13) = migrate_v13 /\ Len(Migration(13)) = 3 /\ Len(Statements(13)) = 4
  /\ Statements(13)[1] = DropAll({"nodes_fts"})
  /\ Statements(13)[2] = Plain("fts_create")
  /\ Statements(13)[3] = Plain("fts_fill")
  /\ Statements(13)[4] = SetVersion
  /\ Migration(13)[1] = DropAll({"nodes_fts"})
  /\ Migration(13)[2] = Plain("fts_create")
  /\ Migration(13)[3] = Plain("fts_fill")
<1>1. Migration(13) = migrate_v13
  BY DEF Migration
<1>2. Statements(13) = Migration(13) \o <<SetVersion>>
  BY DEF Statements, StampedMigration, LastRound, LATEST_VERSION
<1> QED
  <2>1. Statements(13) = migrate_v13 \o <<SetVersion>>
    BY <1>1, <1>2
  <2> QED
    BY <1>1, <2>1, Stamped3 DEF migrate_v13

\* The statements of round 14.
LEMMA Round14 ==
  /\ Migration(14) = <<>> /\ Len(Migration(14)) = 0 /\ Len(Statements(14)) = 1
  /\ Statements(14)[1] = SetVersion
<1>1. Migration(14) = <<>>
  BY DEF Migration
<1>2. Statements(14) = Migration(14) \o <<SetVersion>>
  BY DEF Statements, StampedMigration, LastRound, LATEST_VERSION
<1> QED
  BY <1>1, <1>2, Stamped0

\* The statements of round 15.
LEMMA Round15 ==
  /\ Migration(15) = migrate_v15 /\ Len(Migration(15)) = 1 /\ Len(Statements(15)) = 2
  /\ Statements(15)[1] = Plain("fts_check")
  /\ Statements(15)[2] = SetVersion
  /\ Migration(15)[1] = Plain("fts_check")
<1>1. Migration(15) = migrate_v15
  BY DEF Migration
<1>2. Statements(15) = Migration(15) \o <<SetVersion>>
  BY DEF Statements, StampedMigration, LastRound, LATEST_VERSION
<1> QED
  <2>1. Statements(15) = migrate_v15 \o <<SetVersion>>
    BY <1>1, <1>2
  <2> QED
    BY <1>1, <2>1, Stamped1 DEF migrate_v15

\* The statements of round 16.
LEMMA Round16 ==
  /\ Migration(16) = migrate_v16 /\ Len(Migration(16)) = 4 /\ Len(Statements(16)) = 5
  /\ Statements(16)[1] = Skip("flows")
  /\ Statements(16)[2] = Column("flows", "flows.kind")
  /\ Statements(16)[3] = Column("flows", "flows.truncated")
  /\ Statements(16)[4] = Column("flows", "flows.truncation_reason")
  /\ Statements(16)[5] = SetVersion
  /\ Migration(16)[1] = Skip("flows")
  /\ Migration(16)[2] = Column("flows", "flows.kind")
  /\ Migration(16)[3] = Column("flows", "flows.truncated")
  /\ Migration(16)[4] = Column("flows", "flows.truncation_reason")
<1>1. Migration(16) = migrate_v16
  BY DEF Migration
<1>2. Statements(16) = Migration(16) \o <<SetVersion>>
  BY DEF Statements, StampedMigration, LastRound, LATEST_VERSION
<1> QED
  <2>1. Statements(16) = migrate_v16 \o <<SetVersion>>
    BY <1>1, <1>2
  <2> QED
    BY <1>1, <2>1, Stamped4 DEF migrate_v16

\* The statements of round 17.
LEMMA Round17 ==
  /\ Migration(17) = migrate_v17 /\ Len(Migration(17)) = 1 /\ Len(Statements(17)) = 2
  /\ Statements(17)[1] = DropAll({"idx_edges_source", "idx_edges_target", "idx_nodes_qualified",
      "idx_edges_composite"})
  /\ Statements(17)[2] = SetVersion
  /\ Migration(17)[1] = DropAll({"idx_edges_source", "idx_edges_target", "idx_nodes_qualified",
      "idx_edges_composite"})
<1>1. Migration(17) = migrate_v17
  BY DEF Migration
<1>2. Statements(17) = Migration(17) \o <<SetVersion>>
  BY DEF Statements, StampedMigration, LastRound, LATEST_VERSION
<1> QED
  <2>1. Statements(17) = migrate_v17 \o <<SetVersion>>
    BY <1>1, <1>2
  <2> QED
    BY <1>1, <2>1, Stamped1 DEF migrate_v17

\* The statements of round 18.
LEMMA Round18 ==
  /\ Migration(18) = migrate_v18 /\ Len(Migration(18)) = 3 /\ Len(Statements(18)) = 4
  /\ Statements(18)[1] = DropAll({"flow_snapshots"})
  /\ Statements(18)[2] = DropAll({"flow_memberships"})
  /\ Statements(18)[3] = DropAll({"flows"})
  /\ Statements(18)[4] = SetVersion
  /\ Migration(18)[1] = DropAll({"flow_snapshots"})
  /\ Migration(18)[2] = DropAll({"flow_memberships"})
  /\ Migration(18)[3] = DropAll({"flows"})
<1>1. Migration(18) = migrate_v18
  BY DEF Migration
<1>2. Statements(18) = Migration(18) \o <<SetVersion>>
  BY DEF Statements, StampedMigration, LastRound, LATEST_VERSION
<1> QED
  <2>1. Statements(18) = migrate_v18 \o <<SetVersion>>
    BY <1>1, <1>2
  <2> QED
    BY <1>1, <2>1, Stamped3 DEF migrate_v18

\* The statements of round 19.
LEMMA Round19 ==
  /\ Migration(19) = migrate_v19 /\ Len(Migration(19)) = 1 /\ Len(Statements(19)) = 2
  /\ Statements(19)[1] = DropAll({"hub_scores", "bridge_scores"})
  /\ Statements(19)[2] = SetVersion
  /\ Migration(19)[1] = DropAll({"hub_scores", "bridge_scores"})
<1>1. Migration(19) = migrate_v19
  BY DEF Migration
<1>2. Statements(19) = Migration(19) \o <<SetVersion>>
  BY DEF Statements, StampedMigration, LastRound, LATEST_VERSION
<1> QED
  <2>1. Statements(19) = migrate_v19 \o <<SetVersion>>
    BY <1>1, <1>2
  <2> QED
    BY <1>1, <2>1, Stamped1 DEF migrate_v19

\* The statements of round 20.
LEMMA Round20 ==
  /\ Migration(20) = migrate_v20 /\ Len(Migration(20)) = 1 /\ Len(Statements(20)) = 2
  /\ Statements(20)[1] = DropAll({"community_summaries"})
  /\ Statements(20)[2] = SetVersion
  /\ Migration(20)[1] = DropAll({"community_summaries"})
<1>1. Migration(20) = migrate_v20
  BY DEF Migration
<1>2. Statements(20) = Migration(20) \o <<SetVersion>>
  BY DEF Statements, StampedMigration, LastRound, LATEST_VERSION
<1> QED
  <2>1. Statements(20) = migrate_v20 \o <<SetVersion>>
    BY <1>1, <1>2
  <2> QED
    BY <1>1, <2>1, Stamped1 DEF migrate_v20

\* The statements after the loop.
LEMMA RoundLast ==
  /\ Len(Statements(LastRound)) = 3
  /\ Statements(LastRound)[1] = Column("edges", "edges.target_name")
  /\ Statements(LastRound)[2] = Plain("backfill")
  /\ Statements(LastRound)[3] = Create({"idx_edges_target_name_kind"}, {"edges.target_name"})
<1> QED
  BY DEF Statements, ensure_edge_target_name_column

\* What a statement of the chain may be, at place k of round w.
Shape(w, k, s) ==
  /\ s.op \in {"create", "drop", "column", "skip", "version", "purge", "backfill",
               "fts_table", "fts_create", "fts_fill", "fts_check"}
  /\ (s.op = "version") <=> (w # LastRound /\ k = Len(Statements(w)))
  /\ (s.op = "fts_table") <=> (w = 5 /\ k = 1)
  /\ (s.op = "fts_create") <=> (w = 13 /\ k = 2)
  /\ (s.op = "fts_fill") <=> (w = 13 /\ k = 3)
  /\ (s.op = "fts_check") <=> (w = 15 /\ k = 1)
  /\ (s.op = "skip") <=> (w = 16 /\ k = 1)
  /\ (s.op = "purge") <=> (w = 12 /\ k = 1)
  /\ (s.op = "backfill") <=> (w = LastRound /\ k = 2)
  /\ s.op = "skip" => s.on = {"flows"}

\* A drop takes nothing of the latest schema but the FTS table, and that only in
\* round 13.
ShapeOfDrop(w, k, s) == s.op = "drop" =>
  /\ Falls(s.objs) \cap (Lasting \cup SCHEMA_SQL) = {}
  /\ ("nodes_fts" \in Falls(s.objs)) <=> (w = 13 /\ k = 1)
  /\ ("nodes_fts" \in s.objs) <=> (w = 13 /\ k = 1)
  /\ w \in {13, 17, 18, 19, 20}
  /\ w = 13 => Falls(s.objs) = {"nodes_fts"}

\* What a statement makes is part of the latest schema or goes in a later round.
ShapeOfMake(w, s) == s.op \in {"create", "column"} =>
  /\ "nodes_fts" \notin s.objs
  /\ s.objs \subseteq Complete \cup Lost(17) \cup Lost(18) \cup Lost(20)
  /\ (w <= 16 \/ (w = LastRound /\ s.objs \subseteq Complete))
  /\ (s.op = "create" => w \in {3, 4, 6, 7, 8, 10, LastRound})
  /\ (s.op = "column" => w \in {2, 4, 9, 11, 16, LastRound})

\* A column is added to a table that stays, or to the flows in round 16.
ShapeOfColumn(w, k, s) == s.op = "column" =>
  /\ \A x, y \in s.objs : x = y
  /\ (w # 16 => s.on \subseteq Base /\ s.objs \subseteq Lasting)
  /\ (w = 16 => s.on = {"flows"} /\ k \in 2..4)

\* Membership of Lost, from the statement that drops the object.
LEMMA InLost ==
  ASSUME NEW w, NEW i \in DOMAIN Migration(w), Migration(w)[i].op = "drop",
         NEW x \in Falls(Migration(w)[i].objs), x # "nodes_fts"
  PROVE  x \in Lost(w)
  BY DEF Lost, Range

\* What rounds 17, 18 and 20 take away.
LEMMA LostRounds ==
  /\ "idx_edges_composite" \in Lost(17)
  /\ Flows \cup FlowIndexes \cup FlowColumns \cup {"flow_snapshots"} \subseteq Lost(18)
  /\ "community_summaries" \in Lost(20)
<1> DEFINE Takes(w, i, S) == i \in DOMAIN Migration(w) /\ Migration(w)[i].op = "drop"
                              /\ S \subseteq Falls(Migration(w)[i].objs) /\ "nodes_fts" \notin S
<1>1. \A w, i, S : Takes(w, i, S) => S \subseteq Lost(w)
  BY InLost
<1>2. Takes(17, 1, {"idx_edges_composite"}) /\ Takes(20, 1, {"community_summaries"})
  BY Round17, Round20 DEF DropAll, Falls, migrate_v17, migrate_v20
<1>3. Takes(18, 1, {"flow_snapshots"})
  BY Round18 DEF DropAll, Falls, migrate_v18
<1>4. Takes(18, 2, {"flow_memberships"})
  BY Round18 DEF DropAll, Falls, migrate_v18
<1>5. Takes(18, 3, {"flows"} \cup FlowIndexes \cup FlowColumns)
  BY Round18 DEF DropAll, Falls, migrate_v18, FlowIndexes, FlowColumns
<1> HIDE DEF Takes
<1>6. /\ {"idx_edges_composite"} \subseteq Lost(17) /\ {"community_summaries"} \subseteq Lost(20)
      /\ {"flow_snapshots"} \subseteq Lost(18) /\ {"flow_memberships"} \subseteq Lost(18)
      /\ {"flows"} \cup FlowIndexes \cup FlowColumns \subseteq Lost(18)
  BY <1>1, <1>2, <1>3, <1>4, <1>5
<1> QED
  BY <1>6 DEF Flows


\* Every statement of every round has its shape.
LEMMA Shapes ==
  ASSUME NEW w \in 2..LastRound, NEW k \in 1..Len(Statements(w))
  PROVE  LET s == Statements(w)[k]
         IN  Shape(w, k, s) /\ ShapeOfDrop(w, k, s) /\ ShapeOfMake(w, s) /\ ShapeOfColumn(w, k, s)
<1> DEFINE Good(x, i) == LET s == Statements(x)[i]
             IN  Shape(x, i, s) /\ ShapeOfDrop(x, i, s) /\ ShapeOfMake(x, s)
                 /\ ShapeOfColumn(x, i, s)
           Round(x) == \A i \in 1..Len(Statements(x)) : Good(x, i)
<1>0. LastRound = 21
  BY DEF LastRound, LATEST_VERSION
<1>2. Round(2)
  <2>1. Shape(2, 1, Statements(2)[1]) /\ Shape(2, 2, Statements(2)[2])
    BY <1>0, Round2 DEF Shape, Create, Column, DropAll, Plain, Skip, SetVersion
  <2>2. ShapeOfDrop(2, 1, Statements(2)[1]) /\ ShapeOfDrop(2, 2, Statements(2)[2])
    BY <1>0, Round2 DEF ShapeOfDrop, Create, Column, DropAll, Plain, Skip, SetVersion, Falls,
       Lasting, SCHEMA_SQL, Complete,
       WRITE_INDEXES, FreshColumns, FlowIndexes, FlowColumns
  <2>3. ShapeOfMake(2, Statements(2)[1]) /\ ShapeOfMake(2, Statements(2)[2])
    BY <1>0, Round2, LostRounds DEF ShapeOfMake, Create, Column, DropAll, Plain, Skip,
       SetVersion, SCHEMA_SQL, Complete,
       WRITE_INDEXES, FreshColumns, Flows, FlowIndexes, FlowColumns
  <2>4. ShapeOfColumn(2, 1, Statements(2)[1]) /\ ShapeOfColumn(2, 2, Statements(2)[2])
    BY <1>0, Round2 DEF ShapeOfColumn, Create, Column, DropAll, Plain, Skip, SetVersion, Base,
       Lasting, SCHEMA_SQL, Complete,
       WRITE_INDEXES, FreshColumns
  <2>5. Len(Statements(2)) = 2
    BY Round2
  <2> QED
    BY <2>1, <2>2, <2>3, <2>4, <2>5
<1>3. Round(3)
  <2>1. Shape(3, 1, Statements(3)[1]) /\ Shape(3, 2, Statements(3)[2])
        /\ Shape(3, 3, Statements(3)[3])
    BY <1>0, Round3 DEF Shape, Create, Column, DropAll, Plain, Skip, SetVersion
  <2>2. ShapeOfDrop(3, 1, Statements(3)[1]) /\ ShapeOfDrop(3, 2, Statements(3)[2])
        /\ ShapeOfDrop(3, 3, Statements(3)[3])
    BY <1>0, Round3 DEF ShapeOfDrop, Create, Column, DropAll, Plain, Skip, SetVersion, Falls,
       Lasting, SCHEMA_SQL, Complete,
       WRITE_INDEXES, FreshColumns, FlowIndexes, FlowColumns
  <2>3. ShapeOfMake(3, Statements(3)[1]) /\ ShapeOfMake(3, Statements(3)[2])
        /\ ShapeOfMake(3, Statements(3)[3])
    BY <1>0, Round3, LostRounds DEF ShapeOfMake, Create, Column, DropAll, Plain, Skip,
       SetVersion, SCHEMA_SQL, Complete,
       WRITE_INDEXES, FreshColumns, Flows, FlowIndexes, FlowColumns
  <2>4. ShapeOfColumn(3, 1, Statements(3)[1]) /\ ShapeOfColumn(3, 2, Statements(3)[2])
        /\ ShapeOfColumn(3, 3, Statements(3)[3])
    BY <1>0, Round3 DEF ShapeOfColumn, Create, Column, DropAll, Plain, Skip, SetVersion, Base,
       Lasting, SCHEMA_SQL, Complete,
       WRITE_INDEXES, FreshColumns
  <2>5. Len(Statements(3)) = 3
    BY Round3
  <2> QED
    BY <2>1, <2>2, <2>3, <2>4, <2>5
<1>4. Round(4)
  <2>1. Shape(4, 1, Statements(4)[1]) /\ Shape(4, 2, Statements(4)[2])
        /\ Shape(4, 3, Statements(4)[3]) /\ Shape(4, 4, Statements(4)[4])
    BY <1>0, Round4 DEF Shape, Create, Column, DropAll, Plain, Skip, SetVersion
  <2>2. ShapeOfDrop(4, 1, Statements(4)[1]) /\ ShapeOfDrop(4, 2, Statements(4)[2])
        /\ ShapeOfDrop(4, 3, Statements(4)[3]) /\ ShapeOfDrop(4, 4, Statements(4)[4])
    BY <1>0, Round4 DEF ShapeOfDrop, Create, Column, DropAll, Plain, Skip, SetVersion, Falls,
       Lasting, SCHEMA_SQL, Complete,
       WRITE_INDEXES, FreshColumns, FlowIndexes, FlowColumns
  <2>3. ShapeOfMake(4, Statements(4)[1]) /\ ShapeOfMake(4, Statements(4)[2])
        /\ ShapeOfMake(4, Statements(4)[3]) /\ ShapeOfMake(4, Statements(4)[4])
    BY <1>0, Round4, LostRounds DEF ShapeOfMake, Create, Column, DropAll, Plain, Skip,
       SetVersion, SCHEMA_SQL, Complete,
       WRITE_INDEXES, FreshColumns, Flows, FlowIndexes, FlowColumns
  <2>4. ShapeOfColumn(4, 1, Statements(4)[1]) /\ ShapeOfColumn(4, 2, Statements(4)[2])
        /\ ShapeOfColumn(4, 3, Statements(4)[3]) /\ ShapeOfColumn(4, 4, Statements(4)[4])
    BY <1>0, Round4 DEF ShapeOfColumn, Create, Column, DropAll, Plain, Skip, SetVersion, Base,
       Lasting, SCHEMA_SQL, Complete,
       WRITE_INDEXES, FreshColumns
  <2>5. Len(Statements(4)) = 4
    BY Round4
  <2> QED
    BY <2>1, <2>2, <2>3, <2>4, <2>5
<1>5. Round(5)
  <2>1. Shape(5, 1, Statements(5)[1]) /\ Shape(5, 2, Statements(5)[2])
    BY <1>0, Round5 DEF Shape, Create, Column, DropAll, Plain, Skip, SetVersion
  <2>2. ShapeOfDrop(5, 1, Statements(5)[1]) /\ ShapeOfDrop(5, 2, Statements(5)[2])
    BY <1>0, Round5 DEF ShapeOfDrop, Create, Column, DropAll, Plain, Skip, SetVersion, Falls,
       Lasting, SCHEMA_SQL, Complete,
       WRITE_INDEXES, FreshColumns, FlowIndexes, FlowColumns
  <2>3. ShapeOfMake(5, Statements(5)[1]) /\ ShapeOfMake(5, Statements(5)[2])
    BY <1>0, Round5, LostRounds DEF ShapeOfMake, Create, Column, DropAll, Plain, Skip,
       SetVersion, SCHEMA_SQL, Complete,
       WRITE_INDEXES, FreshColumns, Flows, FlowIndexes, FlowColumns
  <2>4. ShapeOfColumn(5, 1, Statements(5)[1]) /\ ShapeOfColumn(5, 2, Statements(5)[2])
    BY <1>0, Round5 DEF ShapeOfColumn, Create, Column, DropAll, Plain, Skip, SetVersion, Base,
       Lasting, SCHEMA_SQL, Complete,
       WRITE_INDEXES, FreshColumns
  <2>5. Len(Statements(5)) = 2
    BY Round5
  <2> QED
    BY <2>1, <2>2, <2>3, <2>4, <2>5
<1>6. Round(6)
  <2>1. Shape(6, 1, Statements(6)[1]) /\ Shape(6, 2, Statements(6)[2])
        /\ Shape(6, 3, Statements(6)[3])
    BY <1>0, Round6 DEF Shape, Create, Column, DropAll, Plain, Skip, SetVersion
  <2>2. ShapeOfDrop(6, 1, Statements(6)[1]) /\ ShapeOfDrop(6, 2, Statements(6)[2])
        /\ ShapeOfDrop(6, 3, Statements(6)[3])
    BY <1>0, Round6 DEF ShapeOfDrop, Create, Column, DropAll, Plain, Skip, SetVersion, Falls,
       Lasting, SCHEMA_SQL, Complete,
       WRITE_INDEXES, FreshColumns, FlowIndexes, FlowColumns
  <2>3. ShapeOfMake(6, Statements(6)[1]) /\ ShapeOfMake(6, Statements(6)[2])
        /\ ShapeOfMake(6, Statements(6)[3])
    BY <1>0, Round6, LostRounds DEF ShapeOfMake, Create, Column, DropAll, Plain, Skip,
       SetVersion, SCHEMA_SQL, Complete,
       WRITE_INDEXES, FreshColumns, Flows, FlowIndexes, FlowColumns
  <2>4. ShapeOfColumn(6, 1, Statements(6)[1]) /\ ShapeOfColumn(6, 2, Statements(6)[2])
        /\ ShapeOfColumn(6, 3, Statements(6)[3])
    BY <1>0, Round6 DEF ShapeOfColumn, Create, Column, DropAll, Plain, Skip, SetVersion, Base,
       Lasting, SCHEMA_SQL, Complete,
       WRITE_INDEXES, FreshColumns
  <2>5. Len(Statements(6)) = 3
    BY Round6
  <2> QED
    BY <2>1, <2>2, <2>3, <2>4, <2>5
<1>7. Round(7)
  <2>1. Shape(7, 1, Statements(7)[1]) /\ Shape(7, 2, Statements(7)[2])
    BY <1>0, Round7 DEF Shape, Create, Column, DropAll, Plain, Skip, SetVersion
  <2>2. ShapeOfDrop(7, 1, Statements(7)[1]) /\ ShapeOfDrop(7, 2, Statements(7)[2])
    BY <1>0, Round7 DEF ShapeOfDrop, Create, Column, DropAll, Plain, Skip, SetVersion, Falls,
       Lasting, SCHEMA_SQL, Complete,
       WRITE_INDEXES, FreshColumns, FlowIndexes, FlowColumns
  <2>3. ShapeOfMake(7, Statements(7)[1]) /\ ShapeOfMake(7, Statements(7)[2])
    BY <1>0, Round7, LostRounds DEF ShapeOfMake, Create, Column, DropAll, Plain, Skip,
       SetVersion, SCHEMA_SQL, Complete,
       WRITE_INDEXES, FreshColumns, Flows, FlowIndexes, FlowColumns
  <2>4. ShapeOfColumn(7, 1, Statements(7)[1]) /\ ShapeOfColumn(7, 2, Statements(7)[2])
    BY <1>0, Round7 DEF ShapeOfColumn, Create, Column, DropAll, Plain, Skip, SetVersion, Base,
       Lasting, SCHEMA_SQL, Complete,
       WRITE_INDEXES, FreshColumns
  <2>5. Len(Statements(7)) = 2
    BY Round7
  <2> QED
    BY <2>1, <2>2, <2>3, <2>4, <2>5
<1>8. Round(8)
  <2>1. Shape(8, 1, Statements(8)[1]) /\ Shape(8, 2, Statements(8)[2])
    BY <1>0, Round8 DEF Shape, Create, Column, DropAll, Plain, Skip, SetVersion
  <2>2. ShapeOfDrop(8, 1, Statements(8)[1]) /\ ShapeOfDrop(8, 2, Statements(8)[2])
    BY <1>0, Round8 DEF ShapeOfDrop, Create, Column, DropAll, Plain, Skip, SetVersion, Falls,
       Lasting, SCHEMA_SQL, Complete,
       WRITE_INDEXES, FreshColumns, FlowIndexes, FlowColumns
  <2>3. ShapeOfMake(8, Statements(8)[1]) /\ ShapeOfMake(8, Statements(8)[2])
    BY <1>0, Round8, LostRounds DEF ShapeOfMake, Create, Column, DropAll, Plain, Skip,
       SetVersion, SCHEMA_SQL, Complete,
       WRITE_INDEXES, FreshColumns, Flows, FlowIndexes, FlowColumns
  <2>4. ShapeOfColumn(8, 1, Statements(8)[1]) /\ ShapeOfColumn(8, 2, Statements(8)[2])
    BY <1>0, Round8 DEF ShapeOfColumn, Create, Column, DropAll, Plain, Skip, SetVersion, Base,
       Lasting, SCHEMA_SQL, Complete,
       WRITE_INDEXES, FreshColumns
  <2>5. Len(Statements(8)) = 2
    BY Round8
  <2> QED
    BY <2>1, <2>2, <2>3, <2>4, <2>5
<1>9. Round(9)
  <2>1. Shape(9, 1, Statements(9)[1]) /\ Shape(9, 2, Statements(9)[2])
        /\ Shape(9, 3, Statements(9)[3])
    BY <1>0, Round9 DEF Shape, Create, Column, DropAll, Plain, Skip, SetVersion
  <2>2. ShapeOfDrop(9, 1, Statements(9)[1]) /\ ShapeOfDrop(9, 2, Statements(9)[2])
        /\ ShapeOfDrop(9, 3, Statements(9)[3])
    BY <1>0, Round9 DEF ShapeOfDrop, Create, Column, DropAll, Plain, Skip, SetVersion, Falls,
       Lasting, SCHEMA_SQL, Complete,
       WRITE_INDEXES, FreshColumns, FlowIndexes, FlowColumns
  <2>3. ShapeOfMake(9, Statements(9)[1]) /\ ShapeOfMake(9, Statements(9)[2])
        /\ ShapeOfMake(9, Statements(9)[3])
    BY <1>0, Round9, LostRounds DEF ShapeOfMake, Create, Column, DropAll, Plain, Skip,
       SetVersion, SCHEMA_SQL, Complete,
       WRITE_INDEXES, FreshColumns, Flows, FlowIndexes, FlowColumns
  <2>4. ShapeOfColumn(9, 1, Statements(9)[1]) /\ ShapeOfColumn(9, 2, Statements(9)[2])
        /\ ShapeOfColumn(9, 3, Statements(9)[3])
    BY <1>0, Round9 DEF ShapeOfColumn, Create, Column, DropAll, Plain, Skip, SetVersion, Base,
       Lasting, SCHEMA_SQL, Complete,
       WRITE_INDEXES, FreshColumns
  <2>5. Len(Statements(9)) = 3
    BY Round9
  <2> QED
    BY <2>1, <2>2, <2>3, <2>4, <2>5
<1>10. Round(10)
  <2>1. Shape(10, 1, Statements(10)[1]) /\ Shape(10, 2, Statements(10)[2])
    BY <1>0, Round10 DEF Shape, Create, Column, DropAll, Plain, Skip, SetVersion
  <2>2. ShapeOfDrop(10, 1, Statements(10)[1]) /\ ShapeOfDrop(10, 2, Statements(10)[2])
    BY <1>0, Round10 DEF ShapeOfDrop, Create, Column, DropAll, Plain, Skip, SetVersion, Falls,
       Lasting, SCHEMA_SQL, Complete,
       WRITE_INDEXES, FreshColumns, FlowIndexes, FlowColumns
  <2>3. ShapeOfMake(10, Statements(10)[1]) /\ ShapeOfMake(10, Statements(10)[2])
    BY <1>0, Round10, LostRounds DEF ShapeOfMake, Create, Column, DropAll, Plain, Skip,
       SetVersion, SCHEMA_SQL, Complete,
       WRITE_INDEXES, FreshColumns, Flows, FlowIndexes, FlowColumns
  <2>4. ShapeOfColumn(10, 1, Statements(10)[1]) /\ ShapeOfColumn(10, 2, Statements(10)[2])
    BY <1>0, Round10 DEF ShapeOfColumn, Create, Column, DropAll, Plain, Skip, SetVersion, Base,
       Lasting, SCHEMA_SQL, Complete,
       WRITE_INDEXES, FreshColumns
  <2>5. Len(Statements(10)) = 2
    BY Round10
  <2> QED
    BY <2>1, <2>2, <2>3, <2>4, <2>5
<1>11. Round(11)
  <2>1. Shape(11, 1, Statements(11)[1]) /\ Shape(11, 2, Statements(11)[2])
    BY <1>0, Round11 DEF Shape, Create, Column, DropAll, Plain, Skip, SetVersion
  <2>2. ShapeOfDrop(11, 1, Statements(11)[1]) /\ ShapeOfDrop(11, 2, Statements(11)[2])
    BY <1>0, Round11 DEF ShapeOfDrop, Create, Column, DropAll, Plain, Skip, SetVersion, Falls,
       Lasting, SCHEMA_SQL, Complete,
       WRITE_INDEXES, FreshColumns, FlowIndexes, FlowColumns
  <2>3. ShapeOfMake(11, Statements(11)[1]) /\ ShapeOfMake(11, Statements(11)[2])
    BY <1>0, Round11, LostRounds DEF ShapeOfMake, Create, Column, DropAll, Plain, Skip,
       SetVersion, SCHEMA_SQL, Complete,
       WRITE_INDEXES, FreshColumns, Flows, FlowIndexes, FlowColumns
  <2>4. ShapeOfColumn(11, 1, Statements(11)[1]) /\ ShapeOfColumn(11, 2, Statements(11)[2])
    BY <1>0, Round11 DEF ShapeOfColumn, Create, Column, DropAll, Plain, Skip, SetVersion, Base,
       Lasting, SCHEMA_SQL, Complete,
       WRITE_INDEXES, FreshColumns
  <2>5. Len(Statements(11)) = 2
    BY Round11
  <2> QED
    BY <2>1, <2>2, <2>3, <2>4, <2>5
<1>12. Round(12)
  <2>1. Shape(12, 1, Statements(12)[1]) /\ Shape(12, 2, Statements(12)[2])
    BY <1>0, Round12 DEF Shape, Create, Column, DropAll, Plain, Skip, SetVersion
  <2>2. ShapeOfDrop(12, 1, Statements(12)[1]) /\ ShapeOfDrop(12, 2, Statements(12)[2])
    BY <1>0, Round12 DEF ShapeOfDrop, Create, Column, DropAll, Plain, Skip, SetVersion, Falls,
       Lasting, SCHEMA_SQL, Complete,
       WRITE_INDEXES, FreshColumns, FlowIndexes, FlowColumns
  <2>3. ShapeOfMake(12, Statements(12)[1]) /\ ShapeOfMake(12, Statements(12)[2])
    BY <1>0, Round12, LostRounds DEF ShapeOfMake, Create, Column, DropAll, Plain, Skip,
       SetVersion, SCHEMA_SQL, Complete,
       WRITE_INDEXES, FreshColumns, Flows, FlowIndexes, FlowColumns
  <2>4. ShapeOfColumn(12, 1, Statements(12)[1]) /\ ShapeOfColumn(12, 2, Statements(12)[2])
    BY <1>0, Round12 DEF ShapeOfColumn, Create, Column, DropAll, Plain, Skip, SetVersion, Base,
       Lasting, SCHEMA_SQL, Complete,
       WRITE_INDEXES, FreshColumns
  <2>5. Len(Statements(12)) = 2
    BY Round12
  <2> QED
    BY <2>1, <2>2, <2>3, <2>4, <2>5
<1>13. Round(13)
  <2>1. Shape(13, 1, Statements(13)[1]) /\ Shape(13, 2, Statements(13)[2])
        /\ Shape(13, 3, Statements(13)[3]) /\ Shape(13, 4, Statements(13)[4])
    BY <1>0, Round13 DEF Shape, Create, Column, DropAll, Plain, Skip, SetVersion
  <2>2. ShapeOfDrop(13, 1, Statements(13)[1]) /\ ShapeOfDrop(13, 2, Statements(13)[2])
        /\ ShapeOfDrop(13, 3, Statements(13)[3]) /\ ShapeOfDrop(13, 4, Statements(13)[4])
    BY <1>0, Round13 DEF ShapeOfDrop, Create, Column, DropAll, Plain, Skip, SetVersion, Falls,
       Lasting, SCHEMA_SQL, Complete,
       WRITE_INDEXES, FreshColumns, FlowIndexes, FlowColumns
  <2>3. ShapeOfMake(13, Statements(13)[1]) /\ ShapeOfMake(13, Statements(13)[2])
        /\ ShapeOfMake(13, Statements(13)[3]) /\ ShapeOfMake(13, Statements(13)[4])
    BY <1>0, Round13, LostRounds DEF ShapeOfMake, Create, Column, DropAll, Plain, Skip,
       SetVersion, SCHEMA_SQL, Complete,
       WRITE_INDEXES, FreshColumns, Flows, FlowIndexes, FlowColumns
  <2>4. ShapeOfColumn(13, 1, Statements(13)[1]) /\ ShapeOfColumn(13, 2, Statements(13)[2])
        /\ ShapeOfColumn(13, 3, Statements(13)[3]) /\ ShapeOfColumn(13, 4, Statements(13)[4])
    BY <1>0, Round13 DEF ShapeOfColumn, Create, Column, DropAll, Plain, Skip, SetVersion, Base,
       Lasting, SCHEMA_SQL, Complete,
       WRITE_INDEXES, FreshColumns
  <2>5. Len(Statements(13)) = 4
    BY Round13
  <2> QED
    BY <2>1, <2>2, <2>3, <2>4, <2>5
<1>14. Round(14)
  <2>1. Shape(14, 1, Statements(14)[1])
    BY <1>0, Round14 DEF Shape, Create, Column, DropAll, Plain, Skip, SetVersion
  <2>2. ShapeOfDrop(14, 1, Statements(14)[1])
    BY <1>0, Round14 DEF ShapeOfDrop, Create, Column, DropAll, Plain, Skip, SetVersion, Falls,
       Lasting, SCHEMA_SQL, Complete,
       WRITE_INDEXES, FreshColumns, FlowIndexes, FlowColumns
  <2>3. ShapeOfMake(14, Statements(14)[1])
    BY <1>0, Round14, LostRounds DEF ShapeOfMake, Create, Column, DropAll, Plain, Skip,
       SetVersion, SCHEMA_SQL, Complete,
       WRITE_INDEXES, FreshColumns, Flows, FlowIndexes, FlowColumns
  <2>4. ShapeOfColumn(14, 1, Statements(14)[1])
    BY <1>0, Round14 DEF ShapeOfColumn, Create, Column, DropAll, Plain, Skip, SetVersion, Base,
       Lasting, SCHEMA_SQL, Complete,
       WRITE_INDEXES, FreshColumns
  <2>5. Len(Statements(14)) = 1
    BY Round14
  <2> QED
    BY <2>1, <2>2, <2>3, <2>4, <2>5
<1>15. Round(15)
  <2>1. Shape(15, 1, Statements(15)[1]) /\ Shape(15, 2, Statements(15)[2])
    BY <1>0, Round15 DEF Shape, Create, Column, DropAll, Plain, Skip, SetVersion
  <2>2. ShapeOfDrop(15, 1, Statements(15)[1]) /\ ShapeOfDrop(15, 2, Statements(15)[2])
    BY <1>0, Round15 DEF ShapeOfDrop, Create, Column, DropAll, Plain, Skip, SetVersion, Falls,
       Lasting, SCHEMA_SQL, Complete,
       WRITE_INDEXES, FreshColumns, FlowIndexes, FlowColumns
  <2>3. ShapeOfMake(15, Statements(15)[1]) /\ ShapeOfMake(15, Statements(15)[2])
    BY <1>0, Round15, LostRounds DEF ShapeOfMake, Create, Column, DropAll, Plain, Skip,
       SetVersion, SCHEMA_SQL, Complete,
       WRITE_INDEXES, FreshColumns, Flows, FlowIndexes, FlowColumns
  <2>4. ShapeOfColumn(15, 1, Statements(15)[1]) /\ ShapeOfColumn(15, 2, Statements(15)[2])
    BY <1>0, Round15 DEF ShapeOfColumn, Create, Column, DropAll, Plain, Skip, SetVersion, Base,
       Lasting, SCHEMA_SQL, Complete,
       WRITE_INDEXES, FreshColumns
  <2>5. Len(Statements(15)) = 2
    BY Round15
  <2> QED
    BY <2>1, <2>2, <2>3, <2>4, <2>5
<1>16. Round(16)
  <2>1. Shape(16, 1, Statements(16)[1]) /\ Shape(16, 2, Statements(16)[2])
        /\ Shape(16, 3, Statements(16)[3]) /\ Shape(16, 4, Statements(16)[4])
        /\ Shape(16, 5, Statements(16)[5])
    BY <1>0, Round16 DEF Shape, Create, Column, DropAll, Plain, Skip, SetVersion
  <2>2. ShapeOfDrop(16, 1, Statements(16)[1]) /\ ShapeOfDrop(16, 2, Statements(16)[2])
        /\ ShapeOfDrop(16, 3, Statements(16)[3]) /\ ShapeOfDrop(16, 4, Statements(16)[4])
        /\ ShapeOfDrop(16, 5, Statements(16)[5])
    BY <1>0, Round16 DEF ShapeOfDrop, Create, Column, DropAll, Plain, Skip, SetVersion, Falls,
       Lasting, SCHEMA_SQL, Complete,
       WRITE_INDEXES, FreshColumns, FlowIndexes, FlowColumns
  <2>3. ShapeOfMake(16, Statements(16)[1]) /\ ShapeOfMake(16, Statements(16)[2])
        /\ ShapeOfMake(16, Statements(16)[3]) /\ ShapeOfMake(16, Statements(16)[4])
        /\ ShapeOfMake(16, Statements(16)[5])
    BY <1>0, Round16, LostRounds DEF ShapeOfMake, Create, Column, DropAll, Plain, Skip,
       SetVersion, SCHEMA_SQL, Complete,
       WRITE_INDEXES, FreshColumns, Flows, FlowIndexes, FlowColumns
  <2>4. ShapeOfColumn(16, 1, Statements(16)[1]) /\ ShapeOfColumn(16, 2, Statements(16)[2])
        /\ ShapeOfColumn(16, 3, Statements(16)[3]) /\ ShapeOfColumn(16, 4, Statements(16)[4])
        /\ ShapeOfColumn(16, 5, Statements(16)[5])
    BY <1>0, Round16 DEF ShapeOfColumn, Create, Column, DropAll, Plain, Skip, SetVersion, Base,
       Lasting, SCHEMA_SQL, Complete,
       WRITE_INDEXES, FreshColumns
  <2>5. Len(Statements(16)) = 5
    BY Round16
  <2> QED
    BY <2>1, <2>2, <2>3, <2>4, <2>5
<1>17. Round(17)
  <2>1. Shape(17, 1, Statements(17)[1]) /\ Shape(17, 2, Statements(17)[2])
    BY <1>0, Round17 DEF Shape, Create, Column, DropAll, Plain, Skip, SetVersion
  <2>2. ShapeOfDrop(17, 1, Statements(17)[1]) /\ ShapeOfDrop(17, 2, Statements(17)[2])
    BY <1>0, Round17 DEF ShapeOfDrop, Create, Column, DropAll, Plain, Skip, SetVersion, Falls,
       Lasting, SCHEMA_SQL, Complete,
       WRITE_INDEXES, FreshColumns, FlowIndexes, FlowColumns
  <2>3. ShapeOfMake(17, Statements(17)[1]) /\ ShapeOfMake(17, Statements(17)[2])
    BY <1>0, Round17, LostRounds DEF ShapeOfMake, Create, Column, DropAll, Plain, Skip,
       SetVersion, SCHEMA_SQL, Complete,
       WRITE_INDEXES, FreshColumns, Flows, FlowIndexes, FlowColumns
  <2>4. ShapeOfColumn(17, 1, Statements(17)[1]) /\ ShapeOfColumn(17, 2, Statements(17)[2])
    BY <1>0, Round17 DEF ShapeOfColumn, Create, Column, DropAll, Plain, Skip, SetVersion, Base,
       Lasting, SCHEMA_SQL, Complete,
       WRITE_INDEXES, FreshColumns
  <2>5. Len(Statements(17)) = 2
    BY Round17
  <2> QED
    BY <2>1, <2>2, <2>3, <2>4, <2>5
<1>18. Round(18)
  <2>1. Shape(18, 1, Statements(18)[1]) /\ Shape(18, 2, Statements(18)[2])
        /\ Shape(18, 3, Statements(18)[3]) /\ Shape(18, 4, Statements(18)[4])
    BY <1>0, Round18 DEF Shape, Create, Column, DropAll, Plain, Skip, SetVersion
  <2>2. ShapeOfDrop(18, 1, Statements(18)[1]) /\ ShapeOfDrop(18, 2, Statements(18)[2])
        /\ ShapeOfDrop(18, 3, Statements(18)[3]) /\ ShapeOfDrop(18, 4, Statements(18)[4])
    BY <1>0, Round18 DEF ShapeOfDrop, Create, Column, DropAll, Plain, Skip, SetVersion, Falls,
       Lasting, SCHEMA_SQL, Complete,
       WRITE_INDEXES, FreshColumns, FlowIndexes, FlowColumns
  <2>3. ShapeOfMake(18, Statements(18)[1]) /\ ShapeOfMake(18, Statements(18)[2])
        /\ ShapeOfMake(18, Statements(18)[3]) /\ ShapeOfMake(18, Statements(18)[4])
    BY <1>0, Round18, LostRounds DEF ShapeOfMake, Create, Column, DropAll, Plain, Skip,
       SetVersion, SCHEMA_SQL, Complete,
       WRITE_INDEXES, FreshColumns, Flows, FlowIndexes, FlowColumns
  <2>4. ShapeOfColumn(18, 1, Statements(18)[1]) /\ ShapeOfColumn(18, 2, Statements(18)[2])
        /\ ShapeOfColumn(18, 3, Statements(18)[3]) /\ ShapeOfColumn(18, 4, Statements(18)[4])
    BY <1>0, Round18 DEF ShapeOfColumn, Create, Column, DropAll, Plain, Skip, SetVersion, Base,
       Lasting, SCHEMA_SQL, Complete,
       WRITE_INDEXES, FreshColumns
  <2>5. Len(Statements(18)) = 4
    BY Round18
  <2> QED
    BY <2>1, <2>2, <2>3, <2>4, <2>5
<1>19. Round(19)
  <2>1. Shape(19, 1, Statements(19)[1]) /\ Shape(19, 2, Statements(19)[2])
    BY <1>0, Round19 DEF Shape, Create, Column, DropAll, Plain, Skip, SetVersion
  <2>2. ShapeOfDrop(19, 1, Statements(19)[1]) /\ ShapeOfDrop(19, 2, Statements(19)[2])
    BY <1>0, Round19 DEF ShapeOfDrop, Create, Column, DropAll, Plain, Skip, SetVersion, Falls,
       Lasting, SCHEMA_SQL, Complete,
       WRITE_INDEXES, FreshColumns, FlowIndexes, FlowColumns
  <2>3. ShapeOfMake(19, Statements(19)[1]) /\ ShapeOfMake(19, Statements(19)[2])
    BY <1>0, Round19, LostRounds DEF ShapeOfMake, Create, Column, DropAll, Plain, Skip,
       SetVersion, SCHEMA_SQL, Complete,
       WRITE_INDEXES, FreshColumns, Flows, FlowIndexes, FlowColumns
  <2>4. ShapeOfColumn(19, 1, Statements(19)[1]) /\ ShapeOfColumn(19, 2, Statements(19)[2])
    BY <1>0, Round19 DEF ShapeOfColumn, Create, Column, DropAll, Plain, Skip, SetVersion, Base,
       Lasting, SCHEMA_SQL, Complete,
       WRITE_INDEXES, FreshColumns
  <2>5. Len(Statements(19)) = 2
    BY Round19
  <2> QED
    BY <2>1, <2>2, <2>3, <2>4, <2>5
<1>20. Round(20)
  <2>1. Shape(20, 1, Statements(20)[1]) /\ Shape(20, 2, Statements(20)[2])
    BY <1>0, Round20 DEF Shape, Create, Column, DropAll, Plain, Skip, SetVersion
  <2>2. ShapeOfDrop(20, 1, Statements(20)[1]) /\ ShapeOfDrop(20, 2, Statements(20)[2])
    BY <1>0, Round20 DEF ShapeOfDrop, Create, Column, DropAll, Plain, Skip, SetVersion, Falls,
       Lasting, SCHEMA_SQL, Complete,
       WRITE_INDEXES, FreshColumns, FlowIndexes, FlowColumns
  <2>3. ShapeOfMake(20, Statements(20)[1]) /\ ShapeOfMake(20, Statements(20)[2])
    BY <1>0, Round20, LostRounds DEF ShapeOfMake, Create, Column, DropAll, Plain, Skip,
       SetVersion, SCHEMA_SQL, Complete,
       WRITE_INDEXES, FreshColumns, Flows, FlowIndexes, FlowColumns
  <2>4. ShapeOfColumn(20, 1, Statements(20)[1]) /\ ShapeOfColumn(20, 2, Statements(20)[2])
    BY <1>0, Round20 DEF ShapeOfColumn, Create, Column, DropAll, Plain, Skip, SetVersion, Base,
       Lasting, SCHEMA_SQL, Complete,
       WRITE_INDEXES, FreshColumns
  <2>5. Len(Statements(20)) = 2
    BY Round20
  <2> QED
    BY <2>1, <2>2, <2>3, <2>4, <2>5
<1>21. Round(LastRound)
  <2>1. Shape(LastRound, 1, Statements(LastRound)[1])
        /\ Shape(LastRound, 2, Statements(LastRound)[2])
        /\ Shape(LastRound, 3, Statements(LastRound)[3])
    BY <1>0, RoundLast DEF Shape, Create, Column, DropAll, Plain, Skip, SetVersion
  <2>2. ShapeOfDrop(LastRound, 1, Statements(LastRound)[1])
        /\ ShapeOfDrop(LastRound, 2, Statements(LastRound)[2])
        /\ ShapeOfDrop(LastRound, 3, Statements(LastRound)[3])
    BY <1>0, RoundLast DEF ShapeOfDrop, Create, Column, DropAll, Plain, Skip, SetVersion, Falls,
       Lasting, SCHEMA_SQL, Complete,
       WRITE_INDEXES, FreshColumns, FlowIndexes, FlowColumns
  <2>3. ShapeOfMake(LastRound, Statements(LastRound)[1])
        /\ ShapeOfMake(LastRound, Statements(LastRound)[2])
        /\ ShapeOfMake(LastRound, Statements(LastRound)[3])
    BY <1>0, RoundLast, LostRounds DEF ShapeOfMake, Create, Column, DropAll, Plain, Skip,
       SetVersion, SCHEMA_SQL, Complete,
       WRITE_INDEXES, FreshColumns, Flows, FlowIndexes, FlowColumns
  <2>4. ShapeOfColumn(LastRound, 1, Statements(LastRound)[1])
        /\ ShapeOfColumn(LastRound, 2, Statements(LastRound)[2])
        /\ ShapeOfColumn(LastRound, 3, Statements(LastRound)[3])
    BY <1>0, RoundLast DEF ShapeOfColumn, Create, Column, DropAll, Plain, Skip, SetVersion, Base,
       Lasting, SCHEMA_SQL, Complete,
       WRITE_INDEXES, FreshColumns
  <2>5. Len(Statements(LastRound)) = 3
    BY RoundLast
  <2> QED
    BY <2>1, <2>2, <2>3, <2>4, <2>5
<1> HIDE DEF Good, Round
<1>22. Round(w)
  BY <1>0, <1>2, <1>3, <1>4, <1>5, <1>6, <1>7, <1>8, <1>9, <1>10, <1>11, <1>12, <1>13, <1>14,
     <1>15, <1>16, <1>17, <1>18, <1>19, <1>20, <1>21
<1>23. Good(w, k)
  BY <1>22 DEF Round
<1> QED
  BY <1>23 DEF Good

\* A sequence and the same with one element more.
LEMMA OneMore ==
  ASSUME NEW m, NEW s, NEW x, NEW n \in Nat, DOMAIN m = 1..n, Len(m) = n, Len(s) = n + 1,
         \A i \in 1..n : s[i] = m[i], s[n + 1] = x
  PROVE  /\ Len(m) \in Nat /\ Len(s) = Len(m) + 1
         /\ DOMAIN m = 1..Len(m)
         /\ \A i \in 1..Len(m) : s[i] = m[i]
         /\ s[Len(s)] = x
  OBVIOUS

\* A round is its migration and the stamp.
LEMMA RoundIsMigration ==
  ASSUME NEW w \in 2..LATEST_VERSION
  PROVE  /\ Len(Migration(w)) \in Nat /\ Len(Statements(w)) = Len(Migration(w)) + 1
         /\ DOMAIN Migration(w) = 1..Len(Migration(w))
         /\ \A i \in 1..Len(Migration(w)) : Statements(w)[i] = Migration(w)[i]
         /\ Statements(w)[Len(Statements(w))] = SetVersion
<1> DEFINE Good(x) == /\ Len(Migration(x)) \in Nat /\ Len(Statements(x)) = Len(Migration(x)) + 1
                      /\ DOMAIN Migration(x) = 1..Len(Migration(x))
                      /\ \A i \in 1..Len(Migration(x)) : Statements(x)[i] = Migration(x)[i]
                      /\ Statements(x)[Len(Statements(x))] = SetVersion
<1>2. Good(2)
  <2>1. DOMAIN Migration(2) = 1..1 /\ Len(Migration(2)) = 1 /\ Len(Statements(2)) = 1 + 1
    BY Round2 DEF migrate_v2
  <2>2. \A i \in 1..1 : Statements(2)[i] = Migration(2)[i]
    BY Round2
  <2>3. 1 \in Nat /\ Statements(2)[1 + 1] = SetVersion
    BY Round2
  <2> QED
    BY <2>1, <2>2, <2>3, OneMore, Zenon
<1>3. Good(3)
  <2>1. DOMAIN Migration(3) = 1..2 /\ Len(Migration(3)) = 2 /\ Len(Statements(3)) = 2 + 1
    BY Round3 DEF migrate_v3
  <2>2. \A i \in 1..2 : Statements(3)[i] = Migration(3)[i]
    BY Round3
  <2>3. 2 \in Nat /\ Statements(3)[2 + 1] = SetVersion
    BY Round3
  <2> QED
    BY <2>1, <2>2, <2>3, OneMore, Zenon
<1>4. Good(4)
  <2>1. DOMAIN Migration(4) = 1..3 /\ Len(Migration(4)) = 3 /\ Len(Statements(4)) = 3 + 1
    BY Round4 DEF migrate_v4
  <2>2. \A i \in 1..3 : Statements(4)[i] = Migration(4)[i]
    BY Round4
  <2>3. 3 \in Nat /\ Statements(4)[3 + 1] = SetVersion
    BY Round4
  <2> QED
    BY <2>1, <2>2, <2>3, OneMore, Zenon
<1>5. Good(5)
  <2>1. DOMAIN Migration(5) = 1..1 /\ Len(Migration(5)) = 1 /\ Len(Statements(5)) = 1 + 1
    BY Round5 DEF migrate_v5
  <2>2. \A i \in 1..1 : Statements(5)[i] = Migration(5)[i]
    BY Round5
  <2>3. 1 \in Nat /\ Statements(5)[1 + 1] = SetVersion
    BY Round5
  <2> QED
    BY <2>1, <2>2, <2>3, OneMore, Zenon
<1>6. Good(6)
  <2>1. DOMAIN Migration(6) = 1..2 /\ Len(Migration(6)) = 2 /\ Len(Statements(6)) = 2 + 1
    BY Round6 DEF migrate_v6
  <2>2. \A i \in 1..2 : Statements(6)[i] = Migration(6)[i]
    BY Round6
  <2>3. 2 \in Nat /\ Statements(6)[2 + 1] = SetVersion
    BY Round6
  <2> QED
    BY <2>1, <2>2, <2>3, OneMore, Zenon
<1>7. Good(7)
  <2>1. DOMAIN Migration(7) = 1..1 /\ Len(Migration(7)) = 1 /\ Len(Statements(7)) = 1 + 1
    BY Round7 DEF migrate_v7
  <2>2. \A i \in 1..1 : Statements(7)[i] = Migration(7)[i]
    BY Round7
  <2>3. 1 \in Nat /\ Statements(7)[1 + 1] = SetVersion
    BY Round7
  <2> QED
    BY <2>1, <2>2, <2>3, OneMore, Zenon
<1>8. Good(8)
  <2>1. DOMAIN Migration(8) = 1..1 /\ Len(Migration(8)) = 1 /\ Len(Statements(8)) = 1 + 1
    BY Round8 DEF migrate_v8
  <2>2. \A i \in 1..1 : Statements(8)[i] = Migration(8)[i]
    BY Round8
  <2>3. 1 \in Nat /\ Statements(8)[1 + 1] = SetVersion
    BY Round8
  <2> QED
    BY <2>1, <2>2, <2>3, OneMore, Zenon
<1>9. Good(9)
  <2>1. DOMAIN Migration(9) = 1..2 /\ Len(Migration(9)) = 2 /\ Len(Statements(9)) = 2 + 1
    BY Round9 DEF migrate_v9
  <2>2. \A i \in 1..2 : Statements(9)[i] = Migration(9)[i]
    BY Round9
  <2>3. 2 \in Nat /\ Statements(9)[2 + 1] = SetVersion
    BY Round9
  <2> QED
    BY <2>1, <2>2, <2>3, OneMore, Zenon
<1>10. Good(10)
  <2>1. DOMAIN Migration(10) = 1..1 /\ Len(Migration(10)) = 1 /\ Len(Statements(10)) = 1 + 1
    BY Round10 DEF migrate_v10
  <2>2. \A i \in 1..1 : Statements(10)[i] = Migration(10)[i]
    BY Round10
  <2>3. 1 \in Nat /\ Statements(10)[1 + 1] = SetVersion
    BY Round10
  <2> QED
    BY <2>1, <2>2, <2>3, OneMore, Zenon
<1>11. Good(11)
  <2>1. DOMAIN Migration(11) = 1..1 /\ Len(Migration(11)) = 1 /\ Len(Statements(11)) = 1 + 1
    BY Round11 DEF migrate_v11
  <2>2. \A i \in 1..1 : Statements(11)[i] = Migration(11)[i]
    BY Round11
  <2>3. 1 \in Nat /\ Statements(11)[1 + 1] = SetVersion
    BY Round11
  <2> QED
    BY <2>1, <2>2, <2>3, OneMore, Zenon
<1>12. Good(12)
  <2>1. DOMAIN Migration(12) = 1..1 /\ Len(Migration(12)) = 1 /\ Len(Statements(12)) = 1 + 1
    BY Round12 DEF migrate_v12
  <2>2. \A i \in 1..1 : Statements(12)[i] = Migration(12)[i]
    BY Round12
  <2>3. 1 \in Nat /\ Statements(12)[1 + 1] = SetVersion
    BY Round12
  <2> QED
    BY <2>1, <2>2, <2>3, OneMore, Zenon
<1>13. Good(13)
  <2>1. DOMAIN Migration(13) = 1..3 /\ Len(Migration(13)) = 3 /\ Len(Statements(13)) = 3 + 1
    BY Round13 DEF migrate_v13
  <2>2. \A i \in 1..3 : Statements(13)[i] = Migration(13)[i]
    BY Round13
  <2>3. 3 \in Nat /\ Statements(13)[3 + 1] = SetVersion
    BY Round13
  <2> QED
    BY <2>1, <2>2, <2>3, OneMore, Zenon
<1>14. Good(14)
  <2>1. DOMAIN Migration(14) = 1..0 /\ Len(Migration(14)) = 0 /\ Len(Statements(14)) = 0 + 1
    BY Round14
  <2>2. \A i \in 1..0 : Statements(14)[i] = Migration(14)[i]
    BY Round14
  <2>3. 0 \in Nat /\ Statements(14)[0 + 1] = SetVersion
    BY Round14
  <2> QED
    BY <2>1, <2>2, <2>3, OneMore, Zenon
<1>15. Good(15)
  <2>1. DOMAIN Migration(15) = 1..1 /\ Len(Migration(15)) = 1 /\ Len(Statements(15)) = 1 + 1
    BY Round15 DEF migrate_v15
  <2>2. \A i \in 1..1 : Statements(15)[i] = Migration(15)[i]
    BY Round15
  <2>3. 1 \in Nat /\ Statements(15)[1 + 1] = SetVersion
    BY Round15
  <2> QED
    BY <2>1, <2>2, <2>3, OneMore, Zenon
<1>16. Good(16)
  <2>1. DOMAIN Migration(16) = 1..4 /\ Len(Migration(16)) = 4 /\ Len(Statements(16)) = 4 + 1
    BY Round16 DEF migrate_v16
  <2>2. \A i \in 1..4 : Statements(16)[i] = Migration(16)[i]
    BY Round16
  <2>3. 4 \in Nat /\ Statements(16)[4 + 1] = SetVersion
    BY Round16
  <2> QED
    BY <2>1, <2>2, <2>3, OneMore, Zenon
<1>17. Good(17)
  <2>1. DOMAIN Migration(17) = 1..1 /\ Len(Migration(17)) = 1 /\ Len(Statements(17)) = 1 + 1
    BY Round17 DEF migrate_v17
  <2>2. \A i \in 1..1 : Statements(17)[i] = Migration(17)[i]
    BY Round17
  <2>3. 1 \in Nat /\ Statements(17)[1 + 1] = SetVersion
    BY Round17
  <2> QED
    BY <2>1, <2>2, <2>3, OneMore, Zenon
<1>18. Good(18)
  <2>1. DOMAIN Migration(18) = 1..3 /\ Len(Migration(18)) = 3 /\ Len(Statements(18)) = 3 + 1
    BY Round18 DEF migrate_v18
  <2>2. \A i \in 1..3 : Statements(18)[i] = Migration(18)[i]
    BY Round18
  <2>3. 3 \in Nat /\ Statements(18)[3 + 1] = SetVersion
    BY Round18
  <2> QED
    BY <2>1, <2>2, <2>3, OneMore, Zenon
<1>19. Good(19)
  <2>1. DOMAIN Migration(19) = 1..1 /\ Len(Migration(19)) = 1 /\ Len(Statements(19)) = 1 + 1
    BY Round19 DEF migrate_v19
  <2>2. \A i \in 1..1 : Statements(19)[i] = Migration(19)[i]
    BY Round19
  <2>3. 1 \in Nat /\ Statements(19)[1 + 1] = SetVersion
    BY Round19
  <2> QED
    BY <2>1, <2>2, <2>3, OneMore, Zenon
<1>20. Good(20)
  <2>1. DOMAIN Migration(20) = 1..1 /\ Len(Migration(20)) = 1 /\ Len(Statements(20)) = 1 + 1
    BY Round20 DEF migrate_v20
  <2>2. \A i \in 1..1 : Statements(20)[i] = Migration(20)[i]
    BY Round20
  <2>3. 1 \in Nat /\ Statements(20)[1 + 1] = SetVersion
    BY Round20
  <2> QED
    BY <2>1, <2>2, <2>3, OneMore, Zenon
<1> HIDE DEF Good
<1>21. Good(w)
  BY <1>2, <1>3, <1>4, <1>5, <1>6, <1>7, <1>8, <1>9, <1>10, <1>11, <1>12, <1>13, <1>14, <1>15,
     <1>16, <1>17, <1>18, <1>19, <1>20 DEF LATEST_VERSION
<1> QED
  BY <1>21 DEF Good

\* How many statements the rounds have that the other lemmas name.
LEMMA Lengths ==
  /\ Len(Statements(3)) = 3 /\ Len(Statements(5)) = 2 /\ Len(Statements(12)) = 2
  /\ Len(Statements(13)) = 4 /\ Len(Statements(14)) = 1 /\ Len(Statements(15)) = 2
  /\ Len(Statements(16)) = 5 /\ Len(Statements(LastRound)) = 3 /\ LastRound = 21
  /\ \A w \in 2..LastRound : Len(Statements(w)) \in Nat \ {0}
<1>1. LastRound = 21 /\ LATEST_VERSION = 20
  BY DEF LastRound, LATEST_VERSION
<1>2. \A w \in 2..LATEST_VERSION : Len(Statements(w)) \in Nat \ {0}
  BY RoundIsMigration
<1>3. Len(Statements(3)) = 3 /\ Len(Statements(5)) = 2 /\ Len(Statements(12)) = 2
  BY Round3, Round5, Round12
<1>4. Len(Statements(13)) = 4 /\ Len(Statements(14)) = 1 /\ Len(Statements(15)) = 2
  BY Round13, Round14, Round15
<1>5. Len(Statements(16)) = 5 /\ Len(Statements(LastRound)) = 3
  BY Round16, RoundLast
<1>6. \A w \in 2..LastRound : Len(Statements(w)) \in Nat \ {0}
  <2> TAKE w \in 2..LastRound
  <2>1. CASE w = LastRound
    <3>1. Len(Statements(w)) = 3
      BY <1>5, <2>1
    <3> QED
      BY <3>1
  <2>2. CASE w \in 2..LATEST_VERSION
    BY <1>2, <2>2
  <2> QED
    BY <1>1, <2>1, <2>2
<1> QED
  BY <1>1, <1>3, <1>4, <1>5, <1>6

\* One statement more gives what it gives.
LEMMA GivenStep ==
  ASSUME NEW w, NEW n \in Nat
  PROVE  Given(w, n + 1) = Given(w, n) \cup Gives(Statements(w)[n + 1])
<1>1. 1..(n + 1) = (1..n) \cup {n + 1}
  OBVIOUS
<1> QED
  BY <1>1 DEF Given

\* No statement gives nothing.
LEMMA GivenNone == \A w : Given(w, 0) = {}
  BY DEF Given

\* What one statement of the first n gives.
LEMMA GivenIn ==
  ASSUME NEW w, NEW n \in Nat, NEW k \in 1..n
  PROVE  Gives(Statements(w)[k]) \subseteq Given(w, n)
  BY DEF Given

\* A round more.
LEMMA BeforeStep ==
  ASSUME NEW w \in 2..LATEST_VERSION
  PROVE  Before(w + 1) = Before(w) \cup Given(w, Len(Statements(w)))
<1>1. 2..((w + 1) - 1) = (2..(w - 1)) \cup {w}
  BY DEF LATEST_VERSION
<1> QED
  BY <1>1 DEF Before

\* Later rounds come after more.
LEMMA BeforeGrows ==
  ASSUME NEW v \in Nat, NEW w \in Nat, v <= w
  PROVE  Before(v) \subseteq Before(w)
<1>1. 2..(v - 1) \subseteq 2..(w - 1)
  OBVIOUS
<1> QED
  BY <1>1 DEF Before

\* What round x gives is there before every later one.
LEMMA GivenBefore ==
  ASSUME NEW w \in Nat, NEW x \in 2..(w - 1)
  PROVE  Given(x, Len(Statements(x))) \subseteq Before(w)
  BY DEF Before

\* Every object a CREATE works on is there for good, or was given by the
\* statements of the round before it; the indexes on the flows are the exception.
LEMMA CreateReady ==
  ASSUME NEW w \in 2..LastRound, NEW k \in 1..Len(Statements(w)), Statements(w)[k].op = "create"
  PROVE  \/ Statements(w)[k].on \subseteq Base \cup (Lasting \cap Given(w, k - 1))
         \/ w = 3 /\ k = 2 /\ Statements(w)[k].on = Flows
<1> DEFINE Needs == Statements(w)[k].on
<1>0. LastRound = 21
  BY Lengths
<1>1. k \in Nat \ {0}
  BY Lengths
<1>2. w \in {3, 4, 6, 7, 8, 10, LastRound}
  BY <1>0, Shapes DEF ShapeOfMake
<1>3. CASE w = 3
  BY <1>3, Round3 DEF Create, Plain, SetVersion
<1>4. CASE w = 4
  <2>1. k = 1 \/ k = 3
    BY <1>4, Round4 DEF Create, Column, Plain, SetVersion
  <2>2. CASE k = 1
    BY <1>4, <2>2, Round4 DEF Create
  <2>3. CASE k = 3
    <3>1. Needs = {"nodes.community_id", "communities"}
      BY <1>4, <2>3, Round4 DEF Create
    <3>2. Gives(Statements(4)[1]) = {"communities"}
          /\ Gives(Statements(4)[2]) = {"nodes.community_id"}
      BY Round4 DEF Create, Column, Gives
    <3>3. {"nodes.community_id", "communities"} \subseteq Given(4, 2)
      BY <3>2, GivenIn
    <3>4. {"nodes.community_id", "communities"} \subseteq Lasting
      BY DEF Lasting, Complete, WRITE_INDEXES, SCHEMA_SQL, FreshColumns
    <3> QED
      BY <1>4, <2>3, <3>1, <3>3, <3>4
  <2> QED
    BY <2>1, <2>2, <2>3
<1>6. CASE w = 6
  <2>1. k = 1 \/ k = 2
    BY <1>6, Round6 DEF Create, Plain, SetVersion
  <2>2. CASE k = 1
    BY <1>6, <2>2, Round6 DEF Create
  <2>3. CASE k = 2
    <3>1. Needs = {"risk_index"}
      BY <1>6, <2>3, Round6 DEF Create
    <3>2. "risk_index" \in Gives(Statements(6)[1])
      BY Round6 DEF Create, Gives
    <3>3. "risk_index" \in Given(6, 1)
      BY <3>2, GivenIn
    <3>4. "risk_index" \in Lasting
      BY DEF Lasting, Complete, WRITE_INDEXES, SCHEMA_SQL, FreshColumns
    <3> QED
      BY <1>6, <2>3, <3>1, <3>3, <3>4
  <2> QED
    BY <2>1, <2>2, <2>3
<1>7. CASE w \in {7, 8, 10}
  BY <1>7, Round7, Round8, Round10 DEF Create, Plain, SetVersion, Base
<1>8. CASE w = LastRound
  <2>1. k = 3
    BY <1>8, RoundLast DEF Create, Column, Plain
  <2>2. Needs = {"edges.target_name"}
    BY <1>8, <2>1, RoundLast DEF Create
  <2>3. "edges.target_name" \in Gives(Statements(LastRound)[1])
    BY RoundLast DEF Column, Gives
  <2>4. "edges.target_name" \in Given(LastRound, 2)
    BY <2>3, GivenIn
  <2>5. "edges.target_name" \in Lasting
    BY DEF Lasting, Complete, WRITE_INDEXES, SCHEMA_SQL, FreshColumns
  <2> QED
    BY <1>8, <2>1, <2>2, <2>4, <2>5
<1> QED
  BY <1>2, <1>3, <1>4, <1>6, <1>7, <1>8

\* What a migration makes is what its round gives.
LEMMA MadeIsGiven ==
  ASSUME NEW w \in 2..LATEST_VERSION, w # 5
  PROVE  Made(w) = Given(w, Len(Statements(w)))
<1> DEFINE M == Migration(w)
           St == Statements(w)
<1>0. w # 1 /\ w # 5
  BY DEF LATEST_VERSION
<1>1. Made(w) = UNION {s.objs : s \in {t \in Range(M) : t.op \in {"create", "column"}}}
  BY <1>0 DEF Made
<1>2. /\ Len(M) \in Nat /\ Len(St) = Len(M) + 1 /\ DOMAIN M = 1..Len(M)
      /\ \A i \in 1..Len(M) : St[i] = M[i]
      /\ St[Len(St)] = SetVersion
  BY RoundIsMigration
<1>3. Gives(SetVersion) = {}
  BY DEF Gives, SetVersion, Plain
<1> HIDE DEF M, St
<1>4. ASSUME NEW x PROVE x \in Made(w) <=> \E i \in 1..Len(M) : M[i].op \in {"create", "column"}
      /\ x \in M[i].objs
  BY <1>1, <1>2 DEF Range
<1>5. ASSUME NEW x PROVE x \in Given(w, Len(St)) <=> \E i \in 1..Len(St) : x \in Gives(St[i])
  BY DEF Given, St
<1>6. ASSUME NEW x PROVE x \in Given(w, Len(St)) <=> \E i \in 1..Len(M) : x \in Gives(M[i])
  <2>1. \A i \in 1..Len(St) : i \in 1..Len(M) \/ i = Len(St)
    BY <1>2
  <2>2. \A i \in 1..Len(M) : i \in 1..Len(St)
    BY <1>2
  <2> QED
    BY <1>2, <1>3, <1>5, <2>1, <2>2
<1>7. \A x : x \in Made(w) <=> x \in Given(w, Len(St))
  BY <1>4, <1>6 DEF Gives
<1> QED
  BY <1>7 DEF St

\* The rounds that only work on the FTS table give nothing.
LEMMA GivenFts == Given(5, Len(Statements(5))) = {}
<1>1. Gives(Statements(5)[1]) = {} /\ Gives(Statements(5)[2]) = {} /\ Len(Statements(5)) = 2
  BY Round5 DEF Gives, Plain, SetVersion
<1>2. 1..Len(Statements(5)) = {1, 2}
  <2>1. \A n : n = 2 => 1..n = {1, 2}
    OBVIOUS
  <2> QED
    BY <1>1, <2>1, Zenon
<1> QED
  BY <1>1, <1>2 DEF Given

\* An object that a graph keeps is in no migration's drops.
LEMMA LostNotKept ==
  ASSUME NEW w \in 1..LATEST_VERSION
  PROVE  Lost(w) \cap Lasting = {} /\ "nodes_fts" \notin Lost(w)
<1>1. CASE w = 1
  <2>1. Migration(1) = <<>>
    BY DEF Migration
  <2>2. Range(Migration(w)) = {}
    BY <1>1, <2>1 DEF Range
  <2> QED
    BY <2>2 DEF Lost
<1>2. CASE w \in 2..LATEST_VERSION
  <2>1. SUFFICES ASSUME NEW i \in DOMAIN Migration(w), Migration(w)[i].op = "drop",
                        NEW x \in Falls(Migration(w)[i].objs)
                 PROVE  x \notin Lasting
    BY DEF Lost, Range
  <2>2. /\ Len(Migration(w)) \in Nat /\ Len(Statements(w)) = Len(Migration(w)) + 1
        /\ DOMAIN Migration(w) = 1..Len(Migration(w))
        /\ \A j \in 1..Len(Migration(w)) : Statements(w)[j] = Migration(w)[j]
    BY <1>2, RoundIsMigration
  <2>3. w \in 2..LastRound /\ i \in 1..Len(Statements(w)) /\ Statements(w)[i] = Migration(w)[i]
    BY <1>2, <2>2 DEF LastRound, LATEST_VERSION
  <2>4. ShapeOfDrop(w, i, Statements(w)[i])
    BY <2>3, Shapes
  <2> QED
    BY <2>1, <2>3, <2>4 DEF ShapeOfDrop
<1> QED
  BY <1>1, <1>2 DEF LATEST_VERSION

\* A graph of version v holds what it keeps of the rounds up to v.
LEMMA HoldsKept ==
  ASSUME NEW v \in 1..LATEST_VERSION
  PROVE  /\ Base \cup (Lasting \cap Before(v + 1)) \subseteq Holds(v)
         /\ v >= 5 => "nodes_fts" \in Holds(v)
<1>0. LATEST_VERSION = 20
  BY DEF LATEST_VERSION
<1>1. ASSUME NEW x, x \in Lasting \/ x = "nodes_fts", NEW w \in 1..v, x \in Made(w)
      PROVE  x \in Holds(v)
  <2>1. \A y \in 1..v : x \notin Lost(y)
    BY <1>0, <1>1, LostNotKept
  <2> QED
    BY <1>1, <2>1 DEF Holds
<1>2. Base \subseteq Holds(v)
  <2>1. Made(1) = Base /\ 1 \in 1..v
    BY <1>0 DEF Made, Base
  <2>2. Base \subseteq Lasting
    BY DEF Base, Lasting, Complete, SCHEMA_SQL, WRITE_INDEXES
  <2> QED
    BY <1>1, <2>1, <2>2
<1>3. Lasting \cap Before(v + 1) \subseteq Holds(v)
  <2> SUFFICES ASSUME NEW x \in Lasting \cap Before(v + 1)
               PROVE  x \in Holds(v)
    OBVIOUS
  <2>0. 2..((v + 1) - 1) = 2..v
    BY <1>0
  <2>1. PICK w \in 2..v : x \in Given(w, Len(Statements(w)))
    BY <2>0 DEF Before
  <2>2. w # 5 /\ w \in 2..LATEST_VERSION /\ w \in 1..v
    BY <1>0, <2>1, GivenFts
  <2>3. x \in Made(w)
    BY <2>1, <2>2, MadeIsGiven
  <2> QED
    BY <1>1, <2>2, <2>3
<1>4. ASSUME v >= 5 PROVE "nodes_fts" \in Holds(v)
  <2>1. "nodes_fts" \in Made(5) /\ 5 \in 1..v
    BY <1>0, <1>4 DEF Made
  <2> QED
    BY <1>1, <2>1
<1> QED
  BY <1>2, <1>3, <1>4

\* What a round gives is part of the latest schema or is lost in round 17, 18 or 20.
LEMMA MadeGoes ==
  ASSUME NEW w \in 1..LATEST_VERSION, NEW x \in Made(w), x \notin Complete
  PROVE  w <= 16 /\ x \in Lost(17) \cup Lost(18) \cup Lost(20)
<1>0. LATEST_VERSION = 20 /\ LastRound = 21
  BY DEF LATEST_VERSION, LastRound
<1>1. w # 1 /\ w # 5
  <2>1. Made(1) \subseteq Complete /\ Made(5) \subseteq Complete
    BY DEF Made, Complete, SCHEMA_SQL
  <2> QED
    BY <2>1
<1> w \in 2..LATEST_VERSION /\ w \in 2..LastRound
  BY <1>0, <1>1
<1>2. x \in Given(w, Len(Statements(w)))
  BY <1>1, MadeIsGiven
<1>3. PICK k \in 1..Len(Statements(w)) : x \in Gives(Statements(w)[k])
  BY <1>2 DEF Given
<1>4. Statements(w)[k].op \in {"create", "column"} /\ x \in Statements(w)[k].objs
  BY <1>3 DEF Gives
<1>5. ShapeOfMake(w, Statements(w)[k])
  BY <1>3, Shapes
<1> QED
  BY <1>0, <1>4, <1>5 DEF ShapeOfMake

\* ... and holds nothing that a migration up to v has dropped.
LEMMA HoldsUpper ==
  ASSUME NEW v \in 1..LATEST_VERSION
  PROVE  Holds(v) \subseteq Upper(v)
<1>0. LATEST_VERSION = 20
  BY DEF LATEST_VERSION
<1> SUFFICES ASSUME NEW x \in Holds(v), x \notin Complete
             PROVE  x \in Upper(v)
  BY DEF Upper
<1>1. PICK w \in 1..v : x \in Made(w)
  BY DEF Holds
<1>2. PICK y \in {17, 18, 20} : x \in Lost(y)
  BY <1>0, <1>1, MadeGoes
<1>3. CASE y > v
  BY <1>0, <1>2, <1>3 DEF Upper
<1>4. CASE y <= v
  <2>1. PICK z \in (y + 1)..v : x \in Made(z)
    BY <1>2, <1>4 DEF Holds
  <2>2. z \in 1..LATEST_VERSION /\ z > 16
    BY <1>0, <1>2, <2>1
  <2> QED
    BY <2>1, <2>2, MadeGoes
<1> QED
  BY <1>0, <1>2, <1>3, <1>4

\* What the version promises is what the graph keeps, and the FTS table from v13 on.
LEMMA NeededKept ==
  ASSUME NEW v \in 1..LATEST_VERSION, NEW x \in Needed(v)
  PROVE  x \in Base \/ x \in Lasting \cap Before(v + 1) \/ (x = "nodes_fts" /\ v >= 13)
<1>0. LATEST_VERSION = 20
  BY DEF LATEST_VERSION
<1>1. x \in Holds(v) /\ x \in Tables /\ (x = "nodes_fts" => v >= 13)
  BY <1>0 DEF Needed
<1>2. PICK w \in 1..v : x \in Made(w)
  BY <1>1 DEF Holds
<1>3. CASE w = 1
  BY <1>2, <1>3 DEF Made, Base
<1>4. CASE w = 5
  BY <1>1, <1>2, <1>4 DEF Made
<1>5. CASE w # 1 /\ w # 5
  <2>1. w \in 2..LATEST_VERSION /\ w \in 2..((v + 1) - 1)
    BY <1>0, <1>2, <1>5
  <2>2. x \in Given(w, Len(Statements(w)))
    BY <1>2, <1>5, <2>1, MadeIsGiven
  <2>3. x \in Before(v + 1)
    BY <1>0, <2>1, <2>2, GivenBefore
  <2>4. x \in Lasting \/ x = "nodes_fts"
    BY <1>1 DEF Tables, Lasting, Complete, SCHEMA_SQL, WRITE_INDEXES, FreshColumns
  <2> QED
    BY <1>1, <2>3, <2>4
<1> QED
  BY <1>3, <1>4, <1>5

\* All that the latest schema has beyond the schema batch comes from the rounds.
LEMMA AllGiven ==
  {"nodes.signature", "nodes.community_id", "communities", "idx_communities", "risk_index",
   "idx_risk_index_score", "nodes.mtime_ns", "edges.confidence", "edges.confidence_tier"}
    \subseteq Before(LastRound)
<1>0. LastRound = 21 /\ LastRound \in Nat
  BY Lengths
<1>1. ASSUME NEW w \in 2..20, NEW k \in 1..Len(Statements(w))
      PROVE  Gives(Statements(w)[k]) \subseteq Before(LastRound)
  <2>1. Len(Statements(w)) \in Nat
    BY <1>0, Lengths
  <2>2. Gives(Statements(w)[k]) \subseteq Given(w, Len(Statements(w)))
    BY <2>1, GivenIn
  <2>3. w \in 2..(LastRound - 1)
    BY <1>0
  <2> QED
    BY <1>0, <2>2, <2>3, GivenBefore
<1>2. "nodes.signature" \in Before(LastRound)
  <2>1. "nodes.signature" \in Gives(Statements(2)[1]) /\ 1 \in 1..Len(Statements(2))
    BY Round2 DEF Gives, Column
  <2> QED
    BY <1>1, <2>1
<1>3. "communities" \in Before(LastRound) /\ "nodes.community_id" \in Before(LastRound)
      /\ "idx_communities" \in Before(LastRound)
  <2>1. /\ "communities" \in Gives(Statements(4)[1]) /\ 1 \in 1..Len(Statements(4))
        /\ "nodes.community_id" \in Gives(Statements(4)[2]) /\ 2 \in 1..Len(Statements(4))
        /\ "idx_communities" \in Gives(Statements(4)[3]) /\ 3 \in 1..Len(Statements(4))
    BY Round4 DEF Gives, Column, Create
  <2> QED
    BY <1>1, <2>1
<1>4. "risk_index" \in Before(LastRound) /\ "idx_risk_index_score" \in Before(LastRound)
  <2>1. /\ "risk_index" \in Gives(Statements(6)[1]) /\ 1 \in 1..Len(Statements(6))
        /\ "idx_risk_index_score" \in Gives(Statements(6)[2]) /\ 2 \in 1..Len(Statements(6))
    BY Round6 DEF Gives, Create
  <2> QED
    BY <1>1, <2>1
<1>5. "edges.confidence" \in Before(LastRound) /\ "edges.confidence_tier" \in Before(LastRound)
  <2>1. /\ "edges.confidence" \in Gives(Statements(9)[1]) /\ 1 \in 1..Len(Statements(9))
        /\ "edges.confidence_tier" \in Gives(Statements(9)[2]) /\ 2 \in 1..Len(Statements(9))
    BY Round9 DEF Gives, Column
  <2> QED
    BY <1>1, <2>1
<1>6. "nodes.mtime_ns" \in Before(LastRound)
  <2>1. "nodes.mtime_ns" \in Gives(Statements(11)[1]) /\ 1 \in 1..Len(Statements(11))
    BY Round11 DEF Gives, Column
  <2> QED
    BY <1>1, <2>1
<1> QED
  BY <1>2, <1>3, <1>4, <1>5, <1>6

\* The latest schema, from where an open has it.
LEMMA CompleteFrom ==
  Complete \subseteq SCHEMA_SQL \cup (Lasting \cap Before(LastRound))
     \cup {"edges.target_name", "idx_edges_target_name_kind", "nodes_fts", "idx_nodes_community"}
<1>1. {"nodes.signature", "nodes.community_id", "communities", "idx_communities", "risk_index",
       "idx_risk_index_score", "nodes.mtime_ns", "edges.confidence", "edges.confidence_tier"}
        \subseteq Lasting
  BY DEF Lasting, Complete, SCHEMA_SQL, WRITE_INDEXES, FreshColumns
<1>2. Complete \subseteq SCHEMA_SQL \cup
      {"nodes.signature", "nodes.community_id", "communities", "idx_communities", "risk_index",
       "idx_risk_index_score", "nodes.mtime_ns", "edges.confidence", "edges.confidence_tier"}
     \cup {"edges.target_name", "idx_edges_target_name_kind", "nodes_fts", "idx_nodes_community"}
  BY DEF Complete, SCHEMA_SQL, WRITE_INDEXES, FreshColumns
<1> QED
  BY <1>1, <1>2, AllGiven

-----------------------------------------------------------------------------
(* One statement of the chain *)

\* A process inside run_migrations is at a statement, and that has its shape.
LEMMA AtStatement ==
  ASSUME Placed, NEW p \in Openers, Running(p)
  PROVE  /\ round[p] \in 2..LastRound /\ step[p] \in 1..Len(Statements(round[p]))
         /\ Len(Statements(round[p])) \in Nat
         /\ Statement(p) = Statements(round[p])[step[p]]
         /\ Shape(round[p], step[p], Statement(p))
         /\ ShapeOfDrop(round[p], step[p], Statement(p))
         /\ ShapeOfMake(round[p], Statement(p))
         /\ ShapeOfColumn(round[p], step[p], Statement(p))
<1>1. round[p] \in 2..LastRound /\ step[p] \in Nat \ {0} /\ step[p] <= Len(Statements(round[p]))
  BY DEF Placed, Running
<1>2. Len(Statements(round[p])) \in Nat
  BY <1>1, Lengths
<1>3. step[p] \in 1..Len(Statements(round[p]))
  BY <1>1, <1>2
<1> QED
  BY <1>1, <1>2, <1>3, Shapes DEF Statement

\* What the statement in hand does depends on its place and on half.
LEMMA OpFacts ==
  ASSUME Placed, NEW p \in Openers, Running(p)
  PROVE  /\ Op(p) \in {"create", "drop", "column", "alter", "skip", "version", "purge",
                       "backfill", "fts_table", "fts_create", "fts_fill", "fts_check",
                           "fts_rebuild"}
         /\ (Op(p) = "create") <=> (Statement(p).op = "create")
         /\ (Op(p) = "drop") <=> (Statement(p).op = "drop")
         /\ (Op(p) = "column") <=> (Statement(p).op = "column" /\ ~half[p])
         /\ (Op(p) = "alter") <=> (Statement(p).op = "column" /\ half[p])
         /\ (Op(p) = "version") <=> (round[p] # LastRound /\ step[p] = Len(Statements(round[p])))
         /\ (Op(p) = "purge") <=> On(p, 12, 1)
         /\ (Op(p) = "backfill") <=> On(p, LastRound, 2)
         /\ (Op(p) = "fts_create") <=> WillCreate(p)
         /\ (Op(p) = "fts_fill") <=> WillFill(p)
         /\ (Op(p) = "fts_rebuild") <=> WillRebuild(p)
         /\ (Statement(p).op = "fts_check") <=> On(p, 15, 1)
         /\ (Statement(p).op = "fts_table") <=> On(p, 5, 1)
         /\ (Statement(p).op = "skip") <=> On(p, 16, 1)
<1>1. Shape(round[p], step[p], Statement(p))
  BY AtStatement
<1>2. half[p] \in BOOLEAN /\ (half[p] => Statement(p).op \in {"column", "fts_table", "fts_check"})
  BY DEF Placed, PlacedAt
<1>3. CASE half[p]
  <2>1. CASE Statement(p).op = "column"
    BY <1>1, <1>3, <2>1 DEF Shape, Op, Repair, On, WillCreate, WillFill, WillRebuild
  <2>2. CASE Statement(p).op = "fts_table"
    BY <1>1, <1>3, <2>2 DEF Shape, Op, Repair, On, WillCreate, WillFill, WillRebuild
  <2>3. CASE Statement(p).op = "fts_check"
    BY <1>1, <1>3, <2>3 DEF Shape, Op, Repair, On, WillCreate, WillFill, WillRebuild
  <2> QED
    BY <1>2, <1>3, <2>1, <2>2, <2>3
<1>4. CASE ~half[p]
  <2>1. Op(p) = Statement(p).op
    BY <1>4 DEF Op
  <2> QED
    BY <1>1, <1>4, <2>1 DEF Shape, On, WillCreate, WillFill, WillRebuild
<1> QED
  BY <1>2, <1>3, <1>4

\* A statement keeps what is kept, and what it gives is there after it.
LEMMA ExecKeeps ==
  ASSUME Placed, NEW p \in Openers, Exec(p)
  PROVE  /\ (Lasting \cup SCHEMA_SQL) \cap objects \subseteq objects'
         /\ Gives(Statement(p)) \subseteq objects'
         /\ objects' \subseteq objects \cup Gives(Statement(p)) \cup {"nodes_fts"}
<1> DEFINE s == Statement(p)
           op == Op(p)
<1>1. Running(p) /\ (half[p] \/ s.op = "skip" \/ ~Missing(s))
  BY DEF Exec
<1>2. objects' = CASE op \in {"create", "alter"} -> objects \cup s.objs
                   [] op = "drop" -> objects \ Falls(s.objs)
                   [] op \in {"fts_create", "fts_rebuild"} -> objects \cup {"nodes_fts"}
                   [] OTHER -> objects
  BY DEF Exec
<1>3. ShapeOfDrop(round[p], step[p], s)
  BY <1>1, AtStatement
<1>4. /\ (op = "create") <=> (s.op = "create")
      /\ (op = "drop") <=> (s.op = "drop")
      /\ (op = "column") <=> (s.op = "column" /\ ~half[p])
      /\ (op = "alter") <=> (s.op = "column" /\ half[p])
      /\ half[p] \in BOOLEAN
  <2>1. half[p] \in BOOLEAN
    BY DEF Placed
  <2> QED
    BY <1>1, <2>1, OpFacts
<1> HIDE DEF s, op
<1>5. CASE op \in {"create", "alter"}
  <2>1. objects' = objects \cup s.objs /\ Gives(s) = s.objs
    BY <1>2, <1>4, <1>5 DEF Gives
  <2> QED
    BY <2>1 DEF s
<1>6. CASE op = "drop"
  <2>1. objects' = objects \ Falls(s.objs) /\ Gives(s) = {}
    BY <1>2, <1>4, <1>6 DEF Gives
  <2>2. Falls(s.objs) \cap (Lasting \cup SCHEMA_SQL) = {}
    BY <1>3, <1>4, <1>6 DEF ShapeOfDrop
  <2> QED
    BY <2>1, <2>2 DEF s
<1>7. CASE op \in {"fts_create", "fts_rebuild"}
  <2>1. objects' = objects \cup {"nodes_fts"} /\ s.op # "create" /\ s.op # "column"
    BY <1>2, <1>4, <1>7
  <2> QED
    BY <2>1 DEF Gives, s
<1>8. CASE op \notin {"create", "alter", "drop", "fts_create", "fts_rebuild"}
  <2>1. objects' = objects
    BY <1>2, <1>8
  <2>2. s.op # "create" /\ (s.op = "column" => ~half[p])
    BY <1>4, <1>8
  <2>3. s.op = "column" => s.objs \subseteq objects
    BY <1>1, <2>2 DEF Missing
  <2>4. Gives(s) \subseteq objects
    BY <2>2, <2>3 DEF Gives
  <2> QED
    BY <2>1, <2>4 DEF s
<1> QED
  BY <1>5, <1>6, <1>7, <1>8

\* The FTS table goes in the first statement of round 13 and comes back with a
\* CREATE or a rebuild.
LEMMA ExecFts ==
  ASSUME Placed, NEW p \in Openers, Exec(p)
  PROVE  /\ On(p, 13, 1) => "nodes_fts" \notin objects' /\ fts' = "empty"
         /\ WillCreate(p) => "nodes_fts" \notin objects /\ "nodes_fts" \in objects'
             /\ fts' = "empty"
         /\ WillFill(p) => /\ "nodes_fts" \in objects /\ fts = "empty"
                           /\ "nodes_fts" \in objects' /\ fts' = "blank"
         /\ WillRebuild(p) => "nodes_fts" \in objects' /\ fts' = "built"
         /\ ~On(p, 13, 1) /\ ~WillCreate(p) /\ ~WillFill(p) /\ ~WillRebuild(p) =>
              (("nodes_fts" \in objects') <=> ("nodes_fts" \in objects)) /\ fts' = fts
<1> DEFINE s == Statement(p)
           op == Op(p)
<1>1. Running(p) /\ Succeeds(op, s)
  BY DEF Exec
<1>2. objects' = CASE op \in {"create", "alter"} -> objects \cup s.objs
                   [] op = "drop" -> objects \ Falls(s.objs)
                   [] op \in {"fts_create", "fts_rebuild"} -> objects \cup {"nodes_fts"}
                   [] OTHER -> objects
  BY DEF Exec
<1>3. fts' = CASE op = "drop" /\ "nodes_fts" \in s.objs -> "empty"
               [] op = "fts_create" -> "empty"
               [] op = "fts_fill" -> "blank"
               [] op = "fts_rebuild" -> "built"
               [] OTHER -> fts
  BY DEF Exec
<1>4. ShapeOfDrop(round[p], step[p], s) /\ ShapeOfMake(round[p], s) /\ Shape(round[p], step[p], s)
  BY <1>1, AtStatement
<1>5. /\ (op = "create") <=> (s.op = "create")
      /\ (op = "drop") <=> (s.op = "drop")
      /\ (op = "alter") => (s.op = "column")
      /\ (op = "fts_create") <=> WillCreate(p)
      /\ (op = "fts_fill") <=> WillFill(p)
      /\ (op = "fts_rebuild") <=> WillRebuild(p)
  BY <1>1, OpFacts
<1>6. On(p, 13, 1) => s.op = "drop"
  <2>1. Statements(13)[1].op = "drop"
    BY Round13 DEF DropAll
  <2> QED
    BY <2>1 DEF On, Statement
<1> HIDE DEF s, op
<1>7. CASE op = "drop"
  <2>1. ~WillCreate(p) /\ ~WillFill(p) /\ ~WillRebuild(p)
    BY <1>5, <1>7
  <2>2. objects' = objects \ Falls(s.objs)
        /\ fts' = IF "nodes_fts" \in s.objs THEN "empty" ELSE fts
    BY <1>2, <1>3, <1>7
  <2>3. /\ ("nodes_fts" \in Falls(s.objs)) <=> On(p, 13, 1)
        /\ ("nodes_fts" \in s.objs) <=> On(p, 13, 1)
    BY <1>4, <1>5, <1>7 DEF ShapeOfDrop, On
  <2> QED
    BY <2>1, <2>2, <2>3
<1>8. CASE op \in {"create", "alter"}
  <2>1. ~WillCreate(p) /\ ~WillFill(p) /\ ~WillRebuild(p) /\ ~On(p, 13, 1)
    BY <1>5, <1>6, <1>8
  <2>2. objects' = objects \cup s.objs /\ fts' = fts
    BY <1>2, <1>3, <1>8
  <2>3. "nodes_fts" \notin s.objs
    BY <1>4, <1>5, <1>8 DEF ShapeOfMake
  <2> QED
    BY <2>1, <2>2, <2>3
<1>9. CASE op = "fts_create"
  <2>1. WillCreate(p) /\ ~WillFill(p) /\ ~WillRebuild(p) /\ ~On(p, 13, 1)
    BY <1>5, <1>6, <1>9
  <2>2. objects' = objects \cup {"nodes_fts"} /\ fts' = "empty"
    BY <1>2, <1>3, <1>9
  <2>3. "nodes_fts" \notin objects
    BY <1>1, <1>9 DEF Succeeds
  <2> QED
    BY <2>1, <2>2, <2>3
<1>10. CASE op = "fts_fill"
  <2>1. ~WillCreate(p) /\ WillFill(p) /\ ~WillRebuild(p) /\ ~On(p, 13, 1)
    BY <1>5, <1>6, <1>10
  <2>2. objects' = objects /\ fts' = "blank"
    BY <1>2, <1>3, <1>10
  <2>3. "nodes_fts" \in objects /\ fts = "empty"
    BY <1>1, <1>10 DEF Succeeds
  <2> QED
    BY <2>1, <2>2, <2>3
<1>11. CASE op = "fts_rebuild"
  <2>1. ~WillCreate(p) /\ ~WillFill(p) /\ WillRebuild(p) /\ ~On(p, 13, 1)
    BY <1>5, <1>6, <1>11
  <2>2. objects' = objects \cup {"nodes_fts"} /\ fts' = "built"
    BY <1>2, <1>3, <1>11
  <2> QED
    BY <2>1, <2>2
<1>12. CASE op \notin {"drop", "create", "alter", "fts_create", "fts_fill", "fts_rebuild"}
  <2>1. ~WillCreate(p) /\ ~WillFill(p) /\ ~WillRebuild(p) /\ ~On(p, 13, 1)
    BY <1>5, <1>6, <1>12
  <2>2. objects' = objects /\ fts' = fts
    BY <1>2, <1>3, <1>12
  <2> QED
    BY <2>1, <2>2
<1> QED
  BY <1>7, <1>8, <1>9, <1>10, <1>11, <1>12

\* The round after version v is one the binary knows, or the end of the loop.
LEMMA RoundAfterFacts ==
  ASSUME NEW p \in Openers, NEW v \in 1..LastRound
  PROVE  /\ RoundAfter(p, v) \in 2..LastRound
         /\ RoundAfter(p, v) # LastRound => RoundAfter(p, v) = v + 1 /\ v + 1 <= Latest[p]
         /\ RoundAfter(p, v) = LastRound => Latest[p] <= v
<1>1. Latest[p] \in 1..LATEST_VERSION
  BY SchemaAssumption
<1> QED
  BY <1>1 DEF RoundAfter, LastRound, LATEST_VERSION

\* Where a statement leads: the stamp to the next round, migrate_v16 without
\* flows to its stamp, every other one to the statement after it.
LEMMA ExecMoves ==
  ASSUME Placed, NEW p \in Openers, Exec(p)
  PROVE  /\ UNCHANGED <<pc, shared, crashes>>
         /\ round' \in [Openers -> 2..LastRound] /\ step' \in [Openers -> Nat \ {0}]
         /\ half' \in [Openers -> BOOLEAN] /\ half'[p] = FALSE
         /\ \A q \in Openers \ {p} :
              round'[q] = round[q] /\ step'[q] = step[q] /\ half'[q] = half[q]
         /\ version' = IF Op(p) = "version" THEN round[p] ELSE version
         /\ \/ /\ round[p] # LastRound /\ step[p] = Len(Statements(round[p])) /\ Op(p) = "version"
               /\ round'[p] = RoundAfter(p, round[p]) /\ step'[p] = 1
            \/ /\ On(p, 16, 1) /\ Op(p) # "version" /\ round'[p] = 16 /\ step'[p] = 5
               /\ objects' = objects
            \/ /\ (step[p] < Len(Statements(round[p])) \/ round[p] = LastRound)
                /\ Op(p) # "version"
               /\ round'[p] = round[p] /\ step'[p] = step[p] + 1
               /\ On(p, 16, 1) => "flows" \in objects
<1> DEFINE n == Len(Statements(round[p]))
           skips == Statement(p).op = "skip" /\ Missing(Statement(p))
           ends == step[p] = n /\ round[p] # LastRound
<1>1. Running(p) /\ UNCHANGED <<pc, shared, crashes>>
  BY DEF Exec
<1>2. /\ round' = [round EXCEPT ![p] = IF ends THEN RoundAfter(p, round[p]) ELSE round[p]]
      /\ step' = [step EXCEPT ![p] = IF ends THEN 1 ELSE IF skips THEN n ELSE step[p] + 1]
      /\ half' = [half EXCEPT ![p] = FALSE]
  BY DEF Exec, Advance
<1>3. version' = IF Op(p) = "version" THEN round[p] ELSE version
  BY DEF Exec
<1>4. /\ round \in [Openers -> 2..LastRound] /\ step \in [Openers -> Nat \ {0}]
      /\ half \in [Openers -> BOOLEAN]
  BY DEF Placed
<1>5. step[p] \in 1..n /\ n \in Nat /\ round[p] \in 2..LastRound /\ round[p] \in 1..LastRound
  <2>1. step[p] \in 1..n /\ n \in Nat /\ round[p] \in 2..LastRound
    BY <1>1, AtStatement
  <2>2. LastRound = 21
    BY Lengths
  <2> QED
    BY <2>1, <2>2
<1>6. /\ (Op(p) = "version") <=> ends
      /\ (Statement(p).op = "skip") <=> On(p, 16, 1)
  BY <1>1, OpFacts
<1>7. On(p, 16, 1) => n = 5 /\ round[p] = 16 /\ LastRound = 21 /\ step[p] = 1
  BY Lengths DEF On
<1>8. RoundAfter(p, round[p]) \in 2..LastRound
  BY <1>5, RoundAfterFacts
<1>9. On(p, 16, 1) /\ ~skips => "flows" \in objects
  <2>1. Shape(round[p], step[p], Statement(p))
    BY <1>1, AtStatement
  <2>2. On(p, 16, 1) => Statement(p).on = {"flows"} /\ Statement(p).op = "skip"
    BY <1>6, <2>1 DEF Shape
  <2> QED
    BY <2>2 DEF Missing
<1>10. skips => objects' = objects
  <2>1. skips => Op(p) \notin {"create", "alter", "drop", "fts_create", "fts_rebuild"}
    <3>1. skips => /\ (Op(p) = "create") <=> (Statement(p).op = "create")
                   /\ (Op(p) = "drop") <=> (Statement(p).op = "drop")
                   /\ (Op(p) = "alter") => (Statement(p).op = "column")
                   /\ ~WillCreate(p) /\ ~WillRebuild(p)
      BY <1>1, <1>6, <1>7, OpFacts DEF WillCreate, WillRebuild, On
    <3>2. (Op(p) = "fts_create" => WillCreate(p)) /\ (Op(p) = "fts_rebuild" => WillRebuild(p))
      BY <1>1, OpFacts
    <3> QED
      BY <3>1, <3>2
  <2>2. objects' = CASE Op(p) \in {"create", "alter"} -> objects \cup Statement(p).objs
                     [] Op(p) = "drop" -> objects \ Falls(Statement(p).objs)
                     [] Op(p) \in {"fts_create", "fts_rebuild"} -> objects \cup {"nodes_fts"}
                     [] OTHER -> objects
    BY DEF Exec
  <2> QED
    BY <2>1, <2>2
<1> HIDE DEF n, skips, ends
<1>11. /\ round' \in [Openers -> 2..LastRound] /\ half' \in [Openers -> BOOLEAN]
          /\ half'[p] = FALSE
       /\ \A q \in Openers \ {p} :
            round'[q] = round[q] /\ step'[q] = step[q] /\ half'[q] = half[q]
  BY <1>2, <1>4, <1>5, <1>8
<1>12. /\ round'[p] = IF ends THEN RoundAfter(p, round[p]) ELSE round[p]
       /\ step'[p] = IF ends THEN 1 ELSE IF skips THEN n ELSE step[p] + 1
  BY <1>2, <1>4
<1>13. step' \in [Openers -> Nat \ {0}]
  <2>1. (IF ends THEN 1 ELSE IF skips THEN n ELSE step[p] + 1) \in Nat \ {0}
    BY <1>5
  <2> QED
    BY <1>2, <1>4, <2>1
<1>14. CASE ends
  BY <1>1, <1>3, <1>6, <1>11, <1>12, <1>13, <1>14 DEF ends, n
<1>15. CASE ~ends /\ skips
  <2>1. On(p, 16, 1)
    BY <1>6, <1>15 DEF skips
  <2> QED
    BY <1>1, <1>3, <1>6, <1>7, <1>10, <1>11, <1>12, <1>13, <1>15, <2>1
<1>16. CASE ~ends /\ ~skips
  <2>1. step[p] < n \/ round[p] = LastRound
    BY <1>5, <1>16 DEF ends
  <2> QED
    BY <1>1, <1>3, <1>6, <1>9, <1>11, <1>12, <1>13, <1>16, <2>1 DEF n
<1> QED
  BY <1>14, <1>15, <1>16

-----------------------------------------------------------------------------
(* Types and places *)

\* Leaving run_migrations resets the place.
LEMMA LeaveMoves ==
  ASSUME Placed, NEW p \in Openers, NEW a \in Stages, Leave(p, a)
  PROVE  /\ pc' \in [Openers -> Stages] /\ pc'[p] = a
         /\ round' \in [Openers -> 2..LastRound] /\ round'[p] = LastRound
         /\ step' \in [Openers -> Nat \ {0}] /\ step'[p] = 1
         /\ half' \in [Openers -> BOOLEAN] /\ half'[p] = FALSE
         /\ \A q \in Openers \ {p} : /\ pc'[q] = pc[q] /\ round'[q] = round[q]
                                     /\ step'[q] = step[q] /\ half'[q] = half[q]
<1>1. LastRound \in 2..LastRound
  BY Lengths
<1> QED
  BY <1>1 DEF Placed, Leave, Become

\* Entering a stage moves nobody else.
LEMMA BecomeMoves ==
  ASSUME Placed, NEW p \in Openers, NEW a \in Stages, Become(p, a)
  PROVE  /\ pc' \in [Openers -> Stages] /\ pc'[p] = a
         /\ \A q \in Openers \ {p} : pc'[q] = pc[q]
  BY DEF Placed, Become

\* A process whose place and stage stay is still well placed.
LEMMA PlacedFrame ==
  ASSUME NEW q \in Openers, PlacedAt(q), pc'[q] = pc[q], round'[q] = round[q],
         step'[q] = step[q], half'[q] = half[q]
  PROVE  PlacedAt(q)'
  BY DEF PlacedAt, Statement

\* A process that is not inside run_migrations is at its end, and well placed.
LEMMA PlacedOut ==
  ASSUME NEW q, round'[q] = LastRound, step'[q] = 1, half'[q] = FALSE
  PROVE  PlacedAt(q)'
<1>1. 1 <= Len(Statements(LastRound)) + 1
  BY Lengths
<1> QED
  BY <1>1 DEF PlacedAt

\* Types and places are kept by every step.
LEMMA PlacedStep ==
  ASSUME Placed, [SchemaNext]_schemaVars
  PROVE  Placed'
<1>a. LATEST_VERSION = 20 /\ LastRound = 21
  BY DEF LATEST_VERSION, LastRound
<1>0. \A w \in 2..LastRound : Len(Statements(w)) \in Nat \ {0}
  BY Lengths
<1>1. /\ version \in 1..LATEST_VERSION /\ fts \in {"empty", "blank", "built"}
      /\ pc \in [Openers -> Stages] /\ round \in [Openers -> 2..LastRound]
      /\ step \in [Openers -> Nat \ {0}] /\ half \in [Openers -> BOOLEAN]
      /\ shared \in BOOLEAN /\ stale \in BOOLEAN /\ unnamed \in BOOLEAN /\ crashes \in Nat
      /\ \A q \in Openers : PlacedAt(q)
  BY DEF Placed
<1>2. CASE UNCHANGED schemaVars
  <2>1. /\ pc' = pc /\ round' = round /\ step' = step /\ half' = half
        /\ UNCHANGED <<version, fts, shared, stale, unnamed, crashes>>
    BY <1>2 DEF schemaVars, db, place
  <2>2. \A q \in Openers : PlacedAt(q)'
    BY <1>1, <2>1, PlacedFrame
  <2> QED
    BY <1>1, <2>1, <2>2 DEF Placed
<1>3. ASSUME NEW p \in Openers, NEW a \in Stages, Become(p, a), pc[p] # "run", a # "run",
             UNCHANGED <<fts, stale, unnamed, version, place, shared, crashes>>
      PROVE  Placed'
  <2>1. pc' \in [Openers -> Stages] /\ pc'[p] = a /\ \A q \in Openers \ {p} : pc'[q] = pc[q]
    BY <1>3, BecomeMoves
  <2>2. round' = round /\ step' = step /\ half' = half
    BY <1>3 DEF place
  <2>3. PlacedAt(p)'
    <3>1. round[p] = LastRound /\ step[p] = 1 /\ half[p] = FALSE
      BY <1>1, <1>3 DEF PlacedAt
    <3> QED
      BY <2>2, <3>1, PlacedOut
  <2>4. \A q \in Openers \ {p} : PlacedAt(q)'
    BY <1>1, <2>1, <2>2, PlacedFrame
  <2> QED
    BY <1>1, <1>3, <2>1, <2>2, <2>3, <2>4 DEF Placed
<1>4. ASSUME NEW p \in Openers, NEW a \in Stages, Leave(p, a),
             UNCHANGED <<fts, stale, unnamed, version, shared>>, crashes' \in Nat
      PROVE  Placed'
  <2>1. /\ pc' \in [Openers -> Stages] /\ pc'[p] = a
        /\ round' \in [Openers -> 2..LastRound] /\ round'[p] = LastRound
        /\ step' \in [Openers -> Nat \ {0}] /\ step'[p] = 1
        /\ half' \in [Openers -> BOOLEAN] /\ half'[p] = FALSE
        /\ \A q \in Openers \ {p} : /\ pc'[q] = pc[q] /\ round'[q] = round[q]
                                    /\ step'[q] = step[q] /\ half'[q] = half[q]
    BY <1>4, LeaveMoves
  <2>2. PlacedAt(p)'
    BY <2>1, PlacedOut
  <2>3. \A q \in Openers \ {p} : PlacedAt(q)'
    BY <1>1, <2>1, PlacedFrame
  <2> QED
    BY <1>1, <1>4, <2>1, <2>2, <2>3 DEF Placed
<1>5. ASSUME NEW p \in Openers, PlanMigrations(p) PROVE Placed'
  <2>1. /\ pc[p] = "plan" /\ Become(p, "run") /\ "run" \in Stages
        /\ round' = [round EXCEPT ![p] = RoundAfter(p, version)] /\ step' = [step EXCEPT ![p] = 1]
        /\ half' = half /\ UNCHANGED <<fts, stale, unnamed, version, shared, crashes>>
    BY <1>5 DEF PlanMigrations, db, Stages
  <2>2. pc' \in [Openers -> Stages] /\ pc'[p] = "run" /\ \A q \in Openers \ {p} : pc'[q] = pc[q]
    BY <2>1, BecomeMoves
  <2>3. version \in 1..LastRound
    BY <1>a, <1>1
  <2>4. /\ RoundAfter(p, version) \in 2..LastRound
        /\ RoundAfter(p, version) # LastRound => RoundAfter(p, version) <= Latest[p]
    BY <2>3, RoundAfterFacts
  <2>5. /\ round' \in [Openers -> 2..LastRound] /\ round'[p] = RoundAfter(p, version)
        /\ step' \in [Openers -> Nat \ {0}] /\ step'[p] = 1
        /\ \A q \in Openers \ {p} : round'[q] = round[q] /\ step'[q] = step[q]
    BY <1>1, <2>1, <2>4
  <2>6. PlacedAt(p)'
    <3>1. ~half[p]
      BY <1>1, <2>1 DEF PlacedAt
    <3>2. Len(Statements(round'[p])) \in Nat \ {0}
      BY <1>0, <2>4, <2>5
    <3> QED
      BY <2>1, <2>2, <2>4, <2>5, <3>1, <3>2 DEF PlacedAt
  <2>7. \A q \in Openers \ {p} : PlacedAt(q)'
    BY <1>1, <2>1, <2>2, <2>5, PlacedFrame
  <2> QED
    BY <1>1, <2>1, <2>2, <2>5, <2>6, <2>7 DEF Placed
<1>6. ASSUME NEW p \in Openers, Probe(p) PROVE Placed'
  <2>1. /\ Running(p) /\ half' = [half EXCEPT ![p] = TRUE] /\ Missing(Statement(p))
        /\ Statement(p).op # "skip"
        /\ UNCHANGED <<pc, round, step, fts, stale, unnamed, version, shared, crashes>>
    BY <1>6 DEF Probe, db
  <2>2. Statement(p).op \in {"column", "fts_table", "fts_check"}
    BY <2>1 DEF Missing
  <2>3. PlacedAt(p)'
    BY <1>1, <2>1, <2>2 DEF PlacedAt, Running, Statement
  <2>4. \A q \in Openers \ {p} : PlacedAt(q)'
    BY <1>1, <2>1, PlacedFrame
  <2> QED
    BY <1>1, <2>1, <2>3, <2>4 DEF Placed
<1>7. ASSUME NEW p \in Openers, Exec(p) PROVE Placed'
  <2>1. Running(p) /\ pc[p] = "run" /\ pc' = pc
    BY <1>7 DEF Exec, Running
  <2>2. /\ UNCHANGED <<pc, shared, crashes>>
        /\ round' \in [Openers -> 2..LastRound] /\ step' \in [Openers -> Nat \ {0}]
        /\ half' \in [Openers -> BOOLEAN] /\ half'[p] = FALSE
        /\ \A q \in Openers \ {p} :
             round'[q] = round[q] /\ step'[q] = step[q] /\ half'[q] = half[q]
    BY <1>7, ExecMoves
  <2>3. version' \in 1..LATEST_VERSION
    <3>1. version' = IF Op(p) = "version" THEN round[p] ELSE version
      BY <1>7, ExecMoves
    <3>2. (Op(p) = "version") => round[p] # LastRound
      BY <2>1, OpFacts
    <3>3. round[p] \in 2..LastRound /\ version \in 1..LATEST_VERSION
      BY <1>1
    <3> QED
      BY <1>a, <3>1, <3>2, <3>3
  <2>4. fts' \in {"empty", "blank", "built"}
    BY <1>1, <1>7 DEF Exec
  <2>5. stale' \in BOOLEAN /\ unnamed' \in BOOLEAN
    BY <1>7 DEF Exec
  <2>6. PlacedAt(p)'
    <3>1. /\ round[p] \in 2..LastRound /\ step[p] \in 1..Len(Statements(round[p]))
          /\ Len(Statements(round[p])) \in Nat
      BY <2>1, AtStatement
    <3>2. round[p] # LastRound => round[p] <= Latest[p]
      BY <1>1 DEF PlacedAt
    <3>3. CASE round'[p] = RoundAfter(p, round[p]) /\ step'[p] = 1
      <4>1. round[p] \in 1..LastRound
        BY <1>a, <3>1
      <4>2. round'[p] # LastRound => round'[p] <= Latest[p]
        BY <3>3, <4>1, RoundAfterFacts
      <4>3. Len(Statements(round'[p])) \in Nat \ {0}
        BY <1>0, <2>2
      <4> QED
        BY <2>1, <2>2, <3>3, <4>2, <4>3 DEF PlacedAt
    <3>4. CASE On(p, 16, 1) /\ round'[p] = 16 /\ step'[p] = 5
      <4>1. Len(Statements(16)) = 5 /\ round[p] = 16
        BY <3>4, Lengths DEF On
      <4>2. round'[p] # LastRound /\ round'[p] <= Latest[p]
        BY <1>a, <3>2, <3>4, <4>1
      <4>3. step'[p] = 5 /\ Len(Statements(round'[p])) = 5
        BY <3>4, <4>1
      <4>4. step'[p] <= Len(Statements(round'[p])) /\ step'[p] <= Len(Statements(round'[p])) + 1
        <5>1. \A n, m : n = 5 /\ m = 5 => n <= m /\ n <= m + 1
          OBVIOUS
        <5> QED
          BY <4>3, <5>1, Zenon
      <4> QED
        BY <2>1, <2>2, <4>2, <4>4 DEF PlacedAt
    <3>5. CASE /\ (step[p] < Len(Statements(round[p])) \/ round[p] = LastRound)
               /\ round'[p] = round[p] /\ step'[p] = step[p] + 1
      BY <2>1, <2>2, <3>1, <3>2, <3>5 DEF PlacedAt
    <3> QED
      BY <1>7, <3>3, <3>4, <3>5, ExecMoves
  <2>7. \A q \in Openers \ {p} : PlacedAt(q)'
    BY <1>1, <2>1, <2>2, PlacedFrame
  <2> QED
    BY <1>1, <2>1, <2>2, <2>3, <2>4, <2>5, <2>6, <2>7 DEF Placed
<1>8. ASSUME NEW p \in Openers,
             Open(p) \/ CheckVersion(p) \/ InitSchema(p) \/ Close(p)
                     \/ begin_bulk_load(p) \/ finish_bulk_load(p)
      PROVE  Placed'
  <2>1. {"check", "refused", "schema", "plan", "closed", "bulk", "open"} \subseteq Stages
    BY DEF Stages
  <2>2. CASE Open(p)
    BY <1>3, <2>1, <2>2 DEF Open, db
  <2>3. CASE CheckVersion(p)
    BY <1>3, <2>1, <2>3 DEF CheckVersion, db
  <2>4. CASE InitSchema(p)
    BY <1>3, <2>1, <2>4 DEF InitSchema
  <2>5. CASE Close(p)
    BY <1>3, <2>1, <2>5 DEF Close, db
  <2>6. CASE begin_bulk_load(p)
    BY <1>3, <2>1, <2>6 DEF begin_bulk_load
  <2>7. CASE finish_bulk_load(p)
    BY <1>3, <2>1, <2>7 DEF finish_bulk_load
  <2> QED
    BY <1>8, <2>2, <2>3, <2>4, <2>5, <2>6, <2>7
<1>9. ASSUME NEW p \in Openers, Fail(p) \/ Opened(p) \/ Crash(p) PROVE Placed'
  <2>1. {"failed", "open", "closed"} \subseteq Stages
    BY DEF Stages
  <2>2. CASE Fail(p)
    BY <1>1, <1>4, <2>1, <2>2 DEF Fail, db
  <2>3. CASE Opened(p)
    BY <1>1, <1>4, <2>1, <2>3 DEF Opened, db
  <2>4. CASE Crash(p)
    <3>1. crashes' \in Nat
      BY <1>1, <2>4 DEF Crash
    <3> QED
      BY <1>4, <2>1, <2>4, <3>1 DEF Crash, db
  <2> QED
    BY <1>9, <2>2, <2>3, <2>4
<1> QED
  BY <1>2, <1>5, <1>6, <1>7, <1>8, <1>9 DEF SchemaNext

-----------------------------------------------------------------------------
(* What the version promises *)

\* The tables of the schema batch are never dropped.
LEMMA BaseKept == Base \subseteq Lasting /\ Base \subseteq SCHEMA_SQL
  BY DEF Base, Lasting, Complete, SCHEMA_SQL, WRITE_INDEXES

\* A process that does not move, while kept objects stay.
LEMMA StoredFrame ==
  ASSUME NEW q, StoredAt(q), Lasting \cap objects \subseteq objects',
         pc'[q] = pc[q], round'[q] = round[q], step'[q] = step[q]
  PROVE  StoredAt(q)'
  BY BaseKept DEF StoredAt

\* A process outside run_migrations.
LEMMA StoredOut ==
  ASSUME NEW q, round'[q] = LastRound, step'[q] = 1,
         pc'[q] \in {"plan", "run", "open", "bulk"} => Base \subseteq objects'
  PROVE  StoredAt(q)'
<1>1. Given(round'[q], step'[q] - 1) = {}
  BY GivenNone
<1> QED
  BY <1>1 DEF StoredAt

\* The columns of the flows are not kept.
LEMMA FlowsNotKept == Lasting \cap Given(16, 4) = {}
<1>1. \A j \in 1..4 : Gives(Statements(16)[j]) \cap Lasting = {}
  <2>1. /\ Gives(Statements(16)[1]) = {} /\ Gives(Statements(16)[2]) = {"flows.kind"}
        /\ Gives(Statements(16)[3]) = {"flows.truncated"}
        /\ Gives(Statements(16)[4]) = {"flows.truncation_reason"}
    BY Round16 DEF Gives, Skip, Column
  <2>2. Lasting \cap {"flows.kind", "flows.truncated", "flows.truncation_reason"} = {}
    BY DEF Lasting, Complete, SCHEMA_SQL, WRITE_INDEXES, FreshColumns
  <2> QED
    BY <2>1, <2>2
<1> QED
  BY <1>1 DEF Given

\* At its stamp a round has given all it gives.
LEMMA StampStored ==
  ASSUME Placed, NEW p \in Openers, Running(p), Op(p) = "version", StoredAt(p)
  PROVE  Lasting \cap Before(round[p] + 1) \subseteq objects
<1> DEFINE w == round[p]
           n == Len(Statements(w))
<1>1. w # LastRound /\ step[p] = n
  BY OpFacts
<1>2. w \in 2..LastRound /\ n \in Nat /\ step[p] \in 1..n /\ LastRound = LATEST_VERSION + 1
      /\ LATEST_VERSION = 20
  BY AtStatement DEF LastRound, LATEST_VERSION
<1>3. w \in 2..LATEST_VERSION
  BY <1>1, <1>2
<1>4. Given(w, n) = Given(w, n - 1) \cup Gives(Statements(w)[n])
  <2>1. n - 1 \in Nat /\ (n - 1) + 1 = n
    BY <1>2
  <2> QED
    BY <2>1, GivenStep
<1>5. Gives(Statements(w)[n]) = {}
  <2>1. Statements(w)[n] = SetVersion
    BY <1>3, RoundIsMigration
  <2> QED
    BY <2>1 DEF Gives, SetVersion, Plain
<1>6. Before(w + 1) = Before(w) \cup Given(w, n)
  BY <1>3, BeforeStep
<1>7. Lasting \cap Given(w, n - 1) \subseteq objects /\ Lasting \cap Before(w) \subseteq objects
  BY <1>1 DEF StoredAt
<1> QED
  BY <1>4, <1>5, <1>6, <1>7

\* A statement keeps it true of the process that executes it.
LEMMA StoredExec ==
  ASSUME Placed, NEW p \in Openers, Exec(p), StoredAt(p)
  PROVE  StoredAt(p)'
<1>1. Running(p) /\ pc[p] = "run" /\ pc' = pc
  BY DEF Exec, Running
<1>2. /\ Lasting \cap objects \subseteq objects'
      /\ Gives(Statement(p)) \subseteq objects'
  BY ExecKeeps
<1>3. /\ round[p] \in 2..LastRound /\ step[p] \in 1..Len(Statements(round[p]))
      /\ Len(Statements(round[p])) \in Nat
      /\ Statement(p) = Statements(round[p])[step[p]]
  BY <1>1, AtStatement
<1>4. Base \subseteq objects'
  BY <1>1, <1>2, BaseKept DEF StoredAt
<1>5. CASE /\ Op(p) = "version" /\ round[p] # LastRound
           /\ round'[p] = RoundAfter(p, round[p]) /\ step'[p] = 1
  <2>1. Given(round'[p], step'[p] - 1) = {}
    BY <1>5, GivenNone
  <2>2. round[p] \in 1..LastRound
    <3>1. LastRound = 21
      BY Lengths
    <3> QED
      BY <1>3, <3>1
  <2>3. round'[p] # LastRound => round'[p] = round[p] + 1
    BY <1>5, <2>2, RoundAfterFacts
  <2>4. Lasting \cap Before(round[p] + 1) \subseteq objects
    BY <1>1, <1>5, StampStored
  <2> QED
    BY <1>2, <1>4, <2>1, <2>3, <2>4 DEF StoredAt
<1>6. CASE On(p, 16, 1) /\ round'[p] = 16 /\ step'[p] = 5
  <2>1. Lasting \cap Given(round'[p], step'[p] - 1) = {}
    <3>1. step'[p] - 1 = 4
      BY <1>6
    <3> QED
      BY <1>6, <3>1, FlowsNotKept
  <2>2. Lasting \cap Before(round'[p]) \subseteq objects
    <3>1. round[p] = 16 /\ round[p] # LastRound
      BY <1>6, Lengths DEF On
    <3> QED
      BY <1>6, <3>1 DEF StoredAt
  <2> QED
    BY <1>2, <1>4, <2>1, <2>2 DEF StoredAt
<1>7. CASE round'[p] = round[p] /\ step'[p] = step[p] + 1
  <2>1. step[p] - 1 \in Nat /\ (step[p] - 1) + 1 = step[p] /\ step'[p] - 1 = step[p]
    BY <1>3, <1>7
  <2>2. Given(round[p], step[p]) = Given(round[p], step[p] - 1) \cup Gives(Statement(p))
    BY <1>3, <2>1, GivenStep
  <2>3. Lasting \cap Given(round[p], step[p]) \subseteq objects'
    BY <1>2, <2>2 DEF StoredAt
  <2>4. round[p] # LastRound => Lasting \cap Before(round[p]) \subseteq objects'
    BY <1>2 DEF StoredAt
  <2> QED
    BY <1>4, <1>7, <2>1, <2>3, <2>4 DEF StoredAt
<1> QED
  BY <1>5, <1>6, <1>7, ExecMoves

\* Every step keeps what the version and the places promise.
LEMMA StoredStep ==
  ASSUME Placed, Placed', Stored, [SchemaNext]_schemaVars
  PROVE  Stored'
<1>1. /\ objects # {} => Base \subseteq objects
      /\ objects = {} => version = 1
      /\ Lasting \cap Before(version + 1) \subseteq objects
      /\ \A p \in Openers : StoredAt(p)
  BY DEF Stored
<1>2. CASE UNCHANGED schemaVars
  <2>1. objects' = objects /\ version' = version /\ pc' = pc /\ round' = round /\ step' = step
    BY <1>2 DEF schemaVars, db, place
  <2>2. \A q \in Openers : StoredAt(q)'
    BY <1>1, <2>1, StoredFrame
  <2> QED
    BY <1>1, <2>1, <2>2 DEF Stored
\* Out of run_migrations before and after, or leaving it.
<1>3. ASSUME NEW p \in Openers, version' = version, Lasting \cap objects \subseteq objects',
             objects' = {} => objects = {},
             objects' # {} => Base \subseteq objects',
             \A q \in Openers \ {p} : pc'[q] = pc[q] /\ round'[q] = round[q]
                 /\ step'[q] = step[q],
             StoredAt(p)'
      PROVE  Stored'
  <2>1. \A q \in Openers \ {p} : StoredAt(q)'
    BY <1>1, <1>3, StoredFrame
  <2> QED
    BY <1>1, <1>3, <2>1 DEF Stored
<1>4. ASSUME NEW p \in Openers, Open(p) \/ CheckVersion(p) \/ Close(p) PROVE Stored'
  <2>1. PICK a \in Stages : Become(p, a) /\ a \notin {"plan", "run", "open", "bulk"}
    BY <1>4 DEF Open, CheckVersion, Close, Stages
  <2>2. objects' = objects /\ version' = version /\ round' = round /\ step' = step
        /\ pc[p] # "run"
    BY <1>4 DEF Open, CheckVersion, Close, db, place
  <2>3. pc'[p] = a /\ \A q \in Openers \ {p} : pc'[q] = pc[q]
    BY <2>1, BecomeMoves
  <2>4. round[p] = LastRound /\ step[p] = 1
    BY <2>2 DEF Placed, PlacedAt
  <2>5. StoredAt(p)'
    BY <2>1, <2>2, <2>3, <2>4, StoredOut
  <2> QED
    BY <1>1, <1>3, <2>2, <2>3, <2>5
<1>5. ASSUME NEW p \in Openers, InitSchema(p) PROVE Stored'
  <2>1. /\ Become(p, "plan") /\ pc[p] = "schema" /\ "plan" \in Stages
        /\ objects \cup SCHEMA_SQL \subseteq objects'
        /\ version' = version /\ round' = round /\ step' = step
    BY <1>5 DEF InitSchema, place, Stages
  <2>2. pc'[p] = "plan" /\ \A q \in Openers \ {p} : pc'[q] = pc[q]
    BY <2>1, BecomeMoves
  <2>3. round[p] = LastRound /\ step[p] = 1
    BY <2>1 DEF Placed, PlacedAt
  <2>4. Base \subseteq objects' /\ objects' # {}
    BY <2>1, BaseKept DEF Base
  <2>5. StoredAt(p)'
    BY <2>1, <2>3, <2>4, StoredOut
  <2> QED
    BY <1>3, <2>1, <2>2, <2>4, <2>5
<1>6. ASSUME NEW p \in Openers, PlanMigrations(p) PROVE Stored'
  <2>1. /\ pc[p] = "plan" /\ Become(p, "run") /\ "run" \in Stages
        /\ round' = [round EXCEPT ![p] = RoundAfter(p, version)] /\ step' = [step EXCEPT ![p] = 1]
        /\ objects' = objects /\ version' = version
    BY <1>6 DEF PlanMigrations, db, Stages
  <2>2. pc'[p] = "run" /\ \A q \in Openers \ {p} : pc'[q] = pc[q]
    BY <2>1, BecomeMoves
  <2>3. /\ round'[p] = RoundAfter(p, version) /\ step'[p] = 1
        /\ \A q \in Openers \ {p} : round'[q] = round[q] /\ step'[q] = step[q]
    BY <2>1 DEF Placed
  <2>4. version \in 1..LastRound
    BY DEF Placed, LastRound, LATEST_VERSION
  <2>5. round'[p] # LastRound => round'[p] = version + 1
    BY <2>3, <2>4, RoundAfterFacts
  <2>6. Given(round'[p], step'[p] - 1) = {}
    BY <2>3, GivenNone
  <2>7. Base \subseteq objects
    BY <1>1, <2>1 DEF StoredAt
  <2>8. StoredAt(p)'
    BY <1>1, <2>1, <2>5, <2>6, <2>7 DEF StoredAt
  <2> QED
    BY <1>1, <1>3, <2>1, <2>2, <2>3, <2>8
<1>7. ASSUME NEW p \in Openers, Probe(p) PROVE Stored'
  <2>1. objects' = objects /\ version' = version /\ pc' = pc /\ round' = round /\ step' = step
    BY <1>7 DEF Probe, db
  <2>2. \A q \in Openers : StoredAt(q)'
    BY <1>1, <2>1, StoredFrame
  <2> QED
    BY <1>1, <2>1, <2>2 DEF Stored
<1>8. ASSUME NEW p \in Openers, Exec(p) PROVE Stored'
  <2>1. Running(p) /\ pc[p] = "run" /\ pc' = pc
    BY <1>8 DEF Exec, Running
  <2>2. Lasting \cap objects \subseteq objects'
    BY <1>8, ExecKeeps
  <2>3. Base \subseteq objects /\ Base \subseteq objects' /\ objects' # {}
    <3>1. Base \subseteq objects
      BY <1>1, <2>1 DEF StoredAt
    <3>2. Base \subseteq objects'
      BY <2>2, <3>1, BaseKept
    <3> QED
      BY <3>1, <3>2 DEF Base
  <2>4. \A q \in Openers \ {p} : round'[q] = round[q] /\ step'[q] = step[q]
    BY <1>8, ExecMoves
  <2>5. \A q \in Openers \ {p} : StoredAt(q)'
    BY <1>1, <2>1, <2>2, <2>4, StoredFrame
  <2>6. StoredAt(p)'
    BY <1>1, <1>8, StoredExec
  <2>7. version' = IF Op(p) = "version" THEN round[p] ELSE version
    BY <1>8, ExecMoves
  <2>8. Lasting \cap Before(version' + 1) \subseteq objects'
    <3>1. CASE Op(p) = "version"
      BY <1>1, <2>1, <2>2, <2>7, <3>1, StampStored
    <3>2. CASE Op(p) # "version"
      BY <1>1, <2>2, <2>7, <3>2
    <3> QED
      BY <3>1, <3>2
  <2> QED
    BY <2>3, <2>5, <2>6, <2>8 DEF Stored
<1>9. ASSUME NEW p \in Openers, Fail(p) \/ Opened(p) \/ Crash(p) PROVE Stored'
  <2>1. PICK a \in Stages : /\ Leave(p, a)
        /\ (a \in {"plan", "run", "open", "bulk"} => pc[p] = "run")
    BY <1>9 DEF Fail, Opened, Crash, Stages
  <2>2. objects' = objects /\ version' = version
    BY <1>9 DEF Fail, Opened, Crash, db
  <2>3. /\ pc'[p] = a /\ round'[p] = LastRound /\ step'[p] = 1
        /\ \A q \in Openers \ {p} : pc'[q] = pc[q] /\ round'[q] = round[q] /\ step'[q] = step[q]
    BY <2>1, LeaveMoves
  <2>4. a \in {"plan", "run", "open", "bulk"} => Base \subseteq objects
    BY <1>1, <2>1 DEF StoredAt
  <2>5. StoredAt(p)'
    BY <2>2, <2>3, <2>4, StoredOut
  <2> QED
    BY <1>1, <1>3, <2>2, <2>3, <2>5
<1>10. ASSUME NEW p \in Openers, begin_bulk_load(p) \/ finish_bulk_load(p) PROVE Stored'
  <2>1. PICK a \in Stages : Become(p, a)
    BY <1>10 DEF begin_bulk_load, finish_bulk_load, Stages
  <2>2. /\ pc[p] \in {"open", "bulk"} /\ version' = version /\ round' = round /\ step' = step
        /\ (objects' = objects \ WRITE_INDEXES \/ objects' = objects \cup WRITE_INDEXES)
    BY <1>10 DEF begin_bulk_load, finish_bulk_load, place
  <2>3. Lasting \cap objects \subseteq objects'
    BY <2>2 DEF Lasting
  <2>4. Base \subseteq objects'
    BY <1>1, <2>2, <2>3, BaseKept DEF StoredAt
  <2>5. objects' # {}
    BY <2>4 DEF Base
  <2>6. round[p] = LastRound /\ step[p] = 1
    BY <2>2 DEF Placed, PlacedAt
  <2>7. \A q \in Openers \ {p} : pc'[q] = pc[q]
    BY <2>1, BecomeMoves
  <2>8. StoredAt(p)'
    BY <2>2, <2>4, <2>6, StoredOut
  <2> QED
    BY <1>3, <2>2, <2>3, <2>4, <2>5, <2>7, <2>8
<1> QED
  BY <1>2, <1>4, <1>5, <1>6, <1>7, <1>8, <1>9, <1>10 DEF SchemaNext

-----------------------------------------------------------------------------
(* The order in which a process passes the places *)

\* Every action but PlanMigrations, Probe and Exec.
Outside(p) ==
  \/ Open(p) \/ CheckVersion(p) \/ InitSchema(p) \/ Fail(p) \/ Opened(p) \/ Close(p)
  \/ begin_bulk_load(p) \/ finish_bulk_load(p) \/ Crash(p)

\* They leave the rows and the version alone, and their process outside the loop.
LEMMA QuietMoves ==
  ASSUME Placed, NEW p \in Openers, Outside(p)
  PROVE  /\ UNCHANGED <<fts, stale, unnamed, version, shared>>
         /\ ("nodes_fts" \in objects') <=> ("nodes_fts" \in objects)
         /\ round'[p] = LastRound /\ step'[p] = 1 /\ half'[p] = FALSE
         /\ \A q \in Openers \ {p} : /\ pc'[q] = pc[q] /\ round'[q] = round[q]
                                     /\ step'[q] = step[q] /\ half'[q] = half[q]
         /\ crashes' # 0 \/ (crashes' = crashes /\ ~Crash(p))
         /\ crashes' = 0 => crashes = 0
<1>1. /\ pc \in [Openers -> Stages] /\ PlacedAt(p) /\ crashes \in Nat
  BY DEF Placed
<1>2. /\ "nodes_fts" \notin SCHEMA_SQL /\ "nodes_fts" \notin FreshColumns
      /\ "nodes_fts" \notin WRITE_INDEXES
  BY DEF SCHEMA_SQL, FreshColumns, WRITE_INDEXES
<1>3. ASSUME NEW a \in Stages, Become(p, a), pc[p] # "run", UNCHANGED place
      PROVE  /\ round'[p] = LastRound /\ step'[p] = 1 /\ half'[p] = FALSE
             /\ \A q \in Openers \ {p} : /\ pc'[q] = pc[q] /\ round'[q] = round[q]
                                         /\ step'[q] = step[q] /\ half'[q] = half[q]
  <2>1. round[p] = LastRound /\ step[p] = 1 /\ half[p] = FALSE
    BY <1>1, <1>3 DEF PlacedAt, Placed
  <2>2. round' = round /\ step' = step /\ half' = half
    BY <1>3 DEF place
  <2> QED
    BY <1>3, <2>1, <2>2, BecomeMoves
<1>4. {"check", "refused", "schema", "plan", "closed", "bulk", "open", "failed"} \subseteq Stages
  BY DEF Stages
<1>5. CASE Open(p) \/ CheckVersion(p) \/ Close(p)
  <2>1. PICK a \in Stages : Become(p, a) /\ pc[p] # "run"
    BY <1>4, <1>5 DEF Open, CheckVersion, Close
  <2>2. UNCHANGED <<db, place, shared, crashes>> /\ ~Crash(p)
    BY <1>1, <1>5 DEF Open, CheckVersion, Close, Crash
  <2> QED
    BY <1>3, <2>1, <2>2 DEF db
<1>6. CASE InitSchema(p) \/ begin_bulk_load(p) \/ finish_bulk_load(p)
  <2>1. PICK a \in Stages : Become(p, a) /\ pc[p] # "run"
    BY <1>4, <1>6 DEF InitSchema, begin_bulk_load, finish_bulk_load
  <2>2. UNCHANGED <<fts, stale, unnamed, version, place, shared, crashes>> /\ ~Crash(p)
    BY <1>1, <1>6 DEF InitSchema, begin_bulk_load, finish_bulk_load, Crash
  <2>3. ("nodes_fts" \in objects') <=> ("nodes_fts" \in objects)
    BY <1>2, <1>6 DEF InitSchema, begin_bulk_load, finish_bulk_load
  <2> QED
    BY <1>3, <2>1, <2>2, <2>3
<1>7. CASE Fail(p) \/ Opened(p) \/ Crash(p)
  <2>1. PICK a \in Stages : Leave(p, a)
    BY <1>4, <1>7 DEF Fail, Opened, Crash
  <2>2. UNCHANGED <<db, shared>>
    BY <1>7 DEF Fail, Opened, Crash
  <2>3. crashes' # 0 \/ (crashes' = crashes /\ ~Crash(p))
    BY <1>1, <1>7 DEF Fail, Opened, Crash
  <2>4. crashes' = 0 => crashes = 0
    BY <1>1, <1>7 DEF Fail, Opened, Crash
  <2> QED
    BY <2>1, <2>2, <2>3, <2>4, LeaveMoves DEF db
<1> QED
  BY <1>5, <1>6, <1>7 DEF Outside

\* The places that matter, each before the stamp of its round.
Mark(w, k) == <<w, k>> \in {<<5, 1>>, <<12, 1>>, <<13, 1>>, <<13, 3>>, <<15, 1>>}

\* They are before the stamp.
LEMMA MarkBefore ==
  ASSUME NEW w, NEW k, Mark(w, k)
  PROVE  w \in 5..15 /\ k \in 1..3 /\ k < Len(Statements(w)) /\ w # 16
<1>1. \/ (w = 5 /\ k = 1) \/ (w = 12 /\ k = 1) \/ (w = 13 /\ k = 1) \/ (w = 13 /\ k = 3)
      \/ (w = 15 /\ k = 1)
  BY DEF Mark
<1>2. /\ Len(Statements(5)) = 2 /\ Len(Statements(12)) = 2
      /\ Len(Statements(13)) = 4 /\ Len(Statements(15)) = 2
  BY Lengths
<1>3. w \in 5..15 /\ k \in 1..3 /\ w # 16
  BY <1>1
<1>4. k < Len(Statements(w))
  <2>1. \A n : (n = 2 => 1 < n) /\ (n = 4 => 1 < n /\ 3 < n)
    OBVIOUS
  <2> QED
    BY <1>1, <1>2, <2>1, Zenon
<1> QED
  BY <1>3, <1>4

\* A place is passed by executing its statement, and stamped by none who has not passed it.
LEMMA PastStep ==
  ASSUME Placed, NEW p \in Openers, Exec(p), NEW w, NEW k, Mark(w, k)
  PROVE  /\ Past(p, w, k)' => Past(p, w, k) \/ On(p, w, k)
         /\ version' >= w => version >= w \/ Past(p, w, k)
<1>1. w \in 5..15 /\ k \in 1..3 /\ k < Len(Statements(w)) /\ w # 16
  BY MarkBefore
<1>2. Running(p)
  BY DEF Exec
<1>3. /\ round[p] \in 2..LastRound /\ step[p] \in 1..Len(Statements(round[p]))
      /\ Len(Statements(round[p])) \in Nat
  BY <1>2, AtStatement
<1>4. LastRound = 21
  BY Lengths
<1>5. round[p] \in 1..LastRound
  BY <1>3, <1>4
<1>6. /\ RoundAfter(p, round[p]) # LastRound => RoundAfter(p, round[p]) = round[p] + 1
  BY <1>5, RoundAfterFacts
<1>7. CASE /\ round[p] # LastRound /\ step[p] = Len(Statements(round[p])) /\ version' = round[p]
           /\ round'[p] = RoundAfter(p, round[p]) /\ step'[p] = 1
  <2>1. round[p] = w => step[p] > k
    BY <1>1, <1>3, <1>7
  <2>2. round[p] >= w => Past(p, w, k)
    BY <1>1, <1>3, <1>7, <2>1 DEF Past
  <2>3. Past(p, w, k)' => round[p] >= w
    <3>1. Past(p, w, k)' => round'[p] # LastRound /\ (round'[p] > w \/ (round'[p] = w /\ 1 > k))
      BY <1>7 DEF Past
    <3>2. Past(p, w, k)' => round'[p] # LastRound /\ round'[p] > w
      BY <1>1, <3>1
    <3>3. round'[p] # LastRound => round'[p] = round[p] + 1
      BY <1>6, <1>7
    <3>4. \A n : n \in 5..15 /\ round[p] \in 2..21 /\ round[p] + 1 > n => round[p] >= n
      OBVIOUS
    <3> QED
      BY <1>1, <1>3, <1>4, <3>2, <3>3, <3>4, Zenon
  <2> QED
    BY <1>7, <2>2, <2>3
<1>8. CASE On(p, 16, 1) /\ version' = version
  BY <1>1, <1>4, <1>8 DEF Past, On
<1>9. CASE round'[p] = round[p] /\ step'[p] = step[p] + 1 /\ version' = version
  BY <1>1, <1>3, <1>9 DEF Past, On
<1> QED
  BY <1>7, <1>8, <1>9, ExecMoves

\* PlanMigrations starts after what the version covers.
LEMMA PastPlan ==
  ASSUME Placed, NEW p \in Openers, PlanMigrations(p), NEW w, NEW k, Mark(w, k)
  PROVE  /\ Past(p, w, k)' => version >= w
         /\ round[p] = LastRound
         /\ UNCHANGED <<db, half, shared, crashes>>
         /\ \A q \in Openers \ {p} : round'[q] = round[q] /\ step'[q] = step[q]
<1>1. w \in 5..15 /\ k \in 1..3
  BY MarkBefore
<1>2. /\ round' = [round EXCEPT ![p] = RoundAfter(p, version)] /\ step' = [step EXCEPT ![p] = 1]
      /\ pc[p] = "plan" /\ UNCHANGED <<db, half, shared, crashes>>
  BY DEF PlanMigrations
<1>3. /\ round \in [Openers -> 2..LastRound] /\ step \in [Openers -> Nat \ {0}] /\ PlacedAt(p)
      /\ version \in 1..LATEST_VERSION
  BY DEF Placed
<1>4. LATEST_VERSION = 20 /\ LastRound = 21
  BY DEF LATEST_VERSION, LastRound
<1>5. version \in 1..LastRound
  BY <1>3, <1>4
<1>6. round'[p] # LastRound => round'[p] = version + 1
  BY <1>2, <1>3, <1>5, RoundAfterFacts
<1>7. step'[p] = 1 /\ \A q \in Openers \ {p} : round'[q] = round[q] /\ step'[q] = step[q]
  BY <1>2, <1>3
<1>8. round[p] = LastRound
  BY <1>2, <1>3 DEF PlacedAt
<1>9. Past(p, w, k)' => version >= w
  BY <1>1, <1>3, <1>6, <1>7 DEF Past
<1> QED
  BY <1>2, <1>7, <1>8, <1>9

\* Who is past a mark after another action than Exec was past it before.
LEMMA PastOther ==
  ASSUME Placed, NEW p \in Openers, Outside(p) \/ PlanMigrations(p) \/ Probe(p),
         NEW w, NEW k, Mark(w, k),
         version' >= w \/ \E q \in Openers : Past(q, w, k)'
  PROVE  version >= w \/ \E q \in Openers : Past(q, w, k)
<1>1. ASSUME Outside(p)
      PROVE  version' = version /\ \A q \in Openers : Past(q, w, k)' => Past(q, w, k)
  <2>1. /\ version' = version /\ round'[p] = LastRound
        /\ \A q \in Openers \ {p} : round'[q] = round[q] /\ step'[q] = step[q]
    BY <1>1, QuietMoves
  <2> QED
    BY <2>1 DEF Past
<1>2. ASSUME PlanMigrations(p)
      PROVE  version' = version
          /\ \A q \in Openers : Past(q, w, k)' => Past(q, w, k) \/ version >= w
  <2>1. /\ UNCHANGED db
        /\ Past(p, w, k)' => version >= w
        /\ \A q \in Openers \ {p} : round'[q] = round[q] /\ step'[q] = step[q]
    BY <1>2, PastPlan
  <2> QED
    BY <2>1 DEF Past, db
<1>3. ASSUME Probe(p)
      PROVE  version' = version /\ \A q \in Openers : Past(q, w, k)' => Past(q, w, k)
  BY <1>3 DEF Probe, db, Past
<1> QED
  BY <1>1, <1>2, <1>3

\* Who is past a mark after a statement was past it before, or executed the mark's.
LEMMA PastExec ==
  ASSUME Placed, NEW p \in Openers, Exec(p), NEW w, NEW k, Mark(w, k),
         version' >= w \/ \E q \in Openers : Past(q, w, k)'
  PROVE  version >= w \/ (\E q \in Openers : Past(q, w, k)) \/ On(p, w, k)
<1>1. \A q \in Openers \ {p} : round'[q] = round[q] /\ step'[q] = step[q]
  BY ExecMoves
<1>2. /\ Past(p, w, k)' => Past(p, w, k) \/ On(p, w, k)
      /\ version' >= w => version >= w \/ Past(p, w, k)
  BY PastStep
<1>3. \A q \in Openers : Past(q, w, k)' => Past(q, w, k) \/ (q = p /\ On(q, w, k))
  BY <1>1, <1>2 DEF Past
<1> QED
  BY <1>2, <1>3

\* Old edges are gone from the statement of round 12 on.
LEMMA PurgedStep ==
  ASSUME Placed, Purged, [SchemaNext]_schemaVars
  PROVE  Purged'
<1>1. stale \in BOOLEAN
  BY DEF Placed
<1>2. version >= 12 \/ (\E q \in Openers : Past(q, 12, 1)) => stale = FALSE
  BY <1>1 DEF Purged
<1>3. SUFFICES (version' >= 12 \/ \E q \in Openers : Past(q, 12, 1)') => stale' = FALSE
  BY DEF Purged
<1>4. Mark(12, 1)
  BY DEF Mark
<1>5. CASE UNCHANGED schemaVars
  BY <1>2, <1>5 DEF schemaVars, db, place, Past
<1>6. ASSUME NEW p \in Openers, Outside(p) \/ PlanMigrations(p) \/ Probe(p)
      PROVE  (version' >= 12 \/ \E q \in Openers : Past(q, 12, 1)') => stale' = FALSE
  <2>1. stale' = stale
    BY <1>6, QuietMoves DEF PlanMigrations, Probe, db
  <2> QED
    BY <1>2, <1>4, <1>6, <2>1, PastOther
<1>7. ASSUME NEW p \in Openers, Exec(p)
      PROVE  (version' >= 12 \/ \E q \in Openers : Past(q, 12, 1)') => stale' = FALSE
  <2>1. Running(p) /\ stale' = (stale /\ Op(p) # "purge")
    BY <1>7 DEF Exec
  <2>2. On(p, 12, 1) => Op(p) = "purge"
    BY <2>1, OpFacts
  <2>3. (version' >= 12 \/ \E q \in Openers : Past(q, 12, 1)') => stale = FALSE \/ On(p, 12, 1)
    BY <1>2, <1>4, <1>7, PastExec
  <2> QED
    BY <2>1, <2>2, <2>3
<1> QED
  BY <1>5, <1>6, <1>7 DEF SchemaNext, Outside

-----------------------------------------------------------------------------
(* Who repairs the rows *)

\* The processes that are to repair the rows are inside the loop, at a statement.
LEMMA WillRun ==
  ASSUME Placed, NEW p \in Openers,
         WillCreate(p) \/ WillFill(p) \/ WillDrop(p) \/ WillCheck(p) \/ WillRebuild(p)
  PROVE  /\ round[p] # LastRound /\ Running(p) /\ pc[p] = "run"
         /\ round[p] \in 2..20 /\ step[p] \in 1..Len(Statements(round[p]))
         /\ Len(Statements(round[p])) \in Nat
<1>1. LastRound = 21
  BY Lengths
<1>2. round[p] # LastRound
  BY <1>1 DEF WillCreate, WillFill, WillDrop, WillCheck, WillRebuild, On, Past
<1>3. pc[p] = "run" /\ Running(p)
  BY <1>2 DEF Placed, PlacedAt, Running
<1>4. /\ round[p] \in 2..LastRound /\ step[p] \in 1..Len(Statements(round[p]))
      /\ Len(Statements(round[p])) \in Nat
  BY <1>3, AtStatement
<1>5. round[p] \in 2..20
  BY <1>1, <1>2, <1>4
<1> QED
  BY <1>2, <1>3, <1>4, <1>5

\* The FTS check is still to come at three places.
LEMMA CheckPlaces ==
  ASSUME Placed, NEW p \in Openers, WillCheck(p)
  PROVE  On(p, 13, 4) \/ On(p, 14, 1) \/ On(p, 15, 1)
<1>1. /\ round[p] # LastRound
      /\ round[p] \in 2..20 /\ step[p] \in 1..Len(Statements(round[p]))
      /\ Len(Statements(round[p])) \in Nat
  BY WillRun
<1>2. step[p] \in Nat /\ step[p] >= 1 /\ step[p] <= Len(Statements(round[p]))
  BY <1>1
<1>3. round[p] = 13 \/ round[p] = 14 \/ round[p] = 15
  BY <1>1 DEF WillCheck, Past
<1>4. Len(Statements(13)) = 4 /\ Len(Statements(14)) = 1
  BY Lengths
<1>5. CASE round[p] = 13
  <2>1. step[p] > 3
    BY <1>1, <1>2, <1>5 DEF WillCheck, Past
  <2>2. step[p] <= 4
    BY <1>2, <1>4, <1>5
  <2> QED
    BY <1>2, <1>5, <2>1, <2>2 DEF On
<1>6. CASE round[p] = 14
  <2>1. step[p] <= 1
    BY <1>2, <1>4, <1>6
  <2> QED
    BY <1>2, <1>6, <2>1 DEF On
<1>7. CASE round[p] = 15
  BY <1>1, <1>2, <1>7 DEF WillCheck, Past, On
<1> QED
  BY <1>3, <1>5, <1>6, <1>7

\* Before the drop of round 13 a process is in rounds 5 to 13.
LEMMA DropPlaces ==
  ASSUME Placed, NEW p \in Openers, WillDrop(p)
  PROVE  ~half[p] /\ (On(p, 13, 1) \/ round[p] \in 5..12) /\ ~On(p, 5, 1)
<1>1. /\ round[p] # LastRound
      /\ round[p] \in 2..20 /\ step[p] \in 1..Len(Statements(round[p]))
      /\ Len(Statements(round[p])) \in Nat
  BY WillRun
<1>2. step[p] \in Nat /\ step[p] >= 1
  BY <1>1
<1>3. ~half[p] /\ Past(p, 5, 1) /\ ~Past(p, 13, 1)
  BY DEF WillDrop
<1>4. (On(p, 13, 1) \/ round[p] \in 5..12) /\ ~On(p, 5, 1)
  <2>1. Past(p, 5, 1) /\ ~Past(p, 13, 1)
    BY <1>3
  <2> QED
    BY <1>1, <1>2, <2>1 DEF Past, On
<1> QED
  BY <1>3, <1>4

\* None of them fails at what it is to do.
LEMMA WillSucceed ==
  ASSUME Placed, Stored, NEW p \in Openers,
         \/ WillCreate(p) /\ "nodes_fts" \notin objects
         \/ WillFill(p) /\ "nodes_fts" \in objects /\ fts = "empty"
         \/ WillDrop(p) \/ WillCheck(p) \/ WillRebuild(p)
  PROVE  Succeeds(Op(p), Statement(p))
<1>1. Running(p) /\ pc[p] = "run" /\ round[p] # LastRound /\ round[p] \in 2..20
  BY WillRun
<1>2. CASE WillCreate(p) /\ "nodes_fts" \notin objects
  <2>1. Op(p) = "fts_create"
    BY <1>1, <1>2, OpFacts
  <2> QED
    BY <1>2, <2>1 DEF Succeeds
<1>3. CASE WillFill(p) /\ "nodes_fts" \in objects /\ fts = "empty"
  <2>1. Op(p) = "fts_fill"
    BY <1>1, <1>3, OpFacts
  <2> QED
    BY <1>3, <2>1 DEF Succeeds
<1>4. CASE WillRebuild(p)
  <2>1. Op(p) = "fts_rebuild"
    BY <1>1, <1>4, OpFacts
  <2> QED
    BY <2>1 DEF Succeeds
<1>5. CASE WillCheck(p)
  <2>1. On(p, 13, 4) \/ On(p, 14, 1) \/ On(p, 15, 1)
    BY <1>5, CheckPlaces
  <2>2. ~WillCreate(p) /\ ~WillFill(p) /\ round[p] \in 13..15
    BY <2>1 DEF WillCreate, WillFill, On
  <2>3. Statement(p).op # "create" /\ Statement(p).op # "column"
    <3>1. ShapeOfMake(round[p], Statement(p))
      BY <1>1, AtStatement
    <3>2. LastRound = 21
      BY Lengths
    <3> QED
      BY <2>2, <3>1, <3>2 DEF ShapeOfMake
  <2>4. Op(p) \notin {"create", "alter", "fts_create", "fts_fill"}
    BY <1>1, <2>2, <2>3, OpFacts
  <2> QED
    BY <2>4 DEF Succeeds
<1>6. CASE WillDrop(p)
  <2>1. ~half[p] /\ (On(p, 13, 1) \/ round[p] \in 5..12) /\ ~On(p, 5, 1)
    BY <1>6, DropPlaces
  <2>2. ~WillCreate(p) /\ ~WillFill(p) /\ round[p] # 3
    BY <2>1 DEF WillCreate, WillFill, On
  <2>3. Op(p) \notin {"alter", "fts_create", "fts_fill"}
    BY <1>1, <2>1, <2>2, OpFacts
  <2>4. Statement(p).op = "create" => Statement(p).on \subseteq objects
    <3>1. /\ round[p] \in 2..LastRound /\ step[p] \in 1..Len(Statements(round[p]))
          /\ Statement(p) = Statements(round[p])[step[p]]
      BY <1>1, AtStatement
    <3>2. Statement(p).op = "create" =>
             Statement(p).on \subseteq Base \cup (Lasting \cap Given(round[p], step[p] - 1))
      BY <2>2, <3>1, CreateReady
    <3>3. Base \subseteq objects /\ Lasting \cap Given(round[p], step[p] - 1) \subseteq objects
      BY <1>1 DEF Stored, StoredAt
    <3> QED
      BY <3>2, <3>3
  <2>5. (Op(p) = "create") <=> (Statement(p).op = "create")
    BY <1>1, OpFacts
  <2> QED
    BY <2>3, <2>4, <2>5 DEF Succeeds
<1> QED
  BY <1>2, <1>3, <1>4, <1>5, <1>6

\* Once the table was filled by someone, a process before the drop finds every column.
LEMMA NoneMissing ==
  ASSUME Placed, Stored, Filled, NEW p \in Openers, WillDrop(p)
  PROVE  ~Probe(p)
<1>1. Running(p) /\ round[p] # LastRound /\ round[p] \in 2..20
  BY WillRun
<1>2. (On(p, 13, 1) \/ round[p] \in 5..12) /\ ~On(p, 5, 1)
  BY DropPlaces
<1>3. /\ round[p] \in 2..LastRound /\ step[p] \in 1..Len(Statements(round[p]))
      /\ Len(Statements(round[p])) \in Nat
      /\ Statement(p) = Statements(round[p])[step[p]]
      /\ ShapeOfMake(round[p], Statement(p)) /\ ShapeOfColumn(round[p], step[p], Statement(p))
  BY <1>1, AtStatement
<1>a. LATEST_VERSION = 20 /\ LastRound = 21
  BY DEF LATEST_VERSION, LastRound
<1>4. Lasting \cap Before(13) \subseteq objects
  <2>1. CASE version >= 13
    <3>1. version + 1 \in Nat /\ 13 <= version + 1
      BY <1>a, <2>1 DEF Placed
    <3>2. Before(13) \subseteq Before(version + 1)
      BY <3>1, BeforeGrows
    <3> QED
      BY <3>2 DEF Stored
  <2>2. CASE \E q \in Openers : Past(q, 13, 3)
    <3>1. PICK q \in Openers : Past(q, 13, 3)
      BY <2>2
    <3>2. round[q] \in Nat /\ round[q] # LastRound /\ 13 <= round[q]
      BY <1>a, <3>1 DEF Placed, Past
    <3>3. Before(13) \subseteq Before(round[q])
      BY <3>2, BeforeGrows
    <3> QED
      BY <3>2, <3>3 DEF Stored, StoredAt
  <2> QED
    BY <2>1, <2>2 DEF Filled
<1>5. Statement(p).op = "column" => Statement(p).objs \subseteq objects
  <2>1. SUFFICES ASSUME Statement(p).op = "column" PROVE Statement(p).objs \subseteq objects
    OBVIOUS
  <2>2. round[p] \in 2..12
    <3>1. round[p] # 13
      BY <1>3, <1>a, <2>1 DEF ShapeOfMake
    <3> QED
      BY <1>2, <3>1 DEF On
  <2>3. Statement(p).objs \subseteq Lasting
    BY <1>3, <2>1, <2>2 DEF ShapeOfColumn
  <2>4. Gives(Statement(p)) = Statement(p).objs
    BY <2>1 DEF Gives
  <2>5. Gives(Statement(p)) \subseteq Given(round[p], Len(Statements(round[p])))
    BY <1>3, GivenIn
  <2>6. Given(round[p], Len(Statements(round[p]))) \subseteq Before(13)
    <3>1. round[p] \in 2..(13 - 1)
      BY <2>2
    <3> QED
      BY <3>1, GivenBefore
  <2> QED
    BY <1>4, <2>3, <2>4, <2>5, <2>6
<1>6. Statement(p).op # "fts_table" /\ Statement(p).op # "fts_check"
  <2>1. ~On(p, 15, 1)
    BY <1>2 DEF On
  <2> QED
    BY <1>1, <1>2, <2>1, OpFacts
<1> QED
  BY <1>5, <1>6 DEF Probe, Missing

\* A process is where it was.
LEMMA WillSame ==
  ASSUME NEW q, round'[q] = round[q], step'[q] = step[q], half'[q] = half[q]
  PROVE  /\ WillCreate(q) => WillCreate(q)'
         /\ WillFill(q) => WillFill(q)'
         /\ WillDrop(q) => WillDrop(q)'
         /\ WillCheck(q) => WillCheck(q)'
         /\ WillRebuild(q) => WillRebuild(q)'
<1>1. /\ \A w, k : On(q, w, k)' <=> On(q, w, k)
      /\ \A w, k : Past(q, w, k)' <=> Past(q, w, k)
  BY DEF On, Past
<1> QED
  BY <1>1, Zenon DEF WillCreate, WillFill, WillDrop, WillCheck, WillRebuild

\* What Watched says of a state whose rows did not change in a step, and in which
\* nothing new is promised.
Promises ==
  /\ ("nodes_fts" \in objects') <=> ("nodes_fts" \in objects)
  /\ fts' = fts
  /\ Filled' => Filled
  /\ Checked' => Checked

\* Then the processes that repair the rows have only to stay.
LEMMA WatchedStays ==
  ASSUME Watched, Promises,
         \A q \in Openers :
            /\ Filled /\ "nodes_fts" \notin objects /\ (WillCreate(q) \/ WillRebuild(q)) =>
                  (WillCreate(q) \/ WillRebuild(q))'
            /\ Filled /\ "nodes_fts" \in objects /\ fts = "empty"
                 /\ (WillFill(q) \/ WillDrop(q) \/ WillRebuild(q)) =>
                  (WillFill(q) \/ WillDrop(q) \/ WillRebuild(q))'
            /\ Checked /\ "nodes_fts" \in objects /\ fts = "blank"
                /\ WillCheck(q) => WillCheck(q)'
  PROVE  Watched'
<1>1. Filled' /\ "nodes_fts" \notin objects' =>
        \E q \in Openers : (WillCreate(q) \/ WillRebuild(q))'
  BY DEF Watched, Promises
<1>2. Filled' /\ "nodes_fts" \in objects' /\ fts' = "empty" =>
        \E q \in Openers : (WillFill(q) \/ WillDrop(q) \/ WillRebuild(q))'
  BY DEF Watched, Promises
<1>3. Checked' /\ "nodes_fts" \in objects' /\ fts' = "blank" => \E q \in Openers : WillCheck(q)'
  BY DEF Watched, Promises
<1> QED
  BY <1>1, <1>2, <1>3 DEF Watched

\* Another action than Exec.
LEMMA WatchedOther ==
  ASSUME Placed, Stored, Watched, NEW p \in Openers,
         Outside(p) \/ PlanMigrations(p) \/ Probe(p), crashes' = 0
  PROVE  Watched'
<1>1. Promises
  <2>1. Mark(13, 3) /\ Mark(15, 1)
    BY DEF Mark
  <2>2. Filled' => Filled
    BY <2>1, PastOther DEF Filled
  <2>3. Checked' => Checked
    BY <2>1, PastOther DEF Checked
  <2>4. (("nodes_fts" \in objects') <=> ("nodes_fts" \in objects)) /\ fts' = fts
    BY QuietMoves DEF PlanMigrations, Probe, db
  <2> QED
    BY <2>2, <2>3, <2>4 DEF Promises
<1>2. CASE Outside(p)
  <2>1. /\ \A q \in Openers \ {p} : /\ pc'[q] = pc[q] /\ round'[q] = round[q]
                                    /\ step'[q] = step[q] /\ half'[q] = half[q]
        /\ ~Crash(p)
    BY <1>2, QuietMoves
  <2>2. ASSUME WillCreate(p) \/ WillFill(p) \/ WillDrop(p) \/ WillCheck(p) \/ WillRebuild(p)
        PROVE  Fail(p)
    <3>1. Running(p) /\ pc[p] = "run"
      BY <2>2, WillRun
    <3> QED
      BY <1>2, <2>1, <3>1 DEF Outside, Open, CheckVersion, InitSchema, Opened, Close,
                              begin_bulk_load, finish_bulk_load
  <2>3. ~Fail(p) \/ ~Succeeds(Op(p), Statement(p))
    BY DEF Fail
  <2>4. /\ ~(WillCreate(p) /\ "nodes_fts" \notin objects)
        /\ ~(WillFill(p) /\ "nodes_fts" \in objects /\ fts = "empty")
        /\ ~WillDrop(p) /\ ~WillCheck(p) /\ ~WillRebuild(p)
    BY <2>2, <2>3, WillSucceed
  <2>5. \A q \in Openers \ {p} : /\ WillCreate(q) => WillCreate(q)'
                                 /\ WillFill(q) => WillFill(q)'
                                 /\ WillDrop(q) => WillDrop(q)'
                                 /\ WillCheck(q) => WillCheck(q)'
                                 /\ WillRebuild(q) => WillRebuild(q)'
    BY <2>1, WillSame
  <2> QED
    BY <1>1, <2>4, <2>5, WatchedStays
<1>3. CASE PlanMigrations(p)
  <2>1. /\ round[p] = LastRound /\ half' = half
        /\ \A q \in Openers \ {p} : round'[q] = round[q] /\ step'[q] = step[q]
    <3>1. Mark(13, 3)
      BY DEF Mark
    <3> QED
      BY <1>3, <3>1, PastPlan
  <2>2. ~WillCreate(p) /\ ~WillFill(p) /\ ~WillDrop(p) /\ ~WillCheck(p) /\ ~WillRebuild(p)
    BY <2>1, WillRun
  <2>3. \A q \in Openers \ {p} : /\ WillCreate(q) => WillCreate(q)'
                                 /\ WillFill(q) => WillFill(q)'
                                 /\ WillDrop(q) => WillDrop(q)'
                                 /\ WillCheck(q) => WillCheck(q)'
                                 /\ WillRebuild(q) => WillRebuild(q)'
    BY <2>1, WillSame
  <2> QED
    BY <1>1, <2>2, <2>3, WatchedStays
<1>4. CASE Probe(p)
  <2>1. /\ ~half[p] /\ round' = round /\ step' = step
        /\ \A q \in Openers \ {p} : half'[q] = half[q]
    BY <1>4 DEF Probe, Placed
  <2>2. /\ \A w, k : On(p, w, k)' <=> On(p, w, k)
        /\ \A w, k : Past(p, w, k)' <=> Past(p, w, k)
    BY <2>1 DEF On, Past
  <2>3. ~WillRebuild(p) /\ (WillCreate(p) => WillCreate(p)') /\ (WillFill(p) => WillFill(p)')
            /\ (WillCheck(p) => WillCheck(p)')
    BY <2>1, <2>2, Zenon DEF WillCreate, WillFill, WillCheck, WillRebuild
  <2>4. Filled => ~WillDrop(p)
    BY <1>4, NoneMissing
  <2>5. \A q \in Openers \ {p} : /\ WillCreate(q) => WillCreate(q)'
                                 /\ WillFill(q) => WillFill(q)'
                                 /\ WillDrop(q) => WillDrop(q)'
                                 /\ WillCheck(q) => WillCheck(q)'
                                 /\ WillRebuild(q) => WillRebuild(q)'
    BY <2>1, WillSame
  <2> QED
    BY <1>1, <2>3, <2>4, <2>5, WatchedStays
<1> QED
  BY <1>2, <1>3, <1>4

\* Every binary knows the FTS check of v15.
AllCheck == \A p \in Openers : Latest[p] >= 15

\* Where the statements of the FTS table lead.
LEMMA ExecWill ==
  ASSUME Placed, NEW p \in Openers, Exec(p), Latest[p] >= 15
  PROVE  /\ On(p, 13, 1) => WillCreate(p)'
         /\ On(p, 13, 2) => WillFill(p)'
         /\ On(p, 13, 3) => WillCheck(p)'
         /\ On(p, 5, 1) => WillDrop(p)'
         /\ WillDrop(p) /\ ~On(p, 13, 1) => WillDrop(p)'
         /\ WillCheck(p) /\ ~On(p, 15, 1) => WillCheck(p)'
<1>a. LastRound = 21 /\ Len(Statements(13)) = 4 /\ Len(Statements(5)) = 2
  BY Lengths
<1>1. /\ half'[p] = FALSE
      /\ \/ /\ step[p] = Len(Statements(round[p]))
            /\ round'[p] = RoundAfter(p, round[p]) /\ step'[p] = 1
         \/ On(p, 16, 1)
         \/ /\ (step[p] < Len(Statements(round[p])) \/ round[p] = LastRound)
            /\ round'[p] = round[p] /\ step'[p] = step[p] + 1
  BY ExecMoves
<1>2. /\ round[p] \in 2..LastRound /\ step[p] \in 1..Len(Statements(round[p]))
      /\ Len(Statements(round[p])) \in Nat
  BY AtStatement DEF Exec
<1>3. round[p] <= 14 => RoundAfter(p, round[p]) = round[p] + 1
  <2>1. Latest[p] \in 1..LATEST_VERSION /\ LATEST_VERSION = 20
    BY SchemaAssumption DEF LATEST_VERSION
  <2>2. round[p] \in 2..21
    BY <1>a, <1>2
  <2>3. Latest[p] \in Nat /\ Latest[p] >= 15
    BY <2>1
  <2> QED
    BY <2>2, <2>3 DEF RoundAfter
<1>4. ASSUME NEW k \in 1..3, On(p, 13, k)
      PROVE  round'[p] = 13 /\ step'[p] = k + 1
  <2>1. round[p] = 13 /\ step[p] = k /\ Len(Statements(round[p])) = 4
    BY <1>a, <1>4 DEF On
  <2>2. step[p] # Len(Statements(round[p])) /\ ~On(p, 16, 1)
    BY <2>1 DEF On
  <2> QED
    BY <1>1, <2>1, <2>2
<1>5. On(p, 5, 1) => round'[p] = 5 /\ step'[p] = 2
  <2>1. SUFFICES ASSUME On(p, 5, 1) PROVE round'[p] = 5 /\ step'[p] = 2
    OBVIOUS
  <2>2. round[p] = 5 /\ step[p] = 1 /\ Len(Statements(round[p])) = 2
    BY <1>a, <2>1 DEF On
  <2>3. step[p] # Len(Statements(round[p])) /\ ~On(p, 16, 1)
    BY <2>2 DEF On
  <2> QED
    BY <1>1, <2>2, <2>3
<1>6. On(p, 13, 1) => WillCreate(p)'
  BY <1>4 DEF WillCreate, On
<1>7. On(p, 13, 2) => WillFill(p)'
  BY <1>4 DEF WillFill, On
<1>8. On(p, 13, 3) => WillCheck(p)'
  BY <1>a, <1>4 DEF WillCheck, Past
<1>9. ASSUME round'[p] \in 5..13, round'[p] = 5 => step'[p] > 1, ~(round'[p] = 13 /\ step'[p] > 1)
      PROVE  WillDrop(p)'
  <2>1. Past(p, 5, 1)' /\ ~Past(p, 13, 1)'
    BY <1>a, <1>9 DEF Past
  <2> QED
    BY <1>1, <2>1 DEF WillDrop
<1>10. On(p, 5, 1) => WillDrop(p)'
  BY <1>5, <1>9
<1>11. ASSUME WillDrop(p), ~On(p, 13, 1) PROVE WillDrop(p)'
  <2>1. round[p] \in 5..12 /\ ~On(p, 5, 1)
    BY <1>11, DropPlaces
  <2>2. ~On(p, 16, 1) /\ round[p] # LastRound
    BY <1>a, <2>1 DEF On
  <2>3. round[p] = 5 => step[p] > 1
    BY <1>2, <2>1 DEF On
  <2>4. CASE round'[p] = RoundAfter(p, round[p]) /\ step'[p] = 1
    <3>1. round'[p] = round[p] + 1
      BY <1>3, <2>1, <2>4
    <3> QED
      BY <1>9, <2>1, <2>4, <3>1
  <2>5. CASE round'[p] = round[p] /\ step'[p] = step[p] + 1
    <3>1. round'[p] = 5 => step'[p] > 1
      BY <1>2, <2>3, <2>5
    <3> QED
      BY <1>9, <2>1, <2>5, <3>1
  <2> QED
    BY <1>1, <2>2, <2>4, <2>5
<1>12. ASSUME WillCheck(p), ~On(p, 15, 1) PROVE WillCheck(p)'
  <2>1. On(p, 13, 4) \/ On(p, 14, 1)
    BY <1>12, CheckPlaces
  <2>2. Len(Statements(14)) = 1
    BY Lengths
  <2>3. step[p] = Len(Statements(round[p])) /\ (round[p] = 13 \/ round[p] = 14) /\ ~On(p, 16, 1)
    <3>1. (round[p] = 13 /\ step[p] = 4) \/ (round[p] = 14 /\ step[p] = 1)
      BY <2>1 DEF On
    <3>2. step[p] = Len(Statements(round[p]))
      BY <1>a, <2>2, <3>1, Zenon
    <3>3. ~On(p, 16, 1)
      BY <3>1 DEF On
    <3> QED
      BY <3>1, <3>2, <3>3
  <2>4. round'[p] = RoundAfter(p, round[p]) /\ step'[p] = 1
    <3>1. ~(step[p] < Len(Statements(round[p]))) /\ round[p] # LastRound
      BY <1>a, <1>2, <2>3
    <3> QED
      BY <1>1, <2>3, <3>1
  <2>5. (round'[p] = 14 \/ round'[p] = 15) /\ step'[p] = 1
    BY <1>3, <2>3, <2>4
  <2> QED
    BY <1>a, <2>5 DEF WillCheck, Past
<1> QED
  BY <1>6, <1>7, <1>8, <1>10, <1>11, <1>12

\* A statement.
LEMMA WatchedExec ==
  ASSUME Placed, Stored, Watched, NEW p \in Openers, Exec(p), Latest[p] >= 15
  PROVE  Watched'
<1>1. Mark(13, 3) /\ Mark(15, 1)
  BY DEF Mark
<1>2. Filled' => Filled \/ WillFill(p)
  BY <1>1, PastExec DEF Filled, WillFill
<1>3. Checked' => Checked \/ On(p, 15, 1)
  BY <1>1, PastExec DEF Checked
<1>4. CASE On(p, 13, 1)
  <2>1. "nodes_fts" \notin objects' /\ WillCreate(p)'
    BY <1>4, ExecFts, ExecWill
  <2> QED
    BY <2>1 DEF Watched
<1>5. CASE WillCreate(p)
  <2>1. "nodes_fts" \in objects' /\ fts' = "empty" /\ (WillFill(p)' \/ WillDrop(p)')
    BY <1>5, ExecFts, ExecWill DEF WillCreate
  <2> QED
    BY <2>1 DEF Watched
<1>6. CASE WillFill(p)
  <2>1. "nodes_fts" \in objects' /\ fts' = "blank" /\ WillCheck(p)'
    BY <1>6, ExecFts, ExecWill DEF WillFill
  <2> QED
    BY <2>1 DEF Watched
<1>7. ASSUME "nodes_fts" \in objects', fts' = "built" PROVE Watched'
  BY <1>7 DEF Watched
<1>8. CASE WillRebuild(p)
  BY <1>7, <1>8, ExecFts
<1>9. CASE ~On(p, 13, 1) /\ ~WillCreate(p) /\ ~WillFill(p) /\ ~WillRebuild(p)
  <2>1. (("nodes_fts" \in objects') <=> ("nodes_fts" \in objects)) /\ fts' = fts
    BY <1>9, ExecFts
  <2>2. CASE On(p, 15, 1)
    <3>1. ~half[p] /\ Running(p)
      BY <1>9, <2>2 DEF WillRebuild, Exec
    <3>2. Statement(p).op = "fts_check" /\ ~Missing(Statement(p))
      BY <2>2, <3>1, OpFacts DEF Exec
    <3>3. "nodes_fts" \in objects /\ fts = "built"
      BY <3>2 DEF Missing
    <3> QED
      BY <1>7, <2>1, <3>3
  <2>3. CASE ~On(p, 15, 1)
    <3>1. Promises
      BY <1>2, <1>3, <1>9, <2>1, <2>3 DEF Promises
    <3>2. \A q \in Openers \ {p} : round'[q] = round[q] /\ step'[q] = step[q]
          /\ half'[q] = half[q]
      BY ExecMoves
    <3>3. \A q \in Openers \ {p} : /\ WillCreate(q) => WillCreate(q)'
                                   /\ WillFill(q) => WillFill(q)'
                                   /\ WillDrop(q) => WillDrop(q)'
                                   /\ WillCheck(q) => WillCheck(q)'
                                   /\ WillRebuild(q) => WillRebuild(q)'
      BY <3>2, WillSame
    <3>4. (WillDrop(p) => WillDrop(p)') /\ (WillCheck(p) => WillCheck(p)')
      BY <1>9, <2>3, ExecWill
    <3> QED
      BY <1>9, <3>1, <3>3, <3>4, WatchedStays
  <2> QED
    BY <2>2, <2>3
<1> QED
  BY <1>4, <1>5, <1>6, <1>8, <1>9

\* While nobody dies, whoever drops or empties the FTS table is there to fill it again.
LEMMA WatchedStep ==
  ASSUME Placed, Stored, AllCheck, crashes = 0 => Watched, [SchemaNext]_schemaVars
  PROVE  crashes' = 0 => Watched'
<1>1. CASE UNCHANGED schemaVars
  <2>1. /\ objects' = objects /\ fts' = fts /\ version' = version /\ crashes' = crashes
        /\ round' = round /\ step' = step /\ half' = half
    BY <1>1 DEF schemaVars, db, place
  <2>2. \A q \in Openers : /\ WillCreate(q) => WillCreate(q)'
                           /\ WillFill(q) => WillFill(q)'
                           /\ WillDrop(q) => WillDrop(q)'
                           /\ WillCheck(q) => WillCheck(q)'
                           /\ WillRebuild(q) => WillRebuild(q)'
    BY <2>1, WillSame
  <2>3. Promises
    BY <2>1 DEF Promises, Filled, Checked, Past
  <2> QED
    BY <2>1, <2>2, <2>3, WatchedStays
<1>2. ASSUME NEW p \in Openers, Outside(p) \/ PlanMigrations(p) \/ Probe(p), crashes' = 0
      PROVE  Watched'
  <2>1. crashes = 0
    BY <1>2, QuietMoves DEF PlanMigrations, Probe
  <2> QED
    BY <1>2, <2>1, WatchedOther
<1>3. ASSUME NEW p \in Openers, Exec(p), crashes' = 0
      PROVE  Watched'
  <2>1. crashes = 0 /\ Latest[p] >= 15
    BY <1>3 DEF Exec, AllCheck
  <2> QED
    BY <1>3, <2>1, WatchedExec
<1> QED
  BY <1>1, <1>2, <1>3 DEF SchemaNext, Outside

-----------------------------------------------------------------------------
(* Opens that do not overlap *)

\* Nobody else is under way, and the version is that of the round before.
LEMMA SoloRun ==
  ASSUME Placed, Solo, ~shared, NEW p \in Openers, Under(p)
  PROVE  /\ \A q \in Openers \ {p} :
              /\ ~Under(q) /\ pc[q] \in {"closed", "refused"}
              /\ round[q] = LastRound /\ step[q] = 1 /\ half[q] = FALSE
         /\ round[p] # LastRound => version = round[p] - 1
<1>1. ASSUME NEW q \in Openers \ {p}
      PROVE  /\ ~Under(q) /\ pc[q] \in {"closed", "refused"}
             /\ round[q] = LastRound /\ step[q] = 1 /\ half[q] = FALSE
  <2>1. ~Under(q)
    BY DEF Solo
  <2>2. pc[q] # "failed" /\ pc[q] \in Stages
    BY DEF Solo, SoloAt, InOrder, Placed
  <2>3. pc[q] \in {"closed", "refused"}
    BY <2>1, <2>2 DEF Under, Stages
  <2>4. half[q] \in BOOLEAN /\ PlacedAt(q)
    BY DEF Placed
  <2> QED
    BY <2>1, <2>3, <2>4 DEF PlacedAt
<1> QED
  BY <1>1 DEF Solo, SoloAt, InOrder

\* Then the rows are as the version says at every step.
LEMMA SureStep ==
  ASSUME Placed, Solo, ~shared, Sure, [SchemaNext]_schemaVars
  PROVE  Sure'
<1>1. Mark(13, 3) /\ Mark(15, 1)
  BY DEF Mark
<1>2. CASE UNCHANGED schemaVars
  BY <1>2 DEF schemaVars, db, place, Sure, Filled, Checked, Past
<1>3. ASSUME NEW p \in Openers, Outside(p) \/ PlanMigrations(p) \/ Probe(p) PROVE Sure'
  <2>1. (Filled' => Filled) /\ (Checked' => Checked)
    BY <1>1, <1>3, PastOther DEF Filled, Checked
  <2>2. (("nodes_fts" \in objects') <=> ("nodes_fts" \in objects)) /\ fts' = fts
    BY <1>3, QuietMoves DEF PlanMigrations, Probe, db
  <2> QED
    BY <2>1, <2>2 DEF Sure
<1>4. ASSUME NEW p \in Openers, Exec(p) PROVE Sure'
  <2>1. Running(p) /\ Under(p)
    BY <1>4 DEF Exec, Running, Under
  <2>2. Filled' => Filled \/ WillFill(p)
    BY <1>1, <1>4, PastExec DEF Filled, WillFill
  <2>3. Checked' => Checked \/ On(p, 15, 1)
    BY <1>1, <1>4, PastExec DEF Checked
  <2>4. ASSUME round[p] = 5 \/ (round[p] = 13 /\ step[p] \in {1, 2, 3})
        PROVE  ~Filled /\ ~Checked
    <3>1. LastRound = 21
      BY Lengths
    <3>2. \A q \in Openers \ {p} : round[q] = LastRound
      BY <2>1, SoloRun
    <3>3. version = round[p] - 1
      <4>1. round[p] # LastRound
        BY <2>4, <3>1
      <4> QED
        BY <2>1, <4>1, SoloRun
    <3>4. ~(version >= 13) /\ ~(version >= 15)
      BY <2>4, <3>3
    <3>5. ~Past(p, 13, 3) /\ ~Past(p, 15, 1)
      BY <2>4 DEF Past
    <3>6. \A q \in Openers : ~Past(q, 13, 3) /\ ~Past(q, 15, 1)
      BY <3>2, <3>5 DEF Past
    <3> QED
      BY <3>4, <3>6 DEF Filled, Checked
  <2>5. CASE On(p, 13, 1) \/ WillCreate(p)
    <3>1. (round[p] = 5 \/ (round[p] = 13 /\ step[p] \in {1, 2, 3})) /\ ~On(p, 15, 1)
          /\ ~WillFill(p)
      BY <2>5 DEF WillCreate, WillFill, On
    <3> QED
      BY <2>2, <2>3, <2>4, <3>1 DEF Sure
  <2>6. CASE WillFill(p)
    <3>1. round[p] = 13 /\ step[p] = 3 /\ ~On(p, 15, 1)
      BY <2>6 DEF WillFill, On
    <3>2. "nodes_fts" \in objects' /\ fts' = "blank"
      BY <1>4, <2>6, ExecFts
    <3> QED
      BY <2>3, <2>4, <3>1, <3>2 DEF Sure
  <2>7. CASE WillRebuild(p)
    <3>1. "nodes_fts" \in objects' /\ fts' = "built"
      BY <1>4, <2>7, ExecFts
    <3> QED
      BY <3>1 DEF Sure
  <2>8. CASE ~On(p, 13, 1) /\ ~WillCreate(p) /\ ~WillFill(p) /\ ~WillRebuild(p)
    <3>1. (("nodes_fts" \in objects') <=> ("nodes_fts" \in objects)) /\ fts' = fts
      BY <1>4, <2>8, ExecFts
    <3>2. On(p, 15, 1) => "nodes_fts" \in objects /\ fts = "built"
      <4>1. SUFFICES ASSUME On(p, 15, 1) PROVE "nodes_fts" \in objects /\ fts = "built"
        OBVIOUS
      <4>2. ~half[p]
        BY <2>8, <4>1 DEF WillRebuild
      <4>3. Statement(p).op = "fts_check" /\ ~Missing(Statement(p))
        BY <1>4, <2>1, <4>1, <4>2, OpFacts DEF Exec
      <4> QED
        BY <4>3 DEF Missing
    <3> QED
      BY <2>2, <2>3, <2>8, <3>1, <3>2 DEF Sure
  <2> QED
    BY <2>5, <2>6, <2>7, <2>8
<1> QED
  BY <1>2, <1>3, <1>4 DEF SchemaNext, Outside

\* How opens happen is fixed.
LEMMA SharedStep ==
  ASSUME Placed, [SchemaNext]_schemaVars
  PROVE  shared' = shared
<1>1. CASE UNCHANGED schemaVars
  BY <1>1 DEF schemaVars
<1>2. ASSUME NEW p \in Openers, Outside(p) PROVE shared' = shared
  BY <1>2, QuietMoves
<1>3. ASSUME NEW p \in Openers, PlanMigrations(p) \/ Probe(p) \/ Exec(p) PROVE shared' = shared
  BY <1>3 DEF PlanMigrations, Probe, Exec
<1> QED
  BY <1>1, <1>2, <1>3 DEF SchemaNext, Outside

\* A process outside run_migrations.
LEMMA SoloOut ==
  ASSUME NEW q \in Openers, round'[q] = LastRound, step'[q] = 1, half'[q] = FALSE,
         pc'[q] \notin {"run", "failed"},
         pc'[q] \in {"schema", "plan", "open", "bulk"} => version' <= Latest[q],
         pc'[q] \in {"open", "bulk"} =>
            version' = Latest[q] /\ unnamed' = FALSE /\ "edges.target_name" \in objects',
         pc'[q] \in {"plan", "open"} => SCHEMA_SQL \subseteq objects',
         pc'[q] = "bulk" => SCHEMA_SQL \ WRITE_INDEXES \subseteq objects',
         pc'[q] = "open" => "idx_edges_target_name_kind" \in objects'
  PROVE  SoloAt(q)'
<1>1. LastRound = 21
  BY Lengths
<1>2. InOrder(q)'
  BY DEF InOrder
<1>3. Batch(q)'
  BY DEF Batch
<1>4. RoundDropped(q)'
  BY DEF RoundDropped
<1>5. Ready(q)'
  BY <1>1 DEF Ready, On, WillCreate, WillFill
<1>6. Named(q)'
  BY DEF Named
<1> QED
  BY <1>2, <1>3, <1>4, <1>5, <1>6 DEF SoloAt

\* No statement fails.
LEMMA SoloSucceeds ==
  ASSUME Placed, Stored, Solo, ~shared, NEW p \in Openers, Running(p)
  PROVE  Succeeds(Op(p), Statement(p))
<1>1. /\ round[p] \in 2..LastRound /\ step[p] \in 1..Len(Statements(round[p]))
      /\ Statement(p) = Statements(round[p])[step[p]]
      /\ ShapeOfColumn(round[p], step[p], Statement(p))
  BY AtStatement
<1>2. Base \subseteq objects /\ Lasting \cap Given(round[p], step[p] - 1) \subseteq objects
  BY DEF Running, Stored, StoredAt
<1>3. Ready(p)
  BY DEF Solo, SoloAt
<1>4. CASE Op(p) = "create"
  <2>1. Statement(p).op = "create"
    BY <1>4, OpFacts
  <2>2. \/ Statement(p).on \subseteq Base \cup (Lasting \cap Given(round[p], step[p] - 1))
        \/ On(p, 3, 2) /\ Statement(p).on = Flows
    BY <1>1, <2>1, CreateReady DEF On
  <2> QED
    BY <1>2, <1>3, <1>4, <2>2 DEF Succeeds, Ready
<1>5. CASE Op(p) = "alter"
  <2>1. Statement(p).op = "column" /\ half[p]
    BY <1>5, OpFacts
  <2>2. Statement(p).on \subseteq objects
    <3>1. CASE round[p] # 16
      BY <1>1, <1>2, <2>1, <3>1 DEF ShapeOfColumn
    <3>2. CASE round[p] = 16
      <4>1. Statement(p).on = {"flows"} /\ (On(p, 16, 2) \/ On(p, 16, 3) \/ On(p, 16, 4))
        BY <1>1, <2>1, <3>2 DEF ShapeOfColumn, On
      <4> QED
        BY <1>3, <4>1 DEF Ready
    <3> QED
      BY <3>1, <3>2
  <2>3. Statement(p).objs \cap objects = {}
    BY <1>3, <2>1 DEF Ready
  <2> QED
    BY <1>5, <2>2, <2>3 DEF Succeeds
<1>6. CASE Op(p) = "fts_create"
  BY <1>3, <1>6, OpFacts DEF Succeeds, Ready
<1>7. CASE Op(p) = "fts_fill"
  BY <1>3, <1>7, OpFacts DEF Succeeds, Ready
<1>8. CASE Op(p) \notin {"create", "alter", "fts_create", "fts_fill"}
  BY <1>8 DEF Succeeds
<1> QED
  BY <1>4, <1>5, <1>6, <1>7, <1>8

\* A statement that is no drop takes nothing away.
LEMMA ExecGrows ==
  ASSUME Placed, NEW p \in Openers, Exec(p)
  PROVE  /\ Statement(p).op # "drop" => objects \subseteq objects'
         /\ Statement(p).op = "drop" => objects' = objects \ Falls(Statement(p).objs)
         /\ Op(p) = "version" => objects' = objects
<1>1. objects' = CASE Op(p) \in {"create", "alter"} -> objects \cup Statement(p).objs
                   [] Op(p) = "drop" -> objects \ Falls(Statement(p).objs)
                   [] Op(p) \in {"fts_create", "fts_rebuild"} -> objects \cup {"nodes_fts"}
                   [] OTHER -> objects
  BY DEF Exec
<1>2. (Op(p) = "drop") <=> (Statement(p).op = "drop")
  BY OpFacts DEF Exec
<1> QED
  BY <1>1, <1>2

\* What a round drops is gone at its stamp.
LEMMA LostGone ==
  ASSUME Placed, NEW p \in Openers, Running(p), Op(p) = "version", RoundDropped(p)
  PROVE  objects \cap Lost(round[p]) = {}
<1> DEFINE w == round[p]
<1>1. w # LastRound /\ step[p] = Len(Statements(w))
  BY OpFacts
<1>2. w \in 2..LastRound /\ LastRound = LATEST_VERSION + 1 /\ LATEST_VERSION = 20
  BY AtStatement DEF LastRound, LATEST_VERSION
<1>3. w \in 2..LATEST_VERSION
  BY <1>1, <1>2
<1>4. /\ Len(Migration(w)) \in Nat /\ Len(Statements(w)) = Len(Migration(w)) + 1
      /\ DOMAIN Migration(w) = 1..Len(Migration(w))
      /\ \A i \in 1..Len(Migration(w)) : Statements(w)[i] = Migration(w)[i]
  BY <1>3, RoundIsMigration
<1>5. step[p] - 1 = Len(Migration(w))
  BY <1>1, <1>4
<1>6. SUFFICES ASSUME NEW x \in objects, x \in Lost(w) PROVE FALSE
  OBVIOUS
<1>7. PICK i \in DOMAIN Migration(w) :
         Migration(w)[i].op = "drop" /\ x \in Falls(Migration(w)[i].objs) /\ x # "nodes_fts"
  BY <1>6 DEF Lost, Range
<1>8. i \in 1..(step[p] - 1) /\ Statements(w)[i] = Migration(w)[i]
  BY <1>4, <1>5, <1>7
<1>9. \A j \in 1..(step[p] - 1) : Statements(w)[j].op = "drop" =>
        (Falls(Statements(w)[j].objs) \ {"nodes_fts"}) \cap objects = {}
  BY <1>1 DEF RoundDropped
<1> QED
  BY <1>6, <1>7, <1>8, <1>9

\* No statement leaves more than the version allows.
LEMMA UpperExec ==
  ASSUME Placed, Solo, ~shared, NEW p \in Openers, Exec(p)
  PROVE  objects' \subseteq Upper(version')
<1>a. LATEST_VERSION = 20 /\ LastRound = 21
  BY DEF LATEST_VERSION, LastRound
<1>1. Running(p) /\ Under(p)
  BY DEF Exec, Running, Under
<1>2. objects \subseteq Upper(version) /\ RoundDropped(p)
      /\ (round[p] # LastRound => version = round[p] - 1)
  BY DEF Solo, SoloAt, InOrder
<1>3. round[p] \in 2..LastRound /\ ShapeOfMake(round[p], Statement(p))
  BY <1>1, AtStatement
<1>4. CASE Op(p) = "version"
  <2>1. objects' = objects /\ version' = round[p] /\ round[p] # LastRound
    BY <1>1, <1>4, ExecGrows, ExecMoves, OpFacts
  <2>2. objects \cap Lost(round[p]) = {}
    BY <1>1, <1>2, <1>4, LostGone
  <2>3. version + 1 = round[p] /\ round[p] \in 2..20
    BY <1>a, <1>2, <1>3, <2>1
  <2>4. Upper(version) \subseteq Upper(round[p]) \cup Lost(round[p])
    <3>1. (version + 1)..LATEST_VERSION \subseteq {round[p]} \cup ((round[p] + 1)..LATEST_VERSION)
      BY <1>a, <2>3
    <3> QED
      BY <3>1 DEF Upper
  <2> QED
    BY <1>2, <2>1, <2>2, <2>4
<1>5. CASE Op(p) # "version"
  <2>1. version' = version
    BY <1>5, ExecMoves
  <2>2. objects' \subseteq objects \cup Gives(Statement(p)) \cup {"nodes_fts"}
    BY ExecKeeps
  <2>3. "nodes_fts" \in Upper(version)
    BY DEF Upper, Complete
  <2>4. Gives(Statement(p)) \subseteq Upper(version)
    <3>1. CASE Statement(p).op \notin {"create", "column"}
      BY <3>1 DEF Gives
    <3>2. CASE Statement(p).op \in {"create", "column"} /\ round[p] = LastRound
      <4>1. Statement(p).objs \subseteq Complete
        BY <1>a, <1>3, <3>2 DEF ShapeOfMake
      <4> QED
        BY <3>2, <4>1 DEF Gives, Upper
    <3>3. CASE Statement(p).op \in {"create", "column"} /\ round[p] # LastRound
      <4>1. round[p] <= 16
            /\ Statement(p).objs \subseteq Complete \cup Lost(17) \cup Lost(18) \cup Lost(20)
        BY <3>3, <1>3 DEF ShapeOfMake
      <4>2. version + 1 \in 2..16
        BY <1>2, <1>3, <1>a, <3>3, <4>1
      <4>3. {17, 18, 20} \subseteq (version + 1)..LATEST_VERSION
        BY <1>a, <4>2
      <4> QED
        BY <3>3, <4>1, <4>3 DEF Gives, Upper
    <3> QED
      BY <3>1, <3>2, <3>3
  <2> QED
    BY <1>2, <2>1, <2>2, <2>3, <2>4
<1> QED
  BY <1>4, <1>5

\* A statement keeps the order of the versions.
LEMMA OrderExec ==
  ASSUME Placed, NEW p \in Openers, Exec(p), InOrder(p)
  PROVE  InOrder(p)'
<1>a. LastRound = 21
  BY Lengths
<1>1. Running(p) /\ pc[p] = "run" /\ pc' = pc
  BY DEF Exec, Running
<1>2. round[p] \in 2..LastRound /\ PlacedAt(p) /\ version \in 1..20
  BY DEF Placed, LATEST_VERSION
<1>3. CASE Op(p) = "version"
  <2>1. /\ round[p] # LastRound /\ round'[p] = RoundAfter(p, round[p]) /\ version' = round[p]
    BY <1>3, ExecMoves
  <2>2. round[p] <= Latest[p]
    BY <1>2, <2>1 DEF PlacedAt
  <2>3. round[p] \in 1..LastRound
    BY <1>a, <1>2
  <2>4. /\ round'[p] # LastRound => round'[p] = round[p] + 1
        /\ round'[p] = LastRound => Latest[p] <= round[p]
    BY <2>1, <2>3, RoundAfterFacts
  <2>5. Latest[p] \in Nat /\ round[p] \in Nat
    BY <1>a, <1>2, SchemaAssumption
  <2>6. round'[p] # LastRound => version' = round'[p] - 1
    BY <2>1, <2>4, <2>5
  <2>7. round'[p] = LastRound => version' = Latest[p]
    BY <2>1, <2>2, <2>4, <2>5
  <2> QED
    BY <1>1, <2>1, <2>2, <2>6, <2>7 DEF InOrder
<1>4. CASE Op(p) # "version"
  <2>1. version' = version /\ round'[p] = round[p]
    BY <1>4, ExecMoves DEF On
  <2> QED
    BY <1>1, <2>1 DEF InOrder
<1> QED
  BY <1>3, <1>4

\* What the round dropped stays dropped until its stamp.
LEMMA DroppedExec ==
  ASSUME Placed, NEW p \in Openers, Exec(p), RoundDropped(p)
  PROVE  RoundDropped(p)'
<1>a. LastRound = 21
  BY Lengths
<1>1. /\ round[p] \in 2..LastRound /\ step[p] \in 1..Len(Statements(round[p]))
      /\ Len(Statements(round[p])) \in Nat
      /\ Statement(p) = Statements(round[p])[step[p]]
      /\ ShapeOfDrop(round[p], step[p], Statement(p)) /\ ShapeOfMake(round[p], Statement(p))
  BY AtStatement DEF Exec
<1>2. CASE step'[p] = 1
  BY <1>2 DEF RoundDropped
<1>3. CASE On(p, 16, 1) /\ round'[p] = 16 /\ step'[p] = 5
  <2>1. ASSUME NEW j \in 1..4 PROVE Statements(16)[j].op # "drop"
    <3>a. Len(Statements(16)) = 5
      BY Lengths
    <3>1. 16 \in 2..LastRound /\ j \in 1..Len(Statements(16))
      <4>1. 16 \in 2..LastRound /\ j \in 1..5
        BY <1>a
      <4> QED
        BY <3>a, <4>1, Zenon
    <3>2. ShapeOfDrop(16, j, Statements(16)[j])
      BY <3>1, Shapes
    <3> QED
      BY <3>2 DEF ShapeOfDrop
  <2>2. step'[p] - 1 = 4
    BY <1>3
  <2> QED
    BY <1>3, <2>1, <2>2 DEF RoundDropped
<1>4. CASE round'[p] = round[p] /\ step'[p] = step[p] + 1
  <2>1. SUFFICES ASSUME round[p] # LastRound, NEW j \in 1..step[p],
        Statements(round[p])[j].op = "drop"
                 PROVE  (Falls(Statements(round[p])[j].objs) \ {"nodes_fts"}) \cap objects' = {}
    <3>1. step'[p] - 1 = step[p]
      BY <1>1, <1>4
    <3> QED
      BY <1>4, <3>1 DEF RoundDropped
  <2>2. CASE j = step[p]
    BY <1>1, <2>1, <2>2, ExecGrows
  <2>3. CASE j # step[p]
    <3>1. j \in 1..(step[p] - 1) /\ j \in 1..Len(Statements(round[p]))
      BY <1>1, <2>3
    <3>2. (Falls(Statements(round[p])[j].objs) \ {"nodes_fts"}) \cap objects = {}
      BY <2>1, <3>1 DEF RoundDropped
    <3>3. round[p] \in {13, 17, 18, 19, 20}
      <4>1. ShapeOfDrop(round[p], j, Statements(round[p])[j])
        BY <1>1, <3>1, Shapes
      <4> QED
        BY <2>1, <4>1 DEF ShapeOfDrop
    <3>4. Gives(Statement(p)) = {}
      BY <1>1, <1>a, <3>3 DEF ShapeOfMake, Gives
    <3>5. objects' \subseteq objects \cup {"nodes_fts"}
      BY <3>4, ExecKeeps
    <3> QED
      BY <3>2, <3>5
  <2> QED
    BY <2>2, <2>3
<1> QED
  BY <1>2, <1>3, <1>4, ExecMoves

\* The next statement finds what it needs.
LEMMA ReadyExec ==
  ASSUME Placed, NEW p \in Openers, Exec(p), Ready(p)
  PROVE  Ready(p)'
<1>a. LastRound = 21 /\ Len(Statements(3)) = 3 /\ Len(Statements(13)) = 4
      /\ Len(Statements(16)) = 5
  BY Lengths
<1>1. Running(p) /\ half'[p] = FALSE
  BY ExecMoves DEF Exec
<1>2. /\ round[p] \in 2..LastRound /\ step[p] \in 1..Len(Statements(round[p]))
      /\ Len(Statements(round[p])) \in Nat /\ step[p] \in Nat
      /\ Statement(p) = Statements(round[p])[step[p]]
      /\ ShapeOfDrop(round[p], step[p], Statement(p))
  BY <1>1, AtStatement
<1>3. ASSUME NEW w \in {3, 13, 16}, NEW k \in 2..4, On(p, w, k)'
      PROVE  On(p, w, k - 1) /\ (w = 16 /\ k = 2 => "flows" \in objects)
  <2>1. round'[p] = w /\ step'[p] = k
    BY <1>3 DEF On
  <2>2. CASE On(p, 16, 1) /\ round'[p] = 16 /\ step'[p] = 5
    BY <2>1, <2>2
  <2>3. CASE /\ round'[p] = round[p] /\ step'[p] = step[p] + 1
             /\ On(p, 16, 1) => "flows" \in objects
    <3>1. round[p] = w /\ step[p] = k - 1
      BY <1>2, <2>1, <2>3
    <3> QED
      BY <2>3, <3>1 DEF On
  <2>4. CASE step'[p] = 1
    BY <2>1, <2>4
  <2> QED
    BY <2>2, <2>3, <2>4, ExecMoves
<1>4. On(p, 3, 2)' => Flows \subseteq objects'
  <2>1. SUFFICES ASSUME On(p, 3, 2)' PROVE Flows \subseteq objects'
    OBVIOUS
  <2>2. On(p, 3, 2 - 1)
    BY <1>3, <2>1
  <2>3. round[p] = 3 /\ step[p] = 1
    BY <2>2 DEF On
  <2>4. Gives(Statement(p)) = Flows
    BY <1>2, <2>3, Round3 DEF Create, Gives
  <2> QED
    BY <2>4, ExecKeeps
<1>5. ASSUME NEW k \in 2..4, On(p, 16, k)' PROVE "flows" \in objects'
  <2>1. On(p, 16, k - 1) /\ (k = 2 => "flows" \in objects)
    BY <1>3, <1>5
  <2>2. "flows" \in objects
    <3>1. CASE k = 2
      BY <2>1, <3>1
    <3>2. CASE k \in {3, 4}
      <4>1. k - 1 = 2 \/ k - 1 = 3
        BY <3>2
      <4> QED
        BY <2>1, <4>1 DEF Ready
    <3> QED
      BY <1>5, <3>1, <3>2
  <2>3. Statement(p).op # "drop"
    BY <1>2, <2>1 DEF ShapeOfDrop, On
  <2> QED
    BY <2>2, <2>3, ExecGrows
<1>6. WillCreate(p)' => "nodes_fts" \notin objects'
  <2>1. SUFFICES ASSUME WillCreate(p)' PROVE "nodes_fts" \notin objects'
    OBVIOUS
  <2>2. On(p, 13, 2)'
    BY <1>1, <2>1 DEF WillCreate
  <2>3. On(p, 13, 2 - 1)
    BY <1>3, <2>2
  <2>4. On(p, 13, 1)
    BY <2>3
  <2> QED
    BY <2>4, ExecFts
<1>7. WillFill(p)' => "nodes_fts" \in objects' /\ fts' = "empty"
  <2>1. SUFFICES ASSUME WillFill(p)' PROVE "nodes_fts" \in objects' /\ fts' = "empty"
    OBVIOUS
  <2>2. On(p, 13, 3)'
    BY <2>1 DEF WillFill
  <2>3. On(p, 13, 3 - 1)
    BY <1>3, <2>2
  <2>4. WillCreate(p)
    BY <2>3 DEF WillCreate
  <2> QED
    BY <2>4, ExecFts
<1>8. On(p, 16, 2)' \/ On(p, 16, 3)' \/ On(p, 16, 4)' => "flows" \in objects'
  BY <1>5
<1> QED
  BY <1>1, <1>4, <1>6, <1>7, <1>8 DEF Ready

\* The last round names the edges and makes its index.
LEMMA NamedExec ==
  ASSUME Placed, Stored, NEW p \in Openers, Exec(p), Named(p)
  PROVE  Named(p)'
<1>a. LastRound = 21 /\ Len(Statements(LastRound)) = 3
  BY Lengths
<1>1. Running(p) /\ pc[p] = "run" /\ pc' = pc
  BY DEF Exec, Running
<1>2. /\ round[p] \in 2..LastRound /\ step[p] \in 1..Len(Statements(round[p]))
      /\ Len(Statements(round[p])) \in Nat /\ step[p] \in Nat
      /\ Statement(p) = Statements(round[p])[step[p]]
  BY <1>1, AtStatement
<1>3. SUFFICES ASSUME round'[p] = LastRound, step'[p] >= 3
               PROVE  /\ unnamed' = FALSE /\ "edges.target_name" \in objects'
                      /\ step'[p] >= 4 => "idx_edges_target_name_kind" \in objects'
  <2>1. step'[p] \in Nat
    BY ExecMoves
  <2>2. step'[p] >= 4 => step'[p] >= 3
    BY <2>1
  <2>3. pc'[p] = "run"
    BY <1>1
  <2> QED
    BY <1>3, <2>2, <2>3 DEF Named
<1>4. round[p] = LastRound /\ step'[p] = step[p] + 1
  <2>1. step'[p] # 1 /\ round'[p] # 16
    BY <1>a, <1>3
  <2> QED
    BY <1>3, <2>1, ExecMoves
<1>5. step[p] \in 2..3
  BY <1>a, <1>2, <1>3, <1>4
<1>6. unnamed' = (unnamed /\ Op(p) # "backfill")
  BY DEF Exec
<1>7. "edges.target_name" \in Lasting
  BY DEF Lasting, Complete, FreshColumns, WRITE_INDEXES
<1>8. "edges.target_name" \in objects'
  <2>1. "edges.target_name" \in Given(LastRound, step[p] - 1)
    <3>1. "edges.target_name" \in Gives(Statements(LastRound)[1])
      BY RoundLast DEF Column, Gives
    <3>2. step[p] - 1 \in Nat /\ 1 \in 1..(step[p] - 1)
      BY <1>5
    <3> QED
      BY <3>1, <3>2, GivenIn
  <2>2. "edges.target_name" \in objects
    BY <1>4, <1>7, <2>1 DEF Stored, StoredAt
  <2> QED
    BY <1>7, <2>2, ExecKeeps
<1>9. CASE step[p] = 2
  <2>1. Op(p) = "backfill"
    BY <1>1, <1>4, <1>9, OpFacts DEF On
  <2>2. ~(step'[p] >= 4)
    BY <1>4, <1>9
  <2> QED
    BY <1>6, <1>8, <2>1, <2>2
<1>10. CASE step[p] = 3
  <2>1. unnamed = FALSE
    BY <1>1, <1>4, <1>10 DEF Named, Placed
  <2>2. "idx_edges_target_name_kind" \in Gives(Statement(p))
    BY <1>2, <1>4, <1>10, RoundLast DEF Create, Gives
  <2> QED
    BY <1>6, <1>8, <2>1, <2>2, ExecKeeps
<1>11. step[p] = 2 \/ step[p] = 3
  BY <1>5
<1> QED
  BY <1>9, <1>10, <1>11

\* The process that executes a statement.
LEMMA SoloExec ==
  ASSUME Placed, Stored, NEW p \in Openers, Exec(p), SoloAt(p)
  PROVE  SoloAt(p)'
<1>1. Batch(p)'
  <2>1. pc[p] = "run" /\ pc' = pc
    BY DEF Exec, Running
  <2> QED
    BY <2>1, ExecKeeps DEF SoloAt, Batch
<1> QED
  BY <1>1, OrderExec, DroppedExec, ReadyExec, NamedExec DEF SoloAt

\* A process that stays where it is in a graph that stays what it is.
LEMMA SoloSame ==
  ASSUME NEW q \in Openers, SoloAt(q), UNCHANGED <<objects, fts, unnamed, version>>,
         pc'[q] = pc[q], round'[q] = round[q], step'[q] = step[q], half'[q] = half[q]
  PROVE  SoloAt(q)'
<1>1. InOrder(q)'
  BY DEF SoloAt, InOrder
<1>2. Batch(q)' /\ RoundDropped(q)' /\ Named(q)'
  BY DEF SoloAt, Batch, RoundDropped, Named
<1>3. Ready(q)'
  <2>1. \A w, k : On(q, w, k)' <=> On(q, w, k)
    BY DEF On
  <2>2. (WillCreate(q)' => WillCreate(q)) /\ (WillFill(q)' => WillFill(q))
    BY <2>1, Zenon DEF WillCreate, WillFill
  <2>3. Statement(q)' = Statement(q)
    BY DEF Statement
  <2>4. Ready(q)
    BY DEF SoloAt
  <2> QED
    BY <2>1, <2>2, <2>3, <2>4 DEF Ready
<1> QED
  BY <1>1, <1>2, <1>3 DEF SoloAt

\* One process acts, and no other is under way.
LEMMA SoloFrame ==
  ASSUME Placed, Solo, ~shared, NEW p \in Openers,
         \A q \in Openers \ {p} : /\ ~Under(q) /\ pc'[q] = pc[q] /\ round'[q] = round[q]
                                  /\ step'[q] = step[q] /\ half'[q] = half[q],
         SoloAt(p)', objects' \subseteq Upper(version')
  PROVE  Solo'
<1>1. ASSUME NEW q \in Openers \ {p} PROVE SoloAt(q)' /\ ~Under(q)'
  <2>1. ~Under(q) /\ pc[q] # "failed" /\ pc[q] \in Stages /\ PlacedAt(q) /\ half[q] \in BOOLEAN
    BY DEF Solo, SoloAt, InOrder, Placed
  <2>2. pc[q] \in {"closed", "refused"}
    BY <2>1 DEF Under, Stages
  <2>3. round[q] = LastRound /\ step[q] = 1 /\ half[q] = FALSE
    BY <2>1, <2>2 DEF PlacedAt
  <2>4. SoloAt(q)'
    BY <2>2, <2>3, SoloOut
  <2> QED
    BY <2>2, <2>4 DEF Under
<1> QED
  BY <1>1 DEF Solo

\* The schema batch, the columns it brings and the write indexes are of the latest schema.
LEMMA BatchComplete ==
  /\ \A v : Complete \subseteq Upper(v)
  /\ SCHEMA_SQL \subseteq Complete /\ FreshColumns \subseteq Complete
      /\ WRITE_INDEXES \subseteq Complete
  /\ "edges.target_name" \notin WRITE_INDEXES /\ "idx_edges_target_name_kind" \in WRITE_INDEXES
  BY DEF Complete, Upper, SCHEMA_SQL, FreshColumns, WRITE_INDEXES

\* The plan starts a round after the version, or ends the loop.
LEMMA SoloPlan ==
  ASSUME Placed, NEW p \in Openers, PlanMigrations(p), SoloAt(p)
  PROVE  SoloAt(p)'
<1>a. LastRound = 21
  BY Lengths
<1>1. /\ pc[p] = "plan" /\ pc' = [pc EXCEPT ![p] = "run"] /\ UNCHANGED <<db, half>>
      /\ round' = [round EXCEPT ![p] = RoundAfter(p, version)] /\ step' = [step EXCEPT ![p] = 1]
  BY DEF PlanMigrations, Become
<1>2. /\ pc \in [Openers -> Stages] /\ round \in [Openers -> 2..LastRound]
         /\ step \in [Openers -> Nat \ {0}]
      /\ version \in 1..LATEST_VERSION /\ LATEST_VERSION = 20 /\ PlacedAt(p)
  BY DEF Placed, LATEST_VERSION
<1>3. pc'[p] = "run" /\ round'[p] = RoundAfter(p, version) /\ step'[p] = 1
  BY <1>1, <1>2
<1>4. half'[p] = half[p] /\ ~half[p]
  BY <1>1, <1>2 DEF PlacedAt
<1>5. objects' = objects /\ version' = version
  BY <1>1 DEF db
<1>6. version \in 1..LastRound
  BY <1>a, <1>2
<1>7. InOrder(p)'
  <2>1. /\ round'[p] # LastRound => round'[p] = version + 1
        /\ round'[p] = LastRound => Latest[p] <= version
    BY <1>3, <1>6, RoundAfterFacts
  <2>2. version <= Latest[p]
    BY <1>1 DEF SoloAt, InOrder
  <2>3. Latest[p] \in Nat /\ version \in Nat
    BY <1>2, SchemaAssumption
  <2>4. /\ round'[p] # LastRound => version = round'[p] - 1
        /\ round'[p] = LastRound => version = Latest[p]
    BY <2>1, <2>2, <2>3
  <2> QED
    BY <1>3, <1>5, <2>2, <2>4 DEF InOrder
<1>8. Batch(p)'
  BY <1>1, <1>3, <1>5 DEF SoloAt, Batch
<1>9. RoundDropped(p)'
  BY <1>3 DEF RoundDropped
<1>10. Ready(p)'
  <2>1. ~On(p, 3, 2)' /\ ~On(p, 16, 2)' /\ ~On(p, 16, 3)' /\ ~On(p, 16, 4)' /\ ~On(p, 13, 2)'
        /\ ~On(p, 13, 3)'
    BY <1>3 DEF On
  <2> QED
    BY <1>4, <2>1 DEF Ready, WillCreate, WillFill
<1>11. Named(p)'
  BY <1>3 DEF Named
<1> QED
  BY <1>7, <1>8, <1>9, <1>10, <1>11 DEF SoloAt

\* What a probe found missing is missing.
LEMMA SoloProbe ==
  ASSUME Placed, NEW p \in Openers, Probe(p), SoloAt(p)
  PROVE  SoloAt(p)'
<1>1. /\ Running(p) /\ ~half[p] /\ Missing(Statement(p)) /\ Statement(p).op # "skip"
      /\ UNCHANGED <<db, pc, round, step, shared, crashes>>
  BY DEF Probe
<1>2. InOrder(p)' /\ Batch(p)' /\ RoundDropped(p)' /\ Named(p)'
  BY <1>1 DEF SoloAt, InOrder, Batch, RoundDropped, Named, db
<1>3. \A w, k : On(p, w, k)' <=> On(p, w, k)
  BY <1>1 DEF On
<1>4. Statement(p)' = Statement(p) /\ objects' = objects /\ fts' = fts
  BY <1>1 DEF Statement, db
<1>5. Statement(p).op = "column" => Statement(p).objs \cap objects = {}
  <2>1. ShapeOfColumn(round[p], step[p], Statement(p))
    BY <1>1, AtStatement
  <2> QED
    BY <1>1, <2>1 DEF ShapeOfColumn, Missing
<1>6. On(p, 5, 1) => "nodes_fts" \notin objects
  <2>1. On(p, 5, 1) => Statement(p).op = "fts_table"
    BY <1>1, OpFacts
  <2> QED
    BY <1>1, <2>1 DEF Missing
<1>7. Ready(p)
  BY DEF SoloAt
<1>8. WillCreate(p)' => "nodes_fts" \notin objects
  BY <1>3, <1>6, <1>7, Zenon DEF WillCreate, Ready
<1>9. WillFill(p)' => WillFill(p)
  BY <1>3 DEF WillFill
<1>10. Ready(p)'
  BY <1>3, <1>4, <1>5, <1>7, <1>8, <1>9 DEF Ready
<1> QED
  BY <1>2, <1>10 DEF SoloAt

\* The other actions of a process that is under way, or enters alone.
LEMMA SoloQuiet ==
  ASSUME Placed, Stored, Solo, ~shared, NEW p \in Openers, Outside(p), ~Close(p)
  PROVE  SoloAt(p)' /\ objects' \subseteq Upper(version') /\ (Under(p) \/ Alone(p))
<1>1. /\ round'[p] = LastRound /\ step'[p] = 1 /\ half'[p] = FALSE
      /\ UNCHANGED <<fts, stale, unnamed, version, shared>>
  BY QuietMoves
<1>2. /\ InOrder(p) /\ Batch(p) /\ Named(p) /\ objects \subseteq Upper(version)
      /\ unnamed \in BOOLEAN /\ pc \in [Openers -> Stages] /\ PlacedAt(p)
  BY DEF Solo, SoloAt, Placed
<1>3. CASE Open(p)
  <2>1. pc'[p] = "check" /\ objects' = objects /\ Alone(p)
    BY <1>2, <1>3 DEF Open, Become, db
  <2> QED
    BY <1>1, <1>2, <2>1, SoloOut
<1>4. CASE CheckVersion(p)
  <2>1. /\ pc'[p] = IF version > Latest[p] THEN "refused" ELSE "schema"
        /\ objects' = objects /\ Under(p)
    BY <1>2, <1>4 DEF CheckVersion, Become, db, Under
  <2>2. version \in Nat /\ Latest[p] \in Nat
    BY SchemaAssumption DEF Placed, LATEST_VERSION
  <2>3. pc'[p] = "refused" \/ (pc'[p] = "schema" /\ version <= Latest[p])
    BY <2>1, <2>2
  <2> QED
    BY <1>1, <1>2, <2>1, <2>3, SoloOut
<1>5. CASE InitSchema(p)
  <2>1. /\ pc[p] = "schema" /\ pc'[p] = "plan" /\ Under(p) /\ SCHEMA_SQL \subseteq objects'
        /\ objects' \subseteq objects \cup SCHEMA_SQL \cup FreshColumns
    BY <1>2, <1>5 DEF InitSchema, Become, Under
  <2>2. version <= Latest[p]
    BY <1>2, <2>1 DEF InOrder
  <2>3. objects' \subseteq Upper(version)
    BY <1>2, <2>1, BatchComplete
  <2> QED
    BY <1>1, <2>1, <2>2, <2>3, SoloOut
<1>6. CASE Fail(p)
  BY <1>6, SoloSucceeds DEF Fail
<1>7. CASE Opened(p)
  <2>1. pc[p] = "run" /\ ~Running(p) /\ pc'[p] = "open" /\ objects' = objects /\ Under(p)
    BY <1>2, <1>7 DEF Opened, Leave, Become, db, Under
  <2>2. round[p] = LastRound
    BY <1>2, <2>1 DEF PlacedAt, Running
  <2>3. step[p] >= 4 /\ step[p] >= 3
    <3>1. Len(Statements(LastRound)) = 3 /\ step[p] \in Nat
      BY Lengths DEF Placed
    <3>2. ~(step[p] <= 3)
      BY <2>1, <2>2, <3>1 DEF Running
    <3> QED
      BY <3>1, <3>2
  <2>4. /\ version = Latest[p] /\ unnamed = FALSE /\ "edges.target_name" \in objects
        /\ "idx_edges_target_name_kind" \in objects /\ SCHEMA_SQL \subseteq objects
        /\ version <= Latest[p]
    BY <1>2, <2>1, <2>2, <2>3 DEF InOrder, Named, Batch
  <2> QED
    BY <1>1, <1>2, <2>1, <2>4, SoloOut
<1>8. CASE begin_bulk_load(p)
  <2>1. /\ pc[p] = "open" /\ pc'[p] = "bulk" /\ Under(p)
        /\ objects' = objects \ WRITE_INDEXES
    BY <1>2, <1>8 DEF begin_bulk_load, Become, Under
  <2>2. /\ version = Latest[p] /\ unnamed = FALSE /\ "edges.target_name" \in objects
        /\ SCHEMA_SQL \subseteq objects /\ version <= Latest[p]
    BY <1>2, <2>1 DEF InOrder, Named, Batch
  <2>3. "edges.target_name" \in objects' /\ SCHEMA_SQL \ WRITE_INDEXES \subseteq objects'
    BY <2>1, <2>2, BatchComplete
  <2> QED
    BY <1>1, <1>2, <2>1, <2>2, <2>3, SoloOut
<1>9. CASE finish_bulk_load(p)
  <2>1. /\ pc[p] = "bulk" /\ pc'[p] = "open" /\ Under(p)
        /\ objects' = objects \cup WRITE_INDEXES
    BY <1>2, <1>9 DEF finish_bulk_load, Become, Under
  <2>2. /\ version = Latest[p] /\ unnamed = FALSE /\ "edges.target_name" \in objects
        /\ SCHEMA_SQL \ WRITE_INDEXES \subseteq objects /\ version <= Latest[p]
    BY <1>2, <2>1 DEF InOrder, Named, Batch
  <2>3. /\ SCHEMA_SQL \subseteq objects' /\ "idx_edges_target_name_kind" \in objects'
        /\ objects' \subseteq Upper(version)
    BY <1>2, <2>1, <2>2, BatchComplete
  <2> QED
    BY <1>1, <2>1, <2>2, <2>3, SoloOut
<1>10. CASE Crash(p)
  <2>1. pc'[p] = "closed" /\ objects' = objects /\ Under(p)
    BY <1>2, <1>10 DEF Crash, Leave, Become, db
  <2> QED
    BY <1>1, <1>2, <2>1, SoloOut
<1> QED
  BY <1>3, <1>4, <1>5, <1>6, <1>7, <1>8, <1>9, <1>10 DEF Outside

\* Every step of opens that do not overlap.
LEMMA SoloStep ==
  ASSUME Placed, Stored, Solo, [SchemaNext]_schemaVars
  PROVE  Solo'
<1>1. shared' = shared
  BY SharedStep
<1>2. CASE shared
  BY <1>1, <1>2 DEF Solo
<1>3. CASE ~shared
  <2>1. CASE UNCHANGED schemaVars
    <3>1. /\ UNCHANGED <<objects, fts, unnamed, version>> /\ pc' = pc
          /\ round' = round /\ step' = step /\ half' = half
      BY <2>1 DEF schemaVars, db, place
    <3>2. \A q \in Openers : SoloAt(q)'
      BY <1>3, <3>1, SoloSame DEF Solo
    <3> QED
      BY <1>3, <3>1, <3>2 DEF Solo, Under
  <2>2. ASSUME NEW p \in Openers, Close(p) PROVE Solo'
    <3>1. /\ round'[p] = LastRound /\ step'[p] = 1 /\ half'[p] = FALSE
          /\ \A q \in Openers \ {p} : /\ pc'[q] = pc[q] /\ round'[q] = round[q]
                                      /\ step'[q] = step[q] /\ half'[q] = half[q]
      BY <2>2, QuietMoves DEF Outside
    <3>2. pc'[p] = "closed" /\ UNCHANGED <<objects, fts, unnamed, version>>
      BY <2>2 DEF Close, Become, Placed, db
    <3>3. SoloAt(p)'
      BY <3>1, <3>2, SoloOut
    <3>4. \A q \in Openers \ {p} : SoloAt(q)'
      BY <1>3, <3>1, <3>2, SoloSame DEF Solo
    <3>5. ~Under(p)' /\ \A q \in Openers \ {p} : Under(q)' <=> Under(q)
      BY <3>1, <3>2 DEF Under
    <3> QED
      BY <1>3, <3>2, <3>3, <3>4, <3>5 DEF Solo
  <2>3. ASSUME NEW p \in Openers, Outside(p), ~Close(p) PROVE Solo'
    <3>1. SoloAt(p)' /\ objects' \subseteq Upper(version') /\ (Under(p) \/ Alone(p))
      BY <1>3, <2>3, SoloQuiet
    <3>2. \A q \in Openers \ {p} : ~Under(q)
      BY <1>3, <3>1 DEF Alone, Solo
    <3>3. \A q \in Openers \ {p} : /\ pc'[q] = pc[q] /\ round'[q] = round[q]
                                   /\ step'[q] = step[q] /\ half'[q] = half[q]
      BY <2>3, QuietMoves
    <3> QED
      BY <1>3, <3>1, <3>2, <3>3, SoloFrame
  <2>4. ASSUME NEW p \in Openers, PlanMigrations(p) PROVE Solo'
    <3>1. SoloAt(p)'
      BY <1>3, <2>4, SoloPlan DEF Solo
    <3>2. \A q \in Openers \ {p} : ~Under(q)
      BY <1>3, <2>4 DEF Solo, PlanMigrations, Under
    <3>3. \A q \in Openers \ {p} : /\ pc'[q] = pc[q] /\ round'[q] = round[q]
                                   /\ step'[q] = step[q] /\ half'[q] = half[q]
      BY <2>4 DEF PlanMigrations, Become, Placed
    <3>4. objects' \subseteq Upper(version')
      BY <1>3, <2>4 DEF PlanMigrations, db, Solo
    <3> QED
      BY <1>3, <3>1, <3>2, <3>3, <3>4, SoloFrame
  <2>5. ASSUME NEW p \in Openers, Probe(p) PROVE Solo'
    <3>1. SoloAt(p)'
      BY <1>3, <2>5, SoloProbe DEF Solo
    <3>2. \A q \in Openers \ {p} : ~Under(q)
      BY <1>3, <2>5 DEF Solo, Probe, Running, Under
    <3>3. \A q \in Openers \ {p} : /\ pc'[q] = pc[q] /\ round'[q] = round[q]
                                   /\ step'[q] = step[q] /\ half'[q] = half[q]
      BY <2>5 DEF Probe, Placed
    <3>4. objects' \subseteq Upper(version')
      BY <1>3, <2>5 DEF Probe, db, Solo
    <3> QED
      BY <1>3, <3>1, <3>2, <3>3, <3>4, SoloFrame
  <2>6. ASSUME NEW p \in Openers, Exec(p) PROVE Solo'
    <3>1. SoloAt(p)'
      BY <1>3, <2>6, SoloExec DEF Solo
    <3>2. \A q \in Openers \ {p} : ~Under(q)
      BY <1>3, <2>6 DEF Solo, Exec, Running, Under
    <3>3. \A q \in Openers \ {p} : /\ pc'[q] = pc[q] /\ round'[q] = round[q]
                                   /\ step'[q] = step[q] /\ half'[q] = half[q]
      BY <2>6, ExecMoves
    <3>4. objects' \subseteq Upper(version')
      BY <1>3, <2>6, UpperExec
    <3> QED
      BY <1>3, <3>1, <3>2, <3>3, <3>4, SoloFrame
  <2> QED
    BY <2>1, <2>2, <2>3, <2>4, <2>5, <2>6 DEF SchemaNext, Outside
<1> QED
  BY <1>2, <1>3

-----------------------------------------------------------------------------
(* The theorems *)

\* What holds of every open, however opens happen and whatever crashes.
SchemaInv == Placed /\ Stored /\ Purged /\ Solo /\ (~shared => Sure)

\* A new file, and a graph that an earlier binary left.
LEMMA SchemaStarts == SchemaInit => SchemaInv /\ Sure
<1> SUFFICES ASSUME SchemaInit PROVE SchemaInv /\ Sure
  OBVIOUS
<1>a. LATEST_VERSION = 20 /\ LastRound = 21 /\ Len(Statements(LastRound)) = 3
  BY Lengths DEF LATEST_VERSION
<1>1. /\ version \in 1..LATEST_VERSION
      /\ fts = IF version < 13 THEN "empty" ELSE IF version < 15 THEN "blank" ELSE "built"
      /\ pc = [p \in Openers |-> "closed"] /\ round = [p \in Openers |-> LastRound]
      /\ step = [p \in Openers |-> 1] /\ half = [p \in Openers |-> FALSE]
      /\ shared \in BOOLEAN /\ crashes = 0
  BY SchemaAssumption DEF SchemaInit
<1>2. \/ objects = {} /\ version = 1 /\ stale = FALSE /\ unnamed = FALSE
      \/ objects = Holds(version) /\ stale = (version < 12) /\ unnamed = TRUE
  BY DEF SchemaInit
<1>3. ASSUME NEW p \in Openers
      PROVE  pc[p] = "closed" /\ round[p] = LastRound /\ step[p] = 1 /\ half[p] = FALSE
  BY <1>1
<1>4. Placed
  <2>1. ASSUME NEW p \in Openers PROVE PlacedAt(p)
    <3>1. step[p] <= Len(Statements(round[p])) + 1
      <4>1. Len(Statements(round[p])) = 3 /\ step[p] = 1
        BY <1>a, <1>3, Zenon
      <4> QED
        BY <4>1
    <3> QED
      BY <1>3, <3>1 DEF PlacedAt
  <2>2. stale \in BOOLEAN /\ unnamed \in BOOLEAN
    <3>1. (version < 12) \in BOOLEAN
      OBVIOUS
    <3> QED
      BY <1>2, <3>1, Zenon
  <2>3. "closed" \in Stages /\ LastRound \in 2..LastRound
    BY <1>a DEF Stages
  <2> QED
    BY <1>1, <2>1, <2>2, <2>3 DEF Placed
<1>5. Stored
  <2>1. ASSUME NEW p \in Openers PROVE StoredAt(p)
    <3>1. step[p] - 1 = 0
      <4>1. step[p] = 1
        BY <1>3
      <4> QED
        BY <4>1
    <3>2. Given(round[p], step[p] - 1) = {}
      BY <3>1, GivenNone
    <3> QED
      BY <1>3, <3>2 DEF StoredAt
  <2>2. CASE objects = {} /\ version = 1
    <3>1. 2..((version + 1) - 1) = {}
      BY <2>2
    <3>2. Before(version + 1) = {}
      BY <3>1 DEF Before
    <3> QED
      BY <2>1, <2>2, <3>2 DEF Stored
  <2>3. CASE objects = Holds(version)
    <3>1. Base \cup (Lasting \cap Before(version + 1)) \subseteq objects
      BY <1>1, <2>3, HoldsKept
    <3>2. objects # {}
      BY <3>1 DEF Base
    <3> QED
      BY <2>1, <3>1, <3>2 DEF Stored
  <2> QED
    BY <1>2, <2>2, <2>3
<1>6. \A p \in Openers : \A w, k : ~Past(p, w, k)
  BY <1>3 DEF Past
<1>7. Purged
  <2>1. version >= 12 => ~stale
    <3>1. version >= 12 => ~(version < 12)
      BY <1>a, <1>1
    <3> QED
      BY <1>2, <3>1, Zenon
  <2> QED
    BY <1>6, <2>1 DEF Purged
<1>8. Sure
  <2>1. version >= 13 => "nodes_fts" \in objects
    <3>1. version >= 13 => version # 1 /\ version >= 5
      BY <1>a, <1>1
    <3> QED
      BY <1>1, <1>2, <3>1, HoldsKept
  <2>2. version >= 13 => fts # "empty"
    BY <1>a, <1>1
  <2>3. version >= 15 => fts = "built"
    BY <1>a, <1>1
  <2> QED
    BY <1>6, <2>1, <2>2, <2>3 DEF Sure, Filled, Checked
<1>9. Solo
  <2>1. \A p \in Openers : ~Under(p)
    BY <1>3 DEF Under
  <2>2. objects \subseteq Upper(version)
    BY <1>1, <1>2, HoldsUpper
  <2>3. ASSUME NEW p \in Openers PROVE SoloAt(p)
    <3>1. InOrder(p) /\ Batch(p) /\ RoundDropped(p) /\ Named(p)
      BY <1>3 DEF InOrder, Batch, RoundDropped, Named
    <3>2. Ready(p)
      <4>1. round[p] = LastRound
        BY <1>3
      <4>2. round[p] \notin {3, 5, 13, 16}
        BY <1>a, <4>1
      <4>3. half[p] = FALSE
        BY <1>3
      <4> QED
        BY <4>2, <4>3 DEF Ready, On, WillCreate, WillFill
    <3> QED
      BY <3>1, <3>2 DEF SoloAt
  <2> QED
    BY <2>1, <2>2, <2>3 DEF Solo
<1> QED
  BY <1>4, <1>5, <1>7, <1>8, <1>9 DEF SchemaInv

\* It is kept by every step.
LEMMA SchemaKeeps == SchemaInv /\ [SchemaNext]_schemaVars => SchemaInv'
<1> SUFFICES ASSUME SchemaInv, [SchemaNext]_schemaVars PROVE SchemaInv'
  OBVIOUS
<1>1. Placed /\ Stored /\ Purged /\ Solo /\ (~shared => Sure)
  BY DEF SchemaInv
<1>2. Placed'
  BY <1>1, PlacedStep
<1>3. Stored'
  BY <1>1, <1>2, StoredStep
<1>4. Purged'
  BY <1>1, PurgedStep
<1>5. Solo'
  BY <1>1, SoloStep
<1>6. shared' = shared
  BY <1>1, SharedStep
<1>7. (~shared => Sure)'
  BY <1>1, <1>6, SureStep
<1> QED
  BY <1>2, <1>3, <1>4, <1>5, <1>7 DEF SchemaInv

\* SchemaInv is an invariant.
LEMMA SchemaInvariant == SchemaSpec => []SchemaInv
  BY SchemaStarts, SchemaKeeps, PTL DEF SchemaSpec

\* What the version promises of tables, columns and edges.
VersionTables ==
  /\ objects # {} => Needed(version) \ {"nodes_fts"} \subseteq objects
  /\ version >= 12 => ~stale

\* The invariant gives it.
LEMMA TablesHold == SchemaInv => VersionTables
<1> SUFFICES ASSUME SchemaInv PROVE VersionTables
  OBVIOUS
<1>1. /\ objects # {} => Base \subseteq objects
      /\ Lasting \cap Before(version + 1) \subseteq objects
      /\ version >= 12 => ~stale
      /\ version \in 1..LATEST_VERSION
  BY DEF SchemaInv, Stored, Purged, Placed
<1>2. ASSUME objects # {}, NEW x \in Needed(version), x # "nodes_fts" PROVE x \in objects
  <2>1. x \in Base \/ x \in Lasting \cap Before(version + 1)
    BY <1>1, <1>2, NeededKept
  <2> QED
    BY <1>1, <1>2, <2>1
<1> QED
  BY <1>1, <1>2 DEF VersionTables

\* Whatever the opens that race and the processes that die, at every moment and
\* not only between migrations, the tables and columns that schema_version
\* promises exist and the edges it says are purged are gone: only the FTS table
\* can be missing.
THEOREM VersionTablesAlways == SchemaSpec => []VersionTables
  BY SchemaInvariant, TablesHold, PTL

\* The invariant and the rows give the version's honesty.
LEMMA HonestHolds ==
  ASSUME SchemaInv, shared /\ crashes = 0 => Watched
  PROVE  VersionHonest
<1> SUFFICES ASSUME objects # {}, shared => crashes = 0, \A p \in Openers : pc[p] # "run"
             PROVE  /\ Needed(version) \subseteq objects
                    /\ version >= 12 => ~stale
                    /\ version >= 15 => fts = "built"
  BY DEF VersionHonest
<1>1. Placed /\ version \in 1..LATEST_VERSION /\ fts \in {"empty", "blank", "built"}
      /\ LATEST_VERSION = 20
  BY DEF SchemaInv, Placed, LATEST_VERSION
<1>2. Needed(version) \ {"nodes_fts"} \subseteq objects /\ (version >= 12 => ~stale)
  BY TablesHold DEF VersionTables
<1>3. (version >= 13 => Filled) /\ (version >= 15 => Checked /\ Filled)
  BY <1>1 DEF Filled, Checked
<1>4. Sure
  <2>1. CASE ~shared
    BY <2>1 DEF SchemaInv
  <2>2. CASE shared
    <3>1. \A p \in Openers : ~WillCreate(p) /\ ~WillFill(p) /\ ~WillDrop(p) /\ ~WillCheck(p)
          /\ ~WillRebuild(p)
      BY <1>1, WillRun
    <3>2. Checked => Filled
      <4>1. version >= 15 => version >= 13
        BY <1>1
      <4>2. ASSUME NEW p \in Openers, Past(p, 15, 1) PROVE Past(p, 13, 3)
        <5>1. round[p] \in 2..LastRound /\ LastRound = 21
          BY <1>1, Lengths DEF Placed
        <5> QED
          BY <4>2, <5>1 DEF Past
      <4> QED
        BY <4>1, <4>2 DEF Checked, Filled
    <3> QED
      BY <1>1, <2>2, <3>1, <3>2 DEF Watched, Sure
  <2> QED
    BY <2>1, <2>2
<1>5. ASSUME "nodes_fts" \in Needed(version) PROVE "nodes_fts" \in objects
  <2>1. version >= 13
    <3>1. "nodes_fts" \notin Base /\ "nodes_fts" \notin Lasting
      BY DEF Base, Lasting
    <3> QED
      BY <1>1, <1>5, <3>1, NeededKept
  <2> QED
    BY <1>3, <1>4, <2>1 DEF Sure
<1> QED
  BY <1>2, <1>3, <1>4, <1>5 DEF Sure

\* Where every binary has the FTS check of v15 (or opens do not overlap), the
\* version is honest: VersionHonest, for any number of processes, crashes and
\* versions found.
THEOREM VersionHonestAlways ==
  ASSUME TRUE \in Shared => AllCheck
  PROVE  SchemaSpec => []VersionHonest
<1> DEFINE Inv == SchemaInv /\ (shared => AllCheck) /\ (shared /\ crashes = 0 => Watched)
<1>1. SchemaInit => Inv
  <2> SUFFICES ASSUME SchemaInit PROVE Inv
    OBVIOUS
  <2>1. SchemaInv /\ Sure
    BY SchemaStarts
  <2>2. shared => AllCheck
    <3>1. shared \in Shared /\ shared \in BOOLEAN
      BY SchemaAssumption DEF SchemaInit
    <3> QED
      BY <3>1
  <2>3. Watched
    <3>1. Checked => fts = "built"
      BY <2>1 DEF Sure
    <3>2. Filled => "nodes_fts" \in objects /\ fts # "empty"
      BY <2>1 DEF Sure
    <3> QED
      BY <3>1, <3>2 DEF Watched
  <2> QED
    BY <2>1, <2>2, <2>3
<1>2. Inv /\ [SchemaNext]_schemaVars => Inv'
  <2> SUFFICES ASSUME Inv, [SchemaNext]_schemaVars PROVE Inv'
    OBVIOUS
  <2>1. SchemaInv'
    BY SchemaKeeps
  <2>2. Placed /\ Stored
    BY DEF SchemaInv
  <2>3. shared' = shared
    BY <2>2, SharedStep
  <2>4. AllCheck' <=> AllCheck
    BY DEF AllCheck
  <2>5. (shared /\ crashes = 0 => Watched)'
    BY <2>2, <2>3, WatchedStep
  <2> QED
    BY <2>1, <2>3, <2>4, <2>5
<1>3. Inv => VersionHonest
  BY HonestHolds
<1> QED
  BY <1>1, <1>2, <1>3, PTL DEF SchemaSpec

\* The latest version allows nothing beyond the latest schema.
LEMMA UpperLatest == Upper(LATEST_VERSION) = Complete
<1>1. (LATEST_VERSION + 1)..LATEST_VERSION = {}
  BY DEF LATEST_VERSION
<1> QED
  BY <1>1 DEF Upper

\* The invariant gives OpensLatest.
LEMMA LatestHolds == SchemaInv => OpensLatest
<1> SUFFICES ASSUME SchemaInv, ~shared, NEW p \in Openers
             PROVE  /\ pc[p] # "failed"
                    /\ pc[p] = "open" /\ Latest[p] = LATEST_VERSION =>
                         /\ Complete \ {"idx_nodes_community"} \subseteq objects
                         /\ objects \subseteq Complete
                         /\ fts = "built" /\ ~stale /\ ~unnamed
  BY DEF OpensLatest
<1>1. /\ Placed /\ Stored /\ Purged /\ Sure /\ InOrder(p) /\ Batch(p) /\ Named(p)
      /\ objects \subseteq Upper(version) /\ LATEST_VERSION = 20
  BY DEF SchemaInv, Solo, SoloAt, LATEST_VERSION
<1>2. pc[p] # "failed"
  BY <1>1 DEF InOrder
<1>3. ASSUME pc[p] = "open", Latest[p] = LATEST_VERSION
      PROVE  /\ Complete \ {"idx_nodes_community"} \subseteq objects
             /\ objects \subseteq Complete
             /\ fts = "built" /\ ~stale /\ ~unnamed
  <2>1. version = LATEST_VERSION
    BY <1>1, <1>3 DEF InOrder
  <2>2. version >= 12 /\ version >= 13 /\ version >= 15 /\ version + 1 = LastRound
    BY <1>1, <2>1 DEF LastRound
  <2>3. ~stale
    BY <1>1, <2>2 DEF Purged
  <2>4. fts = "built" /\ "nodes_fts" \in objects
    BY <1>1, <2>2 DEF Sure, Filled, Checked
  <2>5. /\ ~unnamed /\ "edges.target_name" \in objects /\ "idx_edges_target_name_kind" \in objects
        /\ SCHEMA_SQL \subseteq objects
    BY <1>1, <1>3 DEF Named, Batch
  <2>6. Lasting \cap Before(LastRound) \subseteq objects
    BY <1>1, <2>2 DEF Stored
  <2>7. objects \subseteq Complete
    BY <1>1, <2>1, UpperLatest
  <2> QED
    BY <2>3, <2>4, <2>5, <2>6, <2>7, CompleteFrom
<1> QED
  BY <1>2, <1>3

\* Opens that do not overlap never fail and give exactly the latest schema:
\* OpensLatest, whatever the binaries, the versions found and the crashes.
THEOREM OpensLatestAlways == SchemaSpec => []OpensLatest
  BY SchemaInvariant, LatestHolds, PTL
=============================================================================

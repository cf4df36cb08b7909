--------------------------- MODULE UpdatePipeline ---------------------------
(***************************************************************************)
(* `dagayn update` and `dagayn build` of the native crates: what they read *)
(* of the working tree, in which order, and what they leave in the graph,  *)
(* while an editor and git change the tree under them.                     *)
(*                                                                         *)
(* One number stands for a file's bytes (and for their hash), one for its  *)
(* mtime; 0 is an absent file.  A writer holds the graph lock, so there is *)
(* one run at a time; status and base peeks happen between runs.           *)
(***************************************************************************)
EXTENDS Naturals, Sequences, FiniteSets

CONSTANTS
    Files,          \* repository paths
    Owned,          \* the paths the Rust parser owns (owns_path)
    Imports,        \* [Files -> SUBSET Files]: the files a file imports or calls into
    Updaters,       \* processes that run `dagayn update`
    MaxClock,       \* bound on writes to the tree
    MaxCommits,     \* bound on commits
    Events,         \* what may happen out of the ordinary, each at most once
    MaxEvents       \* bound on how many of them happen

(* crash: the process of a run dies; unreadable: a file cannot be read;
   discard: git brings old contents back; commit: HEAD moves while a run is
   under way; build: `dagayn build` is run; upgrade: a dagayn with newer
   extractors is installed; base: a user names the base of an update;
   preserve: a tool rewrites a file and gives it an earlier mtime (cp -p,
   rsync -a, tar x).                                                         *)
AllEvents ==
    {"crash", "unreadable", "discard", "commit", "build", "upgrade", "base", "preserve"}

ASSUME PipelineAssumption ==
    /\ Owned \subseteq Files
    /\ Imports \in [Files -> SUBSET Files]
    /\ MaxClock \in Nat /\ MaxCommits \in Nat
    /\ Events \subseteq AllEvents /\ MaxEvents \in Nat

VARIABLES
    tree,     \* the working tree: contents and mtime per path
    commits,  \* contents per path of every commit
    head,     \* the commit HEAD names
    clock,    \* the last number handed out, to new bytes and to mtimes
    rows,     \* what the graph stores per path
    stamp,    \* metadata git_head_sha
    ext,      \* metadata extractor_versions
    version,  \* the extractor version of the installed binary
    base,     \* the base each updater read, 0 before it did
    run,      \* the run that holds the write lock
    settled,  \* the last run saw a tree that has not changed since it began
    happened  \* the events so far

env == <<tree, commits, head, clock, version>>
db == <<rows, stamp, ext>>
vars == <<env, db, base, run, settled, happened>>

----------------------------------------------------------------------------
(* The working tree and git *)

Absent == [content |-> 0, mtime |-> 0]
Present == {f \in Files : tree[f] # Absent}

(* diff --name-status base HEAD *)
BaseDiff(b) == {f \in Files : commits[b][f] # commits[head][f]}

(* status --porcelain --untracked-files=all: worktree_changes, dirty_files *)
Dirty == {f \in Files : tree[f].content # commits[head][f]}

(* The graph *)

NoRow == [hash |-> 0, mtime |-> 0, ver |-> 0]
Indexed == {f \in Files : rows[f] # NoRow}      \* get_all_files
Removed(r, fs) == [f \in Files |-> IF f \in fs THEN NoRow ELSE r[f]]
Touched(r, ms) == [f \in Files |-> IF f \in DOMAIN ms /\ r[f] # NoRow
                                   THEN [r[f] EXCEPT !.mtime = ms[f]] ELSE r[f]]
Stored(r, batch) == [f \in Files |-> IF f \in DOMAIN batch THEN batch[f] ELSE r[f]]

(* A function of paths, extended or restricted to a set *)
With(g, f, v) == [h \in DOMAIN g \cup {f} |-> IF h = f THEN v ELSE g[h]]
Empty == [f \in {} |-> 0]

(* get_direct_dependents: the other indexed files with an edge into fs *)
DirectDependents(fs) == {f \in Indexed \ fs : Imports[f] \cap fs # {}}

(* find_dependents with the default of two hops *)
Dependents(roots) ==
    LET near == DirectDependents(roots)
    IN  near \cup (DirectDependents(near) \ roots)

----------------------------------------------------------------------------
(* The run under way.  `lane` is the list being parsed, `todo` its files    *)
(* still to be looked at, `probe` the half-finished looks at some of them. *)

Idle ==
    [pc |-> "idle", base |-> 0, covers |-> FALSE, changed |-> {}, scope |-> {},
     reparse |-> {}, removed |-> {}, todo |-> {}, probe |-> Empty,
     cached |-> Empty, touch |-> Empty, differs |-> {}, batch |-> Empty,
     lanes |-> <<>>, clean |-> TRUE]

Step(pc) == run.pc = pc

Once(e) ==
    /\ e \in Events \ happened /\ Cardinality(happened) < MaxEvents
    /\ happened' = happened \cup {e}

(* peek_base, under the shared lock *)
PeekBase(p) ==
    /\ Step("idle") /\ base[p] = 0 /\ stamp # 0
    /\ base' = [base EXCEPT ![p] = stamp]
    /\ UNCHANGED <<env, db, run, settled, happened>>

(* update --base, read without the lock *)
NameBase(p) ==
    /\ base[p] = 0
    /\ \E b \in 1..Len(commits) : base' = [base EXCEPT ![p] = b]
    /\ Once("base")
    /\ UNCHANGED <<env, db, run, settled>>

(* The write lock is taken and the update begins. *)
StartUpdate(p) ==
    /\ Step("idle") /\ base[p] # 0
    /\ base' = [base EXCEPT ![p] = 0]
    /\ run' = [Idle EXCEPT !.pc = "diff", !.base = base[p]]
    /\ settled' = TRUE
    /\ UNCHANGED <<env, db, happened>>

(* changed_files runs git twice: the base diff, then the status. *)
DiffBase ==
    /\ Step("diff")
    /\ run' = [run EXCEPT !.pc = "status", !.changed = BaseDiff(run.base)]
    /\ UNCHANGED <<env, db, base, settled, happened>>

(* Mutant: the status replaces the base diff. *)
StatusReplacesDiff ==
    /\ Step("status")
    /\ run' = [run EXCEPT !.pc = "scope", !.changed = Dirty]
    /\ UNCHANGED <<env, db, base, settled, happened>>

Status ==
    /\ Step("status")
    /\ run' = [run EXCEPT !.pc = "scope", !.changed = @ \cup Dirty]
    /\ UNCHANGED <<env, db, base, settled, happened>>

(* Mutant: the extractors are stamped before their files are parsed again. *)
ScopeStampsEarly ==
    LET outdated == ext # version /\ Indexed # {}
        reparse == IF outdated THEN Present ELSE {}
        stale == Indexed \ Present
        nothing == run.changed = {} /\ stale = {} /\ reparse = {}
    IN  /\ Step("scope")
        /\ ext' = IF outdated THEN version ELSE ext
        /\ run' = [run EXCEPT !.pc = IF nothing THEN "head" ELSE "filter",
                              !.covers = stamp = run.base,
                              !.scope = Present, !.reparse = reparse,
                              !.removed = stale]
        /\ UNCHANGED <<env, rows, stamp, base, settled, happened>>

(* diff_covers_graph_commit, indexable_scope and extractor_reparse_scope *)
Scope ==
    LET outdated == ext # version /\ Indexed # {}
        reparse == IF outdated THEN Present ELSE {}
        stale == Indexed \ Present
        nothing == run.changed = {} /\ stale = {} /\ reparse = {}
    IN  /\ Step("scope")
        /\ ext' = IF outdated /\ reparse = {} THEN version ELSE ext
        /\ run' = [run EXCEPT !.pc = IF nothing THEN "head" ELSE "filter",
                              !.covers = stamp = run.base,
                              !.scope = Present, !.reparse = reparse,
                              !.removed = stale]
        /\ UNCHANGED <<env, rows, stamp, base, settled, happened>>

(* filter_candidates over the changed paths, and indexed_only *)
Filter ==
    /\ Step("filter")
    /\ run' = [run EXCEPT
            !.pc = "classify",
            !.removed = @ \cup ((run.changed \ (Present \cap run.scope)) \cap Indexed),
            !.todo = run.changed \cap Present \cap run.scope]
    /\ UNCHANGED <<env, db, base, settled, happened>>

----------------------------------------------------------------------------
(* Looking at one file.  changed_rust_owned_file_source and content_state   *)
(* stat it and then read it; the batches of whole files read it and then    *)
(* stat it.  Classification is sequential, parsing runs on a thread pool.   *)

Kind == IF run.lanes = <<>> THEN "none" ELSE Head(run.lanes).kind
Free(f) == f \in run.todo /\ f \notin DOMAIN run.probe

Drop(g, f) == [h \in DOMAIN g \ {f} |-> g[h]]
Looked(r, f) == [r EXCEPT !.todo = @ \ {f}, !.probe = Drop(@, f)]

(* An unreadable file: an error, except that content_state calls it changed *)
GaveUp(r, f) ==
    IF r.pc = "classify" /\ f \notin Owned
    THEN [Looked(r, f) EXCEPT !.differs = @ \cup {f}]
    ELSE [Looked(r, f) EXCEPT !.clean = FALSE]

(* Its bytes differ from the stored hash: remembered, or parsed *)
Differs(r, f, row) ==
    IF r.pc = "classify"
    THEN [Looked(r, f) EXCEPT !.differs = @ \cup {f},
                              !.cached = IF f \in Owned THEN With(@, f, row) ELSE @]
    ELSE [Looked(r, f) EXCEPT !.batch = With(@, f, row)]

StatFirst(f) ==
    /\ \/ Step("classify") /\ DOMAIN run.probe = {}
       \/ /\ Step("parse") /\ Kind = "changed"
          /\ f \in DOMAIN run.cached => run.cached[f].mtime # tree[f].mtime
    /\ Free(f)
    /\ run' = IF f \in Present THEN [run EXCEPT !.probe = With(@, f, tree[f].mtime)]
                               ELSE GaveUp(run, f)
    /\ UNCHANGED <<env, db, base, settled, happened>>

ReadAfter(f) ==
    LET row == [hash |-> tree[f].content, mtime |-> run.probe[f], ver |-> version]
    IN  /\ Step("classify") \/ (Step("parse") /\ Kind = "changed")
        /\ f \in DOMAIN run.probe
        /\ run' = IF f \notin Present THEN GaveUp(run, f)
                  ELSE IF f \in Indexed /\ rows[f].hash = row.hash
                  THEN [Looked(run, f) EXCEPT !.touch = With(@, f, row.mtime)]
                  ELSE Differs(run, f, row)
        /\ UNCHANGED <<env, db, base, settled, happened>>

(* Mutant: cached bytes are stored under whatever mtime the file has now. *)
UseCachedBlindly(f) ==
    /\ Step("parse") /\ Kind = "changed" /\ Free(f) /\ f \in DOMAIN run.cached
    /\ run' = Differs(run, f, [run.cached[f] EXCEPT !.mtime = tree[f].mtime])
    /\ UNCHANGED <<env, db, base, settled, happened>>

(* The bytes read during classification are used while the mtime stands. *)
UseCached(f) ==
    /\ Step("parse") /\ Kind = "changed" /\ Free(f)
    /\ f \in DOMAIN run.cached /\ run.cached[f].mtime = tree[f].mtime
    /\ run' = Differs(run, f, run.cached[f])
    /\ UNCHANGED <<env, db, base, settled, happened>>

(* collect_rust_owned_file_batch, collect_unowned_file_batch *)
ReadFirst(f) ==
    /\ Step("parse") /\ Kind = "whole" /\ Free(f)
    /\ run' = IF f \in Present THEN [run EXCEPT !.probe = With(@, f, tree[f].content)]
                               ELSE GaveUp(run, f)
    /\ UNCHANGED <<env, db, base, settled, happened>>

StatAfter(f) ==
    /\ Step("parse") /\ Kind = "whole" /\ f \in DOMAIN run.probe
    /\ run' = Differs(run, f, [hash |-> run.probe[f], mtime |-> tree[f].mtime,
                               ver |-> version])
    /\ UNCHANGED <<env, db, base, settled, happened>>

(* read() fails on a file that is there *)
ReadFails(f) ==
    /\ \/ Step("parse") /\ Kind = "whole" /\ Free(f)
       \/ Step("classify") /\ f \in DOMAIN run.probe
       \/ Step("parse") /\ Kind = "changed" /\ f \in DOMAIN run.probe
    /\ run' = GaveUp(run, f)
    /\ Once("unreadable")
    /\ UNCHANGED <<env, db, base, settled>>

----------------------------------------------------------------------------
(* From the classified files to the plan and the store *)

Only(g, fs) == [f \in DOMAIN g \cap fs |-> g[f]]
MtimeMatches(f) == f \in Present /\ f \in Indexed /\ rows[f].mtime = tree[f].mtime
HashMatches(f) == f \in Present /\ f \in Indexed /\ rows[f].hash = tree[f].content
Lane(kind, fs) == IF fs = {} THEN <<>> ELSE <<[kind |-> kind, files |-> fs]>>
NextTodo(lanes) == IF lanes = <<>> THEN {} ELSE Head(lanes).files

(* Owned mtimes are stored; dependents join; every candidate gets a lane. *)
Plan ==
    LET deps == Dependents(run.removed \cup run.differs)
        all == run.differs \cup run.removed \cup deps
        seen == Present \cap run.scope
        removed == IF deps = {} THEN run.removed
                   ELSE run.removed \cup ((all \ seen) \cap Indexed)
        full == run.reparse \ run.differs
        cands == (IF deps = {} THEN run.differs \cap run.scope ELSE all \cap seen) \ full
        forced == cands \cap DOMAIN run.cached
        checked == {f \in (cands \cap Owned) \ forced : ~MtimeMatches(f)}
        foreign == {f \in cands \ Owned : f \in run.differs \/ ~MtimeMatches(f)}
        same == {f \in foreign : HashMatches(f)}
    IN  /\ Step("classify") /\ run.todo = {}
        /\ rows' = Touched(rows, Only(run.touch, Owned))
        /\ run' = [run EXCEPT
                !.pc = "apply", !.removed = removed,
                !.touch = [f \in (DOMAIN run.touch \ Owned) \cup same |->
                             IF f \in same THEN tree[f].mtime ELSE run.touch[f]],
                !.lanes = Lane("whole", full \cap Owned) \o Lane("changed", forced)
                          \o Lane("changed", checked)
                          \o Lane("whole", (full \ Owned) \cup (foreign \ same))]
        /\ UNCHANGED <<env, stamp, ext, base, settled, happened>>

(* Removals and mtime-only updates, then the first lane *)
Apply ==
    /\ Step("apply")
    /\ rows' = Touched(Removed(rows, run.removed), run.touch)
    /\ run' = [run EXCEPT !.pc = IF run.lanes = <<>> THEN "head" ELSE "parse",
                          !.touch = Empty, !.todo = NextTodo(run.lanes)]
    /\ UNCHANGED <<env, stamp, ext, base, settled, happened>>

(* store_file_batch: one lane's files in one transaction *)
StoreBatch ==
    LET rest == Tail(run.lanes)
    IN  /\ Step("parse") /\ run.todo = {}
        /\ rows' = Stored(Touched(rows, run.touch), run.batch)
        /\ run' = [run EXCEPT
                !.pc = IF rest # <<>> THEN "parse"
                       ELSE IF run.base = 0 THEN "build head" ELSE "extractors",
                !.lanes = rest, !.todo = NextTodo(rest),
                !.touch = Empty, !.batch = Empty]
        /\ UNCHANGED <<env, stamp, ext, base, settled, happened>>

StampExtractors ==
    /\ Step("extractors")
    /\ ext' = version
    /\ run' = [run EXCEPT !.pc = "head"]
    /\ UNCHANGED <<env, rows, stamp, base, settled, happened>>

(* Mutants: HEAD is stamped whatever the diff covered; a HEAD that git could
   not name is stored. *)
StampHeadUnverified ==
    /\ Step("head")
    /\ stamp' = head
    /\ settled' = (settled /\ run.clean /\ run.covers)
    /\ run' = Idle
    /\ UNCHANGED <<env, rows, ext, base, happened>>

StampHeadEmpty ==
    /\ Step("head")
    /\ stamp' = IF run.covers THEN 0 ELSE stamp
    /\ settled' = (settled /\ run.clean /\ run.covers)
    /\ run' = Idle
    /\ UNCHANGED <<env, rows, ext, base, happened>>

(* record_head_when_verified, or the end of run_pipeline *)
StampHead ==
    /\ Step("head")
    /\ stamp' = IF run.covers THEN head ELSE stamp
    /\ settled' = (settled /\ run.clean /\ run.covers)
    /\ run' = Idle
    /\ UNCHANGED <<env, rows, ext, base, happened>>

----------------------------------------------------------------------------
(* full_build: everything is read, HEAD is stamped before the extractors *)

StartBuild ==
    LET files == Present
        lanes == Lane("whole", files \cap Owned) \o Lane("whole", files \ Owned)
    IN  /\ Step("idle") /\ Once("build")
        /\ rows' = Removed(rows, Indexed \ files)
        /\ run' = [Idle EXCEPT !.pc = IF lanes = <<>> THEN "build head" ELSE "parse",
                               !.covers = TRUE, !.lanes = lanes, !.todo = NextTodo(lanes)]
        /\ settled' = TRUE
        /\ UNCHANGED <<env, stamp, ext, base>>

BuildStampHead ==
    /\ Step("build head")
    /\ stamp' = head
    /\ run' = [run EXCEPT !.pc = "build extractors"]
    /\ UNCHANGED <<env, rows, ext, base, settled, happened>>

BuildStampExtractors ==
    /\ Step("build extractors")
    /\ ext' = version
    /\ settled' = (settled /\ run.clean)
    /\ run' = Idle
    /\ UNCHANGED <<env, rows, stamp, base, happened>>

(* The process dies; what it committed stays. *)
Crash ==
    /\ ~Step("idle") /\ Once("crash")
    /\ run' = Idle /\ settled' = FALSE
    /\ UNCHANGED <<env, db, base>>

----------------------------------------------------------------------------
(* The editor, git, and the installation of a newer dagayn *)

Edited(f, content, mtime) ==
    /\ clock < MaxClock
    /\ clock' = clock + 1
    /\ tree' = [tree EXCEPT ![f] = IF content = 0 THEN Absent
                                   ELSE [content |-> content, mtime |-> mtime]]
    /\ settled' = FALSE
    /\ UNCHANGED <<commits, head, version, db, base, run>>

Write(f) == Edited(f, clock + 1, clock + 1) /\ UNCHANGED happened
Touch(f) == f \in Present /\ Edited(f, tree[f].content, clock + 1) /\ UNCHANGED happened
Delete(f) == f \in Present /\ Edited(f, 0, 0) /\ UNCHANGED happened

(* git checkout -- f *)
Discard(f) == f \in Dirty /\ Edited(f, commits[head][f], clock + 1) /\ Once("discard")

(* New bytes under an mtime of the past, the one the graph has stored included *)
Preserve(f) ==
    /\ f \in Present /\ Once("preserve")
    /\ \E m \in 1..clock : Edited(f, clock + 1, m)

Commit ==
    /\ IF Step("idle") THEN UNCHANGED happened ELSE Once("commit")
    /\ Dirty # {} /\ Len(commits) < MaxCommits
    /\ commits' = Append(commits, [f \in Files |-> tree[f].content])
    /\ head' = Len(commits) + 1
    /\ settled' = FALSE
    /\ UNCHANGED <<tree, clock, version, db, base, run>>

Upgrade ==
    /\ Step("idle") /\ Once("upgrade")
    /\ version' = version + 1
    /\ UNCHANGED <<tree, commits, head, clock, db, base, run, settled>>

----------------------------------------------------------------------------

(* A graph just built of a clean checkout *)
Init ==
    /\ clock = 1 /\ head = 1 /\ version = 1
    /\ tree = [f \in Files |-> [content |-> 1, mtime |-> 1]]
    /\ commits = <<[f \in Files |-> 1]>>
    /\ rows = [f \in Files |-> [hash |-> 1, mtime |-> 1, ver |-> 1]]
    /\ stamp = 1 /\ ext = 1
    /\ base = [p \in Updaters |-> 0]
    /\ run = Idle /\ settled = TRUE
    /\ happened = {}

Look(f) == StatFirst(f) \/ ReadAfter(f) \/ UseCached(f) \/ ReadFirst(f) \/ StatAfter(f)

Running ==
    \/ DiffBase \/ Status \/ Scope \/ Filter \/ Plan \/ Apply \/ StoreBatch
    \/ StampExtractors \/ StampHead \/ BuildStampHead \/ BuildStampExtractors
    \/ \E f \in Files : Look(f)

Editor == \E f \in Files : Write(f) \/ Touch(f) \/ Delete(f) \/ Discard(f) \/ Preserve(f)

Next ==
    \/ \E p \in Updaters : PeekBase(p) \/ NameBase(p) \/ StartUpdate(p)
    \/ StartBuild \/ Running
    \/ \E f \in Files : ReadFails(f)
    \/ Crash \/ Editor \/ Commit \/ Upgrade

Spec == Init /\ [][Next]_vars

(* A run goes on; updates are started again and again. *)
FairSpec ==
    /\ Spec /\ WF_vars(Running)
    /\ \A p \in Updaters : WF_vars(PeekBase(p)) /\ WF_vars(StartUpdate(p))

----------------------------------------------------------------------------
(* The answer of assess_graph_sync, which reads under the shared lock *)

(* classify_diff_tier: bytes are compared only where the mtime moved *)
Pending ==
    (Indexed \ Present)
        \cup {f \in Indexed \cap Present : ~MtimeMatches(f) /\ ~HashMatches(f)}
        \cup (Dirty \cap (Present \ Indexed))

Assessment ==
    CASE Indexed = {} -> "unbuilt"
      [] Indexed # {} /\ (stamp # head \/ ext # version) -> "commit_drift"
      [] Indexed # {} /\ stamp = head /\ ext = version /\ Pending # {} -> "worktree_behind"
      [] OTHER -> IF Dirty = {} THEN "commit_synced" ELSE "worktree_ahead"

----------------------------------------------------------------------------
(* Properties *)

Row == [hash : Nat, mtime : Nat, ver : Nat]

(* The state of the tree, of git, of the graph and of the stamps is well
   formed, and HEAD and the stamp name commits that exist. *)
TypeOK ==
    /\ tree \in [Files -> [content : Nat, mtime : Nat]]
    /\ commits \in Seq([Files -> Nat]) /\ head \in 1..Len(commits)
    /\ clock \in Nat /\ version \in Nat /\ ext \in Nat
    /\ rows \in [Files -> Row] /\ stamp \in 1..Len(commits)
    /\ base \in [Updaters -> 0..Len(commits)]
    /\ run.todo \subseteq Files /\ run.changed \subseteq Files
    /\ run.removed \subseteq Files /\ run.differs \subseteq Files
    /\ settled \in BOOLEAN /\ happened \subseteq Events

Fresh(f) == rows[f].hash = tree[f].content
InSync == \A f \in Files : Fresh(f)

Without(events) == happened \cap events = {}

(* Between runs, a file the graph has wrong is one the next update's diff,
   status or scope will name.  ("`diff base..HEAD` covers everything the graph
   misses", update.rs.)                                                      *)
NothingHidden ==
    Step("idle") => \A f \in Files : ~Fresh(f) =>
        f \in BaseDiff(stamp) \cup Dirty \cup (Indexed \ Present)

(* The stamp never hides a change, whatever crashed, was built or was given as
   --base, as long as no commit lands in a run, no indexed edit is discarded
   and every file can be read.  This is what diff_covers_graph_commit and the
   place of the HEAD stamp are for.                                          *)
StampHidesNothing == Without({"commit", "discard", "unreadable"}) => NothingHidden

(* An update that ran without errors over a tree that stood still leaves the
   graph equal to the tree, whatever crashed or raced before it; but for what
   an earlier run has hidden.  (settled asks one thing more of the run: its
   base covered the graph's commit, or it was a build.)                      *)
QuietUpdateConverges ==
    Step("idle") /\ settled /\ Without({"commit", "discard", "unreadable"}) => InSync

(* Under a current extractor stamp, a row that describes a file as it is was
   made by the current extractor, even when re-parsing was interrupted: such a
   row would never be parsed again, so update.rs stamps last.  (The exceptions:
   a file that could not be read while it was re-parsed, and one of another
   parser that was dirty when it was classified and discarded before the plan
   compared its hash.)                                                       *)
ExtractorStampHonest ==
    ext = version /\ Without({"unreadable", "discard"}) =>
        \A f \in Indexed : Fresh(f) => rows[f].ver = version

(* `dagayn status` never calls the graph synced or ahead while a file the
   Rust parser owns differs from it: an update stats before it reads, so the
   mtime of a row is never newer than its bytes.  The batches of whole files
   (a build, a re-parse, and every file of another parser) read first, so
   they are left out, and so is a rewrite that keeps the mtime: "Pass 1 treats
   an equal mtime as proof the bytes are unchanged" is the known gap of
   SESSION-GRAPH-FRESHNESS.md.  An update has no such gap: git names the file
   and its bytes are compared.                                               *)
AssessmentHonest ==
    /\ Step("idle") /\ Without({"build", "upgrade", "preserve"})
    /\ Assessment \in {"commit_synced", "worktree_ahead"}
    => \A f \in Owned \cap (Indexed \cup Dirty) : Fresh(f)

(* Once the tree is left alone, the graph catches up with it for good, through
   crashes, builds and lost bases.                                           *)
EventuallyInSync == <>[](Without({"commit", "discard", "unreadable"}) => InSync)

=============================================================================

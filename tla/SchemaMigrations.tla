-------------------------- MODULE SchemaMigrations --------------------------
(***************************************************************************)
(* GraphStore::open: the version check, the schema batch and the chain of  *)
(* migrations, statement by statement.  Every statement commits on its     *)
(* own, and the commands that only read open the graph under the shared    *)
(* lock, so several processes may migrate it at the same time.             *)
(*                                                                         *)
(* The schema is the set of its objects: tables, "table.column" and        *)
(* indexes.  The graph has nodes; the rows of the FTS table are "empty",   *)
(* "blank" (inserted by v13, without the generated columns) or "built".    *)
(***************************************************************************)
EXTENDS Naturals, Sequences, FiniteSets, Functions

CONSTANTS
    Openers,      \* processes that open the graph
    Latest,       \* [Openers -> Nat]: LATEST_VERSION of each one's binary
    From,         \* versions a graph may be found at
    Shared,       \* which locks opens happen under: a subset of BOOLEAN
    MaxOverlap,   \* bound on opens at a time
    MaxCrashes    \* bound on processes that die

LATEST_VERSION == 20

ASSUME SchemaAssumption ==
    /\ Latest \in [Openers -> 1..LATEST_VERSION]
    /\ From \subseteq 1..LATEST_VERSION
    /\ Shared \subseteq BOOLEAN /\ MaxOverlap \in Nat /\ MaxCrashes \in Nat

VARIABLES
    objects,   \* what sqlite_master and table_info list
    fts,       \* the rows of nodes_fts
    stale,     \* CROSS_ARTIFACT edges of before v12 are left
    unnamed,   \* edges without a target_name are left
    version,   \* metadata schema_version
    pc,        \* per process: closed, check, schema, plan, run, open, bulk, failed, refused
    round,     \* per process: the version it migrates to; LastRound: past the loop
    step,      \* per process: the statement of the round that is next
    half,      \* per process: that statement found something missing, to be made
    shared,    \* whether opens overlap (the shared lock), fixed at the start
    crashes

db == <<objects, fts, stale, unnamed, version>>
place == <<round, step, half>>
schemaVars == <<db, pc, place, shared, crashes>>

----------------------------------------------------------------------------
(* Statements *)

Create(objs, on) == [op |-> "create", objs |-> objs, on |-> on]  \* IF NOT EXISTS
DropAll(objs) == [op |-> "drop", objs |-> objs, on |-> {}]       \* IF EXISTS
Column(t, c) == [op |-> "column", objs |-> {c}, on |-> {t}]      \* if !has_column
Alter(t, c) == [op |-> "alter", objs |-> c, on |-> t]
Skip(t) == [op |-> "skip", objs |-> {}, on |-> {t}]              \* return unless t exists
Plain(op) == [op |-> op, objs |-> {}, on |-> {}]
SetVersion == Plain("version")                                   \* to the round's

Flows == {"flows", "flow_memberships"}
FlowIndexes == {"idx_flows_criticality", "idx_flows_entry", "idx_flow_memberships_node"}
FlowColumns == {"flows.kind", "flows.truncated", "flows.truncation_reason"}

(* Dropping a table takes its columns and indexes along. *)
Falls(objs) ==
    objs \cup (IF "flows" \in objs THEN FlowIndexes \cup FlowColumns ELSE {})
         \cup (IF "flow_memberships" \in objs THEN {"idx_flow_memberships_node"} ELSE {})

WRITE_INDEXES ==
    {"idx_nodes_kind", "idx_nodes_parent_name", "idx_nodes_community", "idx_edges_kind",
     "idx_edges_target_kind", "idx_edges_source_kind", "idx_edges_target_name_kind"}

SCHEMA_SQL ==
    {"nodes", "edges", "metadata", "idx_nodes_file", "idx_nodes_kind",
     "idx_nodes_parent_name", "idx_edges_kind", "idx_edges_target_kind",
     "idx_edges_source_kind", "idx_edges_file"}

(* Columns a table created by today's SCHEMA_SQL has from the start *)
FreshColumns ==
    {"nodes.mtime_ns", "edges.confidence", "edges.confidence_tier", "edges.target_name"}

----------------------------------------------------------------------------
(* The migrations *)

migrate_v2 == <<Column("nodes", "nodes.signature")>>
migrate_v3 ==
    <<Create(Flows, {}), Create(FlowIndexes, Flows)>>
migrate_v4 ==
    <<Create({"communities"}, {}), Column("nodes", "nodes.community_id"),
      Create({"idx_nodes_community", "idx_communities"},
             {"nodes.community_id", "communities"})>>
migrate_v5 == <<Plain("fts_table")>>
migrate_v6 ==
    <<Create({"community_summaries", "flow_snapshots", "risk_index"}, {}),
      Create({"idx_risk_index_score"}, {"risk_index"})>>
migrate_v7 == <<Create({"idx_edges_target_kind", "idx_edges_source_kind"}, {"edges"})>>
migrate_v8 == <<Create({"idx_edges_composite"}, {"edges"})>>
migrate_v9Blind ==         \* mutant: no has_column
    <<Alter({"edges"}, {"edges.confidence"}), Alter({"edges"}, {"edges.confidence_tier"})>>
migrate_v9 == <<Column("edges", "edges.confidence"), Column("edges", "edges.confidence_tier")>>
migrate_v10 == <<Create({"idx_nodes_parent_name"}, {"nodes"})>>
migrate_v11 == <<Column("nodes", "nodes.mtime_ns")>>
migrate_v12 == <<Plain("purge")>>
migrate_v13 ==
    <<DropAll({"nodes_fts"}), Plain("fts_create"), Plain("fts_fill")>>
migrate_v15 == <<Plain("fts_check")>>
migrate_v16 ==
    <<Skip("flows"), Column("flows", "flows.kind"), Column("flows", "flows.truncated"),
      Column("flows", "flows.truncation_reason")>>
migrate_v17 ==
    <<DropAll({"idx_edges_source", "idx_edges_target", "idx_nodes_qualified",
               "idx_edges_composite"})>>
migrate_v18 == <<DropAll({"flow_snapshots"}), DropAll({"flow_memberships"}), DropAll({"flows"})>>
migrate_v19 == <<DropAll({"hub_scores", "bridge_scores"})>>
migrate_v20 == <<DropAll({"community_summaries"})>>

Migration(v) ==
    CASE v = 2  -> migrate_v2  [] v = 3  -> migrate_v3  [] v = 4  -> migrate_v4
      [] v = 5  -> migrate_v5  [] v = 6  -> migrate_v6  [] v = 7  -> migrate_v7
      [] v = 8  -> migrate_v8  [] v = 9  -> migrate_v9  [] v = 10 -> migrate_v10
      [] v = 11 -> migrate_v11 [] v = 12 -> migrate_v12 [] v = 13 -> migrate_v13
      [] v = 15 -> migrate_v15 [] v = 16 -> migrate_v16 [] v = 17 -> migrate_v17
      [] v = 18 -> migrate_v18 [] v = 19 -> migrate_v19 [] v = 20 -> migrate_v20
      [] OTHER  -> <<>>

(* Mutant: the version is recorded before the migration ran. *)
StampedMigrationEarly(v) == <<SetVersion>> \o Migration(v)

(* One round of the loop of run_migrations *)
StampedMigration(v) == Migration(v) \o <<SetVersion>>

ensure_edge_target_name_column ==
    <<Column("edges", "edges.target_name"), Plain("backfill"),
      Create({"idx_edges_target_name_kind"}, {"edges.target_name"})>>

(* The rounds of run_migrations, and what follows its loop *)
LastRound == LATEST_VERSION + 1
Statements(w) == IF w = LastRound THEN ensure_edge_target_name_column ELSE StampedMigration(w)
RoundAfter(p, v) == IF v < Latest[p] THEN v + 1 ELSE LastRound

----------------------------------------------------------------------------
(* What a graph of version v holds: what each migration made and no later  *)
(* one dropped.                                                            *)

Made(w) ==
    CASE w = 1 -> {"nodes", "edges", "metadata"}
      [] w = 5 -> {"nodes_fts"}
      [] OTHER -> UNION {s.objs : s \in {t \in Range(Migration(w)) : t.op \in {"create", "column"}}}
Lost(w) ==
    (UNION {Falls(s.objs) : s \in {t \in Range(Migration(w)) : t.op = "drop"}}) \ {"nodes_fts"}
Holds(v) == {o \in UNION {Made(w) : w \in 1..v} :
                \A w \in 1..v : o \in Lost(w) => \E x \in (w + 1)..v : o \in Made(x)}

(* The schema an open store works with *)
Complete ==
    SCHEMA_SQL \cup WRITE_INDEXES \cup FreshColumns
        \cup {"nodes.signature", "nodes.community_id", "communities", "idx_communities",
              "nodes_fts", "risk_index", "idx_risk_index_score"}

----------------------------------------------------------------------------
(* Opening *)

Under(p) == pc[p] \in {"check", "schema", "plan", "run", "open", "bulk"}
Alone(p) == \A q \in Openers \ {p} : ~Under(q)
Become(p, a) == pc' = [pc EXCEPT ![p] = a]

Open(p) ==
    /\ pc[p] \in {"closed", "failed"}
    /\ \A q \in Openers : pc[q] # "bulk"
    /\ shared \/ Alone(p)
    /\ Cardinality({q \in Openers : Under(q)}) < MaxOverlap
    /\ Become(p, "check") /\ UNCHANGED <<db, place, shared, crashes>>

(* A newer graph is refused before anything is written. *)
CheckVersion(p) ==
    /\ pc[p] = "check"
    /\ Become(p, IF version > Latest[p] THEN "refused" ELSE "schema")
    /\ UNCHANGED <<db, place, shared, crashes>>

(* init_schema *)
InitSchema(p) ==
    /\ pc[p] = "schema"
    /\ objects' = objects \cup SCHEMA_SQL
                    \cup (IF "nodes" \in objects THEN {} ELSE FreshColumns)
    /\ Become(p, "plan") /\ UNCHANGED <<fts, stale, unnamed, version, place, shared, crashes>>

(* run_migrations reads the version once. *)
PlanMigrations(p) ==
    /\ pc[p] = "plan"
    /\ round' = [round EXCEPT ![p] = RoundAfter(p, version)]
    /\ step' = [step EXCEPT ![p] = 1]
    /\ Become(p, "run") /\ UNCHANGED <<db, half, shared, crashes>>

Running(p) == pc[p] = "run" /\ step[p] <= Len(Statements(round[p]))
Statement(p) == Statements(round[p])[step[p]]

(* What has_column, table_exists and fts_needs_rebuild_tx look for is not there. *)
Missing(s) ==
    \/ s.op \in {"column", "skip"} /\ ~((IF s.op = "skip" THEN s.on ELSE s.objs) \subseteq objects)
    \/ s.op = "fts_table" /\ "nodes_fts" \notin objects
    \/ s.op = "fts_check" /\ ("nodes_fts" \notin objects \/ fts # "built")

(* ... and is made by a statement of its own. *)
Repair(op) ==
    CASE op = "column" -> "alter" [] op = "fts_table" -> "fts_create"
      [] op = "fts_check" -> "fts_rebuild" [] OTHER -> op
Op(p) == IF half[p] THEN Repair(Statement(p).op) ELSE Statement(p).op

Probe(p) ==
    /\ Running(p) /\ ~half[p] /\ Missing(Statement(p)) /\ Statement(p).op # "skip"
    /\ half' = [half EXCEPT ![p] = TRUE]
    /\ UNCHANGED <<db, pc, round, step, shared, crashes>>

Succeeds(op, s) ==
    CASE op = "create" -> s.on \subseteq objects
      [] op = "alter" -> s.on \subseteq objects /\ s.objs \cap objects = {}
      [] op = "fts_create" -> "nodes_fts" \notin objects
      [] op = "fts_fill" -> "nodes_fts" \in objects /\ fts = "empty"
      [] OTHER -> TRUE

(* To the next statement or round; migrate_v16 may return at once. *)
Advance(p) ==
    LET n == Len(Statements(round[p]))
        skips == Statement(p).op = "skip" /\ Missing(Statement(p))
        ends == step[p] = n /\ round[p] # LastRound
    IN  /\ round' = [round EXCEPT ![p] = IF ends THEN RoundAfter(p, @) ELSE @]
        /\ step' = [step EXCEPT ![p] = IF ends THEN 1 ELSE IF skips THEN n ELSE @ + 1]
        /\ half' = [half EXCEPT ![p] = FALSE]

Exec(p) ==
    LET s == Statement(p)
        op == Op(p)
    IN  /\ Running(p) /\ Succeeds(op, s)
        /\ half[p] \/ s.op = "skip" \/ ~Missing(s)
        /\ objects' = CASE op \in {"create", "alter"} -> objects \cup s.objs
                        [] op = "drop" -> objects \ Falls(s.objs)
                        [] op \in {"fts_create", "fts_rebuild"} -> objects \cup {"nodes_fts"}
                        [] OTHER -> objects
        /\ fts' = CASE op = "drop" /\ "nodes_fts" \in s.objs -> "empty"
                    [] op = "fts_create" -> "empty"
                    [] op = "fts_fill" -> "blank"
                    [] op = "fts_rebuild" -> "built"
                    [] OTHER -> fts
        /\ stale' = (stale /\ op # "purge")
        /\ unnamed' = (unnamed /\ op # "backfill")
        /\ version' = IF op = "version" THEN round[p] ELSE version
        /\ Advance(p)
        /\ UNCHANGED <<pc, shared, crashes>>

(* Out of run_migrations *)
Leave(p, a) ==
    /\ Become(p, a)
    /\ round' = [round EXCEPT ![p] = LastRound]
    /\ step' = [step EXCEPT ![p] = 1]
    /\ half' = [half EXCEPT ![p] = FALSE]

(* A statement fails, and open with it. *)
Fail(p) ==
    /\ Running(p) /\ ~Succeeds(Op(p), Statement(p))
    /\ Leave(p, "failed") /\ UNCHANGED <<db, shared, crashes>>

Opened(p) ==
    /\ pc[p] = "run" /\ ~Running(p)
    /\ Leave(p, "open") /\ UNCHANGED <<db, shared, crashes>>

Close(p) ==
    /\ pc[p] \in {"open", "refused"}
    /\ Become(p, "closed") /\ UNCHANGED <<db, place, shared, crashes>>

----------------------------------------------------------------------------
(* The bulk load of a build, under the exclusive lock *)

begin_bulk_load(p) ==
    /\ pc[p] = "open" /\ Alone(p)
    /\ objects' = objects \ WRITE_INDEXES
    /\ Become(p, "bulk") /\ UNCHANGED <<fts, stale, unnamed, version, place, shared, crashes>>

finish_bulk_load(p) ==
    /\ pc[p] = "bulk"
    /\ objects' = objects \cup WRITE_INDEXES
    /\ Become(p, "open") /\ UNCHANGED <<fts, stale, unnamed, version, place, shared, crashes>>

Crash(p) ==
    /\ Under(p) /\ crashes < MaxCrashes
    /\ crashes' = crashes + 1
    /\ Leave(p, "closed") /\ UNCHANGED <<db, shared>>

----------------------------------------------------------------------------

(* A new file, or a graph an earlier dagayn left at one of the versions *)
SchemaInit ==
    /\ version \in From
    /\ \/ objects = {} /\ version = 1 /\ stale = FALSE /\ unnamed = FALSE
       \/ objects = Holds(version) /\ stale = (version < 12) /\ unnamed = TRUE
    /\ fts = IF version < 13 THEN "empty" ELSE IF version < 15 THEN "blank" ELSE "built"
    /\ pc = [p \in Openers |-> "closed"]
    /\ round = [p \in Openers |-> LastRound]
    /\ step = [p \in Openers |-> 1]
    /\ half = [p \in Openers |-> FALSE]
    /\ shared \in Shared /\ crashes = 0

SchemaNext == \E p \in Openers :
    \/ Open(p) \/ CheckVersion(p) \/ InitSchema(p) \/ PlanMigrations(p)
    \/ Probe(p) \/ Exec(p) \/ Fail(p) \/ Opened(p) \/ Close(p)
    \/ begin_bulk_load(p) \/ finish_bulk_load(p) \/ Crash(p)

SchemaSpec == SchemaInit /\ [][SchemaNext]_schemaVars

----------------------------------------------------------------------------
(* Properties *)

(* schema_version never promises more than is there: when no migration is
   under way, whatever raced, the tables and columns that the migrations up to
   it made and none of them dropped exist, the old edges are gone and the FTS
   rows are built, so that the migrations after it can run.  A crash leaves
   that true of opens that do not overlap; of two that do, the survivor may
   stamp past a table the other has dropped and not created again, and a binary
   older than v15 refills the table and never checks what it filled.  (Indexes
   are restored by other means.)                                             *)
Tables == {"nodes", "edges", "metadata", "communities", "risk_index", "nodes_fts",
           "nodes.signature", "nodes.community_id", "nodes.mtime_ns",
           "edges.confidence", "edges.confidence_tier"}
Needed(v) == (Holds(v) \cap Tables) \ (IF v < 13 THEN {"nodes_fts"} ELSE {})
VersionHonest ==
    objects # {} /\ (shared => crashes = 0) /\ (\A p \in Openers : pc[p] # "run") =>
        /\ Needed(version) \subseteq objects
        /\ version >= 12 => ~stale
        /\ version >= 15 => fts = "built"

(* Opens that do not overlap never fail, on a graph of any earlier version and
   whatever a crash cut short, and give a store with exactly the latest schema:
   nothing a migration dropped is left, edges are named, the FTS table is built
   and the indexes a bulk load dropped are back.  (All but idx_nodes_community,
   which is in neither SCHEMA_SQL nor a migration still to run.)             *)
OpensLatest ==
    ~shared => \A p \in Openers :
        /\ pc[p] # "failed"
        /\ pc[p] = "open" /\ Latest[p] = LATEST_VERSION =>
             /\ Complete \ {"idx_nodes_community"} \subseteq objects
             /\ objects \subseteq Complete
             /\ fts = "built" /\ ~stale /\ ~unnamed

=============================================================================

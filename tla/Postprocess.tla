----------------------------- MODULE Postprocess -----------------------------
(***************************************************************************)
(* The rows the graph derives from its nodes - signatures, the FTS index,  *)
(* manifest bridges, communities, the risk index, the recorded level - and *)
(* the runs that keep them: `dagayn build`, `dagayn update` and            *)
(* `dagayn postprocess`.  Every action is one transaction of the store; a  *)
(* run may die between two of them, and a pass may fail.                   *)
(*                                                                         *)
(* One node stands for the nodes of a file; which files a run finds edited,*)
(* touched or gone is chosen when it starts.  The edge resolvers of        *)
(* run_passes change edges only and are left out.                          *)
(***************************************************************************)
EXTENDS Naturals, FiniteSets

CONSTANTS
    Files,          \* paths of parsed files: numbers, in the order they are stored
    Clusters,       \* the groups of files that belong together
    Links,          \* pairs of files with an edge between them
    Fates,          \* what an update can find of a file
    Levels,         \* the post-processing levels in use
    Manifests,      \* whether the repository may have a manifest no parser reads
    Extractors,     \* whether extractor versions change between runs
    BulkThreshold,  \* BULK_LOAD_FILE_THRESHOLD
    MaxFound,       \* bound on the files an update finds changed
    MaxRuns,        \* bound on runs
    MaxFaults       \* bound on passes that fail and processes that die

ASSUME PostprocessAssumption ==
    /\ Files \subseteq Nat \ {0} /\ IsFiniteSet(Files)
    /\ Clusters \subseteq SUBSET Files
    /\ Links \subseteq Files \X Files
    /\ Fates \subseteq {"edited", "touched", "deleted", "unscoped"}
    /\ Levels \subseteq {"none", "minimal", "full"}
    /\ Manifests \subseteq BOOLEAN /\ Extractors \in BOOLEAN
    /\ BulkThreshold \in Nat /\ MaxFound \in Nat
    /\ MaxRuns \in Nat /\ MaxFaults \in Nat

VARIABLES
    manifest,   \* whether the repository has such a manifest, fixed at the start
    nodes,      \* per file: its node, Gone when the file is not in the graph
    bridge,     \* the File node of the manifest, Gone when there is none
    lastId,     \* nodes: the AUTOINCREMENT sequence
    fts,        \* nodes_fts: rowid and whether a signature is indexed
    watermark,  \* metadata fts_indexed_node_count
    comms,      \* ids in communities
    lastComm,   \* communities: the AUTOINCREMENT sequence
    risk,       \* node ids in risk_index
    level,      \* metadata postprocess_level
    run,        \* the run under way, or the last one
    faults      \* failures and crashes so far

graph == <<nodes, bridge, lastId>>
index == <<fts, watermark>>
community == <<comms, lastComm>>
vars == <<manifest, graph, index, community, risk, level, run, faults>>

MIN_COMMUNITY_SIZE == 2
ManifestPath == 0              \* a path with a name of MANIFEST_FILENAMES

Gone == [id |-> 0, sig |-> FALSE, comm |-> 0]
Indexed == {f \in Files : nodes[f] # Gone}
NodeIds == {nodes[f].id : f \in Indexed}
LiveIds == NodeIds \cup ({bridge.id} \ {0})
FtsIds == {row.id : row \in fts}
Row(n) == [id |-> n.id, sig |-> n.sig]
Least(S) == CHOOSE x \in S : \A y \in S : x <= y

----------------------------------------------------------------------------
(* FTS rows *)

(* delete_fts_for_file_paths_tx: the rows are found through the nodes *)
delete_fts_for_file_paths(rows, ns) == {row \in rows : row.id \notin {n.id : n \in ns}}

(* Mutant: the rows are deleted and not written again *)
sync_fts_delete_only(rows, ns) == delete_fts_for_file_paths(rows, ns)

(* sync_fts_for_file_paths_tx, over the nodes of the paths *)
sync_fts_for_file_paths(rows, ns) ==
    delete_fts_for_file_paths(rows, ns) \cup {Row(n) : n \in ns}

(* The FTS pass of run_passes: a sync for the changed files, or a rebuild *)
NodesAt(paths) == {nodes[f] : f \in Indexed \cap paths}
    \cup {n \in {bridge} : n # Gone /\ ManifestPath \in paths}

rebuild_fts_index == {Row(n) : n \in NodesAt(Files \cup {ManifestPath})}

----------------------------------------------------------------------------
(* Communities *)

(* The clusters detection finds among fs: Leiden's answer *)
detect_communities(fs) ==
    {c \in {fs \cap k : k \in Clusters} : Cardinality(c) >= MIN_COMMUNITY_SIZE}

affected_community_id_set(fs) == {nodes[f].comm : f \in Indexed \cap fs} \ {0}

count_affected_communities(fs) ==
    LET ids == affected_community_id_set(fs) IN
    IF ids # {} THEN Cardinality(ids)
    ELSE IF comms # {} /\ \E f \in Indexed \cap fs : nodes[f].comm = 0 THEN 1
    ELSE 0

expand_neighbor_community_ids(ids) ==
    ids \cup ({nodes[f].comm : f \in {g \in Indexed : \E h \in Indexed :
                  /\ <<g, h>> \in Links \/ <<h, g>> \in Links
                  /\ nodes[h].comm \in ids}} \ {0})

InCommunities(ids) == {f \in Indexed : nodes[f].comm \in ids}

(* community_region_ids; {} is None: the region is empty or more than half *)
community_region_ids(fs) ==
    LET ids == expand_neighbor_community_ids(affected_community_id_set(fs)) IN
    IF affected_community_id_set(fs) = {}
       \/ 2 * Cardinality(InCommunities(ids)) > Cardinality(Indexed)
    THEN {} ELSE ids

(* Communities `old` replaced by the clusters `found`, stored in the order of
   their first member: store_communities_json and replace_communities *)
replace_communities(old, found) ==
    LET id(c) == lastComm + Cardinality({d \in found : Least(d) <= Least(c)})
        own(f) == {c \in found : f \in c}
    IN  /\ nodes' = [f \in Files |->
               IF own(f) # {}
               THEN [nodes[f] EXCEPT !.comm = id(CHOOSE c \in found : f \in c)]
               ELSE IF nodes[f].comm \in old THEN [nodes[f] EXCEPT !.comm = 0]
               ELSE nodes[f]]
        /\ comms' = (comms \ old) \cup {id(c) : c \in found}
        /\ lastComm' = lastComm + Cardinality(found)

(* Every community from scratch: all rows go, all nodes are cleared *)
store_communities ==
    replace_communities(comms \cup {nodes[f].comm : f \in Files},
                        detect_communities(Indexed))

incremental_detect_communities ==
    LET fs == run.changed \ {ManifestPath}
        affected == IF run.pre # 0 THEN run.pre ELSE count_affected_communities(fs)
        region == community_region_ids(fs)
    IN  IF run.changed = {} \/ affected = 0 THEN UNCHANGED <<nodes, community>>
        ELSE IF region = {} THEN store_communities
        ELSE replace_communities(region, detect_communities(InCommunities(region)))

----------------------------------------------------------------------------
(* Runs *)

Idle == run.pc = "idle"
At(pc) == run.pc = pc
Go(pc) == run' = [run EXCEPT !.pc = pc]

NoRun == [pc |-> "idle", kind |-> "build", level |-> "none", changed |-> {},
          parse |-> {}, remove |-> {}, pre |-> 0, bulk |-> FALSE,
          passes |-> {}, clean |-> FALSE, n |-> 0]

Init ==
    /\ manifest \in Manifests
    /\ nodes = [f \in Files |-> Gone] /\ bridge = Gone /\ lastId = 0
    /\ fts = {} /\ watermark = 0
    /\ comms = {} /\ lastComm = 0 /\ risk = {} /\ level = "unset"
    /\ run = NoRun /\ faults = 0

(* The passes of each level, and of `dagayn postprocess` *)
PassesOf(l) ==
    CASE l = "none" -> {}
      [] l = "minimal" -> {"signatures", "fts", "manifest", "prune", "level"}
      [] l = "full" -> {"signatures", "fts", "manifest", "communities",
                        "summaries", "prune", "level"}

(* Mutant: the index is synced before the signatures are computed *)
PassOrderFtsFirst == <<"fts", "signatures", "manifest", "communities",
                       "summaries", "prune", "level">>

PassOrder == <<"signatures", "fts", "manifest", "communities", "summaries",
               "prune", "level">>

(* The next pass of the run after position i, idle after the last *)
NextPass(passes, i) ==
    LET left == {j \in 1..7 : j > i /\ PassOrder[j] \in passes}
    IN  IF left = {} THEN "idle" ELSE PassOrder[Least(left)]

PassAfter(pc) == NextPass(run.passes, CHOOSE j \in 1..7 : PassOrder[j] = pc)

MayStart == Idle /\ run.n < MaxRuns

(* full_build: the files in the graph that are gone from disk are removed, the
   manifest's node among them because no parser reads it, all others parsed *)
full_build(l, present) ==
    /\ MayStart
    /\ run' = [NoRun EXCEPT !.pc = "remove", !.kind = "build", !.level = l,
                   !.parse = present, !.remove = (Indexed \ present) \cup {ManifestPath},
                   !.bulk = TRUE, !.passes = PassesOf(l), !.clean = TRUE,
                   !.n = run.n + 1]
    /\ UNCHANGED <<manifest, graph, index, community, risk, level, faults>>

(* incremental_update: `fate` says what the diff and the scope find.  Edited
   files are listed and parsed, touched ones listed only, deleted ones listed
   and removed, unscoped ones removed unlisted; an extractor that changed has
   every indexed file parsed.  The affected communities are counted before the
   pipeline runs; nothing found ends the run, nothing but touched files skips
   post-processing.                                                          *)
incremental_update(l, fate, touchManifest, outdated) ==
    LET of(k) == {f \in DOMAIN fate : fate[f] = k}
        gone == of("deleted") \cup of("unscoped")
        changed == of("edited") \cup of("touched") \cup of("deleted")
                   \cup IF touchManifest THEN {ManifestPath} ELSE {}
        parse == of("edited") \cup IF outdated THEN Indexed \ gone ELSE {}
    IN  /\ MayStart
        /\ gone \cup of("touched") \subseteq Indexed
        /\ run' = [NoRun EXCEPT !.pc = IF changed \cup parse \cup gone = {}
                                       THEN "idle" ELSE "remove",
                       !.kind = "update", !.level = l,
                       !.changed = changed, !.parse = parse, !.remove = gone,
                       !.pre = count_affected_communities(changed \ {ManifestPath}),
                       !.bulk = Cardinality(parse) >= BulkThreshold,
                       !.passes = IF parse \cup gone # {} \/ touchManifest
                                  THEN PassesOf(l) ELSE {},
                       !.clean = TRUE, !.n = run.n + 1]
        /\ UNCHANGED <<manifest, graph, index, community, risk, level, faults>>

(* rerun_postprocess *)
rerun_postprocess(parts) ==
    /\ MayStart
    /\ run' = [NoRun EXCEPT !.pc = "signatures", !.kind = "rerun",
                   !.passes = {"signatures"} \cup parts,
                   !.clean = TRUE, !.n = run.n + 1]
    /\ UNCHANGED <<manifest, graph, index, community, risk, level, faults>>

(* Mutant: rows keyed on the removed nodes stay *)
remove_files_data_rows_only ==
    /\ At("remove")
    /\ fts' = delete_fts_for_file_paths(fts, NodesAt(run.remove))
    /\ nodes' = [f \in Files |-> IF f \in run.remove THEN Gone ELSE nodes[f]]
    /\ bridge' = IF ManifestPath \in run.remove THEN Gone ELSE bridge
    /\ watermark' = Cardinality(fts')
    /\ Go(IF run.parse # {} THEN "store" ELSE NextPass(run.passes, 0))
    /\ UNCHANGED <<manifest, lastId, community, risk, level, faults>>

(* remove_files_data: FTS rows, node-keyed rows, nodes, then the watermark *)
remove_files_data ==
    /\ At("remove")
    /\ LET old == NodesAt(run.remove) IN
       /\ fts' = delete_fts_for_file_paths(fts, old)
       /\ risk' = risk \ {n.id : n \in old}
    /\ nodes' = [f \in Files |-> IF f \in run.remove THEN Gone ELSE nodes[f]]
    /\ bridge' = IF ManifestPath \in run.remove THEN Gone ELSE bridge
    /\ watermark' = Cardinality(fts')
    /\ Go(IF run.parse # {} THEN "store" ELSE NextPass(run.passes, 0))
    /\ UNCHANGED <<manifest, lastId, community, level, faults>>

(* Mutant: the AUTOINCREMENT sequence is not advanced *)
store_file_batch_reused_id ==
    LET f == Least(run.parse)
        new == [id |-> lastId + 1, sig |-> FALSE, comm |-> 0]
    IN  /\ At("store") /\ run.parse # {}
        /\ nodes' = [nodes EXCEPT ![f] = new]
        /\ fts' = delete_fts_for_file_paths(fts, NodesAt({f})) \cup {Row(new)}
        /\ watermark' = watermark
        /\ run' = [run EXCEPT !.parse = @ \ {f}]
        /\ UNCHANGED <<manifest, bridge, lastId, community, risk, level, faults>>

(* store_file_batch: a file's rows replaced, its node under a new id and not
   yet signed; the watermark waits for the end of a bulk load               *)
store_file_batch ==
    LET f == Least(run.parse)
        old == NodesAt({f})
        new == [id |-> lastId + 1, sig |-> FALSE, comm |-> 0]
    IN  /\ At("store") /\ run.parse # {}
        /\ nodes' = [nodes EXCEPT ![f] = new]
        /\ lastId' = lastId + 1
        /\ fts' = delete_fts_for_file_paths(fts, old) \cup {Row(new)}
        /\ risk' = risk \ {n.id : n \in old}
        /\ watermark' = IF run.bulk THEN watermark ELSE Cardinality(fts')
        /\ run' = [run EXCEPT !.parse = @ \ {f},
                       !.pc = IF run.parse = {f} /\ ~run.bulk
                              THEN NextPass(run.passes, 0) ELSE "store"]
        /\ UNCHANGED <<manifest, bridge, community, level, faults>>

finish_bulk_load ==
    /\ At("store") /\ run.parse = {}
    /\ watermark' = Cardinality(fts)
    /\ Go(NextPass(run.passes, 0))
    /\ UNCHANGED <<manifest, graph, fts, community, risk, level, faults>>

compute_missing_signatures ==
    /\ At("signatures")
    /\ nodes' = [f \in Files |-> IF f \in Indexed THEN [nodes[f] EXCEPT !.sig = TRUE]
                                 ELSE Gone]
    /\ bridge' = IF bridge = Gone THEN Gone ELSE [bridge EXCEPT !.sig = TRUE]
    /\ Go(PassAfter("signatures"))
    /\ UNCHANGED <<manifest, lastId, index, community, risk, level, faults>>

fts_pass ==
    /\ At("fts")
    /\ fts' = IF run.changed = {} THEN rebuild_fts_index
              ELSE sync_fts_for_file_paths(fts, NodesAt(run.changed))
    /\ watermark' = Cardinality(fts')
    /\ Go(PassAfter("fts"))
    /\ UNCHANGED <<manifest, graph, community, risk, level, faults>>

(* replace_manifest_bridges, unless an update listed files and no manifest:
   the extractor's nodes go, with a new id comes the one discovered, and the
   FTS rows of its path are synced                                           *)
should_scan_manifests == run.changed = {} \/ ManifestPath \in run.changed

replace_manifest_bridges ==
    LET new == [id |-> lastId + 1, sig |-> FALSE, comm |-> 0]
    IN  /\ At("manifest")
        /\ IF manifest /\ should_scan_manifests
           THEN /\ bridge' = new /\ lastId' = lastId + 1
                /\ fts' = sync_fts_for_file_paths(fts, {new})
                /\ watermark' = Cardinality(fts')
           ELSE UNCHANGED <<bridge, lastId, index>>
        /\ Go(PassAfter("manifest"))
        /\ UNCHANGED <<manifest, nodes, community, risk, level, faults>>

detect ==
    /\ At("communities")
    /\ IF run.kind = "update" THEN incremental_detect_communities
       ELSE store_communities
    /\ Go(PassAfter("communities"))
    /\ UNCHANGED <<manifest, bridge, lastId, index, risk, level, faults>>

(* The risk index from scratch, in one transaction *)
compute_risk_index == risk' = NodeIds

(* A database error rolls it back and is swallowed: no warning is recorded. *)
compute_summaries ==
    /\ At("summaries")
    /\ compute_risk_index \/ UNCHANGED risk
    /\ Go(PassAfter("summaries"))
    /\ UNCHANGED <<manifest, graph, index, community, level, faults>>

(* Mutant: only the risk index is swept *)
prune_orphans_risk_only ==
    /\ At("prune")
    /\ risk' = risk \cap LiveIds
    /\ Go(PassAfter("prune"))
    /\ UNCHANGED <<manifest, graph, index, community, level, faults>>

(* prune_orphaned_graph_structures: communities without members, risk rows
   without nodes                                                            *)
prune_orphans ==
    /\ At("prune")
    /\ comms' = comms \cap {nodes[f].comm : f \in Indexed}
    /\ risk' = risk \cap LiveIds
    /\ Go(PassAfter("prune"))
    /\ UNCHANGED <<manifest, graph, index, lastComm, level, faults>>

record_level ==
    /\ At("level")
    /\ level' = run.level
    /\ Go("idle")
    /\ UNCHANGED <<manifest, graph, index, community, risk, faults>>

(* record_step: a failed pass is a warning and the next one still runs; in
   rerun_postprocess, and in the writes before the passes, it ends the run   *)
FailPass ==
    /\ faults < MaxFaults
    /\ run.kind # "rerun"
    /\ \E i \in 1..6 : At(PassOrder[i])
    /\ run' = [run EXCEPT !.pc = PassAfter(run.pc), !.clean = FALSE]
    /\ faults' = faults + 1
    /\ UNCHANGED <<manifest, graph, index, community, risk, level>>

(* The process dies, or an error ends the run *)
Abort ==
    /\ faults < MaxFaults
    /\ ~Idle
    /\ run' = [run EXCEPT !.pc = "idle", !.clean = FALSE]
    /\ faults' = faults + 1
    /\ UNCHANGED <<manifest, graph, index, community, risk, level>>

Start ==
    \/ \E l \in Levels, present \in SUBSET Files :
         /\ Cardinality(Files \ present) <= MaxFound
         /\ full_build(l, present)
    \/ \E l \in Levels, fs \in SUBSET Files, outdated \in {FALSE, Extractors},
          touch \in {FALSE, manifest} :
         /\ run.n > 0 /\ Cardinality(fs) <= MaxFound
         /\ outdated => fs = {} /\ ~touch
         /\ \E fate \in [fs -> Fates] : incremental_update(l, fate, touch, outdated)
    \/ \E parts \in SUBSET {"fts", "communities"} : rerun_postprocess(parts)

Step ==
    \/ remove_files_data \/ store_file_batch \/ finish_bulk_load
    \/ compute_missing_signatures \/ fts_pass \/ replace_manifest_bridges
    \/ detect \/ compute_summaries \/ prune_orphans \/ record_level

Next == Start \/ Step \/ FailPass \/ Abort

Spec == Init /\ [][Next]_vars
----------------------------------------------------------------------------
(* Properties *)

(* Ids come from the sequences, and every row is well formed. *)
TypeOK ==
    /\ nodes \in [Files -> [id : 0..lastId, sig : BOOLEAN, comm : 0..lastComm]]
    /\ bridge \in [id : 0..lastId, sig : BOOLEAN, comm : {0}]
    /\ fts \subseteq [id : 1..lastId, sig : BOOLEAN]
    /\ watermark \in 0..lastId
    /\ comms \subseteq 1..lastComm /\ risk \subseteq 1..lastId
    /\ level \in {"unset", "none", "minimal", "full"}
    /\ run.parse \subseteq Files /\ run.changed \subseteq Files \cup {ManifestPath}
    /\ faults \in 0..MaxFaults

(* Every node is in the FTS index at every moment, whatever pass failed and
   wherever a run died: store_file_batch and replace_manifest_bridges index
   what they insert in the transaction that inserts it.  And no parsed node
   leaves a row behind: without manifest bridges, whose replaced nodes do, the
   index holds exactly the nodes.                                            *)
IndexCurrent ==
    /\ LiveIds \subseteq FtsIds
    /\ ~manifest => FtsIds = LiveIds

(* A node's community exists, and a risk row's node: re-parses, removals and
   the partial replacement of communities leave no dangling reference.  The
   comment of prune.rs says that every re-parse orphans risk rows and that
   nothing but the sweep removes them; remove_files_data and store_file_batch
   delete them with the nodes they belong to.                                *)
ReferencesLive ==
    /\ {nodes[f].comm : f \in Indexed} \subseteq comms \cup {0}
    /\ risk \subseteq NodeIds

(* The signatures are indexed with the nodes: a run at minimal or full that
   reported no warning leaves every file it was told of - all of them when it
   rebuilt the index - under its signature, although the store wrote its FTS
   rows before there was one.                                                *)
ToldOf == IF run.changed = {} THEN Files ELSE run.changed
SignaturesIndexed ==
    Idle /\ run.clean /\ "fts" \in run.passes =>
        \A f \in Indexed \cap ToldOf :
            nodes[f].sig /\ [id |-> nodes[f].id, sig |-> TRUE] \in fts

(* After such a run no community is empty and the watermark counts the index. *)
Pruned ==
    Idle /\ run.clean /\ "prune" \in run.passes =>
        /\ comms = {nodes[f].comm : f \in Indexed} \ {0}
        /\ watermark = Cardinality(fts)

=============================================================================

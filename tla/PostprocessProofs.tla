-------------------------- MODULE PostprocessProofs --------------------------
(***************************************************************************)
(* Post-processing for every set of files, clusters, links and runs, and   *)
(* any number of failed passes and dead processes: the FTS index holds     *)
(* every node, no reference dangles, and a run that reports no warning     *)
(* leaves signatures, communities and watermark as promised.               *)
(***************************************************************************)
EXTENDS Postprocess, TLAPS, FiniteSetTheorems, FunctionTheorems, NaturalsInduction,
        WellFoundedInduction

Passes == {"signatures", "fts", "manifest", "communities", "summaries", "prune", "level"}

Runs ==
    [pc : {"idle", "remove", "store"} \cup Passes, kind : {"build", "update", "rerun"},
     level : {"none", "minimal", "full"}, changed : SUBSET (Files \cup {ManifestPath}),
     parse : SUBSET Files, remove : SUBSET (Files \cup {ManifestPath}), pre : Nat,
     bulk : BOOLEAN, passes : SUBSET Passes, clean : BOOLEAN, n : Nat]

Typed ==
    /\ lastId \in Nat /\ lastComm \in Nat /\ manifest \in BOOLEAN
    /\ nodes \in [Files -> [id : 0..lastId, sig : BOOLEAN, comm : 0..lastComm]]
    /\ bridge \in [id : 0..lastId, sig : BOOLEAN, comm : {0}]
    /\ fts \subseteq [id : 1..lastId, sig : BOOLEAN]
    /\ watermark \in 0..lastId
    /\ comms \subseteq 1..lastComm /\ risk \subseteq 1..lastId
    /\ level \in {"unset", "none", "minimal", "full"}
    /\ run \in Runs /\ faults \in 0..MaxFaults

(* A node's id is its own, and 0 is nobody's; only a repository with a manifest
   has a bridge.                                                             *)
Keyed ==
    /\ \A f \in Indexed : nodes[f].id # 0 /\ nodes[f].id # bridge.id
    /\ \A f, g \in Indexed : nodes[f].id = nodes[g].id => f = g
    /\ bridge # Gone => manifest /\ bridge.id # 0

(* nodes_fts has one row per rowid *)
OneRow == \A r, s \in fts : r.id = s.id => r = s

(* The passes of a run: one that syncs the index computes signatures first *)
Planned == "fts" \in run.passes => "signatures" \in run.passes

PastSignatures == {"fts", "manifest", "communities", "summaries", "prune", "level", "idle"}
PastFts == PastSignatures \ {"fts"}

(* A run without a warning has done what the passes behind it do *)
Signed ==
    run.clean /\ "fts" \in run.passes /\ run.pc \in PastSignatures =>
        \A f \in Indexed : nodes[f].sig
Synced ==
    run.clean /\ "fts" \in run.passes /\ run.pc \in PastFts =>
        \A f \in Indexed \cap ToldOf : [id |-> nodes[f].id, sig |-> TRUE] \in fts
Swept ==
    run.clean /\ "prune" \in run.passes /\ run.pc \in {"level", "idle"} =>
        comms = {nodes[f].comm : f \in Indexed} \ {0}
Counted ==
    run.clean /\ "prune" \in run.passes /\ run.pc \notin {"remove", "store"} =>
        watermark = Cardinality(fts)

Rows == Typed /\ Keyed /\ OneRow /\ IndexCurrent /\ ReferencesLive
Phases == Planned /\ Signed /\ Synced /\ Swept /\ Counted

(* The inductive invariant *)
IInv == Rows /\ Phases

----------------------------------------------------------------------------
(* The model's operators *)

(* Least is the least *)
LEMMA LeastIs ==
    ASSUME NEW S, S \subseteq Nat, S # {}
    PROVE  Least(S) \in S /\ \A y \in S : Least(S) <= y
<1>1. PICK x \in S : \A y \in S : ~(<<y, x>> \in OpToRel(<, Nat))
  BY NatLessThanWellFounded, WFMin
<1>2. \A y \in S : ~(y < x)
  BY <1>1 DEF OpToRel
<1>3. \A y \in S : x <= y
  BY <1>2
<1> QED BY <1>3 DEF Least

(* The order of the passes: none is skipped on the way, and the last one ends
   the run                                                                   *)
LEMMA NextPassIs ==
    ASSUME NEW passes \in SUBSET Passes, NEW i \in 0..7
    PROVE  /\ NextPass(passes, i) \in passes \cup {"idle"}
           /\ i = 0 /\ "signatures" \in passes => NextPass(passes, i) = "signatures"
           /\ i = 1 /\ "fts" \in passes => NextPass(passes, i) = "fts"
           /\ i >= 1 => NextPass(passes, i) # "signatures"
           /\ i >= 2 => NextPass(passes, i) # "fts"
           /\ i <= 5 /\ "prune" \in passes => NextPass(passes, i) \notin {"level", "idle"}
<1> DEFINE left == {j \in 1..7 : j > i /\ PassOrder[j] \in passes}
<1>1. /\ PassOrder[1] = "signatures" /\ PassOrder[2] = "fts" /\ PassOrder[3] = "manifest"
      /\ PassOrder[4] = "communities" /\ PassOrder[5] = "summaries"
      /\ PassOrder[6] = "prune" /\ PassOrder[7] = "level"
  BY DEF PassOrder
<1>2. CASE left = {}
  <2>1. NextPass(passes, i) = "idle"
    BY <1>2 DEF NextPass
  <2>2. "idle" \notin Passes
    BY DEF Passes
  <2>3. i = 0 => "signatures" \notin passes
    BY <1>1, <1>2
  <2>4. i <= 1 => "fts" \notin passes
    BY <1>1, <1>2
  <2>5. i <= 5 => "prune" \notin passes
    BY <1>1, <1>2
  <2> QED BY <2>1, <2>2, <2>3, <2>4, <2>5
<1>3. CASE left # {}
  <2> DEFINE m == Least(left)
  <2>1. m \in left /\ \A y \in left : m <= y
    BY <1>3, LeastIs
  <2>2. NextPass(passes, i) = PassOrder[m]
    BY <1>3 DEF NextPass
  <2> HIDE DEF m
  <2>3. m \in 1..7 /\ m > i /\ PassOrder[m] \in passes
    BY <2>1
  <2>4. i = 0 /\ "signatures" \in passes => m = 1
    BY <1>1, <2>1, <2>3
  <2>5. i = 1 /\ "fts" \in passes => m = 2
    BY <1>1, <2>1, <2>3
  <2>6. i <= 5 /\ "prune" \in passes => m <= 6
    BY <1>1, <2>1, <2>3
  <2> HIDE DEF left
  <2>7. m \in {1, 2, 3, 4, 5, 6, 7}
    BY <2>3
  <2> QED BY <1>1, <2>2, <2>3, <2>4, <2>5, <2>6, <2>7
<1> QED BY <1>2, <1>3

(* Where the run goes after each pass *)
LEMMA PassAfterIs ==
    /\ PassAfter("signatures") = NextPass(run.passes, 1)
    /\ PassAfter("fts") = NextPass(run.passes, 2)
    /\ PassAfter("manifest") = NextPass(run.passes, 3)
    /\ PassAfter("communities") = NextPass(run.passes, 4)
    /\ PassAfter("summaries") = NextPass(run.passes, 5)
    /\ PassAfter("prune") = NextPass(run.passes, 6)
<1>1. /\ PassOrder[1] = "signatures" /\ PassOrder[2] = "fts" /\ PassOrder[3] = "manifest"
      /\ PassOrder[4] = "communities" /\ PassOrder[5] = "summaries"
      /\ PassOrder[6] = "prune" /\ PassOrder[7] = "level"
  BY DEF PassOrder
<1>2. \A j \in 1..7 : j \in {1, 2, 3, 4, 5, 6, 7}
  OBVIOUS
<1> DEFINE At7(pc) == CHOOSE j \in 1..7 : PassOrder[j] = pc
<1>3. At7("signatures") = 1
  BY <1>1, <1>2
<1>4. At7("fts") = 2
  BY <1>1, <1>2
<1>5. At7("manifest") = 3
  BY <1>1, <1>2
<1>6. At7("communities") = 4
  BY <1>1, <1>2
<1>7. At7("summaries") = 5
  BY <1>1, <1>2
<1>8. At7("prune") = 6
  BY <1>1, <1>2
<1> QED BY <1>3, <1>4, <1>5, <1>6, <1>7, <1>8 DEF PassAfter

(* One row per id: the index is no larger than the sequence *)
LEMMA IndexSize ==
    ASSUME NEW n \in Nat, NEW rows, rows \subseteq [id : 1..n, sig : BOOLEAN],
           \A r, q \in rows : r.id = q.id => r = q
    PROVE  IsFiniteSet(rows) /\ Cardinality(rows) \in 0..n
<1> DEFINE key == [r \in rows |-> r.id]
<1>1. key \in [rows -> 1..n] /\ \A r, q \in rows : key[r] = key[q] => r = q
  OBVIOUS
<1>2. key \in Injection(rows, 1..n)
  BY <1>1, Fun_IsInj
<1> HIDE DEF key
<1>3. IsFiniteSet(1..n) /\ Cardinality(1..n) = n
  BY FS_Interval
<1>4. IsFiniteSet(rows) /\ Cardinality(rows) <= n
  BY <1>2, <1>3, FS_Injection
<1>5. Cardinality(rows) \in Nat
  BY <1>4, FS_CardinalityType
<1> QED BY <1>4, <1>5

(* Rows of nodes with ids of their own *)
LEMMA DeleteSync ==
    ASSUME OneRow, NEW ns, \A m, n \in ns : m.id = n.id => m = n
    PROVE  /\ \A r, q \in delete_fts_for_file_paths(fts, ns) : r.id = q.id => r = q
           /\ \A r, q \in sync_fts_for_file_paths(fts, ns) : r.id = q.id => r = q
           /\ {r.id : r \in delete_fts_for_file_paths(fts, ns)} = FtsIds \ {n.id : n \in ns}
           /\ {r.id : r \in sync_fts_for_file_paths(fts, ns)} = FtsIds \cup {n.id : n \in ns}
<1> DEFINE d == delete_fts_for_file_paths(fts, ns)
           y == sync_fts_for_file_paths(fts, ns)
<1>1. d \subseteq fts /\ \A r \in fts : r \in d <=> \A n \in ns : r.id # n.id
  BY DEF delete_fts_for_file_paths
<1>2. \A r : r \in y <=> r \in d \/ \E n \in ns : r = Row(n)
  BY DEF sync_fts_for_file_paths
<1>3. \A n : Row(n).id = n.id
  BY DEF Row
<1> HIDE DEF d, y
<1>4. \A r, q \in d : r.id = q.id => r = q
  BY <1>1 DEF OneRow
<1>5. \A r, q \in y : r.id = q.id => r = q
  BY <1>1, <1>2, <1>3, <1>4
<1>6. {r.id : r \in d} = FtsIds \ {n.id : n \in ns}
  BY <1>1 DEF FtsIds
<1>7. {r.id : r \in y} = FtsIds \cup {n.id : n \in ns}
  BY <1>2, <1>3, <1>6
<1> QED BY <1>4, <1>5, <1>6, <1>7 DEF d, y

(* The nodes of some paths, told apart by their ids *)
LEMMA NodesAtIds ==
    ASSUME Typed, Keyed, NEW paths, paths \subseteq Files \cup {ManifestPath}
    PROVE  /\ \A m, n \in NodesAt(paths) : m.id = n.id => m = n
           /\ \A n \in NodesAt(paths) :
                n.id \in LiveIds /\ n.id \in 1..lastId /\ n.sig \in BOOLEAN
           /\ \A f \in Indexed : nodes[f].id \in {n.id : n \in NodesAt(paths)} <=> f \in paths
           /\ bridge.id \in {n.id : n \in NodesAt(paths)}
                <=> bridge # Gone /\ ManifestPath \in paths
<1>1. \A n : n \in NodesAt(paths) <=>
        \/ \E f \in Indexed : f \in paths /\ n = nodes[f]
        \/ n = bridge /\ bridge # Gone /\ ManifestPath \in paths
  BY DEF NodesAt
<1>2. /\ \A f \in Indexed : nodes[f].id # 0 /\ nodes[f].id # bridge.id
      /\ \A f, g \in Indexed : nodes[f].id = nodes[g].id => f = g
      /\ bridge # Gone => bridge.id # 0
      /\ \A f \in Indexed : f \in Files
      /\ \A f \in Files : nodes[f].id \in 0..lastId /\ nodes[f].sig \in BOOLEAN
      /\ bridge.id \in 0..lastId /\ bridge.sig \in BOOLEAN /\ lastId \in Nat
  BY DEF Typed, Keyed, Indexed
<1>3. \A m, n \in NodesAt(paths) : m.id = n.id => m = n
  BY <1>1, <1>2
<1>4. \A n \in NodesAt(paths) :
        n.id \in LiveIds /\ n.id \in 1..lastId /\ n.sig \in BOOLEAN
  BY <1>1, <1>2 DEF LiveIds, NodeIds
<1>5. \A f \in Indexed : nodes[f].id \in {n.id : n \in NodesAt(paths)} <=> f \in paths
  BY <1>1, <1>2
<1>6. bridge.id \in {n.id : n \in NodesAt(paths)} <=> bridge # Gone /\ ManifestPath \in paths
  BY <1>1, <1>2
<1> QED BY <1>3, <1>4, <1>5, <1>6

(* The live ids, spelled out *)
LEMMA LiveIdsAre ==
    ASSUME Typed, Keyed
    PROVE  /\ \A x : x \in NodeIds <=> \E f \in Indexed : x = nodes[f].id
           /\ \A x : x \in LiveIds <=> x \in NodeIds \/ (x = bridge.id /\ bridge # Gone)
           /\ LiveIds \subseteq 1..lastId /\ bridge.id \notin NodeIds
<1>1. /\ bridge # Gone => bridge.id # 0
      /\ bridge = Gone => bridge.id = 0
      /\ bridge.id \in 0..lastId /\ lastId \in Nat
      /\ \A f \in Indexed : nodes[f].id \in 0..lastId /\ nodes[f].id # 0 /\ nodes[f].id # bridge.id
  BY DEF Typed, Keyed, Indexed, Gone
<1> QED BY <1>1 DEF NodeIds, LiveIds

(* A step that gives no node a new id and leaves the index alone *)
LEMMA SameIds ==
    ASSUME Rows, Typed', UNCHANGED <<manifest, fts>>,
           \A f \in Files : nodes'[f].id = nodes[f].id /\ (nodes'[f] = Gone <=> nodes[f] = Gone),
           bridge'.id = bridge.id, bridge' = Gone <=> bridge = Gone,
           \A f \in Indexed : nodes'[f].comm \in comms' \cup {0},
           risk' \subseteq NodeIds
    PROVE  Rows'
<1>1. Indexed' = Indexed
  BY DEF Indexed
<1>2. NodeIds' = NodeIds
  BY <1>1 DEF NodeIds, Indexed
<1>3. LiveIds' = LiveIds /\ FtsIds' = FtsIds
  BY <1>2 DEF LiveIds, FtsIds
<1>4. Keyed' /\ OneRow'
  BY <1>1 DEF Rows, Keyed, OneRow, Indexed
<1>5. IndexCurrent' /\ ReferencesLive'
  BY <1>1, <1>2, <1>3 DEF Rows, IndexCurrent, ReferencesLive
<1> QED BY <1>4, <1>5 DEF Rows

(* Removing files takes their rows along *)
LEMMA RemoveRows ==
    ASSUME Rows, remove_files_data, run' \in Runs
    PROVE  Rows'
<1> DEFINE old == NodesAt(run.remove)
           ids == {n.id : n \in old}
<1>1. /\ fts' = delete_fts_for_file_paths(fts, old) /\ risk' = risk \ ids
      /\ nodes' = [f \in Files |-> IF f \in run.remove THEN Gone ELSE nodes[f]]
      /\ bridge' = IF ManifestPath \in run.remove THEN Gone ELSE bridge
      /\ watermark' = Cardinality(fts')
      /\ UNCHANGED <<manifest, lastId, community, level, faults>>
  BY DEF remove_files_data
<1>2. Typed /\ Keyed /\ OneRow /\ run.remove \subseteq Files \cup {ManifestPath}
  BY DEF Rows, Typed, Runs
<1>3. /\ \A m, n \in old : m.id = n.id => m = n
      /\ \A f \in Indexed : nodes[f].id \in ids <=> f \in run.remove
      /\ bridge.id \in ids <=> bridge # Gone /\ ManifestPath \in run.remove
  BY <1>2, NodesAtIds
<1> HIDE DEF old, ids
<1>4. /\ \A r, q \in fts' : r.id = q.id => r = q
      /\ FtsIds' = FtsIds \ ids /\ fts' \subseteq fts
  BY <1>1, <1>2, <1>3, DeleteSync DEF FtsIds, ids, delete_fts_for_file_paths
<1>5. Cardinality(fts') \in 0..lastId
  <2>1. fts' \subseteq [id : 1..lastId, sig : BOOLEAN] /\ lastId \in Nat
    BY <1>2, <1>4 DEF Typed
  <2> QED BY <1>4, <2>1, IndexSize
<1>6. /\ Indexed' = Indexed \ run.remove
      /\ \A f \in Indexed' : nodes'[f] = nodes[f]
  BY <1>1 DEF Indexed
<1>7. Typed'
  <2>1. nodes' \in [Files -> [id : 0..lastId, sig : BOOLEAN, comm : 0..lastComm]]
    BY <1>1, <1>2 DEF Typed, Gone
  <2>2. bridge' \in [id : 0..lastId, sig : BOOLEAN, comm : {0}]
    BY <1>1, <1>2 DEF Typed, Gone
  <2> QED BY <1>1, <1>2, <1>4, <1>5, <2>1, <2>2 DEF Typed, community
<1>8. bridge' # Gone => bridge' = bridge /\ ManifestPath \notin run.remove
  BY <1>1
<1>9. bridge' = Gone => bridge'.id = 0
  BY DEF Gone
<1>10. Keyed'
  BY <1>1, <1>2, <1>6, <1>8, <1>9 DEF Keyed
<1>11. NodeIds' = NodeIds \ ids
  BY <1>2, <1>3, <1>6 DEF NodeIds
<1>12. LiveIds' = LiveIds \ ids
  <2>1. \A x : x \in LiveIds' <=> x \in NodeIds' \/ (x = bridge'.id /\ bridge' # Gone)
    <3>1. /\ bridge' # Gone => bridge'.id # 0
          /\ bridge' = Gone => bridge'.id = 0
      BY <1>9, <1>10 DEF Keyed
    <3> QED BY <3>1 DEF LiveIds
  <2>2. \A x : x \in LiveIds <=> x \in NodeIds \/ (x = bridge.id /\ bridge # Gone)
    BY <1>2, LiveIdsAre
  <2>3. bridge' # Gone <=> bridge # Gone /\ ManifestPath \notin run.remove
    BY <1>1
  <2> QED BY <1>3, <1>8, <1>11, <2>1, <2>2, <2>3
<1>13. IndexCurrent'
  BY <1>1, <1>4, <1>12 DEF Rows, IndexCurrent
<1>14. ReferencesLive'
  BY <1>1, <1>6, <1>11 DEF Rows, ReferencesLive, community
<1> QED BY <1>4, <1>7, <1>10, <1>13, <1>14 DEF Rows, OneRow

(* Storing a file: its node has a fresh id, indexed at once *)
LEMMA StoreRows ==
    ASSUME Rows, store_file_batch, run' \in Runs
    PROVE  Rows'
<1> DEFINE f == Least(run.parse)
           old == NodesAt({f})
           ids == {n.id : n \in old}
           new == [id |-> lastId + 1, sig |-> FALSE, comm |-> 0]
           kept == delete_fts_for_file_paths(fts, old)
<1>1. /\ run.parse # {} /\ nodes' = [nodes EXCEPT ![f] = new] /\ lastId' = lastId + 1
      /\ fts' = kept \cup {Row(new)} /\ risk' = risk \ ids
      /\ watermark' = IF run.bulk THEN watermark ELSE Cardinality(fts')
      /\ UNCHANGED <<manifest, bridge, community, level, faults>>
  BY DEF store_file_batch
<1>2. Typed /\ Keyed /\ OneRow /\ run.parse \subseteq Files /\ lastId \in Nat
  BY DEF Rows, Typed, Runs
<1>3. f \in Files
  <2>1. run.parse \subseteq Nat
    BY <1>2, PostprocessAssumption
  <2> QED BY <1>1, <1>2, <2>1, LeastIs
<1> HIDE DEF f
<1>4. /\ \A m, n \in old : m.id = n.id => m = n
      /\ \A g \in Indexed : nodes[g].id \in ids <=> g = f
      /\ bridge.id \notin ids
  <2>1. {f} \subseteq Files \cup {ManifestPath} /\ ManifestPath \notin {f}
    BY <1>3, PostprocessAssumption DEF ManifestPath
  <2> QED BY <1>2, <2>1, NodesAtIds
<1> HIDE DEF old, ids
<1>5. new.id = lastId + 1 /\ new # Gone /\ new.comm = 0 /\ Row(new) = [id |-> lastId + 1, sig |-> FALSE]
  BY <1>2 DEF Gone, Row
<1> HIDE DEF new
<1>6. /\ \A r, q \in kept : r.id = q.id => r = q
      /\ {r.id : r \in kept} = FtsIds \ ids /\ kept \subseteq fts
  BY <1>2, <1>4, DeleteSync DEF ids, delete_fts_for_file_paths
<1> HIDE DEF kept
<1>7. \A r \in fts : r.id \in 1..lastId
  BY <1>2 DEF Typed
<1>8. \A r, q \in fts' : r.id = q.id => r = q
  <2>1. Row(new).id = lastId + 1 /\ \A r \in kept : r.id # lastId + 1
    BY <1>2, <1>5, <1>6, <1>7
  <2> QED BY <1>1, <1>6, <2>1
<1>9. FtsIds' = (FtsIds \ ids) \cup {lastId + 1}
  BY <1>1, <1>5, <1>6 DEF FtsIds
<1>10. fts' \subseteq [id : 1..(lastId + 1), sig : BOOLEAN]
  <2>1. \A r \in fts : r \in [id : 1..(lastId + 1), sig : BOOLEAN]
    BY <1>2 DEF Typed
  <2>2. Row(new) \in [id : 1..(lastId + 1), sig : BOOLEAN]
    BY <1>2, <1>5
  <2> QED BY <1>1, <1>6, <2>1, <2>2
<1>11. Cardinality(fts') \in 0..(lastId + 1)
  <2>1. lastId + 1 \in Nat
    BY <1>2
  <2> QED BY <1>8, <1>10, <2>1, IndexSize
<1>12. Typed'
  <2>1. \A g \in Files : nodes[g] \in [id : 0..(lastId + 1), sig : BOOLEAN, comm : 0..lastComm]
    BY <1>2 DEF Typed
  <2>2. new \in [id : 0..(lastId + 1), sig : BOOLEAN, comm : 0..lastComm]
    BY <1>2 DEF new, Typed
  <2>3. nodes' \in [Files -> [id : 0..(lastId + 1), sig : BOOLEAN, comm : 0..lastComm]]
    BY <1>1, <1>2, <2>1, <2>2 DEF Typed
  <2>4. bridge' \in [id : 0..(lastId + 1), sig : BOOLEAN, comm : {0}]
    BY <1>1, <1>2 DEF Typed
  <2>5. risk' \subseteq 1..(lastId + 1)
    <3>1. \A x \in 1..lastId : x \in 1..(lastId + 1)
      BY <1>2
    <3> QED BY <1>1, <1>2, <3>1 DEF Typed
  <2>6. watermark' \in 0..(lastId + 1)
    <3>1. watermark \in 0..(lastId + 1)
      BY <1>2 DEF Typed
    <3>2. watermark' = watermark \/ watermark' = Cardinality(fts')
      BY <1>1
    <3> QED BY <1>11, <3>1, <3>2
  <2> QED BY <1>1, <1>2, <1>10, <2>3, <2>4, <2>5, <2>6 DEF Typed, community
<1>13. /\ Indexed' = Indexed \cup {f} /\ nodes'[f] = new
       /\ \A g \in Indexed' \ {f} : nodes'[g] = nodes[g] /\ g \in Indexed
  BY <1>1, <1>2, <1>3, <1>5 DEF Indexed, Typed
<1>14. \A g \in Indexed : nodes[g].id \in 0..lastId
  BY <1>2 DEF Typed, Indexed
<1>15. Keyed'
  <2>1. bridge.id # lastId + 1
    BY <1>2 DEF Typed
  <2>2. \A g \in Indexed' : nodes'[g].id # 0 /\ nodes'[g].id # bridge'.id
    BY <1>1, <1>2, <1>5, <1>13, <2>1 DEF Keyed
  <2>3. \A g, h \in Indexed' : nodes'[g].id = nodes'[h].id => g = h
    BY <1>2, <1>5, <1>13, <1>14 DEF Keyed
  <2> QED BY <1>1, <1>2, <2>2, <2>3 DEF Keyed
<1>16. NodeIds' = (NodeIds \ ids) \cup {lastId + 1}
  <2>1. \A x : x \in NodeIds' <=> \E g \in Indexed' : x = nodes'[g].id
    BY DEF NodeIds
  <2>2. \A x : x \in NodeIds <=> \E g \in Indexed : x = nodes[g].id
    BY DEF NodeIds
  <2> QED BY <1>4, <1>5, <1>13, <2>1, <2>2
<1>17. LiveIds' = (LiveIds \ ids) \cup {lastId + 1}
  BY <1>1, <1>4, <1>16 DEF LiveIds
<1>18. IndexCurrent'
  BY <1>1, <1>9, <1>17 DEF Rows, IndexCurrent
<1>19. ReferencesLive'
  BY <1>1, <1>5, <1>13, <1>16 DEF Rows, ReferencesLive, community
<1> QED BY <1>8, <1>12, <1>15, <1>18, <1>19 DEF Rows, OneRow

(* The FTS pass *)
LEMMA FtsRows ==
    ASSUME Rows, fts_pass, run' \in Runs
    PROVE  Rows'
<1>1. /\ fts' = IF run.changed = {} THEN rebuild_fts_index
                ELSE sync_fts_for_file_paths(fts, NodesAt(run.changed))
      /\ watermark' = Cardinality(fts')
      /\ UNCHANGED <<manifest, graph, community, risk, level, faults>>
  BY DEF fts_pass
<1>2. Typed /\ Keyed /\ OneRow /\ run.changed \subseteq Files \cup {ManifestPath}
  BY DEF Rows, Typed, Runs
<1>3. ASSUME NEW ns, ns = NodesAt(Files \cup {ManifestPath}), fts' = {Row(n) : n \in ns}
      PROVE  /\ \A r, q \in fts' : r.id = q.id => r = q
             /\ FtsIds' = LiveIds
             /\ fts' \subseteq [id : 1..lastId, sig : BOOLEAN]
  <2>1. /\ \A m, n \in ns : m.id = n.id => m = n
        /\ \A n \in ns : n.id \in LiveIds /\ n.id \in 1..lastId /\ n.sig \in BOOLEAN
        /\ \A f \in Indexed : nodes[f].id \in {n.id : n \in ns}
        /\ bridge.id \in {n.id : n \in ns} <=> bridge # Gone
    BY <1>2, <1>3, NodesAtIds DEF Indexed
  <2>2. \A x \in LiveIds : x \in {n.id : n \in ns}
    BY <1>2, <2>1, LiveIdsAre
  <2>3. \A n : Row(n).id = n.id
    BY DEF Row
  <2>6. \A r : r \in fts' <=> \E n \in ns : r = Row(n)
    BY <1>3
  <2>4. FtsIds' = {n.id : n \in ns}
    BY <2>3, <2>6 DEF FtsIds
  <2>7. \A n \in ns : Row(n) \in [id : 1..lastId, sig : BOOLEAN]
    BY <2>1 DEF Row
  <2>5. fts' \subseteq [id : 1..lastId, sig : BOOLEAN]
    BY <2>6, <2>7
  <2>8. \A r, q \in fts' : r.id = q.id => r = q
    BY <2>1, <2>3, <2>6
  <2>9. FtsIds' = LiveIds
    BY <2>1, <2>2, <2>4
  <2> QED BY <2>5, <2>8, <2>9
<1>4. CASE run.changed = {}
  <2>1. fts' = {Row(n) : n \in NodesAt(Files \cup {ManifestPath})}
    BY <1>1, <1>4 DEF rebuild_fts_index
  <2>2. /\ \A r, q \in fts' : r.id = q.id => r = q
        /\ FtsIds' = LiveIds
        /\ fts' \subseteq [id : 1..lastId, sig : BOOLEAN]
    BY <1>3, <2>1
  <2> QED BY <2>2, <1>1, <1>2, IndexSize
          DEF Rows, Typed, Keyed, OneRow, IndexCurrent, ReferencesLive, Indexed, LiveIds, NodeIds,
              graph, community
<1>5. CASE run.changed # {}
  <2> DEFINE ns == NodesAt(run.changed)
  <2>1. /\ \A m, n \in ns : m.id = n.id => m = n
        /\ \A n \in ns : n.id \in LiveIds /\ n.id \in 1..lastId /\ n.sig \in BOOLEAN
    BY <1>2, NodesAtIds
  <2> HIDE DEF ns
  <2>2. fts' = sync_fts_for_file_paths(fts, ns)
    BY <1>1, <1>5 DEF ns
  <2>3. /\ \A r, q \in fts' : r.id = q.id => r = q
        /\ FtsIds' = FtsIds \cup {n.id : n \in ns}
    BY <1>2, <2>1, <2>2, DeleteSync DEF FtsIds
  <2>4. LiveIds \subseteq FtsIds
    BY DEF Rows, IndexCurrent
  <2>5. FtsIds' = FtsIds
    BY <2>1, <2>3, <2>4
  <2>6. \A n \in ns : Row(n) \in [id : 1..lastId, sig : BOOLEAN]
    BY <2>1 DEF Row
  <2>7. fts' \subseteq [id : 1..lastId, sig : BOOLEAN]
    BY <1>2, <2>2, <2>6 DEF sync_fts_for_file_paths, delete_fts_for_file_paths, Typed
  <2> QED BY <2>3, <2>5, <2>7, <1>1, <1>2, IndexSize
          DEF Rows, Typed, Keyed, OneRow, IndexCurrent, ReferencesLive, Indexed, LiveIds, NodeIds,
              graph, community
<1> QED BY <1>4, <1>5

(* The manifest's node under a new id *)
LEMMA BridgeRows ==
    ASSUME Rows, replace_manifest_bridges, run' \in Runs
    PROVE  Rows'
<1> DEFINE new == [id |-> lastId + 1, sig |-> FALSE, comm |-> 0]
<1>1. /\ IF manifest /\ should_scan_manifests
         THEN /\ bridge' = new /\ lastId' = lastId + 1
              /\ fts' = sync_fts_for_file_paths(fts, {new})
              /\ watermark' = Cardinality(fts')
         ELSE UNCHANGED <<bridge, lastId, index>>
      /\ UNCHANGED <<manifest, nodes, community, risk, level, faults>>
  BY DEF replace_manifest_bridges
<1>2. Typed /\ Keyed /\ OneRow /\ lastId \in Nat
  BY DEF Rows, Typed
<1>3. CASE ~(manifest /\ should_scan_manifests)
  <2>1. UNCHANGED <<manifest, nodes, bridge, lastId, fts, watermark, comms, lastComm, risk, level, faults>>
    BY <1>1, <1>3 DEF index, community
  <2>2. Typed'
    BY <1>2, <2>1 DEF Typed
  <2>3. \A f \in Indexed : nodes'[f].comm \in comms' \cup {0}
    BY <2>1 DEF Rows, ReferencesLive
  <2> QED BY <2>1, <2>2, <2>3, SameIds DEF Rows, ReferencesLive
<1>4. CASE manifest /\ should_scan_manifests
  <2>1. new.id = lastId + 1 /\ new # Gone /\ Row(new) = [id |-> lastId + 1, sig |-> FALSE]
        /\ new \in [id : 0..(lastId + 1), sig : BOOLEAN, comm : {0}]
    BY <1>2 DEF Gone, Row
  <2> HIDE DEF new
  <2>2. /\ bridge' = new /\ lastId' = lastId + 1
        /\ fts' = sync_fts_for_file_paths(fts, {new}) /\ watermark' = Cardinality(fts')
    BY <1>1, <1>4
  <2>3. /\ \A r, q \in fts' : r.id = q.id => r = q
        /\ FtsIds' = FtsIds \cup {lastId + 1}
    <3>1. \A m, n \in {new} : m.id = n.id => m = n
      OBVIOUS
    <3>2. /\ \A r, q \in fts' : r.id = q.id => r = q
          /\ {r.id : r \in fts'} = FtsIds \cup {n.id : n \in {new}}
      BY <1>2, <2>2, <3>1, DeleteSync
    <3>3. {n.id : n \in {new}} = {lastId + 1}
      BY <2>1
    <3> QED BY <3>2, <3>3 DEF FtsIds
  <2>4. fts' \subseteq [id : 1..(lastId + 1), sig : BOOLEAN]
    <3>1. \A r \in fts : r \in [id : 1..(lastId + 1), sig : BOOLEAN]
      BY <1>2 DEF Typed
    <3>2. Row(new) \in [id : 1..(lastId + 1), sig : BOOLEAN]
      BY <1>2, <2>1
    <3> QED BY <2>2, <3>1, <3>2 DEF sync_fts_for_file_paths, delete_fts_for_file_paths
  <2>5. Cardinality(fts') \in 0..(lastId + 1)
    <3>1. lastId + 1 \in Nat
      BY <1>2
    <3> QED BY <2>3, <2>4, <3>1, IndexSize
  <2>6. Typed'
    <3>1. nodes \in [Files -> [id : 0..(lastId + 1), sig : BOOLEAN, comm : 0..lastComm]]
      <4>1. \A g \in Files : nodes[g] \in [id : 0..(lastId + 1), sig : BOOLEAN, comm : 0..lastComm]
        BY <1>2 DEF Typed
      <4> QED BY <1>2, <4>1 DEF Typed
    <3>2. risk \subseteq 1..(lastId + 1)
      <4>1. \A x \in 1..lastId : x \in 1..(lastId + 1)
        BY <1>2
      <4> QED BY <1>2, <4>1 DEF Typed
    <3>3. UNCHANGED <<manifest, nodes, comms, lastComm, risk, level, faults>>
      BY <1>1 DEF community
    <3>4. lastId' \in Nat /\ bridge' \in [id : 0..lastId', sig : BOOLEAN, comm : {0}]
          /\ fts' \subseteq [id : 1..lastId', sig : BOOLEAN] /\ watermark' \in 0..lastId'
          /\ nodes' \in [Files -> [id : 0..lastId', sig : BOOLEAN, comm : 0..lastComm']]
          /\ risk' \subseteq 1..lastId'
      BY <1>2, <2>1, <2>2, <2>4, <2>5, <3>1, <3>2, <3>3
    <3> QED BY <1>2, <3>3, <3>4 DEF Typed
  <2>7. Indexed' = Indexed /\ NodeIds' = NodeIds
    BY <1>1 DEF Indexed, NodeIds
  <2>8. \A f \in Indexed : nodes[f].id # lastId + 1
    BY <1>2 DEF Typed, Indexed
  <2>9. Keyed'
    BY <1>1, <1>2, <1>4, <2>1, <2>2, <2>7, <2>8 DEF Keyed
  <2>10. LiveIds' \subseteq LiveIds \cup {lastId + 1}
    BY <2>1, <2>2, <2>7 DEF LiveIds
  <2>11. IndexCurrent'
    BY <1>1, <1>4, <2>3, <2>10 DEF Rows, IndexCurrent
  <2>12. ReferencesLive'
    BY <1>1, <2>7 DEF Rows, ReferencesLive, community
  <2> QED BY <2>3, <2>6, <2>9, <2>11, <2>12 DEF Rows, OneRow
<1> QED BY <1>3, <1>4

(* Signatures *)
LEMMA SignRows ==
    ASSUME Rows, compute_missing_signatures, run' \in Runs
    PROVE  Rows'
<1>1. /\ nodes' = [f \in Files |-> IF f \in Indexed THEN [nodes[f] EXCEPT !.sig = TRUE] ELSE Gone]
      /\ bridge' = IF bridge = Gone THEN Gone ELSE [bridge EXCEPT !.sig = TRUE]
      /\ UNCHANGED <<manifest, lastId, index, community, risk, level, faults>>
  BY DEF compute_missing_signatures
<1>2. Typed /\ Keyed
  BY DEF Rows
<1>3. ASSUME NEW f \in Files
      PROVE  /\ nodes'[f] \in [id : 0..lastId, sig : BOOLEAN, comm : 0..lastComm]
             /\ nodes'[f].id = nodes[f].id /\ nodes'[f].comm = nodes[f].comm
             /\ nodes'[f] = Gone <=> nodes[f] = Gone
  <2>1. nodes[f] \in [id : 0..lastId, sig : BOOLEAN, comm : 0..lastComm]
    BY <1>2 DEF Typed
  <2>2. CASE f \in Indexed
    <3>1. nodes'[f] = [nodes[f] EXCEPT !.sig = TRUE] /\ nodes[f].id # 0 /\ nodes[f] # Gone
      BY <1>1, <1>2, <2>2 DEF Keyed, Indexed
    <3> DEFINE v == [nodes[f] EXCEPT !.sig = TRUE]
    <3>2. /\ v \in [id : 0..lastId, sig : BOOLEAN, comm : 0..lastComm]
          /\ v.id = nodes[f].id /\ v.comm = nodes[f].comm
      BY <2>1
    <3>3. nodes'[f] = v
      BY <3>1
    <3> HIDE DEF v
    <3> QED BY <3>1, <3>2, <3>3 DEF Gone
  <2>3. CASE f \notin Indexed
    BY <1>1, <2>1, <2>3 DEF Indexed
  <2> QED BY <2>2, <2>3
<1>4. /\ bridge' \in [id : 0..lastId, sig : BOOLEAN, comm : {0}]
      /\ bridge'.id = bridge.id /\ (bridge' = Gone <=> bridge = Gone)
  <2>1. bridge \in [id : 0..lastId, sig : BOOLEAN, comm : {0}]
    BY <1>2 DEF Typed
  <2>2. CASE bridge = Gone
    BY <1>1, <2>1, <2>2
  <2>3. CASE bridge # Gone
    <3>1. bridge' = [bridge EXCEPT !.sig = TRUE] /\ bridge.id # 0
      BY <1>1, <1>2, <2>3 DEF Keyed
    <3> QED BY <2>1, <2>3, <3>1 DEF Gone
  <2> QED BY <2>2, <2>3
<1>5. nodes' \in [Files -> [id : 0..lastId, sig : BOOLEAN, comm : 0..lastComm]]
  BY <1>1, <1>3
<1>6. Typed'
  BY <1>1, <1>2, <1>4, <1>5 DEF Typed, index, community
<1>7. \A f \in Indexed : nodes'[f].comm \in comms' \cup {0}
  BY <1>1, <1>3 DEF Rows, ReferencesLive, Indexed, community
<1> QED BY <1>1, <1>3, <1>4, <1>6, <1>7, SameIds DEF Rows, ReferencesLive, index

----------------------------------------------------------------------------
(* Communities *)

(* What detection finds: finitely many groups, none of them empty *)
LEMMA Detected ==
    ASSUME NEW fs, fs \subseteq Indexed
    PROVE  /\ detect_communities(fs) \subseteq SUBSET Indexed
           /\ IsFiniteSet(detect_communities(fs))
           /\ \A c \in detect_communities(fs) : c # {}
<1>1. IsFiniteSet(SUBSET Files)
  BY PostprocessAssumption, FS_SUBSET
<1>2. detect_communities(fs) \subseteq SUBSET Indexed /\ Indexed \subseteq Files
  BY DEF detect_communities, Indexed
<1>3. detect_communities(fs) \in SUBSET (SUBSET Files)
  BY <1>2
<1>4. \A c \in detect_communities(fs) : c # {}
  BY FS_EmptySet DEF detect_communities, MIN_COMMUNITY_SIZE
<1> QED BY <1>1, <1>2, <1>3, <1>4, FS_Subset

(* The part of the state a step of detection leaves alone *)
Settled == UNCHANGED <<manifest, bridge, lastId, fts, watermark, risk, level, faults>>

(* Nodes change in their community only *)
Regrouped ==
    \A f \in Files : /\ nodes'[f].id = nodes[f].id /\ nodes'[f].sig = nodes[f].sig
                     /\ (nodes'[f] = Gone <=> nodes[f] = Gone)

(* Replacing communities: new rows have fresh ids, and a node that stays behind
   is cleared                                                                *)
LEMMA ReplaceRows ==
    ASSUME Rows, run' \in Runs, Settled, NEW old, NEW found,
           found \subseteq SUBSET Indexed, IsFiniteSet(found), \A c \in found : c # {},
           replace_communities(old, found)
    PROVE  Rows' /\ Regrouped
<1> DEFINE upto(c) == {d \in found : Least(d) <= Least(c)}
           id(c) == lastComm + Cardinality(upto(c))
           own(f) == {c \in found : f \in c}
           last == lastComm + Cardinality(found)
<1>1. /\ nodes' = [f \in Files |->
             IF own(f) # {}
             THEN [nodes[f] EXCEPT !.comm = id(CHOOSE c \in found : f \in c)]
             ELSE IF nodes[f].comm \in old THEN [nodes[f] EXCEPT !.comm = 0]
             ELSE nodes[f]]
      /\ comms' = (comms \ old) \cup {id(c) : c \in found}
      /\ lastComm' = last
  BY DEF replace_communities
<1>2. Typed /\ Keyed /\ Cardinality(found) \in Nat /\ lastComm \in Nat
  BY FS_CardinalityType DEF Rows, Typed
<1>3. last \in Nat /\ lastComm <= last
  BY <1>2
<1>4. \A c \in found : id(c) \in 1..last
  <2> SUFFICES ASSUME NEW c \in found PROVE id(c) \in 1..last
    OBVIOUS
  <2> DEFINE u == upto(c)
  <2>1. c \subseteq Nat /\ c # {}
    BY PostprocessAssumption DEF Indexed
  <2>2. c \in u
    BY <2>1, LeastIs
  <2>3. u \in SUBSET found
    OBVIOUS
  <2> HIDE DEF u
  <2>4. IsFiniteSet(u) /\ Cardinality(u) <= Cardinality(found)
    BY <2>3, FS_Subset
  <2>5. Cardinality(u) \in Nat /\ Cardinality(u) # 0
    BY <2>2, <2>4, FS_CardinalityType, FS_EmptySet
  <2> QED BY <1>2, <2>4, <2>5 DEF u
<1> HIDE DEF id
<1>5. comms' \subseteq 1..last
  <2>1. \A x \in comms : x \in 1..last
    BY <1>2, <1>3 DEF Typed
  <2> QED BY <1>1, <1>4, <2>1
<1> HIDE DEF last
<1>6. ASSUME NEW f \in Files
      PROVE  /\ nodes'[f] \in [id : 0..lastId, sig : BOOLEAN, comm : 0..last]
             /\ nodes'[f].id = nodes[f].id /\ nodes'[f].sig = nodes[f].sig
             /\ nodes'[f] = Gone <=> nodes[f] = Gone
             /\ f \in Indexed => nodes'[f].comm \in comms' \cup {0}
  <2>1. /\ nodes[f] \in [id : 0..lastId, sig : BOOLEAN, comm : 0..lastComm]
        /\ f \in Indexed => nodes[f].comm \in comms \cup {0} /\ nodes[f].id # 0
        /\ f \in Indexed <=> nodes[f] # Gone
        /\ nodes[f] \in [id : 0..lastId, sig : BOOLEAN, comm : 0..last]
    BY <1>2, <1>3 DEF Rows, Typed, Keyed, ReferencesLive, Indexed
  <2>2. CASE own(f) # {}
    <3> DEFINE c == CHOOSE d \in found : f \in d
               n == id(c)
               v == [nodes[f] EXCEPT !.comm = n]
    <3>1. c \in found /\ f \in Indexed
      BY <2>2
    <3>3. nodes'[f] = v
      BY <1>1, <2>2
    <3>2. n \in 0..last /\ n \in comms'
      <4> HIDE DEF c
      <4>1. id(c) \in 1..last
        BY <1>4, <3>1
      <4>2. id(c) \in {id(d) : d \in found}
        BY <3>1
      <4> QED BY <1>1, <1>3, <4>1, <4>2
    <3> HIDE DEF n
    <3>4. /\ v \in [id : 0..lastId, sig : BOOLEAN, comm : 0..last]
          /\ v.id = nodes[f].id /\ v.sig = nodes[f].sig /\ v.comm = n
      BY <2>1, <3>2
    <3> HIDE DEF v
    <3>5. v # Gone
      BY <2>1, <3>1, <3>4 DEF Gone
    <3> QED BY <2>1, <3>1, <3>2, <3>3, <3>4, <3>5
  <2>3. CASE own(f) = {} /\ nodes[f].comm \in old
    <3> DEFINE v == [nodes[f] EXCEPT !.comm = 0]
    <3>1. nodes'[f] = v
      BY <1>1, <2>3
    <3>2. /\ v \in [id : 0..lastId, sig : BOOLEAN, comm : 0..last]
          /\ v.id = nodes[f].id /\ v.sig = nodes[f].sig /\ v.comm = 0
      BY <1>3, <2>1
    <3>3. CASE nodes[f] = Gone
      BY <2>1, <3>1, <3>2, <3>3 DEF Gone
    <3>4. CASE nodes[f] # Gone
      <4> HIDE DEF v
      <4>1. v # Gone
        BY <2>1, <3>2, <3>4 DEF Gone
      <4> QED BY <3>1, <3>2, <3>4, <4>1
    <3> QED BY <3>3, <3>4
  <2>4. CASE own(f) = {} /\ nodes[f].comm \notin old
    <3>1. nodes'[f] = nodes[f]
      BY <1>1, <2>4
    <3> QED BY <1>1, <2>1, <2>4, <3>1
  <2> QED BY <2>2, <2>3, <2>4
<1>7. nodes' \in [Files -> [id : 0..lastId, sig : BOOLEAN, comm : 0..last]]
  BY <1>1, <1>6
<1>8. Typed'
  BY <1>1, <1>2, <1>3, <1>5, <1>7 DEF Typed, Settled
<1>9. Indexed \subseteq Files
  BY DEF Indexed
<1> QED BY <1>6, <1>8, <1>9, SameIds DEF Settled, Regrouped, Rows, ReferencesLive

(* A run of detection, whole or in a region *)
LEMMA DetectRows ==
    ASSUME Rows, detect, run' \in Runs
    PROVE  Rows' /\ Regrouped
<1>1. Settled
  BY DEF detect, Settled, index
<1>2. ASSUME UNCHANGED <<nodes, comms, lastComm>>
      PROVE  Rows' /\ Regrouped
  <2>1. Typed'
    BY <1>1, <1>2 DEF Rows, Typed, Settled
  <2>2. \A f \in Indexed : nodes'[f].comm \in comms' \cup {0}
    BY <1>2 DEF Rows, ReferencesLive
  <2> QED BY <1>1, <1>2, <2>1, <2>2, SameIds DEF Settled, Regrouped, Rows, ReferencesLive
<1>3. ASSUME store_communities PROVE Rows' /\ Regrouped
  <2>1. replace_communities(comms \cup {nodes[f].comm : f \in Files}, detect_communities(Indexed))
    BY <1>3 DEF store_communities
  <2> QED BY <1>1, <2>1, Detected, ReplaceRows
<1>4. ASSUME NEW region, replace_communities(region, detect_communities(InCommunities(region)))
      PROVE  Rows' /\ Regrouped
  <2>1. InCommunities(region) \subseteq Indexed
    BY DEF InCommunities
  <2> QED BY <1>1, <1>4, <2>1, Detected, ReplaceRows
<1>5. \/ UNCHANGED <<nodes, comms, lastComm>>
      \/ store_communities
      \/ \E region : replace_communities(region, detect_communities(InCommunities(region)))
  BY DEF detect, incremental_detect_communities, community
<1> QED BY <1>2, <1>3, <1>4, <1>5

----------------------------------------------------------------------------
(* Runs and their phases *)

(* What a run is told at its start is well formed *)
LEMMA StartsTyped ==
    ASSUME Rows, Start
    PROVE  /\ run' \in Runs /\ Planned'
           /\ run'.pc = "idle" => run'.passes = {}
           /\ run'.pc \in {"idle", "remove", "signatures"}
           /\ run'.pc = "signatures" => "prune" \notin run'.passes
           /\ UNCHANGED <<manifest, graph, index, community, risk, level, faults>>
<1>1. run \in Runs /\ run.n \in Nat
  BY DEF Rows, Typed, Runs
<1>2. NoRun \in Runs
  BY DEF NoRun, Runs, Passes
<1>3. ASSUME NEW l \in Levels
      PROVE  /\ PassesOf(l) \subseteq Passes /\ l \in {"none", "minimal", "full"}
             /\ "fts" \in PassesOf(l) => "signatures" \in PassesOf(l)
  <2>1. l \in {"none", "minimal", "full"}
    BY PostprocessAssumption
  <2>2. CASE l = "none"
    BY <2>2 DEF PassesOf, Passes
  <2>3. CASE l = "minimal"
    BY <2>3 DEF PassesOf, Passes
  <2>4. CASE l = "full"
    BY <2>4 DEF PassesOf, Passes
  <2> QED BY <2>1, <2>2, <2>3, <2>4
<1>4. Indexed \subseteq Files /\ 1 + run.n \in Nat /\ run.n + 1 \in Nat
  BY <1>1 DEF Indexed
<1>5. \A fs : count_affected_communities(fs) \in Nat
  <2> SUFFICES ASSUME NEW fs PROVE count_affected_communities(fs) \in Nat
    OBVIOUS
  <2> DEFINE ids == affected_community_id_set(fs)
  <2>1. ids \in SUBSET (1..lastComm) /\ lastComm \in Nat
    BY <1>4 DEF affected_community_id_set, Rows, Typed
  <2>2. IsFiniteSet(1..lastComm)
    BY <2>1, FS_Interval
  <2> HIDE DEF ids
  <2>3. Cardinality(ids) \in Nat
    BY <2>1, <2>2, FS_Subset, FS_CardinalityType
  <2> QED BY <2>3 DEF count_affected_communities, ids
<1> DEFINE Outcome == /\ run' \in Runs /\ Planned'
                      /\ run'.pc = "idle" => run'.passes = {}
                      /\ run'.pc \in {"idle", "remove", "signatures"}
                      /\ run'.pc = "signatures" => "prune" \notin run'.passes
                      /\ UNCHANGED <<manifest, graph, index, community, risk, level, faults>>
<1>6. ASSUME NEW l \in Levels, NEW present \in SUBSET Files, full_build(l, present)
      PROVE  Outcome
  <2> DEFINE ps == PassesOf(l)
             gone == (Indexed \ present) \cup {ManifestPath}
             next == run.n + 1
  <2>1. /\ ps \subseteq Passes /\ gone \subseteq Files \cup {ManifestPath} /\ next \in Nat
        /\ l \in {"none", "minimal", "full"} /\ ("fts" \in ps => "signatures" \in ps)
    BY <1>3, <1>4
  <2>2. run' = [NoRun EXCEPT !.pc = "remove", !.kind = "build", !.level = l,
                   !.parse = present, !.remove = gone,
                   !.bulk = TRUE, !.passes = ps, !.clean = TRUE, !.n = next]
    BY <1>6 DEF full_build
  <2> HIDE DEF ps, gone, next
  <2>3. run' \in Runs /\ run'.pc = "remove" /\ run'.passes = ps
    BY <1>2, <2>1, <2>2 DEF Runs
  <2> QED BY <1>6, <2>1, <2>3 DEF full_build, Planned
<1>7. ASSUME NEW l \in Levels, NEW fs \in SUBSET Files, NEW outdated, NEW touch,
             NEW fate \in [fs -> Fates], incremental_update(l, fate, touch, outdated)
      PROVE  Outcome
  <2> DEFINE of(k) == {f \in DOMAIN fate : fate[f] = k}
             gone == of("deleted") \cup of("unscoped")
             changed == of("edited") \cup of("touched") \cup of("deleted")
                        \cup IF touch THEN {ManifestPath} ELSE {}
             parse == of("edited") \cup IF outdated THEN Indexed \ gone ELSE {}
             pc == IF changed \cup parse \cup gone = {} THEN "idle" ELSE "remove"
             pre == count_affected_communities(changed \ {ManifestPath})
             bulk == Cardinality(parse) >= BulkThreshold
             ps == IF parse \cup gone # {} \/ touch THEN PassesOf(l) ELSE {}
             next == run.n + 1
  <2>1. /\ changed \subseteq Files \cup {ManifestPath} /\ parse \subseteq Files
        /\ gone \subseteq Files \cup {ManifestPath} /\ next \in Nat /\ pre \in Nat
        /\ pc \in {"idle", "remove"} /\ bulk \in BOOLEAN
    BY <1>4, <1>5
  <2>2. /\ ps \subseteq Passes /\ l \in {"none", "minimal", "full"}
        /\ "fts" \in ps => "signatures" \in ps
    BY <1>3
  <2>3. pc = "idle" => ps = {}
    <3>1. touch => changed # {}
      OBVIOUS
    <3> QED BY <3>1
  <2>4. run' = [NoRun EXCEPT !.pc = pc, !.kind = "update", !.level = l,
                   !.changed = changed, !.parse = parse, !.remove = gone,
                   !.pre = pre, !.bulk = bulk, !.passes = ps,
                   !.clean = TRUE, !.n = next]
    BY <1>7 DEF incremental_update
  <2> HIDE DEF pc, gone, changed, parse, pre, bulk, ps, next
  <2>5. run' \in Runs /\ run'.pc = pc /\ run'.passes = ps
    BY <1>2, <2>1, <2>2, <2>4 DEF Runs
  <2> QED BY <1>7, <2>1, <2>2, <2>3, <2>5 DEF incremental_update, Planned
<1>8. ASSUME NEW parts \in SUBSET {"fts", "communities"}, rerun_postprocess(parts)
      PROVE  Outcome
  <2> DEFINE ps == {"signatures"} \cup parts
             next == run.n + 1
  <2>1. /\ ps \subseteq Passes /\ next \in Nat /\ "signatures" \in ps /\ "prune" \notin ps
    BY <1>4 DEF Passes
  <2>2. run' = [NoRun EXCEPT !.pc = "signatures", !.kind = "rerun", !.passes = ps,
                   !.clean = TRUE, !.n = next]
    BY <1>8 DEF rerun_postprocess
  <2> HIDE DEF ps, next
  <2>3. run' \in Runs /\ run'.pc = "signatures" /\ run'.passes = ps
    BY <1>2, <2>1, <2>2 DEF Runs, Passes
  <2> QED BY <1>8, <2>1, <2>3 DEF rerun_postprocess, Planned
<1> HIDE DEF Outcome
<1>9. Outcome
  BY <1>6, <1>7, <1>8 DEF Start
<1> QED BY <1>9 DEF Outcome

(* A step that moves the run on changes nothing else of it *)
LEMMA Moves ==
    ASSUME run \in Runs, NEW q \in {"idle", "remove", "store"} \cup Passes, Go(q)
    PROVE  /\ run' \in Runs /\ run'.pc = q
           /\ run'.changed = run.changed /\ run'.passes = run.passes /\ run'.clean = run.clean
BY DEF Go, Runs

(* The passes of a run that is well formed, one after the other *)
LEMMA PassesOn ==
    ASSUME run \in Runs, NEW i \in 0..7
    PROVE  /\ NextPass(run.passes, i) \in {"idle"} \cup Passes
           /\ NextPass(run.passes, i) \notin {"remove", "store"}
           /\ i = 0 /\ "signatures" \in run.passes => NextPass(run.passes, i) = "signatures"
           /\ i = 1 /\ "fts" \in run.passes => NextPass(run.passes, i) = "fts"
           /\ i >= 1 => NextPass(run.passes, i) # "signatures"
           /\ i >= 2 => NextPass(run.passes, i) # "fts"
           /\ i <= 5 /\ "prune" \in run.passes => NextPass(run.passes, i) \notin {"level", "idle"}
<1>1. run.passes \in SUBSET Passes
  BY DEF Runs
<1>2. /\ NextPass(run.passes, i) \in run.passes \cup {"idle"}
      /\ i = 0 /\ "signatures" \in run.passes => NextPass(run.passes, i) = "signatures"
      /\ i = 1 /\ "fts" \in run.passes => NextPass(run.passes, i) = "fts"
      /\ i >= 1 => NextPass(run.passes, i) # "signatures"
      /\ i >= 2 => NextPass(run.passes, i) # "fts"
      /\ i <= 5 /\ "prune" \in run.passes => NextPass(run.passes, i) \notin {"level", "idle"}
  BY <1>1, NextPassIs
<1>3. NextPass(run.passes, i) \in {"idle"} \cup Passes
  BY <1>1, <1>2
<1>4. NextPass(run.passes, i) \notin {"remove", "store"}
  BY <1>3 DEF Passes
<1> QED BY <1>2, <1>3, <1>4

(* A step that leaves nodes and index alone *)
LEMMA QuietRows ==
    ASSUME Rows, run' \in Runs, UNCHANGED <<manifest, graph, fts, lastComm>>,
           watermark' \in 0..lastId, comms' \subseteq comms,
           \A f \in Indexed : nodes[f].comm \in comms' \cup {0}, risk' \subseteq NodeIds,
           level' \in {"unset", "none", "minimal", "full"}, faults' \in 0..MaxFaults
    PROVE  Rows'
<1>1. NodeIds \subseteq 1..lastId
  BY LiveIdsAre DEF Rows
<1>2. Typed'
  BY <1>1 DEF Rows, Typed, graph
<1> QED BY <1>2, SameIds DEF graph

(* The first write of a run, and the last write of a load, hand over to the first
   pass: where the index is to be synced that is the signatures, and where the
   graph is to be swept the sweep is ahead                                   *)
LEMMA FirstPass ==
    ASSUME run \in Runs, run' \in Runs, Planned, run'.pc = NextPass(run.passes, 0),
           run'.changed = run.changed, run'.passes = run.passes, run'.clean = run.clean,
           watermark' = Cardinality(fts')
    PROVE  Phases'
<1>1. /\ "signatures" \in run.passes => NextPass(run.passes, 0) = "signatures"
      /\ "prune" \in run.passes => NextPass(run.passes, 0) \notin {"level", "idle"}
  BY PassesOn
<1>2. Planned'
  BY DEF Planned
<1>3. Signed' /\ Synced'
  BY <1>1 DEF Planned, Signed, Synced, PastSignatures, PastFts
<1>4. Swept'
  BY <1>1 DEF Swept
<1>5. Counted'
  BY DEF Counted
<1> QED BY <1>2, <1>3, <1>4, <1>5 DEF Phases

(* While files are stored nothing is promised yet *)
LEMMA Storing ==
    ASSUME Planned, run'.pc = "store", run'.passes = run.passes
    PROVE  Phases'
BY DEF Phases, Planned, Signed, Synced, Swept, Counted, PastSignatures, PastFts

LEMMA StartPhases ==
    ASSUME Rows, Start
    PROVE  Rows' /\ Phases'
<1>1. /\ run' \in Runs /\ Planned'
      /\ run'.pc = "idle" => run'.passes = {}
      /\ run'.pc \in {"idle", "remove", "signatures"}
      /\ run'.pc = "signatures" => "prune" \notin run'.passes
      /\ UNCHANGED <<manifest, graph, index, community, risk, level, faults>>
  BY StartsTyped
<1>2. Rows'
  BY <1>1, QuietRows DEF Rows, Typed, ReferencesLive, index, community
<1>3. Signed' /\ Synced' /\ Swept' /\ Counted'
  BY <1>1 DEF Signed, Synced, Swept, Counted, PastSignatures, PastFts
<1> QED BY <1>1, <1>2, <1>3 DEF Phases

LEMMA RemovePhases ==
    ASSUME IInv, remove_files_data
    PROVE  Rows' /\ Phases'
<1>1. run \in Runs /\ Planned /\ Rows
  BY DEF IInv, Rows, Typed, Phases
<1>2. CASE run.parse # {}
  <2>1. Go("store")
    BY <1>2 DEF remove_files_data
  <2>2. run' \in Runs /\ run'.pc = "store" /\ run'.passes = run.passes
    BY <1>1, <2>1, Moves
  <2> QED BY <1>1, <2>2, Storing, RemoveRows
<1>3. CASE run.parse = {}
  <2>1. Go(NextPass(run.passes, 0)) /\ watermark' = Cardinality(fts')
    BY <1>3 DEF remove_files_data
  <2>2. NextPass(run.passes, 0) \in {"idle"} \cup Passes
    BY <1>1, PassesOn
  <2>3. /\ run' \in Runs /\ run'.pc = NextPass(run.passes, 0)
        /\ run'.changed = run.changed /\ run'.passes = run.passes /\ run'.clean = run.clean
    BY <1>1, <2>1, <2>2, Moves
  <2>4. Phases'
    BY <1>1, <2>1, <2>3, FirstPass
  <2> QED BY <1>1, <2>3, <2>4, RemoveRows
<1> QED BY <1>2, <1>3

LEMMA StorePhases ==
    ASSUME IInv, store_file_batch
    PROVE  Rows' /\ Phases'
<1> DEFINE left == run.parse \ {Least(run.parse)}
           done == run.parse = {Least(run.parse)} /\ ~run.bulk
           q == IF done THEN NextPass(run.passes, 0) ELSE "store"
<1>1. run \in Runs /\ Planned /\ Rows
  BY DEF IInv, Rows, Typed, Phases
<1>2. /\ run' = [run EXCEPT !.parse = left, !.pc = q]
      /\ watermark' = IF run.bulk THEN watermark ELSE Cardinality(fts')
  BY DEF store_file_batch
<1>3. left \subseteq Files /\ NextPass(run.passes, 0) \in {"idle"} \cup Passes
  BY <1>1, PassesOn DEF Runs
<1>4. q \in {"idle", "store"} \cup Passes
  BY <1>3
<1> HIDE DEF left
<1>5. /\ run' \in Runs /\ run'.pc = q
      /\ run'.changed = run.changed /\ run'.passes = run.passes /\ run'.clean = run.clean
  <2> HIDE DEF q
  <2> QED BY <1>1, <1>2, <1>3, <1>4 DEF Runs
<1>6. Rows'
  BY <1>1, <1>5, StoreRows
<1>7. CASE done
  <2>1. q = NextPass(run.passes, 0) /\ watermark' = Cardinality(fts')
    BY <1>2, <1>7
  <2>2. run'.pc = NextPass(run.passes, 0)
    BY <1>5, <2>1
  <2> HIDE DEF q, done
  <2> QED BY <1>1, <1>5, <1>6, <2>1, <2>2, FirstPass
<1>8. CASE ~done
  <2>1. q = "store"
    BY <1>8
  <2> QED BY <1>1, <1>5, <1>6, <2>1, Storing
<1> QED BY <1>7, <1>8

LEMMA FinishPhases ==
    ASSUME IInv, finish_bulk_load
    PROVE  Rows' /\ Phases'
<1>1. run \in Runs /\ Planned /\ Rows /\ Typed
  BY DEF IInv, Rows, Typed, Phases
<1>2. /\ watermark' = Cardinality(fts) /\ Go(NextPass(run.passes, 0))
      /\ UNCHANGED <<manifest, graph, fts, community, risk, level, faults>>
  BY DEF finish_bulk_load
<1>3. NextPass(run.passes, 0) \in {"idle"} \cup Passes
  BY <1>1, PassesOn
<1>4. /\ run' \in Runs /\ run'.pc = NextPass(run.passes, 0)
      /\ run'.changed = run.changed /\ run'.passes = run.passes /\ run'.clean = run.clean
  BY <1>1, <1>2, <1>3, Moves
<1>5. Cardinality(fts) \in 0..lastId
  BY <1>1, IndexSize DEF Rows, Typed, OneRow
<1>6. Rows'
  BY <1>1, <1>2, <1>4, <1>5, QuietRows DEF Rows, Typed, ReferencesLive, community
<1>7. watermark' = Cardinality(fts')
  BY <1>2
<1> QED BY <1>1, <1>4, <1>6, <1>7, FirstPass

(* From one pass to the next *)
LEMMA OnwardFrom ==
    ASSUME run \in Runs, NEW i \in 1..6, Go(NextPass(run.passes, i))
    PROVE  /\ run' \in Runs /\ run'.pc = NextPass(run.passes, i)
           /\ run'.changed = run.changed /\ run'.passes = run.passes /\ run'.clean = run.clean
           /\ run'.pc \notin {"remove", "store", "signatures"}
           /\ i = 1 /\ "fts" \in run.passes => run'.pc = "fts"
           /\ i >= 2 => run'.pc # "fts"
           /\ i <= 5 /\ "prune" \in run.passes => run'.pc \notin {"level", "idle"}
<1>1. i \in 0..7 /\ i >= 1
  OBVIOUS
<1>2. /\ NextPass(run.passes, i) \in {"idle"} \cup Passes
      /\ NextPass(run.passes, i) \notin {"remove", "store"}
      /\ i = 1 /\ "fts" \in run.passes => NextPass(run.passes, i) = "fts"
      /\ i >= 1 => NextPass(run.passes, i) # "signatures"
      /\ i >= 2 => NextPass(run.passes, i) # "fts"
      /\ i <= 5 /\ "prune" \in run.passes => NextPass(run.passes, i) \notin {"level", "idle"}
  BY <1>1, PassesOn
<1> DEFINE q == NextPass(run.passes, i)
<1>3. Go(q) /\ q \in {"idle", "remove", "store"} \cup Passes
  BY <1>2
<1> HIDE DEF q
<1>4. /\ run' \in Runs /\ run'.pc = q
      /\ run'.changed = run.changed /\ run'.passes = run.passes /\ run'.clean = run.clean
  BY <1>3, Moves
<1> QED BY <1>1, <1>2, <1>4 DEF q

LEMMA SignPhases ==
    ASSUME IInv, compute_missing_signatures
    PROVE  Rows' /\ Phases'
<1>1. run \in Runs /\ Rows /\ Typed /\ Keyed /\ Planned /\ Counted /\ run.pc = "signatures"
  BY DEF IInv, Rows, Typed, Phases, compute_missing_signatures, At
<1>2. /\ nodes' = [f \in Files |-> IF f \in Indexed THEN [nodes[f] EXCEPT !.sig = TRUE]
                                   ELSE Gone]
      /\ Go(NextPass(run.passes, 1)) /\ UNCHANGED index
  BY PassAfterIs DEF compute_missing_signatures
<1>3. /\ run' \in Runs
      /\ run'.changed = run.changed /\ run'.passes = run.passes /\ run'.clean = run.clean
      /\ "fts" \in run.passes => run'.pc = "fts"
      /\ "prune" \in run.passes => run'.pc \notin {"level", "idle"}
  BY <1>1, <1>2, OnwardFrom
<1>4. Rows'
  BY <1>1, <1>3, SignRows
<1>5. \A f \in Indexed' : nodes'[f].sig
  <2> SUFFICES ASSUME NEW f \in Files, nodes'[f] # Gone PROVE nodes'[f].sig
    BY DEF Indexed
  <2>1. f \in Indexed /\ nodes'[f] = [nodes[f] EXCEPT !.sig = TRUE]
    BY <1>2
  <2>2. nodes[f] \in [id : 0..lastId, sig : BOOLEAN, comm : 0..lastComm]
    BY <1>1 DEF Typed
  <2> QED BY <2>1, <2>2
<1>6. Planned' /\ Signed' /\ Synced' /\ Swept'
  BY <1>1, <1>3, <1>5 DEF Planned, Signed, Synced, Swept, PastFts
<1>7. Counted'
  BY <1>1, <1>2, <1>3 DEF Counted, index
<1> QED BY <1>4, <1>6, <1>7 DEF Phases

LEMMA FtsPhases ==
    ASSUME IInv, fts_pass
    PROVE  Rows' /\ Phases'
<1>1. run \in Runs /\ Rows /\ Typed /\ Planned /\ Signed /\ run.pc = "fts"
  BY DEF IInv, Rows, Typed, Phases, fts_pass, At
<1>2. /\ fts' = IF run.changed = {} THEN rebuild_fts_index
                ELSE sync_fts_for_file_paths(fts, NodesAt(run.changed))
      /\ watermark' = Cardinality(fts')
      /\ Go(NextPass(run.passes, 2)) /\ UNCHANGED graph
  BY PassAfterIs DEF fts_pass
<1>3. /\ run' \in Runs
      /\ run'.changed = run.changed /\ run'.passes = run.passes /\ run'.clean = run.clean
      /\ run'.pc # "fts"
      /\ "prune" \in run.passes => run'.pc \notin {"level", "idle"}
  BY <1>1, <1>2, OnwardFrom
<1>4. Rows'
  BY <1>1, <1>3, FtsRows
<1>5. Indexed' = Indexed /\ nodes' = nodes /\ ToldOf' = ToldOf
  BY <1>2, <1>3 DEF graph, Indexed, ToldOf
<1>6. Planned' /\ Swept'
  BY <1>1, <1>3 DEF Planned, Swept
<1>7. Signed'
  BY <1>1, <1>3, <1>5 DEF Signed, PastSignatures
<1>8. Synced'
  <2> SUFFICES ASSUME run.clean, "fts" \in run.passes, NEW f \in Indexed, f \in ToldOf
               PROVE  [id |-> nodes[f].id, sig |-> TRUE] \in fts'
    BY <1>3, <1>5 DEF Synced
  <2>1. nodes[f].sig
    BY <1>1 DEF Signed, PastSignatures
  <2>2. f \in Files /\ nodes[f] \in [id : 0..lastId, sig : BOOLEAN, comm : 0..lastComm]
    BY <1>1 DEF Typed, Indexed
  <2>3. nodes[f].sig = TRUE
    BY <2>1, <2>2
  <2>4. Row(nodes[f]) = [id |-> nodes[f].id, sig |-> TRUE]
    BY <2>3 DEF Row
  <2>5. Row(nodes[f]) \in fts'
    <3>1. CASE run.changed = {}
      <4>1. nodes[f] \in NodesAt(Files \cup {ManifestPath})
        BY <2>2 DEF NodesAt
      <4> QED BY <1>2, <3>1, <4>1 DEF rebuild_fts_index
    <3>2. CASE run.changed # {}
      <4>1. nodes[f] \in NodesAt(run.changed)
        BY <3>2 DEF NodesAt, ToldOf
      <4> QED BY <1>2, <3>2, <4>1 DEF sync_fts_for_file_paths
    <3> QED BY <3>1, <3>2
  <2> QED BY <2>4, <2>5
<1>9. Counted'
  BY <1>2 DEF Counted
<1> QED BY <1>4, <1>6, <1>7, <1>8, <1>9 DEF Phases

LEMMA BridgePhases ==
    ASSUME IInv, replace_manifest_bridges
    PROVE  Rows' /\ Phases'
<1>1. /\ run \in Runs /\ Rows /\ Typed /\ Planned /\ Signed /\ Synced /\ Counted
      /\ run.pc = "manifest"
  BY DEF IInv, Rows, Typed, Phases, replace_manifest_bridges, At
<1> DEFINE new == [id |-> lastId + 1, sig |-> FALSE, comm |-> 0]
<1>2. /\ \/ fts' = sync_fts_for_file_paths(fts, {new}) /\ watermark' = Cardinality(fts')
         \/ UNCHANGED index
      /\ Go(NextPass(run.passes, 3)) /\ nodes' = nodes
  BY PassAfterIs DEF replace_manifest_bridges
<1>3. /\ run' \in Runs
      /\ run'.changed = run.changed /\ run'.passes = run.passes /\ run'.clean = run.clean
      /\ run'.pc # "fts"
      /\ "prune" \in run.passes => run'.pc \notin {"level", "idle"}
  BY <1>1, <1>2, OnwardFrom
<1>4. Rows'
  BY <1>1, <1>3, BridgeRows
<1>5. Indexed' = Indexed /\ ToldOf' = ToldOf
  BY <1>2, <1>3 DEF Indexed, ToldOf
<1>6. Planned' /\ Swept'
  BY <1>1, <1>3 DEF Planned, Swept
<1>7. Signed'
  BY <1>1, <1>2, <1>3, <1>5 DEF Signed, PastSignatures
<1>8. fts \subseteq fts'
  <2>1. ASSUME NEW r \in fts PROVE r.id # new.id
    BY <1>1 DEF Typed
  <2>2. CASE fts' = sync_fts_for_file_paths(fts, {new})
    <3> HIDE DEF new
    <3> QED BY <2>1, <2>2 DEF sync_fts_for_file_paths, delete_fts_for_file_paths
  <2>3. CASE UNCHANGED index
    BY <2>3 DEF index
  <2> QED BY <1>2, <2>2, <2>3
<1>9. Synced'
  BY <1>1, <1>2, <1>3, <1>5, <1>8 DEF Synced, PastFts, PastSignatures
<1>10. Counted'
  BY <1>1, <1>2, <1>3 DEF Counted, index
<1> QED BY <1>4, <1>6, <1>7, <1>9, <1>10 DEF Phases

LEMMA DetectPhases ==
    ASSUME IInv, detect
    PROVE  Rows' /\ Phases'
<1>1. /\ run \in Runs /\ Rows /\ Typed /\ Planned /\ Signed /\ Synced /\ Counted
      /\ run.pc = "communities"
  BY DEF IInv, Rows, Typed, Phases, detect, At
<1>2. Go(NextPass(run.passes, 4)) /\ UNCHANGED index
  BY PassAfterIs DEF detect
<1>3. /\ run' \in Runs
      /\ run'.changed = run.changed /\ run'.passes = run.passes /\ run'.clean = run.clean
      /\ run'.pc # "fts"
      /\ "prune" \in run.passes => run'.pc \notin {"level", "idle"}
      /\ run'.pc \notin {"remove", "store"}
  BY <1>1, <1>2, OnwardFrom
<1>4. Rows' /\ Regrouped
  BY <1>1, <1>3, DetectRows
<1>5. Indexed' = Indexed /\ ToldOf' = ToldOf
  BY <1>3, <1>4 DEF Indexed, ToldOf, Regrouped
<1>6. \A f \in Indexed : nodes'[f].id = nodes[f].id /\ nodes'[f].sig = nodes[f].sig
  BY <1>4 DEF Regrouped, Indexed
<1>7. Planned' /\ Swept'
  BY <1>1, <1>3 DEF Planned, Swept
<1>8. Signed'
  BY <1>1, <1>3, <1>5, <1>6 DEF Signed, PastSignatures
<1>9. Synced'
  BY <1>1, <1>2, <1>3, <1>5, <1>6 DEF Synced, PastFts, PastSignatures, index
<1>10. Counted'
  BY <1>1, <1>2, <1>3 DEF Counted, index
<1> QED BY <1>4, <1>7, <1>8, <1>9, <1>10 DEF Phases

(* A step that leaves nodes, index and the run's plan alone, past the index *)
LEMMA QuietPhases ==
    ASSUME IInv, UNCHANGED <<nodes, fts, watermark>>, run.pc \in PastFts,
           run'.changed = run.changed, run'.passes = run.passes,
           run'.clean = run.clean, run'.pc # "fts", Swept'
    PROVE  Phases'
<1>1. Indexed' = Indexed /\ ToldOf' = ToldOf
  BY DEF Indexed, ToldOf
<1>2. Planned'
  BY DEF IInv, Phases, Planned
<1>3. Signed'
  BY <1>1 DEF IInv, Phases, Signed, PastFts
<1>4. Synced'
  BY <1>1 DEF IInv, Phases, Synced
<1>5. Counted'
  BY DEF IInv, Phases, Counted, PastFts, PastSignatures
<1> QED BY <1>2, <1>3, <1>4, <1>5 DEF Phases

LEMMA SummaryPhases ==
    ASSUME IInv, compute_summaries
    PROVE  Rows' /\ Phases'
<1>1. run \in Runs /\ Rows /\ Typed /\ run.pc = "summaries"
  BY DEF IInv, Rows, Typed, compute_summaries, At
<1>2. /\ risk' = NodeIds \/ risk' = risk
      /\ Go(NextPass(run.passes, 5))
      /\ UNCHANGED <<manifest, graph, index, community, level, faults>>
  BY PassAfterIs DEF compute_summaries, compute_risk_index
<1>3. /\ run' \in Runs
      /\ run'.changed = run.changed /\ run'.passes = run.passes /\ run'.clean = run.clean
      /\ run'.pc # "fts"
      /\ "prune" \in run.passes => run'.pc \notin {"level", "idle"}
  BY <1>1, <1>2, OnwardFrom
<1>4. Rows'
  BY <1>1, <1>2, <1>3, QuietRows DEF Rows, Typed, ReferencesLive, index, community
<1>5. Swept'
  BY <1>3 DEF Swept
<1>6. Phases'
  BY <1>1, <1>2, <1>3, <1>5, QuietPhases DEF PastFts, PastSignatures, graph, index
<1> QED BY <1>4, <1>6

LEMMA PrunePhases ==
    ASSUME IInv, prune_orphans
    PROVE  Rows' /\ Phases'
<1>1. run \in Runs /\ Rows /\ Typed /\ run.pc = "prune"
  BY DEF IInv, Rows, Typed, prune_orphans, At
<1>2. /\ comms' = comms \cap {nodes[f].comm : f \in Indexed} /\ risk' = risk \cap LiveIds
      /\ Go(NextPass(run.passes, 6))
      /\ UNCHANGED <<manifest, graph, index, lastComm, level, faults>>
  BY PassAfterIs DEF prune_orphans
<1>3. /\ run' \in Runs
      /\ run'.changed = run.changed /\ run'.passes = run.passes /\ run'.clean = run.clean
      /\ run'.pc # "fts"
  BY <1>1, <1>2, OnwardFrom
<1>4. \A f \in Indexed : nodes[f].comm \in comms' \cup {0}
  BY <1>1, <1>2 DEF Rows, ReferencesLive
<1>5. risk' \subseteq NodeIds
  BY <1>1, <1>2 DEF Rows, ReferencesLive
<1>6. Rows'
  BY <1>1, <1>2, <1>3, <1>4, <1>5, QuietRows DEF Typed, index
<1>7. Swept'
  <2>1. 0 \notin comms
    BY <1>1 DEF Typed
  <2>2. comms' = {nodes[f].comm : f \in Indexed} \ {0}
    BY <1>2, <1>4, <2>1
  <2>3. Indexed' = Indexed /\ nodes' = nodes
    BY <1>2 DEF Indexed, graph
  <2> QED BY <2>2, <2>3 DEF Swept
<1>8. Phases'
  BY <1>1, <1>2, <1>3, <1>7, QuietPhases DEF PastFts, PastSignatures, graph, index
<1> QED BY <1>6, <1>8

LEMMA LevelPhases ==
    ASSUME IInv, record_level
    PROVE  Rows' /\ Phases'
<1>1. run \in Runs /\ Rows /\ Typed /\ run.pc = "level"
  BY DEF IInv, Rows, Typed, record_level, At
<1>2. /\ level' = run.level /\ Go("idle")
      /\ UNCHANGED <<manifest, graph, index, community, risk, faults>>
  BY DEF record_level
<1>3. /\ run' \in Runs /\ run'.pc = "idle"
      /\ run'.changed = run.changed /\ run'.passes = run.passes /\ run'.clean = run.clean
  BY <1>1, <1>2, Moves
<1>4. Rows'
  BY <1>1, <1>2, <1>3, QuietRows DEF Rows, Typed, Runs, ReferencesLive, index, community
<1>5. Swept'
  BY <1>1, <1>2, <1>3 DEF IInv, Phases, Swept, Indexed, graph, community
<1>6. Phases'
  BY <1>1, <1>2, <1>3, <1>5, QuietPhases DEF PastFts, PastSignatures, graph, index
<1> QED BY <1>4, <1>6

(* A pass that fails, or a run that dies, promises nothing any more *)
LEMMA FaultPhases ==
    ASSUME IInv, FailPass \/ Abort
    PROVE  Rows' /\ Phases'
<1>1. run \in Runs /\ Rows /\ Typed /\ Planned
  BY DEF IInv, Rows, Typed, Phases
<1>2. /\ faults < MaxFaults /\ faults' = faults + 1
      /\ UNCHANGED <<manifest, graph, index, community, risk, level>>
  BY DEF FailPass, Abort
<1>3. \E q \in {"idle"} \cup Passes : run' = [run EXCEPT !.pc = q, !.clean = FALSE]
  <2>1. CASE Abort
    BY <2>1 DEF Abort
  <2>2. CASE FailPass
    <3>1. PICK i \in 1..6 : run.pc = PassOrder[i]
      BY <2>2 DEF FailPass, At
    <3>2. /\ PassOrder[1] = "signatures" /\ PassOrder[2] = "fts" /\ PassOrder[3] = "manifest"
          /\ PassOrder[4] = "communities" /\ PassOrder[5] = "summaries"
          /\ PassOrder[6] = "prune"
      BY DEF PassOrder
    <3>3. i \in {1, 2, 3, 4, 5, 6}
      OBVIOUS
    <3>4. run.pc \in {"signatures", "fts", "manifest", "communities", "summaries", "prune"}
      BY <3>1, <3>2, <3>3
    <3>5. \E j \in 1..6 : PassAfter(run.pc) = NextPass(run.passes, j)
      BY <3>4, PassAfterIs
    <3>6. PassAfter(run.pc) \in {"idle"} \cup Passes
      <4>1. \A j \in 1..6 : j \in 0..7
        OBVIOUS
      <4> QED BY <1>1, <3>5, <4>1, PassesOn
    <3>7. run' = [run EXCEPT !.pc = PassAfter(run.pc), !.clean = FALSE]
      BY <2>2 DEF FailPass
    <3> QED BY <3>6, <3>7
  <2> QED BY <2>1, <2>2
<1>4. run' \in Runs /\ run'.passes = run.passes /\ run'.clean = FALSE
  BY <1>1, <1>3 DEF Runs
<1>5. faults' \in 0..MaxFaults
  BY <1>1, <1>2, PostprocessAssumption DEF Typed
<1>6. Rows'
  BY <1>1, <1>2, <1>4, <1>5, QuietRows DEF Rows, Typed, ReferencesLive, index, community
<1>7. Phases'
  BY <1>1, <1>4 DEF Phases, Planned, Signed, Synced, Swept, Counted
<1> QED BY <1>6, <1>7

----------------------------------------------------------------------------
(* The theorems *)

LEMMA InitIInv == Init => IInv
<1> SUFFICES ASSUME Init PROVE IInv
  OBVIOUS
<1>1. /\ Indexed = {} /\ NodeIds = {} /\ LiveIds = {} /\ FtsIds = {} /\ bridge = Gone
      /\ Gone.id = 0
  BY DEF Init, Indexed, NodeIds, LiveIds, FtsIds, Gone
<1>2. run \in Runs /\ run.clean = FALSE /\ run.passes = {}
  BY DEF Init, NoRun, Runs, Passes
<1>3. Typed
  BY <1>2, PostprocessAssumption DEF Init, Typed, Gone
<1>4. Keyed /\ OneRow /\ IndexCurrent /\ ReferencesLive
  BY <1>1 DEF Init, Keyed, OneRow, IndexCurrent, ReferencesLive
<1>5. Phases
  BY <1>2 DEF Phases, Planned, Signed, Synced, Swept, Counted
<1> QED BY <1>3, <1>4, <1>5 DEF IInv, Rows

LEMMA StepKeepsIInv == IInv /\ [Next]_vars => IInv'
<1> SUFFICES ASSUME IInv, [Next]_vars PROVE Rows' /\ Phases'
  BY DEF IInv
<1>1. CASE Start
  BY <1>1, StartPhases DEF IInv
<1>2. CASE Step
  BY <1>2, RemovePhases, StorePhases, FinishPhases, SignPhases, FtsPhases, BridgePhases,
     DetectPhases, SummaryPhases, PrunePhases, LevelPhases DEF Step
<1>3. CASE FailPass \/ Abort
  BY <1>3, FaultPhases
<1>4. CASE UNCHANGED vars
  <2>1. Rows'
    BY <1>4, QuietRows DEF vars, IInv, Rows, Typed, ReferencesLive, index, community
  <2>2. Phases'
    BY <1>4 DEF vars, graph, index, community, IInv, Phases, Planned, Signed, Synced, Swept,
       Counted, Indexed, ToldOf
  <2> QED BY <2>1, <2>2
<1> QED BY <1>1, <1>2, <1>3, <1>4 DEF Next

LEMMA InvariantHolds == Spec => []IInv
<1>1. Init => IInv
  BY InitIInv
<1>2. IInv /\ [Next]_vars => IInv'
  BY StepKeepsIInv
<1> QED BY <1>1, <1>2, PTL DEF Spec

(* Ids come from the AUTOINCREMENT sequences and every row is well formed,
   whatever the runs, their failed passes and their deaths: the watermark never
   exceeds the sequence because no rowid is indexed twice.                    *)
THEOREM TypeCorrect == Spec => []TypeOK
<1>1. IInv => TypeOK
  BY DEF IInv, Rows, Typed, TypeOK, Runs
<1> QED BY <1>1, InvariantHolds, PTL

(* Every node is in the FTS index at every moment, between any two transactions
   of any run, and without a manifest the index holds nothing else: removal,
   storing, manifest bridges and the index pass each keep nodes and rows
   together.                                                                 *)
THEOREM IndexStaysCurrent == Spec => []IndexCurrent
<1>1. IInv => IndexCurrent
  BY DEF IInv, Rows
<1> QED BY <1>1, InvariantHolds, PTL

(* No node names a community that does not exist and no risk row a node that
   does not: removals, re-parses, whole and regional detection and the sweep,
   in any order and cut short anywhere, leave no dangling reference.         *)
THEOREM NoReferenceDangles == Spec => []ReferencesLive
<1>1. IInv => ReferencesLive
  BY DEF IInv, Rows
<1> QED BY <1>1, InvariantHolds, PTL

(* A run that synced or rebuilt the index without a warning leaves every file it
   was told of signed and indexed under its signature.                       *)
THEOREM SignaturesGetIndexed == Spec => []SignaturesIndexed
<1>1. IInv => SignaturesIndexed
  <2> SUFFICES ASSUME IInv, Idle, run.clean, "fts" \in run.passes
               PROVE  \A f \in Indexed \cap ToldOf :
                        nodes[f].sig /\ [id |-> nodes[f].id, sig |-> TRUE] \in fts
    BY DEF SignaturesIndexed
  <2>1. Signed /\ Synced
    BY DEF IInv, Phases
  <2> QED BY <2>1 DEF Signed, Synced, PastSignatures, PastFts, Idle
<1> QED BY <1>1, InvariantHolds, PTL

(* A run that swept the graph without a warning leaves the communities exactly
   those with members, and the watermark at the size of the index.           *)
THEOREM SweptAndCounted == Spec => []Pruned
<1>1. IInv => Pruned
  BY DEF IInv, Phases, Swept, Counted, Pruned, Idle
<1> QED BY <1>1, InvariantHolds, PTL
=============================================================================

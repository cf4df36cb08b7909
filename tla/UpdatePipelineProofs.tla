------------------------- MODULE UpdatePipelineProofs -------------------------
(***************************************************************************)
(* What an update or a build leaves in the graph, for any files, imports,  *)
(* updaters and any number of edits, commits and events.                   *)
(***************************************************************************)
EXTENDS UpdatePipeline, SequenceTheorems, TLAPS

-----------------------------------------------------------------------------
(* What a run carries *)

\* The functions from some of the files to S.
Part(S) == UNION {[D -> S] : D \in SUBSET Files}

Stage == {"idle", "diff", "status", "scope", "filter", "classify", "apply", "parse",
          "extractors", "head", "build head", "build extractors"}

Lanes(s) == {s[i] : i \in 1..Len(s)}
LaneFiles(s) == UNION {r.files : r \in Lanes(s)}
WholeFiles(s) == UNION {r.files : r \in {q \in Lanes(s) : q.kind = "whole"}}

LaneRec == [kind : {"whole", "changed"}, files : SUBSET Files]

RunState ==
  [pc : Stage, base : Nat, covers : BOOLEAN, changed : SUBSET Files,
   scope : SUBSET Files, reparse : SUBSET Files, removed : SUBSET Files,
   todo : SUBSET Files, probe : Part(Nat), cached : Part(Row), touch : Part(Nat),
   differs : SUBSET Files, batch : Part(Row), lanes : Seq(LaneRec), clean : BOOLEAN]

\* The numbers are those the clock has handed out, 0 stands for nothing, and a
\* row that was read is a row.
Written(f) == tree[f] = Absent \/ (tree[f].content \in 1..clock /\ tree[f].mtime \in 1..clock)
RowRead(r) == r.hash \in 1..clock /\ r.mtime \in 0..clock

Bounds ==
  /\ \A f \in Files : Written(f)
  /\ \A f \in Files : rows[f] = NoRow \/ RowRead(rows[f])
  /\ \A i \in 1..Len(commits) : \A f \in Files : commits[i][f] <= clock
  /\ \A f \in DOMAIN run.cached : RowRead(run.cached[f])
  /\ \A f \in DOMAIN run.batch : RowRead(run.batch[f])
  /\ \A f \in DOMAIN run.touch : run.touch[f] \in 0..clock
  /\ \A f \in DOMAIN run.probe : run.probe[f] \in 1..clock

\* Where a run is and what it works on.
Course ==
  /\ Step("idle") => run = Idle
  /\ DOMAIN run.probe \subseteq run.todo
  /\ run.pc \notin {"classify", "parse"} => run.todo = {}
  /\ Step("parse") => run.lanes # << >> /\ run.todo \subseteq Head(run.lanes).files

TInv ==
  /\ TypeOK /\ run \in RunState /\ head = Len(commits) /\ ext <= version
  /\ Bounds /\ Course

\* Nothing is found to differ before the files are looked at, and only a build has no base.
DInv ==
  /\ run.pc \in {"idle", "diff", "status", "scope", "filter"} => run.differs = {}
  /\ run.pc \in {"diff", "status", "scope", "filter", "classify", "apply"} => run.base # 0
  /\ run.pc \in {"build head", "build extractors"} \/ (run.pc = "parse" /\ run.base = 0)
       => run.covers

-----------------------------------------------------------------------------
(* The mtime of an owned file's row *)

\* Whoever has mtime m for f has h for its bytes.
Match(f, h, m) == f \in Present /\ tree[f].mtime = m => tree[f].content = h

WholeLanesForeign ==
  \A r \in Lanes(run.lanes) : r.kind = "whole" => r.files \cap Owned = {}

\* The rows r and what the run k carries are dated right for f.
FileDated(f, r, k) ==
  /\ Match(f, r[f].hash, r[f].mtime)
  /\ f \in DOMAIN k.cached => Match(f, k.cached[f].hash, k.cached[f].mtime)
  /\ f \in DOMAIN k.batch => Match(f, k.batch[f].hash, k.batch[f].mtime)
  /\ f \in DOMAIN k.touch => Match(f, r[f].hash, k.touch[f])

Dated ==
  /\ ext = version /\ run.reparse = {} /\ WholeLanesForeign
  /\ \A f \in Owned : FileDated(f, rows, run)

AInv == Without({"build", "upgrade", "preserve"}) => Dated

-----------------------------------------------------------------------------
(* The extractor stamp *)

\* The row r[f] describes f as it is but is of an older extractor.
OldRow(f, r) == r[f] # NoRow /\ r[f].hash = tree[f].content /\ r[f].ver # version

\* The lanes of the run k still bring f to the current extractor.
OldAhead(f, k) ==
  \/ Head(k.lanes).kind = "whole" /\ f \in k.todo \cup DOMAIN k.batch
  \/ f \in WholeFiles(Tail(k.lanes))

\* The old rows of r are known to the run k under the extractor stamp e.
OldKnown(r, e, k) ==
  /\ (e = version \/ k.pc \in {"extractors", "build head", "build extractors"})
       => \A f \in Files : ~OldRow(f, r)
  /\ \A f \in DOMAIN k.cached : k.cached[f].ver = version
  /\ \A f \in DOMAIN k.batch : k.batch[f].ver = version
  /\ k.pc \in {"filter", "classify"} => \A f \in Files : OldRow(f, r) => f \in k.reparse
  /\ k.pc = "classify" => \A f \in k.differs : r[f] # NoRow => r[f].hash # tree[f].content
  /\ k.pc = "apply" => \A f \in Files : OldRow(f, r) => f \in WholeFiles(k.lanes)
  /\ k.pc = "parse" => \A f \in Files : OldRow(f, r) => OldAhead(f, k)

EInv == Without({"unreadable", "discard"}) => OldKnown(rows, ext, run)

-----------------------------------------------------------------------------
(* The HEAD stamp *)

\* The files the next update sees, whatever the stamp says.
Loose == {f \in Files : f \notin Present \/ f \in Dirty}

\* The files a run may have wrong: it saw the tree change or a file vanish.
Excused == IF settled /\ run.clean THEN {} ELSE Loose

\* h describes f, but for the files of X.
Good(f, h, X) == h = tree[f].content \/ f \in X

\* Bytes that HEAD does not have are in no commit.
Unseen == \A f \in Dirty : f \in Present =>
            \A i \in 1..Len(commits) : commits[i][f] # tree[f].content

\* The stamp s hides no row of r.
AllShown(r, s) == \A f \in Files : Good(f, r[f].hash, BaseDiff(s) \cup Loose)

\* What git has said so far.
DiffRead(k, X) ==
  /\ k.pc \in {"status", "scope"} => BaseDiff(k.base) \subseteq k.changed
  /\ k.pc = "scope" => Dirty \subseteq k.changed \cup X

\* What the run leaves out or removes is absent, and what it looks at is in its scope.
ScopeGood(k, X) ==
  /\ k.pc \in {"filter", "classify"} => \A f \in Files \ k.scope : Good(f, 0, X)
  /\ k.pc \in {"filter", "classify", "apply"} => \A f \in k.removed : Good(f, 0, X)
  /\ k.pc = "classify" => /\ k.todo \cup k.differs \subseteq k.scope
                          /\ k.differs \cap Owned \subseteq DOMAIN k.cached

\* What the run has read describes the files.
CarriedGood(k, X) ==
  /\ \A f \in DOMAIN k.cached : Good(f, k.cached[f].hash, X)
  /\ \A f \in DOMAIN k.batch : Good(f, k.batch[f].hash, X)
  /\ k.pc = "parse" /\ Head(k.lanes).kind = "whole" =>
       \A f \in DOMAIN k.probe : Good(f, k.probe[f], X)

\* What is still to be done about f at each stage of a run.
Ahead(f, k) ==
  \/ k.pc = "filter" /\ f \in k.changed \cup k.removed
  \/ k.pc = "classify" /\ f \in k.removed \cup k.todo \cup k.differs
  \/ k.pc = "apply" /\ f \in k.removed \cup LaneFiles(k.lanes)
  \/ k.pc = "parse" /\ f \in k.todo \cup DOMAIN k.batch \cup LaneFiles(Tail(k.lanes))

Late == {"filter", "classify", "apply", "parse", "extractors", "head",
         "build head", "build extractors"}

\* A run that may stamp HEAD leaves no row wrong that it has passed.
RowsGood(r, k, X) ==
  k.covers /\ k.pc \in Late => \A f \in Files : Good(f, r[f].hash, X) \/ Ahead(f, k)

Honest(r, s, k, X) ==
  AllShown(r, s) /\ DiffRead(k, X) /\ ScopeGood(k, X) /\ CarriedGood(k, X) /\ RowsGood(r, k, X)

Quiet == Step("idle") /\ settled => InSync

SInv == Without({"commit", "discard", "unreadable"}) =>
          Unseen /\ Quiet /\ Honest(rows, stamp, run, Excused)

-----------------------------------------------------------------------------
(* Functions of some of the files *)

\* A function of some files has values in S at those files.
LEMMA PartIs ==
  ASSUME NEW S, NEW g \in Part(S)
  PROVE  /\ DOMAIN g \subseteq Files /\ g \in [DOMAIN g -> S]
         /\ \A f \in DOMAIN g : f \in Files /\ g[f] \in S
BY DEF Part

\* The empty function is one of them.
LEMMA EmptyPart == ASSUME NEW S PROVE Empty \in Part(S) /\ DOMAIN Empty = {}
<1>1. Empty \in [{} -> S] /\ {} \in SUBSET Files
  BY DEF Empty
<1> QED BY <1>1 DEF Part, Empty

\* With extends a function by one file.
LEMMA WithPart ==
  ASSUME NEW S, NEW g \in Part(S), NEW f \in Files, NEW v \in S
  PROVE  /\ With(g, f, v) \in Part(S) /\ DOMAIN With(g, f, v) = DOMAIN g \cup {f}
         /\ \A h \in DOMAIN g \cup {f} : With(g, f, v)[h] = IF h = f THEN v ELSE g[h]
<1>1. With(g, f, v) \in [DOMAIN g \cup {f} -> S] /\ DOMAIN g \cup {f} \in SUBSET Files
  BY PartIs DEF With
<1>2. DOMAIN With(g, f, v) = DOMAIN g \cup {f}
         /\ \A h \in DOMAIN g \cup {f} : With(g, f, v)[h] = IF h = f THEN v ELSE g[h]
  BY DEF With
<1> QED BY <1>1, <1>2 DEF Part

\* Drop takes one file out of a function.
LEMMA DropPart ==
  ASSUME NEW S, NEW g \in Part(S), NEW f
  PROVE  /\ Drop(g, f) \in Part(S) /\ DOMAIN Drop(g, f) = DOMAIN g \ {f}
         /\ \A h \in DOMAIN g \ {f} : Drop(g, f)[h] = g[h]
<1>1. Drop(g, f) \in [DOMAIN g \ {f} -> S] /\ DOMAIN g \ {f} \in SUBSET Files
  BY PartIs DEF Drop
<1>2. DOMAIN Drop(g, f) = DOMAIN g \ {f} /\ \A h \in DOMAIN g \ {f} : Drop(g, f)[h] = g[h]
  BY DEF Drop
<1> QED BY <1>1, <1>2 DEF Part

\* Only restricts a function to a set of files.
LEMMA OnlyPart ==
  ASSUME NEW S, NEW g \in Part(S), NEW D
  PROVE  /\ Only(g, D) \in Part(S) /\ DOMAIN Only(g, D) = DOMAIN g \cap D
         /\ \A h \in DOMAIN g \cap D : Only(g, D)[h] = g[h]
<1>1. Only(g, D) \in [DOMAIN g \cap D -> S] /\ DOMAIN g \cap D \in SUBSET Files
  BY PartIs DEF Only
<1>2. DOMAIN Only(g, D) = DOMAIN g \cap D /\ \A h \in DOMAIN g \cap D : Only(g, D)[h] = g[h]
  BY DEF Only
<1> QED BY <1>1, <1>2 DEF Part

-----------------------------------------------------------------------------
(* Lanes *)

\* A lane of no files is no lane.
LEMMA LaneIs ==
  ASSUME NEW k \in {"whole", "changed"}, NEW D \in SUBSET Files
  PROVE  /\ Lane(k, D) \in Seq(LaneRec)
         /\ Lanes(Lane(k, D)) = IF D = {} THEN {} ELSE {[kind |-> k, files |-> D]}
<1> DEFINE r == [kind |-> k, files |-> D]
<1>1. r \in LaneRec
  BY DEF LaneRec
<1>2. CASE D = {}
  BY <1>2, EmptySeq DEF Lane, Lanes
<1>3. CASE D # {}
  <2>1. Lane(k, D) = << r >>
    BY <1>3 DEF Lane
  <2> HIDE DEF r
  <2>2. << r >> \in Seq(LaneRec) /\ Len(<< r >>) = 1 /\ << r >>[1] = r
    BY <1>1
  <2>3. Lanes(<< r >>) = {r}
    BY <2>2 DEF Lanes
  <2> QED BY <1>1, <1>3, <2>1, <2>2, <2>3 DEF r
<1> QED BY <1>2, <1>3

\* The lanes of two lists in a row are the lanes of both.
LEMMA LanesJoin ==
  ASSUME NEW s \in Seq(LaneRec), NEW t \in Seq(LaneRec)
  PROVE  s \o t \in Seq(LaneRec) /\ Lanes(s \o t) = Lanes(s) \cup Lanes(t)
<1> DEFINE c == s \o t
<1>1. /\ c \in Seq(LaneRec) /\ Len(c) = Len(s) + Len(t) /\ Len(s) \in Nat /\ Len(t) \in Nat
      /\ \A i \in 1..(Len(s) + Len(t)) : c[i] = IF i <= Len(s) THEN s[i] ELSE t[i - Len(s)]
  BY ConcatProperties, LenProperties
<1> HIDE DEF c
<1>2. ASSUME NEW i \in 1..Len(c) PROVE c[i] \in Lanes(s) \cup Lanes(t)
  <2>1. CASE i <= Len(s)
    BY <1>1, <2>1 DEF Lanes
  <2>2. CASE ~(i <= Len(s))
    <3>1. i - Len(s) \in 1..Len(t) /\ c[i] = t[i - Len(s)]
      BY <1>1, <2>2
    <3> QED BY <3>1 DEF Lanes
  <2> QED BY <2>1, <2>2
<1>3. ASSUME NEW j \in 1..Len(s) PROVE s[j] \in Lanes(c)
  <2>1. j \in 1..Len(c) /\ c[j] = s[j]
    BY <1>1
  <2> QED BY <2>1 DEF Lanes
<1>4. ASSUME NEW j \in 1..Len(t) PROVE t[j] \in Lanes(c)
  <2>1. j + Len(s) \in 1..Len(c) /\ ~(j + Len(s) <= Len(s)) /\ (j + Len(s)) - Len(s) = j
    BY <1>1
  <2>2. c[j + Len(s)] = t[j]
    BY <1>1, <2>1
  <2> QED BY <2>1, <2>2 DEF Lanes
<1>5. Lanes(c) \subseteq Lanes(s) \cup Lanes(t)
  <2> SUFFICES ASSUME NEW r \in Lanes(c) PROVE r \in Lanes(s) \cup Lanes(t)
    OBVIOUS
  <2>1. PICK i \in 1..Len(c) : r = c[i]
    BY DEF Lanes
  <2> QED BY <1>2, <2>1
<1>6. Lanes(s) \subseteq Lanes(c)
  <2> SUFFICES ASSUME NEW r \in Lanes(s) PROVE r \in Lanes(c)
    OBVIOUS
  <2>1. PICK i \in 1..Len(s) : r = s[i]
    BY DEF Lanes
  <2> QED BY <1>3, <2>1
<1>7. Lanes(t) \subseteq Lanes(c)
  <2> SUFFICES ASSUME NEW r \in Lanes(t) PROVE r \in Lanes(c)
    OBVIOUS
  <2>1. PICK i \in 1..Len(t) : r = t[i]
    BY DEF Lanes
  <2> QED BY <1>4, <2>1
<1> QED BY <1>1, <1>5, <1>6, <1>7 DEF c

\* The lanes of a plan: a and d as whole files, b and c by their change.
LEMMA PlanLanes ==
  ASSUME NEW a \in SUBSET Files, NEW b \in SUBSET Files, NEW c \in SUBSET Files,
         NEW d \in SUBSET Files
  PROVE  LET s == Lane("whole", a) \o Lane("changed", b) \o Lane("changed", c) \o Lane("whole", d)
         IN  /\ s \in Seq(LaneRec)
             /\ a \cup b \cup c \cup d \subseteq LaneFiles(s)
             /\ a \cup d \subseteq WholeFiles(s)
             /\ \A r \in Lanes(s) : r.kind = "whole" => r.files = a \/ r.files = d
<1> DEFINE A == Lane("whole", a)
           B == Lane("changed", b)
           C == Lane("changed", c)
           D == Lane("whole", d)
           AB == A \o B
           ABC == AB \o C
           s == ABC \o D
           ra == [kind |-> "whole", files |-> a]
           rb == [kind |-> "changed", files |-> b]
           rc == [kind |-> "changed", files |-> c]
           rd == [kind |-> "whole", files |-> d]
<1>0. /\ ra.kind = "whole" /\ ra.files = a /\ rb.kind = "changed" /\ rb.files = b
      /\ rc.kind = "changed" /\ rc.files = c /\ rd.kind = "whole" /\ rd.files = d
  OBVIOUS
<1>1. /\ A \in Seq(LaneRec) /\ B \in Seq(LaneRec) /\ C \in Seq(LaneRec) /\ D \in Seq(LaneRec)
      /\ Lanes(A) = (IF a = {} THEN {} ELSE {ra}) /\ Lanes(B) = (IF b = {} THEN {} ELSE {rb})
      /\ Lanes(C) = (IF c = {} THEN {} ELSE {rc}) /\ Lanes(D) = (IF d = {} THEN {} ELSE {rd})
  BY LaneIs
<1> HIDE DEF A, B, C, D, ra, rb, rc, rd
<1>2. AB \in Seq(LaneRec) /\ Lanes(AB) = Lanes(A) \cup Lanes(B)
  BY <1>1, LanesJoin
<1> HIDE DEF AB
<1>3. ABC \in Seq(LaneRec) /\ Lanes(ABC) = Lanes(AB) \cup Lanes(C)
  BY <1>1, <1>2, LanesJoin
<1> HIDE DEF ABC
<1>4. s \in Seq(LaneRec) /\ Lanes(s) = Lanes(ABC) \cup Lanes(D)
  BY <1>1, <1>3, LanesJoin
<1> HIDE DEF s
<1>5. Lanes(s) = Lanes(A) \cup Lanes(B) \cup Lanes(C) \cup Lanes(D)
  BY <1>2, <1>3, <1>4
<1>6. \A r \in Lanes(s) : r.kind = "whole" => r.files = a \/ r.files = d
  BY <1>0, <1>1, <1>5
<1>7. /\ a # {} => ra \in Lanes(s)
      /\ b # {} => rb \in Lanes(s)
      /\ c # {} => rc \in Lanes(s)
      /\ d # {} => rd \in Lanes(s)
  BY <1>1, <1>5
<1>8. a \cup b \cup c \cup d \subseteq LaneFiles(s)
  BY <1>0, <1>7 DEF LaneFiles
<1>9. a \cup d \subseteq WholeFiles(s)
  BY <1>0, <1>7 DEF WholeFiles
<1> QED BY <1>4, <1>6, <1>8, <1>9 DEF s, ABC, AB, A, B, C, D

\* The lanes of a build: all files are read whole.
LEMMA BuildLanes ==
  ASSUME NEW a \in SUBSET Files, NEW b \in SUBSET Files
  PROVE  LET s == Lane("whole", a) \o Lane("whole", b)
         IN  /\ s \in Seq(LaneRec)
             /\ a \cup b \subseteq LaneFiles(s) /\ a \cup b \subseteq WholeFiles(s)
<1> DEFINE A == Lane("whole", a)
           B == Lane("whole", b)
           s == A \o B
           ra == [kind |-> "whole", files |-> a]
           rb == [kind |-> "whole", files |-> b]
<1>0. ra.kind = "whole" /\ ra.files = a /\ rb.kind = "whole" /\ rb.files = b
  OBVIOUS
<1>1. /\ A \in Seq(LaneRec) /\ B \in Seq(LaneRec)
      /\ Lanes(A) = (IF a = {} THEN {} ELSE {ra}) /\ Lanes(B) = (IF b = {} THEN {} ELSE {rb})
  BY LaneIs
<1> HIDE DEF A, B, ra, rb
<1>2. s \in Seq(LaneRec) /\ Lanes(s) = Lanes(A) \cup Lanes(B)
  BY <1>1, LanesJoin
<1> HIDE DEF s
<1>3. (a # {} => ra \in Lanes(s)) /\ (b # {} => rb \in Lanes(s))
  BY <1>1, <1>2
<1>4. a \cup b \subseteq LaneFiles(s)
  BY <1>0, <1>3 DEF LaneFiles
<1>5. a \cup b \subseteq WholeFiles(s)
  BY <1>0, <1>3 DEF WholeFiles
<1> QED BY <1>2, <1>4, <1>5 DEF s, A, B

\* What is in some lane is in the first or in a later one.
LEMMA FirstLane ==
  ASSUME NEW s \in Seq(LaneRec), s # << >>
  PROVE  /\ Tail(s) \in Seq(LaneRec)
         /\ Head(s).kind \in {"whole", "changed"} /\ Head(s).files \in SUBSET Files
         /\ Lanes(s) = {Head(s)} \cup Lanes(Tail(s))
         /\ LaneFiles(s) = Head(s).files \cup LaneFiles(Tail(s))
         /\ \A f \in WholeFiles(s) :
              (Head(s).kind = "whole" /\ f \in Head(s).files) \/ f \in WholeFiles(Tail(s))
<1> DEFINE r == Tail(s)
<1>1. /\ Head(s) \in LaneRec /\ Head(s) = s[1] /\ r \in Seq(LaneRec) /\ Len(r) = Len(s) - 1
      /\ \A i \in 1..Len(r) : r[i] = s[i + 1]
      /\ Len(s) \in Nat \ {0}
  BY HeadTailProperties, EmptySeq
<1>2. Head(s).kind \in {"whole", "changed"} /\ Head(s).files \in SUBSET Files
  BY <1>1 DEF LaneRec
<1> HIDE DEF r
<1>3. Lanes(r) \subseteq Lanes(s) /\ Head(s) \in Lanes(s)
  <2>1. ASSUME NEW i \in 1..Len(r) PROVE r[i] \in Lanes(s)
    <3>1. i + 1 \in 1..Len(s) /\ r[i] = s[i + 1]
      BY <1>1
    <3> QED BY <3>1 DEF Lanes
  <2>2. Lanes(r) \subseteq Lanes(s)
    BY <2>1 DEF Lanes
  <2>3. 1 \in 1..Len(s)
    BY <1>1
  <2> QED BY <1>1, <2>2, <2>3 DEF Lanes
<1>4. Lanes(s) \subseteq {Head(s)} \cup Lanes(r)
  <2>1. ASSUME NEW j \in 1..Len(s), j # 1 PROVE s[j] \in Lanes(r)
    <3>1. j - 1 \in 1..Len(r) /\ (j - 1) + 1 = j
      BY <1>1, <2>1
    <3>2. r[j - 1] = s[j]
      BY <1>1, <3>1
    <3> QED BY <3>1, <3>2 DEF Lanes
  <2> SUFFICES ASSUME NEW x \in Lanes(s) PROVE x \in {Head(s)} \cup Lanes(r)
    OBVIOUS
  <2>2. PICK j \in 1..Len(s) : x = s[j]
    BY DEF Lanes
  <2> QED BY <1>1, <2>1, <2>2
<1>5. Lanes(s) = {Head(s)} \cup Lanes(r)
  BY <1>3, <1>4
<1>6. LaneFiles(s) = Head(s).files \cup LaneFiles(r)
  BY <1>5 DEF LaneFiles
<1>7. \A f \in WholeFiles(s) :
        (Head(s).kind = "whole" /\ f \in Head(s).files) \/ f \in WholeFiles(r)
  BY <1>5 DEF WholeFiles
<1> QED BY <1>1, <1>2, <1>5, <1>6, <1>7 DEF r

\* No lanes, no files in them.
LEMMA NoLanes == Lanes(<< >>) = {} /\ LaneFiles(<< >>) = {} /\ WholeFiles(<< >>) = {}
<1>1. Lanes(<< >>) = {}
  BY DEF Lanes
<1> QED BY <1>1 DEF LaneFiles, WholeFiles

-----------------------------------------------------------------------------
(* What a look at one file does to the run *)

\* The fields that no look at a file changes.
SamePlan(r, k) ==
  /\ k.pc = r.pc /\ k.base = r.base /\ k.covers = r.covers /\ k.changed = r.changed
  /\ k.scope = r.scope /\ k.reparse = r.reparse /\ k.removed = r.removed /\ k.lanes = r.lanes

\* The fields of a run have their types.
LEMMA RunFields ==
  ASSUME NEW r \in RunState
  PROVE  /\ r.pc \in Stage /\ r.base \in Nat /\ r.covers \in BOOLEAN /\ r.changed \in SUBSET Files
         /\ r.scope \in SUBSET Files /\ r.reparse \in SUBSET Files /\ r.removed \in SUBSET Files
         /\ r.todo \in SUBSET Files /\ r.probe \in Part(Nat) /\ r.cached \in Part(Row)
         /\ r.touch \in Part(Nat) /\ r.differs \in SUBSET Files /\ r.batch \in Part(Row)
         /\ r.lanes \in Seq(LaneRec) /\ r.clean \in BOOLEAN
BY DEF RunState

\* The first half of a look changes the probe alone.
LEMMA ProbedIs ==
  ASSUME NEW r \in RunState, NEW f \in Files, NEW v \in Nat
  PROVE  LET k == [r EXCEPT !.probe = With(@, f, v)]
         IN  /\ k \in RunState /\ SamePlan(r, k) /\ k.todo = r.todo
             /\ k.probe = With(r.probe, f, v) /\ k.cached = r.cached /\ k.touch = r.touch
             /\ k.differs = r.differs /\ k.batch = r.batch /\ k.clean = r.clean
<1> DEFINE w == With(r.probe, f, v)
<1>1. w \in Part(Nat)
  BY WithPart, RunFields
<1> HIDE DEF w
<1>2. [r EXCEPT !.probe = w] \in RunState
  BY <1>1 DEF RunState
<1>3. LET k == [r EXCEPT !.probe = w]
      IN  /\ SamePlan(r, k) /\ k.todo = r.todo
          /\ k.probe = w /\ k.cached = r.cached /\ k.touch = r.touch
          /\ k.differs = r.differs /\ k.batch = r.batch /\ k.clean = r.clean
  BY DEF RunState, SamePlan
<1> QED BY <1>2, <1>3 DEF w

\* A finished look takes the file off the list and off the probe.
LEMMA LookedIs ==
  ASSUME NEW r \in RunState, NEW f \in Files
  PROVE  LET k == Looked(r, f)
         IN  /\ k \in RunState /\ SamePlan(r, k) /\ k.todo = r.todo \ {f}
             /\ k.probe = Drop(r.probe, f) /\ k.cached = r.cached /\ k.touch = r.touch
             /\ k.differs = r.differs /\ k.batch = r.batch /\ k.clean = r.clean
<1> DEFINE w == Drop(r.probe, f)
           k == [r EXCEPT !.todo = @ \ {f}, !.probe = w]
<1>1. w \in Part(Nat)
  BY DropPart, RunFields
<1>2. Looked(r, f) = k
  BY DEF Looked
<1> HIDE DEF w
<1>3. k \in RunState
  BY <1>1 DEF RunState
<1>4. /\ SamePlan(r, k) /\ k.todo = r.todo \ {f}
      /\ k.probe = w /\ k.cached = r.cached /\ k.touch = r.touch
      /\ k.differs = r.differs /\ k.batch = r.batch /\ k.clean = r.clean
  BY DEF RunState, SamePlan
<1> QED BY <1>2, <1>3, <1>4 DEF w

\* A file that cannot be read is an error, or counts as changed (content_state).
LEMMA GaveUpIs ==
  ASSUME NEW r \in RunState, NEW f \in Files
  PROVE  LET k == GaveUp(r, f)
             c == r.pc = "classify" /\ f \notin Owned
         IN  /\ k \in RunState /\ SamePlan(r, k) /\ k.todo = r.todo \ {f}
             /\ k.probe = Drop(r.probe, f) /\ k.cached = r.cached /\ k.touch = r.touch
             /\ k.batch = r.batch
             /\ c => k.differs = r.differs \cup {f} /\ k.clean = r.clean
             /\ ~c => k.differs = r.differs /\ k.clean = FALSE
<1> PICK s : s = Looked(r, f)
  OBVIOUS
<1>1. /\ s \in RunState /\ SamePlan(r, s) /\ s.todo = r.todo \ {f}
      /\ s.probe = Drop(r.probe, f) /\ s.cached = r.cached /\ s.touch = r.touch
      /\ s.differs = r.differs /\ s.batch = r.batch /\ s.clean = r.clean
  BY LookedIs
<1>2. CASE r.pc = "classify" /\ f \notin Owned
  <2> DEFINE k == [s EXCEPT !.differs = @ \cup {f}]
  <2>1. GaveUp(r, f) = k
    BY <1>2 DEF GaveUp
  <2>2. k \in RunState
    BY <1>1 DEF RunState
  <2>3. /\ SamePlan(s, k) /\ k.todo = s.todo /\ k.probe = s.probe /\ k.cached = s.cached
        /\ k.touch = s.touch /\ k.batch = s.batch /\ k.differs = s.differs \cup {f}
        /\ k.clean = s.clean
    BY <1>1 DEF RunState, SamePlan
  <2>4. SamePlan(r, k)
    BY <1>1, <2>3 DEF SamePlan
  <2> HIDE DEF k
  <2> QED BY <1>1, <1>2, <2>1, <2>2, <2>3, <2>4
<1>3. CASE ~(r.pc = "classify" /\ f \notin Owned)
  <2> DEFINE k == [s EXCEPT !.clean = FALSE]
  <2>1. GaveUp(r, f) = k
    BY <1>3 DEF GaveUp
  <2>2. k \in RunState
    BY <1>1 DEF RunState
  <2>3. /\ SamePlan(s, k) /\ k.todo = s.todo /\ k.probe = s.probe /\ k.cached = s.cached
        /\ k.touch = s.touch /\ k.batch = s.batch /\ k.differs = s.differs
        /\ k.clean = FALSE
    BY <1>1 DEF RunState, SamePlan
  <2>4. SamePlan(r, k)
    BY <1>1, <2>3 DEF SamePlan
  <2> HIDE DEF k
  <2> QED BY <1>1, <1>3, <2>1, <2>2, <2>3, <2>4
<1> QED BY <1>2, <1>3

\* A confirmed file has its mtime remembered.
LEMMA TouchedIs ==
  ASSUME NEW r \in RunState, NEW f \in Files, NEW v \in Nat
  PROVE  LET k == [Looked(r, f) EXCEPT !.touch = With(@, f, v)]
         IN  /\ k \in RunState /\ SamePlan(r, k) /\ k.todo = r.todo \ {f}
             /\ k.probe = Drop(r.probe, f) /\ k.cached = r.cached
             /\ k.touch = With(r.touch, f, v)
             /\ k.differs = r.differs /\ k.batch = r.batch /\ k.clean = r.clean
<1> PICK s : s = Looked(r, f)
  OBVIOUS
<1>1. /\ s \in RunState /\ SamePlan(r, s) /\ s.todo = r.todo \ {f}
      /\ s.probe = Drop(r.probe, f) /\ s.cached = r.cached /\ s.touch = r.touch
      /\ s.differs = r.differs /\ s.batch = r.batch /\ s.clean = r.clean
  BY LookedIs
<1> DEFINE w == With(s.touch, f, v)
           k == [s EXCEPT !.touch = w]
<1>2. w \in Part(Nat)
  BY <1>1, WithPart, RunFields
<1> HIDE DEF w
<1>3. k \in RunState
  BY <1>1, <1>2 DEF RunState
<1>4. /\ SamePlan(s, k) /\ k.todo = s.todo /\ k.probe = s.probe /\ k.cached = s.cached
      /\ k.touch = w /\ k.batch = s.batch /\ k.differs = s.differs /\ k.clean = s.clean
  BY <1>1 DEF RunState, SamePlan
<1>5. SamePlan(r, k)
  BY <1>1, <1>4 DEF SamePlan
<1>6. k = [Looked(r, f) EXCEPT !.touch = With(@, f, v)]
  BY DEF w
<1> HIDE DEF k
<1> QED BY <1>1, <1>3, <1>4, <1>5, <1>6 DEF w

\* A file that differs is remembered while classifying and batched while parsing.
LEMMA DiffersIs ==
  ASSUME NEW r \in RunState, NEW f \in Files, NEW row \in Row
  PROVE  LET k == Differs(r, f, row)
         IN  /\ k \in RunState /\ SamePlan(r, k) /\ k.todo = r.todo \ {f}
             /\ k.probe = Drop(r.probe, f) /\ k.touch = r.touch /\ k.clean = r.clean
             /\ r.pc = "classify" =>
                  /\ k.differs = r.differs \cup {f} /\ k.batch = r.batch
                  /\ k.cached = IF f \in Owned THEN With(r.cached, f, row) ELSE r.cached
             /\ r.pc # "classify" =>
                  /\ k.differs = r.differs /\ k.cached = r.cached
                  /\ k.batch = With(r.batch, f, row)
<1> PICK s : s = Looked(r, f)
  OBVIOUS
<1>1. /\ s \in RunState /\ SamePlan(r, s) /\ s.todo = r.todo \ {f}
      /\ s.probe = Drop(r.probe, f) /\ s.cached = r.cached /\ s.touch = r.touch
      /\ s.differs = r.differs /\ s.batch = r.batch /\ s.clean = r.clean
  BY LookedIs
<1>2. CASE r.pc = "classify"
  <2> DEFINE w == IF f \in Owned THEN With(s.cached, f, row) ELSE s.cached
             k == [s EXCEPT !.differs = @ \cup {f}, !.cached = w]
  <2>1. w \in Part(Row)
    BY <1>1, WithPart, RunFields
  <2>2. Differs(r, f, row) = k
    BY <1>2 DEF Differs
  <2> HIDE DEF w
  <2>3. k \in RunState
    BY <1>1, <2>1 DEF RunState
  <2>4. /\ SamePlan(s, k) /\ k.todo = s.todo /\ k.probe = s.probe /\ k.cached = w
        /\ k.touch = s.touch /\ k.batch = s.batch /\ k.differs = s.differs \cup {f}
        /\ k.clean = s.clean
    BY <1>1 DEF RunState, SamePlan
  <2>5. SamePlan(r, k)
    BY <1>1, <2>4 DEF SamePlan
  <2> HIDE DEF k
  <2> QED BY <1>1, <1>2, <2>2, <2>3, <2>4, <2>5 DEF w
<1>3. CASE r.pc # "classify"
  <2> DEFINE w == With(s.batch, f, row)
             k == [s EXCEPT !.batch = w]
  <2>1. w \in Part(Row)
    BY <1>1, WithPart, RunFields
  <2>2. Differs(r, f, row) = k
    BY <1>3 DEF Differs
  <2> HIDE DEF w
  <2>3. k \in RunState
    BY <1>1, <2>1 DEF RunState
  <2>4. /\ SamePlan(s, k) /\ k.todo = s.todo /\ k.probe = s.probe /\ k.cached = s.cached
        /\ k.touch = s.touch /\ k.batch = w /\ k.differs = s.differs
        /\ k.clean = s.clean
    BY <1>1 DEF RunState, SamePlan
  <2>5. SamePlan(r, k)
    BY <1>1, <2>4 DEF SamePlan
  <2> HIDE DEF k
  <2> QED BY <1>1, <1>3, <2>2, <2>3, <2>4, <2>5 DEF w
<1> QED BY <1>2, <1>3

\* The fields that only looks, plans and batches change.
SameLook(r, k) ==
  /\ k.todo = r.todo /\ k.probe = r.probe /\ k.cached = r.cached /\ k.touch = r.touch
  /\ k.differs = r.differs /\ k.batch = r.batch /\ k.clean = r.clean

\* What a run reads of the graph and the tree is about files.
LEMMA ReadSets ==
  /\ Present \subseteq Files /\ Indexed \subseteq Files /\ Dirty \subseteq Files
  /\ \A b : BaseDiff(b) \subseteq Files
BY DEF Present, Indexed, Dirty, BaseDiff

\* A run that has not begun.
LEMMA IdleIs ==
  /\ Idle \in RunState /\ Idle.pc = "idle" /\ Idle.base = 0 /\ Idle.todo = {} /\ Idle.changed = {}
  /\ Idle.removed = {} /\ Idle.differs = {} /\ Idle.reparse = {} /\ Idle.scope = {}
  /\ Idle.lanes = << >> /\ Idle.clean = TRUE
  /\ Idle.probe = Empty /\ Idle.cached = Empty /\ Idle.touch = Empty /\ Idle.batch = Empty
<1>1. Empty \in Part(Nat) /\ Empty \in Part(Row) /\ << >> \in Seq(LaneRec)
  BY EmptyPart, EmptySeq
<1>2. "idle" \in Stage
  BY DEF Stage
<1>3. Idle \in RunState
  BY <1>1, <1>2 DEF Idle, RunState
<1> QED BY <1>3 DEF Idle

-----------------------------------------------------------------------------
(* What the store's operations leave in a row *)

\* Removing files leaves the rows of the others.
LEMMA RemovedRow ==
  ASSUME NEW r \in [Files -> Row], NEW D
  PROVE  /\ Removed(r, D) \in [Files -> Row]
         /\ \A f \in Files : Removed(r, D)[f] = IF f \in D THEN NoRow ELSE r[f]
<1>1. NoRow \in Row
  BY DEF NoRow, Row
<1> QED BY <1>1 DEF Removed

\* Storing mtimes keeps the hash and the version of every row, and makes no row.
LEMMA TouchedRow ==
  ASSUME NEW r \in [Files -> Row], NEW g \in Part(Nat)
  PROVE  /\ Touched(r, g) \in [Files -> Row]
         /\ \A f \in Files :
              /\ Touched(r, g)[f].hash = r[f].hash /\ Touched(r, g)[f].ver = r[f].ver
              /\ f \in DOMAIN g /\ r[f] # NoRow => Touched(r, g)[f].mtime = g[f]
              /\ f \notin DOMAIN g \/ r[f] = NoRow => Touched(r, g)[f] = r[f]
<1> DEFINE v(f) == IF f \in DOMAIN g /\ r[f] # NoRow THEN [r[f] EXCEPT !.mtime = g[f]] ELSE r[f]
<1>1. Touched(r, g) = [f \in Files |-> v(f)]
  BY DEF Touched
<1>2. ASSUME NEW f \in Files
      PROVE  /\ v(f) \in Row /\ v(f).hash = r[f].hash /\ v(f).ver = r[f].ver
             /\ f \in DOMAIN g /\ r[f] # NoRow => v(f).mtime = g[f]
             /\ f \notin DOMAIN g \/ r[f] = NoRow => v(f) = r[f]
  <2>1. CASE f \in DOMAIN g /\ r[f] # NoRow
    <3>1. g[f] \in Nat /\ r[f] \in Row
      BY <2>1, PartIs
    <3>2. v(f) = [r[f] EXCEPT !.mtime = g[f]]
      BY <2>1
    <3>3. [r[f] EXCEPT !.mtime = g[f]] \in Row /\ [r[f] EXCEPT !.mtime = g[f]].hash = r[f].hash
          /\ [r[f] EXCEPT !.mtime = g[f]].ver = r[f].ver /\ [r[f] EXCEPT !.mtime = g[f]].mtime = g[f]
      BY <3>1 DEF Row
    <3> HIDE DEF v
    <3> QED BY <2>1, <3>2, <3>3
  <2>2. CASE ~(f \in DOMAIN g /\ r[f] # NoRow)
    BY <2>2
  <2> QED BY <2>1, <2>2
<1> HIDE DEF v
<1> QED BY <1>1, <1>2

\* A stored batch replaces the rows of its files.
LEMMA StoredRow ==
  ASSUME NEW r \in [Files -> Row], NEW b \in Part(Row)
  PROVE  /\ Stored(r, b) \in [Files -> Row]
         /\ \A f \in Files : Stored(r, b)[f] = IF f \in DOMAIN b THEN b[f] ELSE r[f]
BY PartIs DEF Stored

\* A row or a file is absent exactly when its bytes are.
LEMMA AbsentIs ==
  ASSUME TInv, NEW f \in Files
  PROVE  /\ tree[f].content \in Nat /\ tree[f].mtime \in Nat
         /\ rows[f] \in Row /\ rows[f].hash \in Nat /\ rows[f].mtime \in Nat /\ rows[f].ver \in Nat
         /\ f \in Present <=> tree[f].content # 0
         /\ f \in Present => tree[f].mtime \in 1..clock
         /\ f \in Indexed <=> rows[f].hash # 0
         /\ f \notin Indexed => rows[f] = NoRow
<1>1. /\ tree[f] \in [content : Nat, mtime : Nat] /\ rows[f] \in Row /\ clock \in Nat
      /\ Written(f) /\ (rows[f] = NoRow \/ RowRead(rows[f]))
  BY DEF TInv, TypeOK, Bounds
<1>2. Absent.content = 0 /\ NoRow.hash = 0
  BY DEF Absent, NoRow
<1>3. tree[f] # Absent => tree[f].content \in 1..clock /\ tree[f].mtime \in 1..clock
  BY <1>1 DEF Written
<1>4. rows[f] # NoRow => rows[f].hash \in 1..clock
  BY <1>1 DEF RowRead
<1>5. f \in Present <=> tree[f].content # 0
  BY <1>1, <1>2, <1>3 DEF Present
<1>6. f \in Indexed <=> rows[f].hash # 0
  BY <1>1, <1>2, <1>4 DEF Indexed
<1> QED BY <1>1, <1>3, <1>5, <1>6 DEF Row, Present, Indexed

-----------------------------------------------------------------------------
(* What the steps of a run do, field by field *)

\* indexable_scope and extractor_reparse_scope, field by field.
LEMMA ScopeDoes ==
  ASSUME TInv, Scope
  PROVE  /\ run.pc = "scope" /\ run' \in RunState /\ SameLook(run, run')
         /\ run'.base = run.base /\ run'.changed = run.changed /\ run'.lanes = run.lanes
         /\ run'.covers = (stamp = run.base) /\ run'.scope = Present
         /\ run'.removed = Indexed \ Present
         /\ run'.reparse = IF ext # version /\ Indexed # {} THEN Present ELSE {}
         /\ ext' = IF ext # version /\ Indexed # {} /\ run'.reparse = {} THEN version ELSE ext
         /\ run'.pc = IF run.changed = {} /\ run'.removed = {} /\ run'.reparse = {}
                      THEN "head" ELSE "filter"
         /\ UNCHANGED <<env, rows, stamp, base, settled, happened>>
<1> DEFINE R == IF ext # version /\ Indexed # {} THEN Present ELSE {}
           p == IF run.changed = {} /\ Indexed \ Present = {} /\ R = {} THEN "head" ELSE "filter"
           c == stamp = run.base
           M == Indexed \ Present
           k == [run EXCEPT !.pc = p, !.covers = c, !.scope = Present, !.reparse = R, !.removed = M]
<1>1. /\ run.pc = "scope" /\ run' = k
      /\ ext' = IF ext # version /\ Indexed # {} /\ R = {} THEN version ELSE ext
      /\ UNCHANGED <<env, rows, stamp, base, settled, happened>>
  BY DEF Scope, Step
<1>2. run \in RunState
  BY DEF TInv
<1>3. p \in Stage /\ c \in BOOLEAN /\ Present \in SUBSET Files /\ R \in SUBSET Files
      /\ M \in SUBSET Files
  BY ReadSets DEF Stage
<1> HIDE DEF R, p, c, M
<1>5. k \in RunState
  BY <1>2, <1>3 DEF RunState
<1>4. /\ SameLook(run, k) /\ k.pc = p
      /\ k.base = run.base /\ k.covers = c /\ k.changed = run.changed
      /\ k.scope = Present /\ k.reparse = R /\ k.removed = M
      /\ k.lanes = run.lanes
  BY <1>2 DEF RunState, SameLook
<1> HIDE DEF k
<1> QED BY <1>1, <1>4, <1>5 DEF R, p, c, M

\* filter_candidates, field by field.
LEMMA FilterDoes ==
  ASSUME TInv, Filter
  PROVE  /\ run.pc = "filter" /\ run' \in RunState /\ run'.pc = "classify"
         /\ run'.base = run.base /\ run'.covers = run.covers /\ run'.changed = run.changed
         /\ run'.scope = run.scope /\ run'.reparse = run.reparse /\ run'.lanes = run.lanes
         /\ run'.removed = run.removed \cup ((run.changed \ (Present \cap run.scope)) \cap Indexed)
         /\ run'.todo = run.changed \cap Present \cap run.scope
         /\ run'.probe = run.probe /\ run'.cached = run.cached /\ run'.touch = run.touch
         /\ run'.differs = run.differs /\ run'.batch = run.batch /\ run'.clean = run.clean
         /\ UNCHANGED <<env, db, base, settled, happened>>
<1> DEFINE M == run.removed \cup ((run.changed \ (Present \cap run.scope)) \cap Indexed)
           D == run.changed \cap Present \cap run.scope
           k == [run EXCEPT !.pc = "classify", !.removed = M, !.todo = D]
<1>1. run.pc = "filter" /\ run' = k /\ UNCHANGED <<env, db, base, settled, happened>>
  BY DEF Filter, Step
<1>2. run \in RunState
  BY DEF TInv
<1>3. "classify" \in Stage /\ M \in SUBSET Files /\ D \in SUBSET Files
  BY <1>2, ReadSets, RunFields DEF Stage
<1> HIDE DEF M, D
<1>5. k \in RunState
  BY <1>2, <1>3 DEF RunState
<1>4. /\ k.pc = "classify"
      /\ k.base = run.base /\ k.covers = run.covers /\ k.changed = run.changed
      /\ k.scope = run.scope /\ k.reparse = run.reparse /\ k.removed = M
      /\ k.lanes = run.lanes /\ k.todo = D /\ k.probe = run.probe /\ k.cached = run.cached
      /\ k.touch = run.touch /\ k.differs = run.differs /\ k.batch = run.batch
      /\ k.clean = run.clean
  BY <1>2 DEF RunState, SameLook
<1> HIDE DEF k
<1> QED BY <1>1, <1>4, <1>5 DEF M, D

\* The removals and mtime updates, field by field.
LEMMA ApplyDoes ==
  ASSUME TInv, Apply
  PROVE  /\ run.pc = "apply" /\ run' \in RunState
         /\ run'.pc = IF run.lanes = << >> THEN "head" ELSE "parse"
         /\ run'.base = run.base /\ run'.covers = run.covers /\ run'.changed = run.changed
         /\ run'.scope = run.scope /\ run'.reparse = run.reparse /\ run'.lanes = run.lanes
         /\ run'.removed = run.removed
         /\ run'.todo = IF run.lanes = << >> THEN {} ELSE Head(run.lanes).files
         /\ run'.probe = run.probe /\ run'.cached = run.cached /\ run'.touch = Empty
         /\ run'.differs = run.differs /\ run'.batch = run.batch /\ run'.clean = run.clean
         /\ rows' = Touched(Removed(rows, run.removed), run.touch)
         /\ UNCHANGED <<env, stamp, ext, base, settled, happened>>
<1> DEFINE p == IF run.lanes = << >> THEN "head" ELSE "parse"
           D == IF run.lanes = << >> THEN {} ELSE Head(run.lanes).files
           k == [run EXCEPT !.pc = p, !.touch = Empty, !.todo = D]
<1>1. /\ run.pc = "apply" /\ run' = k
      /\ rows' = Touched(Removed(rows, run.removed), run.touch)
      /\ UNCHANGED <<env, stamp, ext, base, settled, happened>>
  BY DEF Apply, Step, NextTodo
<1>2. run \in RunState
  BY DEF TInv
<1>3. p \in Stage /\ D \in SUBSET Files /\ Empty \in Part(Nat)
  BY <1>2, FirstLane, RunFields, EmptyPart DEF Stage
<1> HIDE DEF p, D
<1>5. k \in RunState
  BY <1>2, <1>3 DEF RunState
<1>4. /\ k.pc = p
      /\ k.base = run.base /\ k.covers = run.covers /\ k.changed = run.changed
      /\ k.scope = run.scope /\ k.reparse = run.reparse /\ k.removed = run.removed
      /\ k.lanes = run.lanes /\ k.todo = D /\ k.probe = run.probe /\ k.cached = run.cached
      /\ k.touch = Empty /\ k.differs = run.differs /\ k.batch = run.batch
      /\ k.clean = run.clean
  BY <1>2 DEF RunState, SameLook
<1> HIDE DEF k
<1> QED BY <1>1, <1>4, <1>5 DEF p, D

\* store_file_batch, field by field.
LEMMA StoreBatchDoes ==
  ASSUME TInv, StoreBatch
  PROVE  /\ run.pc = "parse" /\ run.todo = {} /\ run.lanes # << >> /\ run' \in RunState
         /\ run'.pc = IF run'.lanes # << >> THEN "parse"
                      ELSE IF run.base = 0 THEN "build head" ELSE "extractors"
         /\ run'.base = run.base /\ run'.covers = run.covers /\ run'.changed = run.changed
         /\ run'.scope = run.scope /\ run'.reparse = run.reparse /\ run'.lanes = Tail(run.lanes)
         /\ run'.removed = run.removed
         /\ run'.todo = IF run'.lanes = << >> THEN {} ELSE Head(run'.lanes).files
         /\ run'.probe = run.probe /\ run'.cached = run.cached /\ run'.touch = Empty
         /\ run'.differs = run.differs /\ run'.batch = Empty /\ run'.clean = run.clean
         /\ rows' = Stored(Touched(rows, run.touch), run.batch)
         /\ UNCHANGED <<env, stamp, ext, base, settled, happened>>
<1> DEFINE s == Tail(run.lanes)
           p == IF s # << >> THEN "parse" ELSE IF run.base = 0 THEN "build head" ELSE "extractors"
           D == IF s = << >> THEN {} ELSE Head(s).files
           k == [run EXCEPT !.pc = p, !.lanes = s, !.todo = D, !.touch = Empty, !.batch = Empty]
<1>1. /\ run.pc = "parse" /\ run.todo = {} /\ run' = k
      /\ rows' = Stored(Touched(rows, run.touch), run.batch)
      /\ UNCHANGED <<env, stamp, ext, base, settled, happened>>
  BY DEF StoreBatch, Step, NextTodo
<1>2. run \in RunState /\ run.lanes # << >>
  BY <1>1 DEF TInv, Course, Step
<1>3. /\ s \in Seq(LaneRec) /\ p \in Stage /\ Empty \in Part(Nat) /\ Empty \in Part(Row)
      /\ D \in SUBSET Files
  <2>1. s \in Seq(LaneRec)
    BY <1>2, FirstLane, RunFields
  <2> HIDE DEF s
  <2>2. D \in SUBSET Files
    BY <2>1, FirstLane
  <2> QED BY <2>1, <2>2, EmptyPart DEF Stage
<1> HIDE DEF p, D, s
<1>5. k \in RunState
  BY <1>2, <1>3 DEF RunState
<1>4. /\ k.pc = p
      /\ k.base = run.base /\ k.covers = run.covers /\ k.changed = run.changed
      /\ k.scope = run.scope /\ k.reparse = run.reparse /\ k.removed = run.removed
      /\ k.lanes = s /\ k.todo = D /\ k.probe = run.probe /\ k.cached = run.cached
      /\ k.touch = Empty /\ k.differs = run.differs /\ k.batch = Empty
      /\ k.clean = run.clean
  BY <1>2 DEF RunState, SameLook
<1> HIDE DEF k
<1> QED BY <1>1, <1>2, <1>4, <1>5 DEF p, D, s

\* A new update has its base and nothing else.
LEMMA StartUpdateDoes ==
  ASSUME TInv, NEW p \in Updaters, StartUpdate(p)
  PROVE  /\ run = Idle /\ run' \in RunState /\ SameLook(Idle, run') /\ run'.pc = "diff"
         /\ run'.base = base[p] /\ run'.lanes = << >> /\ run'.reparse = {} /\ run'.changed = {}
         /\ run'.removed = {} /\ base' = [base EXCEPT ![p] = 0] /\ settled' = TRUE
         /\ UNCHANGED <<env, db, happened>>
<1> DEFINE b == base[p]
           k == [Idle EXCEPT !.pc = "diff", !.base = b]
<1>1. /\ run.pc = "idle" /\ run' = k /\ base' = [base EXCEPT ![p] = 0] /\ settled' = TRUE
      /\ UNCHANGED <<env, db, happened>>
  BY DEF StartUpdate, Step
<1>2. run = Idle /\ b \in Nat /\ "diff" \in Stage
  BY <1>1 DEF TInv, Course, Step, TypeOK, Stage
<1> HIDE DEF b
<1>3. k \in RunState
  BY <1>2, IdleIs DEF RunState
<1>4. SameLook(Idle, k) /\ k.pc = "diff" /\ k.base = b /\ k.lanes = Idle.lanes
      /\ k.reparse = Idle.reparse /\ k.changed = Idle.changed /\ k.removed = Idle.removed
  BY IdleIs DEF RunState, SameLook
<1> HIDE DEF k
<1> QED BY <1>1, <1>2, <1>3, <1>4, IdleIs DEF b

\* A new build has every file in a lane of whole files.
LEMMA StartBuildDoes ==
  ASSUME TInv, StartBuild
  PROVE  /\ run = Idle /\ run' \in RunState
         /\ run'.pc = IF run'.lanes = << >> THEN "build head" ELSE "parse"
         /\ Present \subseteq LaneFiles(run'.lanes) /\ Present \subseteq WholeFiles(run'.lanes)
         /\ run'.todo = IF run'.lanes = << >> THEN {} ELSE Head(run'.lanes).files
         /\ run'.covers = TRUE /\ run'.base = 0 /\ run'.probe = Empty /\ run'.cached = Empty
         /\ run'.touch = Empty /\ run'.batch = Empty /\ run'.clean = TRUE /\ run'.changed = {}
         /\ run'.removed = {} /\ run'.differs = {} /\ run'.reparse = {}
         /\ rows' = Removed(rows, Indexed \ Present) /\ settled' = TRUE
         /\ happened' = happened \cup {"build"} /\ "build" \in Events
         /\ UNCHANGED <<env, stamp, ext, base>>
<1> DEFINE s == Lane("whole", Present \cap Owned) \o Lane("whole", Present \ Owned)
           p == IF s = << >> THEN "build head" ELSE "parse"
           D == IF s = << >> THEN {} ELSE Head(s).files
           k == [Idle EXCEPT !.pc = p, !.covers = TRUE, !.lanes = s, !.todo = D]
<1>1. /\ run.pc = "idle" /\ run' = k /\ rows' = Removed(rows, Indexed \ Present) /\ settled' = TRUE
      /\ happened' = happened \cup {"build"} /\ "build" \in Events
      /\ UNCHANGED <<env, stamp, ext, base>>
  BY DEF StartBuild, Step, NextTodo, Once
<1>2. run = Idle /\ p \in Stage
  BY <1>1 DEF TInv, Course, Step, Stage
<1>3. s \in Seq(LaneRec) /\ Present \subseteq LaneFiles(s) /\ Present \subseteq WholeFiles(s)
  <2>1. Present \cap Owned \in SUBSET Files /\ Present \ Owned \in SUBSET Files
        /\ (Present \cap Owned) \cup (Present \ Owned) = Present
    BY ReadSets
  <2> QED BY <2>1, BuildLanes
<1> HIDE DEF s
<1>4. D \in SUBSET Files
  BY <1>3, FirstLane
<1> HIDE DEF p, D
<1>5. k \in RunState
  BY <1>2, <1>3, <1>4, IdleIs DEF RunState
<1>6. /\ k.pc = p /\ k.covers = TRUE /\ k.lanes = s /\ k.todo = D
      /\ k.base = Idle.base /\ k.probe = Idle.probe /\ k.cached = Idle.cached
      /\ k.touch = Idle.touch /\ k.batch = Idle.batch /\ k.clean = Idle.clean
      /\ k.changed = Idle.changed /\ k.removed = Idle.removed /\ k.differs = Idle.differs
      /\ k.reparse = Idle.reparse
  BY IdleIs DEF RunState
<1> HIDE DEF k
<1> QED BY <1>1, <1>2, <1>3, <1>5, <1>6, IdleIs DEF p, D

\* The steps that only move the run on.
LEMMA MovesDo ==
  ASSUME TInv, DiffBase \/ Status \/ StampExtractors \/ BuildStampHead
  PROVE  /\ run' \in RunState /\ SameLook(run, run')
         /\ run'.base = run.base /\ run'.covers = run.covers /\ run'.scope = run.scope
         /\ run'.reparse = run.reparse /\ run'.removed = run.removed /\ run'.lanes = run.lanes
         /\ UNCHANGED <<env, rows, base, settled, happened>>
         /\ \/ /\ run.pc = "diff" /\ run'.pc = "status" /\ stamp' = stamp /\ ext' = ext
               /\ run'.changed = BaseDiff(run.base)
            \/ /\ run.pc = "status" /\ run'.pc = "scope" /\ stamp' = stamp /\ ext' = ext
               /\ run'.changed = run.changed \cup Dirty
            \/ /\ run.pc = "extractors" /\ run'.pc = "head" /\ stamp' = stamp
               /\ ext' = version /\ run'.changed = run.changed
            \/ /\ run.pc = "build head" /\ run'.pc = "build extractors"
               /\ stamp' = head /\ ext' = ext /\ run'.changed = run.changed
<1>0. run \in RunState /\ run.changed \in SUBSET Files
  BY RunFields DEF TInv
<1>2. /\ "status" \in Stage /\ "scope" \in Stage /\ "head" \in Stage /\ "build extractors" \in Stage
      /\ BaseDiff(run.base) \in SUBSET Files /\ run.changed \cup Dirty \in SUBSET Files
  BY <1>0, ReadSets DEF Stage
<1> DEFINE Moves(p, C) ==
             \/ /\ run.pc = "diff" /\ p = "status" /\ stamp' = stamp /\ ext' = ext
                /\ C = BaseDiff(run.base)
             \/ /\ run.pc = "status" /\ p = "scope" /\ stamp' = stamp /\ ext' = ext
                /\ C = run.changed \cup Dirty
             \/ /\ run.pc = "extractors" /\ p = "head" /\ stamp' = stamp /\ ext' = version
                /\ C = run.changed
             \/ /\ run.pc = "build head" /\ p = "build extractors" /\ stamp' = head /\ ext' = ext
                /\ C = run.changed
<1>3. \E p \in Stage, C \in SUBSET Files :
        /\ run' = [run EXCEPT !.pc = p, !.changed = C]
        /\ UNCHANGED <<env, rows, base, settled, happened>> /\ Moves(p, C)
  <2>1. CASE DiffBase
    BY <1>2, <2>1 DEF DiffBase, Step, db
  <2>2. CASE Status
    BY <1>2, <2>2 DEF Status, Step, db
  <2>4. CASE StampExtractors
    <3>1. [run EXCEPT !.pc = "head"] = [run EXCEPT !.pc = "head", !.changed = run.changed]
      BY <1>0 DEF RunState
    <3> QED BY <1>0, <1>2, <2>4, <3>1 DEF StampExtractors, Step
  <2>5. CASE BuildStampHead
    <3>1. [run EXCEPT !.pc = "build extractors"]
            = [run EXCEPT !.pc = "build extractors", !.changed = run.changed]
      BY <1>0 DEF RunState
    <3> QED BY <1>0, <1>2, <2>5, <3>1 DEF BuildStampHead, Step
  <2> QED BY <2>1, <2>2, <2>4, <2>5
<1>4. PICK p \in Stage, C \in SUBSET Files :
        /\ run' = [run EXCEPT !.pc = p, !.changed = C]
        /\ UNCHANGED <<env, rows, base, settled, happened>> /\ Moves(p, C)
  BY <1>3
<1>5. run' \in RunState
  BY <1>0, <1>4 DEF RunState
<1>6. /\ SameLook(run, run') /\ run'.pc = p /\ run'.changed = C
      /\ run'.base = run.base /\ run'.covers = run.covers /\ run'.scope = run.scope
      /\ run'.reparse = run.reparse /\ run'.removed = run.removed /\ run'.lanes = run.lanes
  BY <1>0, <1>4 DEF RunState, SameLook
<1> QED BY <1>4, <1>5, <1>6

\* The plan: who is removed, who gets which lane, whose mtime is stored.
LEMMA PlanDoes ==
  ASSUME TInv, Plan
  PROVE  /\ run.pc = "classify" /\ run.todo = {} /\ run' \in RunState /\ run'.pc = "apply"
         /\ run'.base = run.base /\ run'.covers = run.covers /\ run'.changed = run.changed
         /\ run'.scope = run.scope /\ run'.reparse = run.reparse
         /\ run'.todo = {} /\ run'.probe = run.probe /\ run'.cached = run.cached
         /\ run'.differs = run.differs /\ run'.batch = run.batch /\ run'.clean = run.clean
         /\ rows' = Touched(rows, Only(run.touch, Owned))
         /\ UNCHANGED <<env, stamp, ext, base, settled, happened>>
         /\ run.removed \subseteq run'.removed
         /\ \A f \in run'.removed : f \in run.removed \/ f \notin Present \cap run.scope
         /\ \A f \in DOMAIN run'.touch :
              /\ f \notin Owned
              /\ run'.touch[f] = tree[f].mtime \/ (f \in DOMAIN run.touch /\ run'.touch[f] = run.touch[f])
         /\ run.reparse \ run.differs \subseteq WholeFiles(run'.lanes)
         /\ \A r \in Lanes(run'.lanes) :
              r.kind = "whole" => r.files \cap Owned \subseteq run.reparse
         /\ \A f \in run.differs \cap run.scope : (f \in Owned => f \in DOMAIN run.cached) =>
              \/ f \in LaneFiles(run'.lanes) \cup run'.removed
              \/ HashMatches(f)
              \/ f \notin Present \cup Indexed
<1> DEFINE deps == Dependents(run.removed \cup run.differs)
           all == run.differs \cup run.removed \cup deps
           seen == Present \cap run.scope
           removed == IF deps = {} THEN run.removed
                      ELSE run.removed \cup ((all \ seen) \cap Indexed)
           full == run.reparse \ run.differs
           cands == (IF deps = {} THEN run.differs \cap run.scope ELSE all \cap seen) \ full
           forced == cands \cap DOMAIN run.cached
           checked == {f \in (cands \cap Owned) \ forced : ~MtimeMatches(f)}
           foreign == {f \in cands \ Owned : f \in run.differs \/ ~MtimeMatches(f)}
           same == {f \in foreign : HashMatches(f)}
           rest == (full \ Owned) \cup (foreign \ same)
           g == [f \in (DOMAIN run.touch \ Owned) \cup same |->
                   IF f \in same THEN tree[f].mtime ELSE run.touch[f]]
           s == Lane("whole", full \cap Owned) \o Lane("changed", forced)
                  \o Lane("changed", checked) \o Lane("whole", rest)
           k == [run EXCEPT !.pc = "apply", !.removed = removed, !.touch = g, !.lanes = s]
<1>1. /\ run.pc = "classify" /\ run.todo = {} /\ run' = k
      /\ rows' = Touched(rows, Only(run.touch, Owned))
      /\ UNCHANGED <<env, stamp, ext, base, settled, happened>>
  BY DEF Plan, Step
<1>2. run \in RunState
  BY DEF TInv
<1>3. /\ run.removed \in SUBSET Files /\ run.differs \in SUBSET Files /\ run.scope \in SUBSET Files
      /\ run.reparse \in SUBSET Files /\ run.cached \in Part(Row) /\ run.touch \in Part(Nat)
      /\ Present \in SUBSET Files /\ Indexed \in SUBSET Files
  BY <1>2, RunFields, ReadSets
<1>4. deps \in SUBSET Files
  BY <1>3 DEF Dependents, DirectDependents
<1> HIDE DEF deps
<1>5. /\ removed \in SUBSET Files /\ full \in SUBSET Files /\ cands \in SUBSET Files
      /\ forced \in SUBSET Files /\ checked \in SUBSET Files /\ foreign \in SUBSET Files
      /\ same \in SUBSET Files /\ rest \in SUBSET Files /\ full \cap Owned \in SUBSET Files
  BY <1>3, <1>4
<1>6. g \in Part(Nat) /\ DOMAIN g = (DOMAIN run.touch \ Owned) \cup same
      /\ \A f \in DOMAIN g : \/ f \in same /\ g[f] = tree[f].mtime
                             \/ f \in DOMAIN run.touch \ Owned /\ g[f] = run.touch[f]
  <2>1. \A f \in Files : tree[f].mtime \in Nat
    BY DEF TInv, TypeOK
  <2> DEFINE D == (DOMAIN run.touch \ Owned) \cup same
  <2>2. D \in SUBSET Files
    BY <1>3, <1>5, PartIs
  <2>3. \A f \in D : (f \in same \/ f \in DOMAIN run.touch \ Owned)
                     /\ (IF f \in same THEN tree[f].mtime ELSE run.touch[f]) \in Nat
    BY <1>3, <1>5, <2>1, PartIs
  <2>4. g = [f \in D |-> IF f \in same THEN tree[f].mtime ELSE run.touch[f]]
    OBVIOUS
  <2> HIDE DEF same, g, D
  <2>5. g \in [D -> Nat] /\ DOMAIN g = D
    BY <2>3, <2>4
  <2>6. g \in Part(Nat)
    BY <2>2, <2>5 DEF Part
  <2> QED BY <2>3, <2>4, <2>5, <2>6 DEF D
<1>7. /\ s \in Seq(LaneRec)
      /\ (full \cap Owned) \cup forced \cup checked \cup rest \subseteq LaneFiles(s)
      /\ (full \cap Owned) \cup rest \subseteq WholeFiles(s)
      /\ \A r \in Lanes(s) : r.kind = "whole" => r.files = full \cap Owned \/ r.files = rest
  <2> HIDE DEF full, forced, checked, rest, removed, cands, foreign, same
  <2>1. PICK a \in SUBSET Files : a = full \cap Owned
    BY <1>5
  <2>2. s = Lane("whole", a) \o Lane("changed", forced) \o Lane("changed", checked) \o Lane("whole", rest)
    BY <2>1
  <2> HIDE DEF s
  <2>3. forced \in SUBSET Files /\ checked \in SUBSET Files /\ rest \in SUBSET Files
    BY <1>5
  <2>4. /\ s \in Seq(LaneRec)
        /\ a \cup forced \cup checked \cup rest \subseteq LaneFiles(s)
        /\ a \cup rest \subseteq WholeFiles(s)
        /\ \A r \in Lanes(s) : r.kind = "whole" => r.files = a \/ r.files = rest
    BY <2>2, <2>3, PlanLanes
  <2> QED BY <2>1, <2>4
<1>8. /\ run.removed \subseteq removed
      /\ \A f \in removed : f \in run.removed \/ f \notin Present \cap run.scope
  OBVIOUS
<1>9. \A f \in same : f \notin Owned
  OBVIOUS
<1>10. full \subseteq WholeFiles(s)
  BY <1>7
<1>11. \A r \in Lanes(s) : r.kind = "whole" => r.files \cap Owned \subseteq run.reparse
  <2>1. (full \cap Owned) \cap Owned \subseteq run.reparse /\ rest \cap Owned \subseteq run.reparse
    OBVIOUS
  <2> HIDE DEF full, rest, s
  <2> QED BY <1>7, <2>1
<1>12. ASSUME NEW f \in run.differs \cap run.scope, f \in Owned => f \in DOMAIN run.cached
       PROVE  \/ f \in LaneFiles(s) \cup removed
              \/ HashMatches(f)
              \/ f \notin Present \cup Indexed
  <2>1. f \notin full /\ f \in all
    OBVIOUS
  <2>2. CASE f \in cands
    <3>1. CASE f \in Owned
      <4>1. f \in forced
        BY <1>12, <2>2, <3>1
      <4> QED BY <1>7, <4>1
    <3>2. CASE f \notin Owned
      <4>1. f \in foreign
        BY <2>2, <3>2
      <4>2. f \in rest \/ HashMatches(f)
        BY <4>1
      <4> QED BY <1>7, <4>2
    <3> QED BY <3>1, <3>2
  <2>3. CASE f \notin cands
    <3>1. deps # {} /\ f \notin Present
      BY <2>1, <2>3
    <3>2. f \in Indexed => f \in removed
      BY <2>1, <3>1
    <3> QED BY <3>1, <3>2
  <2> QED BY <2>2, <2>3
<1> HIDE DEF removed, g, s, full, same
<1>13. "apply" \in Stage
  BY DEF Stage
<1>14. k \in RunState
  BY <1>2, <1>5, <1>6, <1>7, <1>13 DEF RunState
<1>15. /\ k.pc = "apply"
       /\ k.base = run.base /\ k.covers = run.covers /\ k.changed = run.changed
       /\ k.scope = run.scope /\ k.reparse = run.reparse /\ k.removed = removed
       /\ k.lanes = s /\ k.todo = run.todo /\ k.probe = run.probe /\ k.cached = run.cached
       /\ k.touch = g /\ k.differs = run.differs /\ k.batch = run.batch
       /\ k.clean = run.clean
  BY <1>2 DEF RunState
<1> HIDE DEF k
<1>16. \A f \in DOMAIN run'.touch :
         /\ f \notin Owned
         /\ run'.touch[f] = tree[f].mtime \/ (f \in DOMAIN run.touch /\ run'.touch[f] = run.touch[f])
  BY <1>1, <1>6, <1>9, <1>15
<1>17. full = run.reparse \ run.differs
  BY DEF full
<1> QED BY <1>1, <1>8, <1>10, <1>11, <1>12, <1>14, <1>15, <1>16, <1>17

-----------------------------------------------------------------------------
(* What comes of a look at a file *)

\* The bytes of f are read before its mtime.
Whole == Step("parse") /\ Kind = "whole"

\* Half of the look is done: the mtime, or the bytes of a whole file.
Probes(f) ==
  /\ f \in Present /\ run'.todo = run.todo
  /\ \E v \in 1..clock : /\ run'.probe = With(run.probe, f, v)
                         /\ Whole => v = tree[f].content
  /\ run'.cached = run.cached /\ run'.touch = run.touch /\ run'.differs = run.differs
  /\ run'.batch = run.batch /\ run'.clean = run.clean

\* The file is gone or cannot be read.
GivesUp(f) ==
  /\ f \notin Present \/ "unreadable" \in happened'
  /\ run'.todo = run.todo \ {f} /\ run'.probe = Drop(run.probe, f)
  /\ run'.cached = run.cached /\ run'.touch = run.touch /\ run'.batch = run.batch
  /\ \/ /\ run.pc = "classify" /\ f \notin Owned
        /\ run'.differs = run.differs \cup {f} /\ run'.clean = run.clean
     \/ /\ ~(run.pc = "classify" /\ f \notin Owned)
        /\ run'.differs = run.differs /\ run'.clean = FALSE

\* The bytes are those of the row.
Confirms(f) ==
  /\ rows[f].hash = tree[f].content /\ ~Whole
  /\ run'.todo = run.todo \ {f} /\ run'.probe = Drop(run.probe, f)
  /\ \E v \in 0..clock : run'.touch = With(run.touch, f, v)
  /\ run'.cached = run.cached /\ run'.differs = run.differs
  /\ run'.batch = run.batch /\ run'.clean = run.clean

\* There is a row to remember or to store.
Finds(f, row) ==
  /\ row \in Row /\ RowRead(row)
  /\ \/ /\ row.hash = tree[f].content /\ row.ver = version /\ ~Whole
        /\ f \in Indexed => rows[f].hash # row.hash
     \/ run.pc = "parse" /\ ~Whole /\ f \in DOMAIN run.cached /\ row = run.cached[f]
     \/ Whole /\ f \in DOMAIN run.probe /\ row.hash = run.probe[f] /\ row.ver = version
  /\ run'.todo = run.todo \ {f} /\ run'.probe = Drop(run.probe, f)
  /\ run'.touch = run.touch /\ run'.clean = run.clean
  /\ \/ /\ run.pc = "classify" /\ run'.differs = run.differs \cup {f} /\ run'.batch = run.batch
        /\ run'.cached = IF f \in Owned THEN With(run.cached, f, row) ELSE run.cached
     \/ /\ run.pc = "parse" /\ run'.differs = run.differs /\ run'.cached = run.cached
        /\ run'.batch = With(run.batch, f, row)

\* Every look at a file probes it, gives it up, confirms its row or finds a new one.
LEMMA LookDoes ==
  ASSUME TInv, NEW f \in Files, Look(f) \/ ReadFails(f)
  PROVE  /\ run.pc \in {"classify", "parse"} /\ f \in run.todo
         /\ run' \in RunState /\ SamePlan(run, run')
         /\ UNCHANGED <<env, db, base, settled>>
         /\ happened' = happened \/ \E e \in Events : happened' = happened \cup {e}
         /\ Probes(f) \/ GivesUp(f) \/ Confirms(f) \/ \E row : Finds(f, row)
<1>0. /\ run \in RunState /\ clock \in Nat /\ version \in Nat /\ DOMAIN run.probe \subseteq run.todo
      /\ run.probe \in Part(Nat) /\ run.cached \in Part(Row)
      /\ \A h \in DOMAIN run.cached : RowRead(run.cached[h])
      /\ \A h \in DOMAIN run.probe : run.probe[h] \in 1..clock
  BY RunFields DEF TInv, TypeOK, Bounds, Course
<1>1. /\ tree[f].content \in Nat /\ tree[f].mtime \in Nat
      /\ f \in Present => tree[f].content \in 1..clock /\ tree[f].mtime \in 1..clock
      /\ tree[f].mtime \in 0..clock
  <2>1. Written(f) /\ tree[f] \in [content : Nat, mtime : Nat]
    BY DEF TInv, TypeOK, Bounds
  <2> QED BY <1>0, <2>1 DEF Written, Present, Absent
<1>2. ASSUME run' = GaveUp(run, f), f \notin Present \/ "unreadable" \in happened'
      PROVE  run' \in RunState /\ SamePlan(run, run') /\ GivesUp(f)
  BY <1>0, <1>2, GaveUpIs DEF GivesUp
<1>3. ASSUME NEW v \in 1..clock, run' = [run EXCEPT !.probe = With(@, f, v)], f \in Present,
             Whole => v = tree[f].content
      PROVE  run' \in RunState /\ SamePlan(run, run') /\ Probes(f)
  <2>1. v \in Nat
    BY <1>0
  <2>2. /\ run' \in RunState /\ SamePlan(run, run') /\ run'.todo = run.todo
        /\ run'.probe = With(run.probe, f, v) /\ run'.cached = run.cached
        /\ run'.touch = run.touch
        /\ run'.differs = run.differs /\ run'.batch = run.batch /\ run'.clean = run.clean
    BY <1>0, <1>3, <2>1, ProbedIs
  <2> QED BY <1>3, <2>2 DEF Probes
<1>4. ASSUME NEW row \in Row, RowRead(row), run' = Differs(run, f, row),
             run.pc \in {"classify", "parse"},
             \/ /\ row.hash = tree[f].content /\ row.ver = version /\ ~Whole
                /\ f \in Indexed => rows[f].hash # row.hash
             \/ run.pc = "parse" /\ ~Whole /\ f \in DOMAIN run.cached /\ row = run.cached[f]
             \/ Whole /\ f \in DOMAIN run.probe /\ row.hash = run.probe[f] /\ row.ver = version
      PROVE  run' \in RunState /\ SamePlan(run, run') /\ \E r : Finds(f, r)
  <2>1. /\ run' \in RunState /\ SamePlan(run, run') /\ run'.todo = run.todo \ {f}
        /\ run'.probe = Drop(run.probe, f) /\ run'.touch = run.touch /\ run'.clean = run.clean
        /\ run.pc = "classify" =>
             /\ run'.differs = run.differs \cup {f} /\ run'.batch = run.batch
             /\ run'.cached = IF f \in Owned THEN With(run.cached, f, row) ELSE run.cached
        /\ run.pc # "classify" =>
             /\ run'.differs = run.differs /\ run'.cached = run.cached
             /\ run'.batch = With(run.batch, f, row)
    BY <1>0, <1>4, DiffersIs
  <2>2. Finds(f, row)
    <3> HIDE DEF Whole
    <3> QED BY <1>4, <2>1 DEF Finds
  <2> QED BY <2>1, <2>2
<1>5. CASE StatFirst(f)
  <2>1. /\ run.pc \in {"classify", "parse"} /\ ~Whole /\ f \in run.todo
        /\ UNCHANGED <<env, db, base, settled, happened>>
        /\ f \in Present => run' = [run EXCEPT !.probe = With(@, f, tree[f].mtime)]
        /\ f \notin Present => run' = GaveUp(run, f)
    BY <1>5 DEF StatFirst, Step, Free, Whole
  <2> QED BY <1>1, <1>2, <1>3, <2>1
<1>6. CASE ReadFirst(f)
  <2>1. /\ run.pc = "parse" /\ f \in run.todo
        /\ UNCHANGED <<env, db, base, settled, happened>>
        /\ f \in Present => run' = [run EXCEPT !.probe = With(@, f, tree[f].content)]
        /\ f \notin Present => run' = GaveUp(run, f)
    BY <1>6 DEF ReadFirst, Step, Free
  <2> QED BY <1>1, <1>2, <1>3, <2>1
<1>7. CASE ReadAfter(f)
  <2> DEFINE row == [hash |-> tree[f].content, mtime |-> run.probe[f], ver |-> version]
  <2>1. /\ run.pc \in {"classify", "parse"} /\ ~Whole /\ f \in DOMAIN run.probe
        /\ UNCHANGED <<env, db, base, settled, happened>>
        /\ f \notin Present => run' = GaveUp(run, f)
        /\ f \in Present /\ f \in Indexed /\ rows[f].hash = row.hash =>
             run' = [Looked(run, f) EXCEPT !.touch = With(@, f, row.mtime)]
        /\ f \in Present /\ ~(f \in Indexed /\ rows[f].hash = row.hash) =>
             run' = Differs(run, f, row)
    BY <1>7 DEF ReadAfter, Step, Whole
  <2>2. /\ row.hash = tree[f].content /\ row.mtime = run.probe[f] /\ row.ver = version
        /\ run.probe[f] \in 1..clock /\ run.probe[f] \in Nat
    BY <1>0, <2>1
  <2>3. row \in Row
    BY <1>0, <1>1, <2>2 DEF Row
  <2>4. f \in Present => RowRead(row)
    BY <1>0, <1>1, <2>2 DEF RowRead
  <2> HIDE DEF row
  <2>5. f \in run.todo
    BY <1>0, <2>1
  <2>6. CASE f \notin Present
    BY <1>2, <2>1, <2>5, <2>6
  <2>7. CASE f \in Present /\ f \in Indexed /\ rows[f].hash = row.hash
    <3>1. PICK v \in 1..clock : v = row.mtime
      BY <2>2
    <3>2. v \in Nat /\ v \in 0..clock
      BY <1>0
    <3>3. run' = [Looked(run, f) EXCEPT !.touch = With(@, f, v)]
      BY <2>1, <2>7, <3>1
    <3>4. /\ run' \in RunState /\ SamePlan(run, run') /\ run'.todo = run.todo \ {f}
          /\ run'.probe = Drop(run.probe, f) /\ run'.cached = run.cached
          /\ run'.touch = With(run.touch, f, v)
          /\ run'.differs = run.differs /\ run'.batch = run.batch /\ run'.clean = run.clean
      BY <1>0, <3>2, <3>3, TouchedIs
    <3>5. Confirms(f)
      BY <2>1, <2>2, <2>7, <3>2, <3>4 DEF Confirms
    <3> QED BY <2>1, <2>5, <3>4, <3>5
  <2>8. CASE f \in Present /\ ~(f \in Indexed /\ rows[f].hash = row.hash)
    <3>1. run' = Differs(run, f, row) /\ (f \in Indexed => rows[f].hash # row.hash)
      BY <2>1, <2>8
    <3>2. run' \in RunState /\ SamePlan(run, run') /\ \E r : Finds(f, r)
      BY <1>4, <2>1, <2>2, <2>3, <2>4, <2>8, <3>1
    <3> QED BY <2>1, <2>5, <3>2
  <2> QED BY <2>6, <2>7, <2>8
<1>8. CASE UseCached(f)
  <2>1. /\ run.pc = "parse" /\ ~Whole /\ f \in run.todo /\ f \in DOMAIN run.cached
        /\ UNCHANGED <<env, db, base, settled, happened>>
        /\ run' = Differs(run, f, run.cached[f])
    BY <1>8 DEF UseCached, Step, Free, Whole
  <2>2. PICK row \in Row : row = run.cached[f]
    BY <1>0, <2>1, PartIs
  <2>3. RowRead(row)
    BY <1>0, <2>1, <2>2
  <2>4. run' \in RunState /\ SamePlan(run, run') /\ \E r : Finds(f, r)
    BY <1>4, <2>1, <2>2, <2>3
  <2> QED BY <2>1, <2>4
<1>9. CASE StatAfter(f)
  <2> DEFINE row == [hash |-> run.probe[f], mtime |-> tree[f].mtime, ver |-> version]
  <2>1. /\ run.pc = "parse" /\ Whole /\ f \in DOMAIN run.probe
        /\ UNCHANGED <<env, db, base, settled, happened>>
        /\ run' = Differs(run, f, row)
    BY <1>9 DEF StatAfter, Step, Whole
  <2>2. /\ row.hash = run.probe[f] /\ row.mtime = tree[f].mtime /\ row.ver = version
        /\ run.probe[f] \in 1..clock /\ run.probe[f] \in Nat
    BY <1>0, <2>1
  <2>3. row \in Row
    BY <1>0, <1>1, <2>2 DEF Row
  <2>4. RowRead(row)
    BY <1>0, <1>1, <2>2 DEF RowRead
  <2> HIDE DEF row
  <2>5. run' \in RunState /\ SamePlan(run, run') /\ \E r : Finds(f, r)
    BY <1>4, <2>1, <2>2, <2>3, <2>4
  <2> QED BY <1>0, <2>1, <2>5
<1>10. CASE ReadFails(f)
  <2>1. /\ run.pc \in {"classify", "parse"} /\ f \in run.todo
        /\ UNCHANGED <<env, db, base, settled>>
        /\ run' = GaveUp(run, f) /\ "unreadable" \in Events
        /\ happened' = happened \cup {"unreadable"}
    BY <1>0, <1>10 DEF ReadFails, Step, Free, Once
  <2>2. run' \in RunState /\ SamePlan(run, run') /\ GivesUp(f)
    BY <1>2, <2>1
  <2> QED BY <2>1, <2>2
<1> QED BY <1>5, <1>6, <1>7, <1>8, <1>9, <1>10 DEF Look

-----------------------------------------------------------------------------
(* The types, bounds and stages are kept *)

\* What a run carries is within the bounds of the clock.
Carried(r) ==
  /\ \A f \in DOMAIN r.cached : RowRead(r.cached[f])
  /\ \A f \in DOMAIN r.batch : RowRead(r.batch[f])
  /\ \A f \in DOMAIN r.touch : r.touch[f] \in 0..clock
  /\ \A f \in DOMAIN r.probe : r.probe[f] \in 1..clock

CourseOf(r) ==
  /\ r.pc = "idle" => r = Idle
  /\ DOMAIN r.probe \subseteq r.todo
  /\ r.pc \notin {"classify", "parse"} => r.todo = {}
  /\ r.pc = "parse" => r.lanes # << >> /\ r.todo \subseteq Head(r.lanes).files

\* The parts of the type invariant that a step of a run has to keep.
LEMMA RunStepType ==
  ASSUME TInv, UNCHANGED env, run' \in RunState, rows' \in [Files -> Row],
         \A f \in Files : rows'[f] = NoRow \/ RowRead(rows'[f]),
         stamp' \in 1..Len(commits), ext' = ext \/ ext' = version,
         base' \in [Updaters -> 0..Len(commits)],
         settled' \in BOOLEAN, happened' \subseteq Events, Carried(run'), CourseOf(run')
  PROVE  TInv'
<1>1. TypeOK'
  BY RunFields DEF TInv, TypeOK, env
<1>2. run' \in RunState /\ (head = Len(commits))' /\ (ext <= version)'
  <2>1. ext \in Nat /\ version \in Nat /\ ext <= version /\ head = Len(commits)
    BY DEF TInv, TypeOK
  <2> QED BY <2>1 DEF env
<1>3. Bounds'
  BY DEF TInv, Bounds, Carried, RowRead, Written, env
<1>4. Course'
  BY DEF CourseOf, Course, Step
<1> QED BY <1>1, <1>2, <1>3, <1>4 DEF TInv

\* The premises of RunStepType that hold before the step.
LEMMA TypeFacts ==
  ASSUME TInv
  PROVE  /\ run \in RunState /\ rows \in [Files -> Row] /\ stamp \in 1..Len(commits)
         /\ \A f \in Files : rows[f] = NoRow \/ RowRead(rows[f])
         /\ base \in [Updaters -> 0..Len(commits)] /\ settled \in BOOLEAN /\ happened \subseteq Events
         /\ Carried(run) /\ CourseOf(run) /\ head \in 1..Len(commits) /\ clock \in Nat
         /\ run.clean \in BOOLEAN /\ run.covers \in BOOLEAN /\ version \in Nat /\ ext \in Nat
<1>1. run.clean \in BOOLEAN /\ run.covers \in BOOLEAN
  BY RunFields DEF TInv
<1> QED BY <1>1 DEF TInv, TypeOK, Bounds, Carried, Course, CourseOf, Step

\* An idle run carries nothing.
LEMMA IdleCarried == Carried(Idle) /\ CourseOf(Idle)
BY IdleIs, EmptyPart DEF Carried, CourseOf

\* A look at a file keeps the types and bounds.
LEMMA LookType ==
  ASSUME TInv, NEW f \in Files, Look(f) \/ ReadFails(f)
  PROVE  TInv'
<1>1. /\ run.pc \in {"classify", "parse"} /\ f \in run.todo
      /\ run' \in RunState /\ SamePlan(run, run')
      /\ UNCHANGED <<env, db, base, settled>>
      /\ happened' = happened \/ \E e \in Events : happened' = happened \cup {e}
      /\ Probes(f) \/ GivesUp(f) \/ Confirms(f) \/ \E row : Finds(f, row)
  BY LookDoes
<1>0. /\ run.probe \in Part(Nat) /\ run.cached \in Part(Row) /\ run.touch \in Part(Nat)
      /\ run.batch \in Part(Row) /\ clock \in Nat
  BY RunFields, TypeFacts
<1>2. Carried(run') /\ DOMAIN run'.probe \subseteq run'.todo /\ run'.todo \subseteq run.todo
  <2>0. Carried(run) /\ DOMAIN run.probe \subseteq run.todo
    BY TypeFacts DEF CourseOf
  <2>1. CASE Probes(f)
    <3>1. PICK v \in 1..clock : run'.probe = With(run.probe, f, v)
      BY <2>1 DEF Probes
    <3>2. v \in Nat
      BY <1>0
    <3>3. DOMAIN run'.probe = DOMAIN run.probe \cup {f}
          /\ \A h \in DOMAIN run'.probe : run'.probe[h] = IF h = f THEN v ELSE run.probe[h]
      BY <3>1 DEF With
    <3>4. /\ run'.cached = run.cached /\ run'.batch = run.batch /\ run'.touch = run.touch
          /\ run'.todo = run.todo
      BY <2>1 DEF Probes
    <3> QED BY <1>1, <2>0, <3>3, <3>4 DEF Carried
  <2>2. ASSUME run'.todo = run.todo \ {f}, run'.probe = Drop(run.probe, f)
        PROVE  /\ \A h \in DOMAIN run'.probe : run'.probe[h] \in 1..clock
               /\ DOMAIN run'.probe \subseteq run'.todo /\ run'.todo \subseteq run.todo
    <3>1. DOMAIN run'.probe = DOMAIN run.probe \ {f}
          /\ \A h \in DOMAIN run'.probe : run'.probe[h] = run.probe[h]
      BY <2>2 DEF Drop
    <3> QED BY <2>0, <2>2, <3>1 DEF Carried
  <2>3. CASE GivesUp(f)
    BY <2>0, <2>2, <2>3 DEF GivesUp, Carried
  <2>4. CASE Confirms(f)
    <3>1. PICK v \in 0..clock : run'.touch = With(run.touch, f, v)
      BY <2>4 DEF Confirms
    <3>2. v \in Nat
      BY <1>0
    <3>3. DOMAIN run'.touch = DOMAIN run.touch \cup {f}
          /\ \A h \in DOMAIN run'.touch : run'.touch[h] = IF h = f THEN v ELSE run.touch[h]
      BY <3>1 DEF With
    <3>4. run'.cached = run.cached /\ run'.batch = run.batch
      BY <2>4 DEF Confirms
    <3>5. run'.todo = run.todo \ {f} /\ run'.probe = Drop(run.probe, f)
      BY <2>4 DEF Confirms
    <3> QED BY <2>0, <2>2, <3>3, <3>4, <3>5 DEF Carried
  <2>5. ASSUME NEW row, Finds(f, row)
        PROVE  Carried(run') /\ DOMAIN run'.probe \subseteq run'.todo /\ run'.todo \subseteq run.todo
    <3>1. row \in Row /\ RowRead(row)
      BY <2>5 DEF Finds
    <3>2. run'.todo = run.todo \ {f} /\ run'.probe = Drop(run.probe, f) /\ run'.touch = run.touch
      BY <2>5 DEF Finds
    <3>3. \A g \in Part(Row) : (\A h \in DOMAIN g : RowRead(g[h])) =>
             \A h \in DOMAIN With(g, f, row) : RowRead(With(g, f, row)[h])
      BY <3>1 DEF With
    <3>4. \/ run'.batch = run.batch
             /\ (run'.cached = With(run.cached, f, row) \/ run'.cached = run.cached)
          \/ run'.cached = run.cached /\ run'.batch = With(run.batch, f, row)
      BY <2>5 DEF Finds
    <3>5. /\ \A h \in DOMAIN run'.cached : RowRead(run'.cached[h])
          /\ \A h \in DOMAIN run'.batch : RowRead(run'.batch[h])
      BY <1>0, <2>0, <3>3, <3>4 DEF Carried
    <3> QED BY <2>0, <2>2, <3>2, <3>5 DEF Carried
  <2> QED BY <1>1, <2>1, <2>3, <2>4, <2>5
<1>3. CourseOf(run')
  BY <1>1, <1>2, TypeFacts DEF CourseOf, SamePlan
<1>4. happened' \subseteq Events /\ rows' = rows /\ stamp' = stamp /\ ext' = ext /\ base' = base
      /\ settled' = settled /\ UNCHANGED env
  BY <1>1, TypeFacts DEF db
<1> QED BY <1>1, <1>2, <1>3, <1>4, TypeFacts, RunStepType

\* A row whose mtime is stored anew is still a row that was read.
LEMMA TouchedBounds ==
  ASSUME NEW r \in [Files -> Row], \A f \in Files : r[f] = NoRow \/ RowRead(r[f]),
         NEW g \in Part(Nat), \A f \in DOMAIN g : g[f] \in 0..clock
  PROVE  /\ Touched(r, g) \in [Files -> Row]
         /\ \A f \in Files : Touched(r, g)[f] = NoRow \/ RowRead(Touched(r, g)[f])
<1> PICK k : k = Touched(r, g)
  OBVIOUS
<1>1. /\ k \in [Files -> Row]
      /\ \A f \in Files :
           /\ k[f].hash = r[f].hash
           /\ f \in DOMAIN g /\ r[f] # NoRow => k[f].mtime = g[f]
           /\ f \notin DOMAIN g \/ r[f] = NoRow => k[f] = r[f]
  BY TouchedRow
<1>2. \A f \in Files : k[f] = NoRow \/ RowRead(k[f])
  BY <1>1 DEF RowRead
<1> QED BY <1>1, <1>2

\* Idle again, or not yet begun: what a run carries is gone.
LEMMA EndType ==
  ASSUME TInv, Crash \/ StampHead \/ BuildStampExtractors
  PROVE  TInv'
<1>1. /\ run' = Idle /\ UNCHANGED env /\ rows' = rows /\ base' = base
      /\ stamp' = stamp \/ stamp' = head
      /\ ext' = ext \/ ext' = version
      /\ happened' \subseteq Events
  BY TypeFacts DEF Crash, StampHead, BuildStampExtractors, Once, db
<1>2. settled' \in BOOLEAN
  BY TypeFacts DEF Crash, StampHead, BuildStampExtractors
<1>3. run' \in RunState /\ Carried(run') /\ CourseOf(run')
  BY <1>1, IdleIs, IdleCarried
<1> QED BY <1>1, <1>2, <1>3, TypeFacts, RunStepType

\* So does an updater that reads its base or begins.
LEMMA BeginType ==
  ASSUME TInv, NEW p \in Updaters, PeekBase(p) \/ NameBase(p) \/ StartUpdate(p)
  PROVE  TInv'
<1>0. 0 \in 0..Len(commits) /\ Len(commits) \in Nat /\ 1..Len(commits) \subseteq 0..Len(commits)
  <2>1. Len(commits) \in Nat
    BY LenProperties DEF TInv, TypeOK
  <2> QED BY <2>1
<1>1. CASE PeekBase(p)
  <2>1. UNCHANGED <<env, db, run, settled, happened>> /\ base' = [base EXCEPT ![p] = stamp]
    BY <1>1 DEF PeekBase
  <2>2. base' \in [Updaters -> 0..Len(commits)]
    BY <1>0, <2>1, TypeFacts
  <2> QED BY <2>1, <2>2, TypeFacts, RunStepType DEF db
<1>2. CASE NameBase(p)
  <2>1. PICK b \in 1..Len(commits) : base' = [base EXCEPT ![p] = b]
    BY <1>2 DEF NameBase
  <2>2. UNCHANGED <<env, db, run, settled>> /\ happened' \subseteq Events
    BY <1>2, TypeFacts DEF NameBase, Once
  <2>3. base' \in [Updaters -> 0..Len(commits)]
    BY <1>0, <2>1, TypeFacts
  <2> QED BY <2>2, <2>3, TypeFacts, RunStepType DEF db
<1>3. CASE StartUpdate(p)
  <2>1. /\ run' \in RunState /\ SameLook(Idle, run') /\ run'.pc = "diff"
        /\ base' = [base EXCEPT ![p] = 0] /\ settled' = TRUE
        /\ UNCHANGED <<env, db, happened>>
    BY <1>3, StartUpdateDoes
  <2>2. base' \in [Updaters -> 0..Len(commits)]
    BY <1>0, <2>1, TypeFacts
  <2>3. Carried(run') /\ CourseOf(run')
    BY <2>1, IdleIs, IdleCarried DEF Carried, CourseOf, SameLook
  <2> QED BY <2>1, <2>2, <2>3, TypeFacts, RunStepType DEF db
<1> QED BY <1>1, <1>2, <1>3

\* So does a build that begins.
LEMMA StartBuildType ==
  ASSUME TInv, StartBuild
  PROVE  TInv'
<1>1. /\ run' \in RunState
      /\ run'.pc = IF run'.lanes = << >> THEN "build head" ELSE "parse"
      /\ run'.todo = IF run'.lanes = << >> THEN {} ELSE Head(run'.lanes).files
      /\ run'.probe = Empty /\ run'.cached = Empty
      /\ run'.touch = Empty /\ run'.batch = Empty
      /\ rows' = Removed(rows, Indexed \ Present) /\ settled' = TRUE
      /\ happened' = happened \cup {"build"} /\ "build" \in Events
      /\ UNCHANGED <<env, stamp, ext, base>>
  BY StartBuildDoes
<1>2. Carried(run') /\ CourseOf(run')
  BY <1>1, EmptyPart DEF Carried, CourseOf
<1>3. rows' \in [Files -> Row] /\ \A f \in Files : rows'[f] = NoRow \/ RowRead(rows'[f])
  <2>1. PICK D : rows' = Removed(rows, D)
    BY <1>1
  <2>2. /\ rows' \in [Files -> Row]
        /\ \A f \in Files : rows'[f] = IF f \in D THEN NoRow ELSE rows[f]
    BY <2>1, RemovedRow, TypeFacts
  <2> QED BY <2>2, TypeFacts
<1>4. happened' \subseteq Events
  BY <1>1, TypeFacts
<1> QED BY <1>1, <1>2, <1>3, <1>4, TypeFacts, RunStepType

\* So do the steps that only move the run on.
LEMMA MovesType ==
  ASSUME TInv, DiffBase \/ Status \/ StampExtractors \/ BuildStampHead
  PROVE  TInv'
<1>1. /\ run' \in RunState /\ SameLook(run, run')
      /\ UNCHANGED <<env, rows, base, settled, happened>>
      /\ run.pc \in {"diff", "status", "extractors", "build head"}
      /\ run'.pc \in {"status", "scope", "head", "build extractors"}
      /\ stamp' = stamp \/ stamp' = head
      /\ ext' = ext \/ ext' = version
  BY MovesDo
<1>2. Carried(run') /\ CourseOf(run')
  BY <1>1, TypeFacts DEF Carried, CourseOf, SameLook
<1> QED BY <1>1, <1>2, TypeFacts, RunStepType

\* So does the scope.
LEMMA ScopeType ==
  ASSUME TInv, Scope
  PROVE  TInv'
<1>1. /\ run.pc = "scope" /\ run' \in RunState /\ SameLook(run, run')
      /\ ext' = IF ext # version /\ Indexed # {} /\ run'.reparse = {} THEN version ELSE ext
      /\ run'.pc = "head" \/ run'.pc = "filter"
      /\ UNCHANGED <<env, rows, stamp, base, settled, happened>>
  BY ScopeDoes
<1>2. Carried(run') /\ CourseOf(run')
  BY <1>1, TypeFacts DEF Carried, CourseOf, SameLook
<1> QED BY <1>1, <1>2, TypeFacts, RunStepType

\* So does the filter.
LEMMA FilterType ==
  ASSUME TInv, Filter
  PROVE  TInv'
<1>1. /\ run' \in RunState /\ run'.pc = "classify" /\ run.pc = "filter"
      /\ run'.probe = run.probe /\ run'.cached = run.cached /\ run'.touch = run.touch
      /\ run'.batch = run.batch
      /\ UNCHANGED <<env, db, base, settled, happened>>
  BY FilterDoes
<1>2. DOMAIN run.probe = {}
  BY <1>1, TypeFacts DEF CourseOf
<1>3. Carried(run') /\ CourseOf(run')
  BY <1>1, <1>2, TypeFacts DEF Carried, CourseOf
<1> QED BY <1>1, <1>3, TypeFacts, RunStepType DEF db

\* So does the plan.
LEMMA PlanType ==
  ASSUME TInv, Plan
  PROVE  TInv'
<1>1. /\ run' \in RunState /\ run'.pc = "apply" /\ run.todo = {}
      /\ run'.todo = {} /\ run'.probe = run.probe /\ run'.cached = run.cached
      /\ run'.batch = run.batch
      /\ rows' = Touched(rows, Only(run.touch, Owned))
      /\ UNCHANGED <<env, stamp, ext, base, settled, happened>>
      /\ \A f \in DOMAIN run'.touch :
           run'.touch[f] = tree[f].mtime \/ (f \in DOMAIN run.touch /\ run'.touch[f] = run.touch[f])
  BY PlanDoes
<1>2. \A f \in DOMAIN run'.touch : run'.touch[f] \in 0..clock
  <2>1. \A f \in Files : tree[f].mtime \in 0..clock
    <3> SUFFICES ASSUME NEW f \in Files PROVE tree[f].mtime \in 0..clock
      OBVIOUS
    <3>1. Written(f) /\ clock \in Nat
      BY DEF TInv, TypeOK, Bounds
    <3> QED BY <3>1 DEF Written, Absent
  <2>2. DOMAIN run'.touch \subseteq Files
    BY <1>1, RunFields, PartIs
  <2> QED BY <1>1, <2>1, <2>2, TypeFacts DEF Carried
<1>3. Carried(run') /\ CourseOf(run')
  BY <1>1, <1>2, TypeFacts DEF Carried, CourseOf
<1>4. rows' \in [Files -> Row] /\ \A f \in Files : rows'[f] = NoRow \/ RowRead(rows'[f])
  <2>1. PICK g \in Part(Nat) : g = Only(run.touch, Owned)
    BY TypeFacts, RunFields, OnlyPart
  <2>2. \A f \in DOMAIN g : g[f] \in 0..clock
    BY <2>1, TypeFacts DEF Only, Carried
  <2>3. rows' = Touched(rows, g)
    BY <1>1, <2>1
  <2> QED BY <2>2, <2>3, TouchedBounds, TypeFacts
<1> QED BY <1>1, <1>3, <1>4, TypeFacts, RunStepType

\* So do the removals and mtime updates.
LEMMA ApplyType ==
  ASSUME TInv, Apply
  PROVE  TInv'
<1>1. /\ run' \in RunState /\ run.pc = "apply"
      /\ run'.pc = IF run.lanes = << >> THEN "head" ELSE "parse"
      /\ run'.todo = IF run.lanes = << >> THEN {} ELSE Head(run.lanes).files
      /\ run'.lanes = run.lanes
      /\ run'.probe = run.probe /\ run'.cached = run.cached /\ run'.touch = Empty
      /\ run'.batch = run.batch
      /\ rows' = Touched(Removed(rows, run.removed), run.touch)
      /\ UNCHANGED <<env, stamp, ext, base, settled, happened>>
  BY ApplyDoes
<1>2. DOMAIN run.probe = {}
  BY <1>1, TypeFacts DEF CourseOf
<1>3. Carried(run') /\ CourseOf(run')
  BY <1>1, <1>2, EmptyPart, TypeFacts DEF Carried, CourseOf
<1>4. rows' \in [Files -> Row] /\ \A f \in Files : rows'[f] = NoRow \/ RowRead(rows'[f])
  <2>1. PICK r \in [Files -> Row] : r = Removed(rows, run.removed)
    BY TypeFacts, RemovedRow
  <2>2. \A f \in Files : r[f] = NoRow \/ RowRead(r[f])
    BY <2>1, TypeFacts, RemovedRow
  <2>3. run.touch \in Part(Nat) /\ \A f \in DOMAIN run.touch : run.touch[f] \in 0..clock
    BY TypeFacts, RunFields DEF Carried
  <2>4. rows' = Touched(r, run.touch)
    BY <1>1, <2>1
  <2> QED BY <2>2, <2>3, <2>4, TouchedBounds, TypeFacts
<1> QED BY <1>1, <1>3, <1>4, TypeFacts, RunStepType

\* So does a stored batch.
LEMMA StoreBatchType ==
  ASSUME TInv, StoreBatch
  PROVE  TInv'
<1>1. /\ run' \in RunState /\ run.todo = {}
      /\ run'.pc = "parse" <=> run'.lanes # << >>
      /\ run'.pc # "idle" /\ run'.pc # "apply"
      /\ run'.todo = IF run'.lanes = << >> THEN {} ELSE Head(run'.lanes).files
      /\ run'.probe = run.probe /\ run'.cached = run.cached /\ run'.touch = Empty
      /\ run'.batch = Empty
      /\ rows' = Stored(Touched(rows, run.touch), run.batch)
      /\ UNCHANGED <<env, stamp, ext, base, settled, happened>>
  BY StoreBatchDoes
<1>2. DOMAIN run.probe = {}
  BY <1>1, TypeFacts DEF CourseOf
<1>3. Carried(run') /\ CourseOf(run')
  BY <1>1, <1>2, EmptyPart, TypeFacts DEF Carried, CourseOf
<1>4. rows' \in [Files -> Row] /\ \A f \in Files : rows'[f] = NoRow \/ RowRead(rows'[f])
  <2>1. /\ run.touch \in Part(Nat) /\ run.batch \in Part(Row)
        /\ \A f \in DOMAIN run.touch : run.touch[f] \in 0..clock
        /\ \A f \in DOMAIN run.batch : RowRead(run.batch[f])
    BY TypeFacts, RunFields DEF Carried
  <2>2. PICK r : r = Touched(rows, run.touch)
    OBVIOUS
  <2>3. r \in [Files -> Row] /\ \A f \in Files : r[f] = NoRow \/ RowRead(r[f])
    BY <2>1, <2>2, TouchedBounds, TypeFacts
  <2>4. rows' = Stored(r, run.batch)
    BY <1>1, <2>2
  <2> QED BY <2>1, <2>3, <2>4, StoredRow
<1> QED BY <1>1, <1>3, <1>4, TypeFacts, RunStepType

\* An edit hands out a new number, so every old one stays within the clock.
LEMMA EditType ==
  ASSUME TInv, NEW f \in Files, NEW c \in Nat, NEW m, c <= clock + 1,
         c = 0 \/ m \in 1..(clock + 1), Edited(f, c, m), happened' \subseteq Events
  PROVE  TInv'
<1> DEFINE v == IF c = 0 THEN Absent ELSE [content |-> c, mtime |-> m]
<1>1. /\ clock' = clock + 1 /\ tree' = [tree EXCEPT ![f] = v] /\ settled' = FALSE
      /\ UNCHANGED <<commits, head, version, db, base, run>>
  BY DEF Edited
<1>2. /\ tree \in [Files -> [content : Nat, mtime : Nat]] /\ clock \in Nat
  BY DEF TInv, TypeOK
<1>3. /\ v \in [content : Nat, mtime : Nat]
      /\ v = Absent \/ (v.content \in 1..(clock + 1) /\ v.mtime \in 1..(clock + 1))
  <2>1. CASE c = 0
    BY <2>1 DEF Absent
  <2>2. CASE c # 0
    BY <1>2, <2>2
  <2> QED BY <2>1, <2>2
<1> HIDE DEF v
<1>4. tree' \in [Files -> [content : Nat, mtime : Nat]]
      /\ \A h \in Files : tree'[h] = IF h = f THEN v ELSE tree[h]
  BY <1>1, <1>2, <1>3
<1>5. 1..clock \subseteq 1..clock' /\ 0..clock \subseteq 0..clock' /\ clock' \in Nat
      /\ \A n \in Nat : n <= clock => n <= clock'
  BY <1>1, <1>2
<1>6. TypeOK'
  BY <1>1, <1>4, <1>5 DEF TInv, TypeOK, db
<1>7. Bounds'
  <2>1. \A h \in Files : Written(h)'
    BY <1>1, <1>3, <1>4, <1>5 DEF TInv, Bounds, Written
  <2>2. \A r : RowRead(r) => (r.hash \in 1..clock' /\ r.mtime \in 0..clock')
    BY <1>5 DEF RowRead
  <2>3. \A i \in 1..Len(commits) : \A h \in Files : commits[i][h] \in Nat
    BY ElementOfSeq DEF TInv, TypeOK
  <2>4. rows' = rows /\ run' = run /\ commits' = commits
    BY <1>1 DEF db
  <2>5. (\A h \in Files : rows[h] = NoRow \/ RowRead(rows[h]))'
    BY <2>2, <2>4 DEF TInv, Bounds, RowRead
  <2>6. (\A i \in 1..Len(commits) : \A h \in Files : commits[i][h] <= clock)'
    BY <1>5, <2>3, <2>4 DEF TInv, Bounds
  <2>7. (\A h \in DOMAIN run.cached : RowRead(run.cached[h]))'
    BY <2>2, <2>4 DEF TInv, Bounds, RowRead
  <2>8. (\A h \in DOMAIN run.batch : RowRead(run.batch[h]))'
    BY <2>2, <2>4 DEF TInv, Bounds, RowRead
  <2>9. (\A h \in DOMAIN run.touch : run.touch[h] \in 0..clock)'
    BY <1>5, <2>4 DEF TInv, Bounds
  <2>10. (\A h \in DOMAIN run.probe : run.probe[h] \in 1..clock)'
    BY <1>5, <2>4 DEF TInv, Bounds
  <2> QED BY <2>1, <2>5, <2>6, <2>7, <2>8, <2>9, <2>10 DEF Bounds
<1>8. Course'
  BY <1>1 DEF TInv, Course, Step
<1>9. run' \in RunState /\ (head = Len(commits))' /\ (ext <= version)'
  BY <1>1 DEF TInv, db
<1> QED BY <1>6, <1>7, <1>8, <1>9 DEF TInv

\* What an editor step writes: new bytes, the same bytes, none, or those of HEAD; and
\* all but one date the file anew.
LEMMA EditorDoes ==
  ASSUME TInv, NEW f \in Files, Write(f) \/ Touch(f) \/ Delete(f) \/ Discard(f) \/ Preserve(f)
  PROVE  \E c \in Nat : \E m \in Nat :
           /\ c <= clock + 1 /\ Edited(f, c, m) /\ happened' \subseteq Events
           /\ c = 0 \/ m \in 1..(clock + 1)
           /\ c = 0 \/ m = clock + 1 \/ "preserve" \in happened'
           /\ \/ c = clock + 1 \/ c = 0 \/ (f \in Present /\ c = tree[f].content)
              \/ "discard" \in happened'
<1>0. /\ clock \in Nat /\ clock + 1 \in Nat /\ 0 <= clock + 1 /\ clock + 1 \in 1..(clock + 1)
      /\ clock + 1 <= clock + 1 /\ happened \subseteq Events
  BY DEF TInv, TypeOK
<1>1. CASE Write(f)
  BY <1>0, <1>1 DEF Write
<1>2. CASE Touch(f)
  <2>1. tree[f].content \in Nat /\ tree[f].content <= clock + 1
    <3>1. f \in Present /\ Written(f)
      BY <1>2 DEF Touch, TInv, Bounds
    <3>2. tree[f].content \in 1..clock
      BY <3>1 DEF Written, Present
    <3> QED BY <1>0, <3>2
  <2> QED BY <1>0, <1>2, <2>1 DEF Touch
<1>3. CASE Delete(f)
  BY <1>0, <1>3 DEF Delete
<1>4. CASE Discard(f)
  <2>1. head \in 1..Len(commits) /\ commits \in Seq([Files -> Nat])
    BY DEF TInv, TypeOK
  <2>2. commits[head] \in [Files -> Nat]
    BY <2>1, ElementOfSeq
  <2>3. commits[head][f] \in Nat /\ commits[head][f] <= clock
    BY <2>1, <2>2 DEF TInv, Bounds
  <2>4. commits[head][f] <= clock + 1
    BY <1>0, <2>3
  <2>5. Edited(f, commits[head][f], clock + 1) /\ happened' = happened \cup {"discard"} /\ "discard" \in Events
    BY <1>4 DEF Discard, Once
  <2> QED BY <1>0, <2>3, <2>4, <2>5
<1>5. CASE Preserve(f)
  <2>1. PICK m \in 1..clock : Edited(f, clock + 1, m)
    BY <1>5 DEF Preserve
  <2>2. m \in Nat /\ m \in 1..(clock + 1)
    BY <1>0
  <2>3. happened' = happened \cup {"preserve"} /\ "preserve" \in Events
    BY <1>5 DEF Preserve, Once
  <2> QED BY <1>0, <2>1, <2>2, <2>3
<1> QED BY <1>1, <1>2, <1>3, <1>4, <1>5

\* A commit appends the contents of the tree, and HEAD names it.
LEMMA CommitDoes ==
  ASSUME TInv, Commit
  PROVE  /\ Len(commits) \in Nat /\ Len(commits') = Len(commits) + 1 /\ head' = Len(commits')
         /\ commits' \in Seq([Files -> Nat])
         /\ \A i \in 1..Len(commits) : commits'[i] = commits[i]
         /\ \A f \in Files : commits'[head'][f] = tree[f].content
         /\ settled' = FALSE /\ UNCHANGED <<tree, clock, version, db, base, run>>
         /\ happened' \subseteq Events
         /\ \/ run.pc = "idle" /\ happened' = happened
            \/ happened' = happened \cup {"commit"}
<1> DEFINE c == [f \in Files |-> tree[f].content]
<1>1. /\ commits' = Append(commits, c) /\ head' = Len(commits) + 1 /\ settled' = FALSE
      /\ UNCHANGED <<tree, clock, version, db, base, run>>
      /\ \/ run.pc = "idle" /\ happened' = happened
         \/ happened' = happened \cup {"commit"} /\ "commit" \in Events
  BY DEF Commit, Once, Step
<1>2. c \in [Files -> Nat] /\ \A f \in Files : c[f] = tree[f].content
  BY DEF TInv, TypeOK
<1>3. commits \in Seq([Files -> Nat]) /\ happened \subseteq Events
  BY DEF TInv, TypeOK
<1> HIDE DEF c
<1>4. Len(commits) \in Nat /\ Len(commits') = Len(commits) + 1 /\ commits' \in Seq([Files -> Nat])
      /\ (\A i \in 1..Len(commits) : commits'[i] = commits[i]) /\ commits'[Len(commits) + 1] = c
  BY <1>1, <1>2, <1>3, AppendProperties, LenProperties
<1> QED BY <1>1, <1>2, <1>3, <1>4

\* A commit keeps the types and bounds.
LEMMA CommitType ==
  ASSUME TInv, Commit
  PROVE  TInv'
<1>1. /\ Len(commits) \in Nat /\ Len(commits') = Len(commits) + 1 /\ head' = Len(commits')
      /\ commits' \in Seq([Files -> Nat])
      /\ \A i \in 1..Len(commits) : commits'[i] = commits[i]
      /\ \A f \in Files : commits'[head'][f] = tree[f].content
      /\ settled' = FALSE /\ UNCHANGED <<tree, clock, version, db, base, run>>
      /\ happened' \subseteq Events
  BY CommitDoes
<1>2. /\ head' \in 1..Len(commits') /\ 1..Len(commits) \subseteq 1..Len(commits')
      /\ 0..Len(commits) \subseteq 0..Len(commits')
      /\ \A i \in 1..Len(commits') : i \in 1..Len(commits) \/ i = head'
  BY <1>1
<1>3. base' \in [Updaters -> 0..Len(commits')] /\ stamp' \in 1..Len(commits')
  BY <1>1, <1>2 DEF TInv, TypeOK, db
<1>4. TypeOK'
  BY <1>1, <1>2, <1>3 DEF TInv, TypeOK, db
<1>5. \A i \in 1..Len(commits') : \A f \in Files : commits'[i][f] <= clock
  <2>1. \A f \in Files : tree[f].content <= clock
    <3> SUFFICES ASSUME NEW f \in Files PROVE tree[f].content <= clock
      OBVIOUS
    <3>1. Written(f) /\ clock \in Nat
      BY DEF TInv, TypeOK, Bounds
    <3> QED BY <3>1 DEF Written, Absent
  <2> QED BY <1>1, <1>2, <2>1 DEF TInv, Bounds
<1>6. Bounds'
  BY <1>1, <1>5 DEF TInv, Bounds, Written, RowRead, db
<1>7. Course'
  BY <1>1 DEF TInv, Course, Step
<1>8. run' \in RunState /\ (head = Len(commits))' /\ (ext <= version)'
  BY <1>1 DEF TInv, db
<1> QED BY <1>4, <1>6, <1>7, <1>8 DEF TInv

\* So does the installation of newer extractors.
LEMMA UpgradeType ==
  ASSUME TInv, Upgrade
  PROVE  TInv'
<1>1. /\ version' = version + 1 /\ happened' \subseteq Events
      /\ UNCHANGED <<tree, commits, head, clock, db, base, run, settled>>
  BY DEF Upgrade, Once, TInv, TypeOK
<1>2. version \in Nat /\ ext \in Nat /\ ext <= version
  BY DEF TInv, TypeOK
<1>3. TypeOK'
  BY <1>1, <1>2 DEF TInv, TypeOK, db
<1>4. Bounds'
  BY <1>1 DEF TInv, Bounds, Written, RowRead, db
<1>5. Course'
  BY <1>1 DEF TInv, Course, Step
<1>6. run' \in RunState /\ (head = Len(commits))' /\ (ext <= version)'
  BY <1>1, <1>2 DEF TInv, db
<1> QED BY <1>3, <1>4, <1>5, <1>6 DEF TInv

\* The types and bounds hold of a graph just built of a clean checkout.
LEMMA InitType == Init => TInv
<1> SUFFICES ASSUME Init PROVE TInv
  OBVIOUS
<1>1. /\ clock = 1 /\ head = 1 /\ version = 1 /\ stamp = 1 /\ ext = 1 /\ run = Idle
      /\ settled = TRUE /\ happened = {} /\ base = [p \in Updaters |-> 0]
  BY DEF Init
<1> DEFINE c == [f \in Files |-> 1]
<1>2. c \in [Files -> Nat] /\ commits = << c >>
  BY DEF Init
<1> HIDE DEF c
<1>3. commits \in Seq([Files -> Nat]) /\ Len(commits) = 1 /\ commits[1] = c
  BY <1>2
<1>4. /\ tree \in [Files -> [content : Nat, mtime : Nat]]
      /\ \A f \in Files : tree[f].content = 1 /\ tree[f].mtime = 1
  BY DEF Init
<1>5. rows \in [Files -> Row] /\ \A f \in Files : rows[f].hash = 1 /\ rows[f].mtime = 1
  BY DEF Init, Row
<1>6. base \in [Updaters -> 0..Len(commits)]
  BY <1>1, <1>3
<1>7. TypeOK
  BY <1>1, <1>3, <1>4, <1>5, <1>6, IdleIs DEF TypeOK
<1>8. Bounds
  <2>1. \A i \in 1..Len(commits) : \A f \in Files : commits[i][f] <= clock
    BY <1>1, <1>3 DEF c
  <2>2. \A f \in Files : Written(f) /\ RowRead(rows[f])
    BY <1>1, <1>4, <1>5 DEF Written, RowRead
  <2>3. Carried(run)
    BY <1>1, IdleCarried
  <2> QED BY <2>1, <2>2, <2>3 DEF Bounds, Carried
<1>9. Course
  BY <1>1, IdleCarried DEF Course, CourseOf, Step
<1> QED BY <1>1, <1>3, <1>7, <1>8, <1>9, IdleIs DEF TInv

\* Every step keeps the types and bounds.
LEMMA StepType == TInv /\ [Next]_vars => TInv'
<1> SUFFICES ASSUME TInv, [Next]_vars PROVE TInv'
  OBVIOUS
<1>1. CASE UNCHANGED vars
  BY <1>1 DEF vars, env, db, TInv, TypeOK, Bounds, Written, RowRead, Course, Step
<1>2. ASSUME NEW p \in Updaters, PeekBase(p) \/ NameBase(p) \/ StartUpdate(p) PROVE TInv'
  BY <1>2, BeginType
<1>3. CASE StartBuild
  BY <1>3, StartBuildType
<1>4. CASE DiffBase \/ Status \/ StampExtractors \/ BuildStampHead
  BY <1>4, MovesType
<1>5. CASE Scope
  BY <1>5, ScopeType
<1>6. CASE Filter
  BY <1>6, FilterType
<1>7. CASE Plan
  BY <1>7, PlanType
<1>8. CASE Apply
  BY <1>8, ApplyType
<1>9. CASE StoreBatch
  BY <1>9, StoreBatchType
<1>10. CASE Crash \/ StampHead \/ BuildStampExtractors
  BY <1>10, EndType
<1>11. ASSUME NEW f \in Files, Look(f) \/ ReadFails(f) PROVE TInv'
  BY <1>11, LookType
<1>12. ASSUME NEW f \in Files, Write(f) \/ Touch(f) \/ Delete(f) \/ Discard(f) \/ Preserve(f) PROVE TInv'
  BY <1>12, EditorDoes, EditType
<1>13. CASE Commit
  BY <1>13, CommitType
<1>14. CASE Upgrade
  BY <1>14, UpgradeType
<1> QED
  BY <1>1, <1>2, <1>3, <1>4, <1>5, <1>6, <1>7, <1>8, <1>9, <1>10, <1>11, <1>12, <1>13, <1>14
     DEF Next, Running, Editor

\* The types and bounds always hold.
LEMMA TypeInvariant == Spec => []TInv
BY InitType, StepType, PTL DEF Spec

\* The tree, git, the graph and the stamps keep their types, and HEAD and the stamp
\* always name commits that exist.
THEOREM TypeCorrect == Spec => []TypeOK
<1>1. TInv => TypeOK
  BY DEF TInv
<1> QED BY <1>1, TypeInvariant, PTL

-----------------------------------------------------------------------------
(* What a clean status means *)

\* An edit that dates the file anew gives it a number no row, cached row or batch has.
LEMMA EditDated ==
  ASSUME TInv, Dated, NEW f \in Files, NEW c \in Nat, NEW d, Edited(f, c, d),
         c = 0 \/ d = clock + 1
  PROVE  Dated'
<1> DEFINE v == IF c = 0 THEN Absent ELSE [content |-> c, mtime |-> d]
<1>1. /\ tree' = [tree EXCEPT ![f] = v]
      /\ UNCHANGED <<commits, head, version, db, base, run>>
  BY DEF Edited
<1>2. tree \in [Files -> [content : Nat, mtime : Nat]] /\ clock \in Nat
  BY DEF TInv, TypeOK
<1>3. v = Absent \/ v.mtime = clock + 1
  OBVIOUS
<1> HIDE DEF v
<1>4. \A h \in Files : tree'[h] = IF h = f THEN v ELSE tree[h]
  BY <1>1, <1>2
<1>5. ASSUME NEW h \in Files, NEW x, NEW t \in 0..clock, Match(h, x, t) PROVE Match(h, x, t)'
  <2>1. CASE h = f
    <3>1. h \in Present' => tree'[h].mtime = clock + 1
      BY <1>3, <1>4, <2>1 DEF Present
    <3>2. t # clock + 1
      BY <1>2
    <3> QED BY <3>1, <3>2 DEF Match
  <2>2. CASE h # f
    BY <1>4, <1>5, <2>2 DEF Match, Present
  <2> QED BY <2>1, <2>2
<1>6. Owned \subseteq Files
  BY PipelineAssumption
<1>7. Carried(run) /\ \A h \in Files : rows[h].mtime \in 0..clock
  <2>1. \A h \in Files : rows[h] = NoRow \/ RowRead(rows[h])
    BY TypeFacts
  <2>2. NoRow.mtime = 0 /\ 0 \in 0..clock
    BY <1>2 DEF NoRow
  <2> QED BY <2>1, <2>2, TypeFacts DEF RowRead
<1>8. rows' = rows /\ run' = run /\ ext' = ext /\ version' = version
  BY <1>1 DEF db
<1>9. ASSUME NEW h \in Owned
      PROVE  /\ Match(h, rows[h].hash, rows[h].mtime)'
             /\ h \in DOMAIN run.cached => Match(h, run.cached[h].hash, run.cached[h].mtime)'
             /\ h \in DOMAIN run.batch => Match(h, run.batch[h].hash, run.batch[h].mtime)'
             /\ h \in DOMAIN run.touch => Match(h, rows[h].hash, run.touch[h])'
  <2>0. h \in Files
    BY <1>6
  <2>1. Match(h, rows[h].hash, rows[h].mtime)'
    <3>1. PICK x \in Nat, m \in 0..clock : x = rows[h].hash /\ m = rows[h].mtime
      BY <1>7, <2>0, AbsentIs
    <3>2. Match(h, x, m)
      BY <3>1 DEF Dated, FileDated
    <3>3. Match(h, x, m)'
      BY <1>5, <2>0, <3>2
    <3> QED BY <1>8, <3>1, <3>3 DEF Match
  <2>2. ASSUME h \in DOMAIN run.cached
        PROVE  Match(h, run.cached[h].hash, run.cached[h].mtime)'
    <3>1. PICK x \in Nat, m \in 0..clock : x = run.cached[h].hash /\ m = run.cached[h].mtime
      BY <1>7, <2>2 DEF Carried, RowRead
    <3>2. Match(h, x, m)
      BY <2>2, <3>1 DEF Dated, FileDated
    <3>3. Match(h, x, m)'
      BY <1>5, <2>0, <3>2
    <3> QED BY <1>8, <3>1, <3>3 DEF Match
  <2>3. ASSUME h \in DOMAIN run.batch
        PROVE  Match(h, run.batch[h].hash, run.batch[h].mtime)'
    <3>1. PICK x \in Nat, m \in 0..clock : x = run.batch[h].hash /\ m = run.batch[h].mtime
      BY <1>7, <2>3 DEF Carried, RowRead
    <3>2. Match(h, x, m)
      BY <2>3, <3>1 DEF Dated, FileDated
    <3>3. Match(h, x, m)'
      BY <1>5, <2>0, <3>2
    <3> QED BY <1>8, <3>1, <3>3 DEF Match
  <2>4. ASSUME h \in DOMAIN run.touch
        PROVE  Match(h, rows[h].hash, run.touch[h])'
    <3>1. PICK x \in Nat, m \in 0..clock : x = rows[h].hash /\ m = run.touch[h]
      BY <1>7, <2>0, <2>4, AbsentIs DEF Carried
    <3>2. Match(h, x, m)
      BY <2>4, <3>1 DEF Dated, FileDated
    <3>3. Match(h, x, m)'
      BY <1>5, <2>0, <3>2
    <3> QED BY <1>8, <3>1, <3>3 DEF Match
  <2> QED BY <2>1, <2>2, <2>3, <2>4
<1>10. (ext = version /\ run.reparse = {} /\ WholeLanesForeign)'
  BY <1>8 DEF Dated, FileDated, WholeLanesForeign
<1> QED BY <1>8, <1>9, <1>10 DEF Dated, FileDated

\* A step that leaves the tree alone has to keep the rows dated, and the lanes of
\* whole files to other parsers.
LEMMA DatedStep ==
  ASSUME UNCHANGED <<tree, version>>, ext' = version, run'.reparse = {},
         \A r \in Lanes(run'.lanes) : r.kind = "whole" => r.files \cap Owned = {},
         \A f \in Owned : FileDated(f, rows', run')
  PROVE  Dated'
<1>1. ASSUME NEW f \in Owned
      PROVE  /\ Match(f, rows[f].hash, rows[f].mtime)'
             /\ f \in DOMAIN run'.cached => Match(f, run.cached[f].hash, run.cached[f].mtime)'
             /\ f \in DOMAIN run'.batch => Match(f, run.batch[f].hash, run.batch[f].mtime)'
             /\ f \in DOMAIN run'.touch => Match(f, rows[f].hash, run.touch[f])'
  BY <1>1 DEF FileDated, Match, Present
<1> QED BY <1>1 DEF Dated, FileDated, WholeLanesForeign

\* The premises of DatedStep that hold before the step.
LEMMA DatedFacts ==
  ASSUME Dated
  PROVE  /\ ext = version /\ run.reparse = {}
         /\ \A r \in Lanes(run.lanes) : r.kind = "whole" => r.files \cap Owned = {}
         /\ \A f \in Owned : FileDated(f, rows, run)
BY DEF Dated, FileDated, WholeLanesForeign

\* Nothing is dated wrong when nothing is carried.
LEMMA IdleDated ==
  ASSUME NEW f, NEW r, NEW k, Match(f, r[f].hash, r[f].mtime),
         k.cached = Empty, k.batch = Empty, k.touch = Empty
  PROVE  FileDated(f, r, k)
BY EmptyPart DEF FileDated

\* A look at an owned file takes its mtime before its bytes.
LEMMA LookDated ==
  ASSUME TInv, Dated, NEW f \in Files, Look(f) \/ ReadFails(f)
  PROVE  Dated'
<1>1. /\ run.pc \in {"classify", "parse"} /\ f \in run.todo /\ run' \in RunState
      /\ SamePlan(run, run') /\ UNCHANGED <<env, db, base, settled>>
      /\ Probes(f) \/ GivesUp(f) \/ Confirms(f) \/ \E row : Finds(f, row)
  BY LookDoes
<1>2. UNCHANGED <<tree, version>> /\ ext' = ext /\ rows' = rows
  BY <1>1 DEF env, db
<1>3. run'.reparse = run.reparse /\ run'.lanes = run.lanes
  BY <1>1 DEF SamePlan
<1>4. run.cached \in Part(Row) /\ run.batch \in Part(Row) /\ run.touch \in Part(Nat)
  BY TypeFacts, RunFields
<1>5. Owned \subseteq Files
  BY PipelineAssumption
<1> SUFFICES ASSUME NEW h \in Owned PROVE FileDated(h, rows, run')
  BY <1>2, <1>3, DatedStep, DatedFacts
<1>6. FileDated(h, rows, run)
  BY DatedFacts
<1>7. CASE Probes(f) \/ GivesUp(f)
  <2>1. run'.cached = run.cached /\ run'.touch = run.touch /\ run'.batch = run.batch
    BY <1>7 DEF Probes, GivesUp
  <2> QED BY <1>6, <2>1 DEF FileDated
<1>8. CASE Confirms(f)
  <2>1. PICK v \in 0..clock : run'.touch = With(run.touch, f, v)
    BY <1>8 DEF Confirms
  <2>2. run'.cached = run.cached /\ run'.batch = run.batch /\ rows[f].hash = tree[f].content
    BY <1>8 DEF Confirms
  <2>3. ASSUME h \in DOMAIN run'.touch PROVE Match(h, rows[h].hash, run'.touch[h])
    <3>1. CASE h = f
      BY <2>2, <3>1 DEF Match
    <3>2. CASE h # f
      <4>1. h \in DOMAIN run.touch /\ run'.touch[h] = run.touch[h]
        BY <2>1, <2>3, <3>2 DEF With
      <4> QED BY <1>6, <4>1 DEF FileDated
    <3> QED BY <3>1, <3>2
  <2> QED BY <1>6, <2>2, <2>3 DEF FileDated
<1>9. ASSUME NEW row, Finds(f, row) PROVE FileDated(h, rows, run')
  <2>1. h = f => Match(h, row.hash, row.mtime)
    <3>1. CASE row.hash = tree[f].content
      BY <3>1 DEF Match
    <3>2. CASE f \in DOMAIN run.cached /\ row = run.cached[f]
      BY <1>6, <3>2 DEF FileDated
    <3>3. CASE Whole
      <4>1. run.lanes \in Seq(LaneRec) /\ run.lanes # << >> /\ f \in Head(run.lanes).files
            /\ Head(run.lanes).kind = "whole"
        BY <1>1, <3>3, TypeFacts, RunFields DEF Whole, Kind, Step, CourseOf
      <4>2. Head(run.lanes) \in Lanes(run.lanes)
        BY <4>1, FirstLane
      <4>3. f \notin Owned
        BY <4>1, <4>2, DatedFacts
      <4> QED BY <4>3
    <3> QED BY <1>9, <3>1, <3>2, <3>3 DEF Finds
  <2>2. run'.touch = run.touch
    BY <1>9 DEF Finds
  <2>3. ASSUME h \in DOMAIN run'.cached PROVE Match(h, run'.cached[h].hash, run'.cached[h].mtime)
    <3>1. \/ h \in DOMAIN run.cached /\ run'.cached[h] = run.cached[h]
          \/ h = f /\ run'.cached[h] = row
      BY <1>9, <2>3 DEF Finds, With
    <3> QED BY <1>6, <2>1, <3>1 DEF FileDated
  <2>4. ASSUME h \in DOMAIN run'.batch PROVE Match(h, run'.batch[h].hash, run'.batch[h].mtime)
    <3>1. \/ h \in DOMAIN run.batch /\ run'.batch[h] = run.batch[h]
          \/ h = f /\ run'.batch[h] = row
      BY <1>9, <2>4 DEF Finds, With
    <3> QED BY <1>6, <2>1, <3>1 DEF FileDated
  <2> QED BY <1>6, <2>2, <2>3, <2>4 DEF FileDated
<1> QED BY <1>1, <1>7, <1>8, <1>9

\* A removed row has no mtime that a file could have.
LEMMA RemovedDated == ASSUME TInv, NEW f \in Files PROVE Match(f, NoRow.hash, NoRow.mtime)
BY AbsentIs DEF Match, NoRow

\* The mtimes of files whose bytes were confirmed may be stored.
LEMMA TouchedDated ==
  ASSUME TInv, NEW r \in [Files -> Row], NEW g \in Part(Nat), NEW f \in Files,
         Match(f, r[f].hash, r[f].mtime),
         f \in DOMAIN g /\ r[f] # NoRow => Match(f, r[f].hash, g[f])
  PROVE  Match(f, Touched(r, g)[f].hash, Touched(r, g)[f].mtime)
<1>1. /\ Touched(r, g)[f].hash = r[f].hash
      /\ f \in DOMAIN g /\ r[f] # NoRow => Touched(r, g)[f].mtime = g[f]
      /\ f \notin DOMAIN g \/ r[f] = NoRow => Touched(r, g)[f] = r[f]
  BY TouchedRow
<1> QED BY <1>1

\* Removals, stored mtimes and stored batches keep the rows dated right.
LEMMA StoreDated ==
  ASSUME TInv, Dated, Plan \/ Apply \/ StoreBatch
  PROVE  Dated'
<1>1. /\ rows \in [Files -> Row] /\ run.touch \in Part(Nat) /\ run.batch \in Part(Row)
      /\ Owned \subseteq Files /\ run.lanes \in Seq(LaneRec)
  BY TypeFacts, RunFields, PipelineAssumption
<1>2. UNCHANGED <<tree, version, ext>> /\ run'.reparse = run.reparse /\ run'.cached = run.cached
  BY PlanDoes, ApplyDoes, StoreBatchDoes DEF env
<1>3. \A r \in Lanes(run'.lanes) : r.kind = "whole" => r.files \cap Owned = {}
  <2>1. CASE Plan
    BY <2>1, PlanDoes, DatedFacts
  <2>2. CASE Apply
    BY <2>2, ApplyDoes, DatedFacts
  <2>3. CASE StoreBatch
    BY <1>1, <2>3, StoreBatchDoes, FirstLane, DatedFacts
  <2> QED BY <2>1, <2>2, <2>3
<1> SUFFICES ASSUME NEW f \in Owned PROVE FileDated(f, rows', run')
  BY <1>2, <1>3, DatedStep, DatedFacts
<1>4. f \in Files /\ FileDated(f, rows, run)
  BY <1>1, DatedFacts
<1>5. CASE Plan
  <2>1. /\ rows' = Touched(rows, Only(run.touch, Owned)) /\ f \notin DOMAIN run'.touch
        /\ run'.batch = run.batch
    BY <1>5, PlanDoes
  <2>2. PICK g \in Part(Nat) : g = Only(run.touch, Owned) /\ DOMAIN g = DOMAIN run.touch \cap Owned
                               /\ \A h \in DOMAIN run.touch \cap Owned : g[h] = run.touch[h]
    <3>1. Only(run.touch, Owned) \in Part(Nat)
      BY <1>1, OnlyPart
    <3>2. /\ DOMAIN Only(run.touch, Owned) = DOMAIN run.touch \cap Owned
          /\ \A h \in DOMAIN run.touch \cap Owned : Only(run.touch, Owned)[h] = run.touch[h]
      BY DEF Only
    <3> QED BY <3>1, <3>2
  <2>3. Match(f, Touched(rows, g)[f].hash, Touched(rows, g)[f].mtime)
    BY <1>1, <1>4, <2>2, TouchedDated DEF FileDated
  <2> QED BY <1>2, <1>4, <2>1, <2>2, <2>3 DEF FileDated
<1>6. CASE Apply
  <2>1. PICK r \in [Files -> Row] : r = Removed(rows, run.removed) /\
          r[f] = IF f \in run.removed THEN NoRow ELSE rows[f]
    BY <1>1, <1>4, RemovedRow
  <2>2. Match(f, r[f].hash, r[f].mtime)
    BY <1>4, <2>1, RemovedDated DEF FileDated
  <2>3. f \in DOMAIN run.touch /\ r[f] # NoRow => Match(f, r[f].hash, run.touch[f])
    BY <1>4, <2>1 DEF FileDated
  <2>4. Match(f, Touched(r, run.touch)[f].hash, Touched(r, run.touch)[f].mtime)
    BY <1>1, <1>4, <2>2, <2>3, TouchedDated
  <2>5. rows' = Touched(r, run.touch) /\ run'.touch = Empty /\ run'.batch = run.batch
    BY <1>6, <2>1, ApplyDoes
  <2> QED BY <1>2, <1>4, <2>4, <2>5, EmptyPart DEF FileDated
<1>7. CASE StoreBatch
  <2>1. PICK r \in [Files -> Row] : r = Touched(rows, run.touch)
    BY <1>1, TouchedRow
  <2>2. Match(f, r[f].hash, r[f].mtime)
    BY <1>1, <1>4, <2>1, TouchedDated DEF FileDated
  <2>3. rows' = Stored(r, run.batch) /\ run'.touch = Empty /\ run'.batch = Empty
    BY <1>7, <2>1, StoreBatchDoes
  <2>4. rows'[f] = IF f \in DOMAIN run.batch THEN run.batch[f] ELSE r[f]
    BY <1>1, <1>4, <2>3, StoredRow
  <2>5. Match(f, rows'[f].hash, rows'[f].mtime)
    BY <1>4, <2>2, <2>4 DEF FileDated
  <2> QED BY <1>2, <1>4, <2>3, <2>5, EmptyPart DEF FileDated
<1> QED BY <1>5, <1>6, <1>7

\* Beginning, ending and moving on a run carries nothing that is dated wrong.
LEMMA StageDated ==
  ASSUME TInv, Dated,
         \/ DiffBase \/ Status \/ StampExtractors \/ BuildStampHead \/ Scope \/ Filter
         \/ Crash \/ StampHead \/ BuildStampExtractors
         \/ \E p \in Updaters : PeekBase(p) \/ NameBase(p) \/ StartUpdate(p)
  PROVE  Dated'
<1>1. \A f \in Owned : Match(f, rows[f].hash, rows[f].mtime)
  BY DEF Dated, FileDated
<1>2. ASSUME UNCHANGED <<tree, version, rows>>, ext' = ext \/ ext' = version,
             run'.reparse = {}, run'.lanes = << >>,
             run'.cached = Empty, run'.batch = Empty, run'.touch = Empty
      PROVE  Dated'
  <2>1. \A f \in Owned : FileDated(f, rows', run')
    BY <1>1, <1>2, IdleDated
  <2> QED BY <1>2, <2>1, NoLanes, DatedStep, DatedFacts
<1>3. ASSUME UNCHANGED <<tree, version, rows>>, ext' = ext \/ ext' = version,
             run'.reparse = {}, run'.lanes = run.lanes,
             run'.cached = run.cached, run'.batch = run.batch, run'.touch = run.touch
      PROVE  Dated'
  <2>1. \A f \in Owned : FileDated(f, rows', run')
    BY <1>3, DatedFacts DEF FileDated
  <2> QED BY <1>3, <2>1, DatedStep, DatedFacts
<1>4. CASE DiffBase \/ Status \/ StampExtractors \/ BuildStampHead
  <2>1. /\ UNCHANGED <<tree, version, rows>> /\ (ext' = ext \/ ext' = version)
        /\ run'.reparse = run.reparse /\ run'.lanes = run.lanes
        /\ run'.cached = run.cached /\ run'.batch = run.batch /\ run'.touch = run.touch
    BY <1>4, MovesDo DEF env, SameLook
  <2> QED BY <1>3, <2>1, DatedFacts
<1>5. CASE Scope
  <2>1. /\ UNCHANGED <<tree, version, rows>> /\ (ext' = ext \/ ext' = version)
        /\ run'.reparse = {} /\ run'.lanes = run.lanes
        /\ run'.cached = run.cached /\ run'.batch = run.batch /\ run'.touch = run.touch
    BY <1>5, ScopeDoes, DatedFacts DEF env, SameLook
  <2> QED BY <1>3, <2>1
<1>6. CASE Filter
  <2>1. /\ UNCHANGED <<tree, version, rows>> /\ ext' = ext
        /\ run'.reparse = run.reparse /\ run'.lanes = run.lanes
        /\ run'.cached = run.cached /\ run'.batch = run.batch /\ run'.touch = run.touch
    BY <1>6, FilterDoes DEF env, db
  <2> QED BY <1>3, <2>1, DatedFacts
<1>7. CASE Crash \/ StampHead \/ BuildStampExtractors
  <2>1. UNCHANGED <<tree, version, rows>> /\ (ext' = ext \/ ext' = version) /\ run' = Idle
    BY <1>7 DEF Crash, StampHead, BuildStampExtractors, env, db
  <2> QED BY <1>2, <2>1, IdleIs
<1>8. ASSUME NEW p \in Updaters, PeekBase(p) \/ NameBase(p) PROVE Dated'
  <2>1. UNCHANGED <<tree, version, rows, ext, run>>
    BY <1>8 DEF PeekBase, NameBase, env, db
  <2> QED BY <1>3, <2>1, DatedFacts
<1>9. ASSUME NEW p \in Updaters, StartUpdate(p) PROVE Dated'
  <2>1. /\ UNCHANGED <<tree, version, rows, ext>> /\ run'.lanes = << >> /\ run'.reparse = {}
        /\ SameLook(Idle, run')
    BY <1>9, StartUpdateDoes DEF env, db
  <2>2. run'.cached = Empty /\ run'.batch = Empty /\ run'.touch = Empty
    BY <2>1, IdleIs DEF SameLook
  <2> QED BY <1>2, <2>1, <2>2
<1> QED BY <1>4, <1>5, <1>6, <1>7, <1>8, <1>9

\* What has happened stays so.
LEMMA HappenedGrows ==
  ASSUME [Next]_vars
  PROVE  happened \subseteq happened'
<1>1. CASE UNCHANGED vars
  BY <1>1 DEF vars
<1>2. ASSUME NEW p \in Updaters, PeekBase(p) \/ NameBase(p) \/ StartUpdate(p)
      PROVE  happened \subseteq happened'
  BY <1>2 DEF PeekBase, NameBase, StartUpdate, Once
<1>3. CASE StartBuild \/ Crash \/ Commit \/ Upgrade
  BY <1>3 DEF StartBuild, Crash, Commit, Upgrade, Once
<1>4. CASE DiffBase \/ Status \/ Scope \/ Filter \/ Plan \/ Apply \/ StoreBatch
           \/ StampExtractors \/ StampHead \/ BuildStampHead \/ BuildStampExtractors
  BY <1>4 DEF DiffBase, Status, Scope, Filter, Plan, Apply, StoreBatch, StampExtractors,
     StampHead, BuildStampHead, BuildStampExtractors
<1>5. ASSUME NEW f \in Files, Look(f) \/ ReadFails(f) PROVE happened \subseteq happened'
  BY <1>5 DEF Look, StatFirst, ReadAfter, UseCached, ReadFirst, StatAfter, ReadFails, Once
<1>6. ASSUME NEW f \in Files, Write(f) \/ Touch(f) \/ Delete(f) \/ Discard(f) \/ Preserve(f)
      PROVE  happened \subseteq happened'
  BY <1>6 DEF Write, Touch, Delete, Discard, Preserve, Once
<1> QED BY <1>1, <1>2, <1>3, <1>4, <1>5, <1>6 DEF Next, Running, Editor

\* Every step keeps the rows of owned files dated right.
LEMMA StepDated == TInv /\ AInv /\ [Next]_vars => AInv'
<1> SUFFICES ASSUME TInv, AInv, [Next]_vars, Without({"build", "upgrade", "preserve"})' PROVE Dated'
  BY DEF AInv
<1>0. Dated /\ happened' \cap {"build", "upgrade", "preserve"} = {}
  BY HappenedGrows DEF AInv, Without
<1>1. CASE UNCHANGED vars
  BY <1>0, <1>1 DEF vars, env, db, Dated, FileDated, WholeLanesForeign, Match, Present
<1>2. CASE \/ DiffBase \/ Status \/ StampExtractors \/ BuildStampHead \/ Scope \/ Filter
           \/ Crash \/ StampHead \/ BuildStampExtractors
           \/ \E p \in Updaters : PeekBase(p) \/ NameBase(p) \/ StartUpdate(p)
  BY <1>0, <1>2, StageDated
<1>3. CASE StartBuild
  BY <1>0, <1>3 DEF StartBuild, Once
<1>4. CASE Plan \/ Apply \/ StoreBatch
  BY <1>0, <1>4, StoreDated
<1>5. ASSUME NEW f \in Files, Look(f) \/ ReadFails(f) PROVE Dated'
  BY <1>0, <1>5, LookDated
<1>6. ASSUME NEW f \in Files, Write(f) \/ Touch(f) \/ Delete(f) \/ Discard(f) \/ Preserve(f) PROVE Dated'
  BY <1>0, <1>6, EditorDoes, EditDated
<1>7. CASE Commit
  <2>1. UNCHANGED <<tree, version, db, run>>
    BY <1>7 DEF Commit
  <2> QED BY <1>0, <2>1 DEF db, Dated, FileDated, WholeLanesForeign, Match, Present
<1>8. CASE Upgrade
  BY <1>0, <1>8 DEF Upgrade, Once
<1> QED BY <1>1, <1>2, <1>3, <1>4, <1>5, <1>6, <1>7, <1>8 DEF Next, Running, Editor

\* The rows of a graph just built are dated right.
LEMMA InitDated == Init => AInv
<1> SUFFICES ASSUME Init PROVE Dated
  BY DEF AInv
<1>1. /\ run = Idle /\ ext = 1 /\ version = 1
      /\ rows = [f \in Files |-> [hash |-> 1, mtime |-> 1, ver |-> 1]]
      /\ tree = [f \in Files |-> [content |-> 1, mtime |-> 1]]
  BY DEF Init
<1>2. run.reparse = {} /\ WholeLanesForeign
  BY <1>1, IdleIs, NoLanes DEF WholeLanesForeign
<1>3. ASSUME NEW f \in Owned PROVE Match(f, rows[f].hash, rows[f].mtime)
  BY <1>1, PipelineAssumption DEF Match
<1>4. DOMAIN run.cached = {} /\ DOMAIN run.batch = {} /\ DOMAIN run.touch = {}
  BY <1>1, IdleIs, EmptyPart
<1> QED BY <1>1, <1>2, <1>3, <1>4 DEF Dated, FileDated

\* The rows of owned files are always dated right, without a build, an upgrade or a kept mtime.
LEMMA DatedInvariant == Spec => []AInv
BY InitDated, StepDated, TypeInvariant, PTL DEF Spec

\* `dagayn status` never calls the graph synced or ahead while a file the Rust
\* parser owns differs from it, as long as the graph is updated by the extractors it
\* was built with and no tool rewrites a file under an earlier mtime:
\* assess_graph_sync may then trust an mtime because an update stats before it reads.
THEOREM StatusHonest == Spec => []AssessmentHonest
<1>1. TInv /\ AInv => AssessmentHonest
  <2> SUFFICES ASSUME TInv, Without({"build", "upgrade", "preserve"}), Dated,
                      Assessment \in {"commit_synced", "worktree_ahead"},
                      NEW f \in Owned \cap (Indexed \cup Dirty)
               PROVE  Fresh(f)
    BY DEF AssessmentHonest, AInv
  <2>1. f \in Files /\ Match(f, rows[f].hash, rows[f].mtime)
    BY PipelineAssumption DEF Dated, FileDated
  <2>2. Pending = {} /\ Indexed # {}
    BY DEF Assessment
  <2>3. CASE f \in Indexed
    <3>1. f \in Present /\ (MtimeMatches(f) \/ HashMatches(f))
      BY <2>2, <2>3 DEF Pending
    <3> QED BY <2>1, <3>1 DEF MtimeMatches, HashMatches, Match, Fresh
  <2>4. CASE f \notin Indexed
    <3>1. f \notin Present
      BY <2>2, <2>4 DEF Pending
    <3> QED BY <2>1, <2>4, <3>1, AbsentIs DEF Fresh
  <2> QED BY <2>3, <2>4
<1> QED BY <1>1, TypeInvariant, DatedInvariant, PTL

-----------------------------------------------------------------------------
(* What the extractor stamp means *)

\* Every step keeps the early stages as they are.
LEMMA StepEarly == TInv /\ DInv /\ [Next]_vars => DInv'
<1> SUFFICES ASSUME TInv, DInv, [Next]_vars PROVE DInv'
  OBVIOUS
<1>1. CASE UNCHANGED vars
  BY <1>1 DEF vars, DInv
<1>2. ASSUME NEW p \in Updaters, PeekBase(p) \/ NameBase(p) PROVE DInv'
  BY <1>2 DEF PeekBase, NameBase, DInv
<1>3. ASSUME NEW p \in Updaters, StartUpdate(p) PROVE DInv'
  <2>1. run'.pc = "diff" /\ run'.differs = {} /\ run'.base = base[p]
    BY <1>3, StartUpdateDoes, IdleIs DEF SameLook
  <2>2. base[p] # 0
    BY <1>3 DEF StartUpdate
  <2> QED BY <2>1, <2>2 DEF DInv
<1>4. CASE StartBuild
  BY <1>4, StartBuildDoes DEF DInv
<1>5. CASE DiffBase \/ Status \/ StampExtractors \/ BuildStampHead
  BY <1>5, MovesDo DEF SameLook, DInv
<1>6. CASE Scope
  BY <1>6, ScopeDoes DEF SameLook, DInv
<1>7. CASE Filter
  BY <1>7, FilterDoes DEF DInv
<1>8. CASE Plan
  BY <1>8, PlanDoes DEF DInv
<1>9. CASE Apply
  BY <1>9, ApplyDoes DEF DInv
<1>10. CASE StoreBatch
  BY <1>10, StoreBatchDoes DEF DInv
<1>11. CASE Crash \/ StampHead \/ BuildStampExtractors
  BY <1>11, IdleIs DEF Crash, StampHead, BuildStampExtractors, DInv
<1>12. ASSUME NEW f \in Files, Look(f) \/ ReadFails(f) PROVE DInv'
  <2>1. run.pc \in {"classify", "parse"} /\ SamePlan(run, run')
    BY <1>12, LookDoes
  <2> QED BY <2>1 DEF SamePlan, DInv
<1>13. ASSUME NEW f \in Files, Write(f) \/ Touch(f) \/ Delete(f) \/ Discard(f) \/ Preserve(f) PROVE DInv'
  BY <1>13 DEF Write, Touch, Delete, Discard, Preserve, Edited, DInv
<1>14. CASE Commit \/ Upgrade
  BY <1>14 DEF Commit, Upgrade, DInv
<1> QED
  BY <1>1, <1>2, <1>3, <1>4, <1>5, <1>6, <1>7, <1>8, <1>9, <1>10, <1>11, <1>12, <1>13, <1>14
     DEF Next, Running, Editor

\* The early stages of a run are always as described.
LEMMA EarlyInvariant == Spec => []DInv
<1>1. Init => DInv
  BY IdleIs DEF Init, DInv
<1> QED BY <1>1, StepEarly, TypeInvariant, PTL DEF Spec

\* An old row is that of a file that is there.
LEMMA OldPresent ==
  ASSUME TInv, NEW f \in Files, OldRow(f, rows)
  PROVE  f \in Present /\ f \in Indexed
<1>1. f \in Indexed
  BY DEF OldRow, Indexed
<1> QED BY <1>1, AbsentIs DEF OldRow

\* A step that leaves the tree and the binary alone has to know the old rows it leaves.
LEMMA KnownStep ==
  ASSUME UNCHANGED <<tree, version>>, OldKnown(rows', ext', run')
  PROVE  OldKnown(rows, ext, run)'
BY DEF OldKnown, OldRow, OldAhead

\* New or no bytes are not those of any row.
LEMMA EditKnown ==
  ASSUME TInv, OldKnown(rows, ext, run), NEW f \in Files, NEW c \in Nat, NEW m,
         Edited(f, c, m), c = clock + 1 \/ c = 0 \/ c = tree[f].content
  PROVE  OldKnown(rows, ext, run)'
<1> DEFINE v == IF c = 0 THEN Absent ELSE [content |-> c, mtime |-> m]
<1>1. tree' = [tree EXCEPT ![f] = v] /\ UNCHANGED <<version, db, run>>
  BY DEF Edited
<1>2. tree \in [Files -> [content : Nat, mtime : Nat]] /\ clock \in Nat
  BY DEF TInv, TypeOK
<1>3. v.content = c
  BY DEF Absent
<1> HIDE DEF v
<1>4. \A h \in Files : tree'[h] = IF h = f THEN v ELSE tree[h]
  BY <1>1, <1>2
<1>5. rows' = rows /\ run' = run /\ ext' = ext /\ version' = version
  BY <1>1 DEF db
<1>6. ASSUME NEW h \in Files, rows[h] # NoRow
      PROVE  rows[h].hash = tree'[h].content => rows[h].hash = tree[h].content
  <2>1. rows[h].hash \in 1..clock
    BY <1>6, TypeFacts DEF RowRead
  <2> QED BY <1>2, <1>3, <1>4, <2>1
<1>7. \A h \in Files : OldRow(h, rows)' => OldRow(h, rows)
  BY <1>5, <1>6 DEF OldRow
<1>8. run.differs \subseteq Files
  BY TypeFacts, RunFields
<1> QED BY <1>5, <1>6, <1>7, <1>8 DEF OldKnown, OldAhead

\* A look at a file reads it for the current extractor.
LEMMA LookKnown ==
  ASSUME TInv, OldKnown(rows, ext, run), NEW f \in Files, Look(f) \/ ReadFails(f),
         "unreadable" \notin happened'
  PROVE  OldKnown(rows, ext, run)'
<1>1. /\ run.pc \in {"classify", "parse"} /\ f \in run.todo /\ run' \in RunState
      /\ SamePlan(run, run') /\ UNCHANGED <<env, db, base, settled>>
      /\ Probes(f) \/ GivesUp(f) \/ Confirms(f) \/ \E row : Finds(f, row)
  BY LookDoes
<1>2. UNCHANGED <<tree, version>> /\ ext' = ext /\ rows' = rows
  BY <1>1 DEF env, db
<1>3. run'.reparse = run.reparse /\ run'.lanes = run.lanes /\ run'.pc = run.pc
  BY <1>1 DEF SamePlan
<1>4. rows[f] # NoRow <=> rows[f].hash # 0
  BY AbsentIs DEF Indexed
<1>5. run.pc = "parse" => (Whole <=> Head(run.lanes).kind = "whole")
  BY TypeFacts DEF Whole, Kind, Step, CourseOf
<1>6. /\ \A h \in DOMAIN run'.cached : run'.cached[h].ver = version
      /\ \A h \in DOMAIN run'.batch : run'.batch[h].ver = version
  <2>1. CASE Probes(f) \/ GivesUp(f) \/ Confirms(f)
    BY <2>1 DEF Probes, GivesUp, Confirms, OldKnown
  <2>2. ASSUME NEW row, Finds(f, row)
        PROVE  /\ \A h \in DOMAIN run'.cached : run'.cached[h].ver = version
               /\ \A h \in DOMAIN run'.batch : run'.batch[h].ver = version
    <3>1. row.ver = version
      BY <2>2 DEF Finds, OldKnown
    <3>2. \A h \in DOMAIN run'.cached :
            (h \in DOMAIN run.cached /\ run'.cached[h] = run.cached[h]) \/ run'.cached[h] = row
      BY <2>2 DEF Finds, With
    <3>3. \A h \in DOMAIN run'.batch :
            (h \in DOMAIN run.batch /\ run'.batch[h] = run.batch[h]) \/ run'.batch[h] = row
      BY <2>2 DEF Finds, With
    <3> QED BY <3>1, <3>2, <3>3 DEF OldKnown
  <2> QED BY <1>1, <2>1, <2>2
<1>7. ASSUME run.pc = "classify", NEW h \in run'.differs, rows[h] # NoRow
      PROVE  rows[h].hash # tree[h].content
  <2>1. CASE h \in run.differs
    BY <1>7, <2>1 DEF OldKnown
  <2>2. CASE h \notin run.differs
    <3>1. h = f /\ (GivesUp(f) \/ \E row : Finds(f, row))
      BY <1>1, <2>2 DEF Probes, GivesUp, Confirms, Finds
    <3>2. CASE GivesUp(f)
      <4>1. f \notin Present
        BY <3>2 DEF GivesUp
      <4> QED BY <1>4, <1>7, <3>1, <4>1, AbsentIs
    <3>3. ASSUME NEW row, Finds(f, row) PROVE rows[f].hash # tree[f].content
      BY <1>7, <3>1, <3>3 DEF Finds, Indexed, Whole, Step
    <3> QED BY <3>1, <3>2, <3>3
  <2> QED BY <2>1, <2>2
<1>8. ASSUME run.pc = "parse", NEW h \in Files, OldRow(h, rows) PROVE OldAhead(h, run')
  <2>1. OldAhead(h, run)
    BY <1>8 DEF OldKnown
  <2>2. CASE h \in WholeFiles(Tail(run.lanes))
    BY <1>3, <2>2 DEF OldAhead
  <2>3. CASE Head(run.lanes).kind = "whole" /\ h \in run.todo \cup DOMAIN run.batch
    <3>1. Whole
      BY <1>5, <1>8, <2>3
    <3>2. h \in Present
      BY <1>8, OldPresent
    <3>3. h \in run'.todo \cup DOMAIN run'.batch
      <4>1. CASE Probes(f)
        BY <2>3, <4>1 DEF Probes
      <4>2. CASE GivesUp(f)
        BY <2>3, <3>2, <4>2 DEF GivesUp
      <4>3. CASE Confirms(f)
        BY <3>1, <4>3 DEF Confirms
      <4>4. ASSUME NEW row, Finds(f, row) PROVE h \in run'.todo \cup DOMAIN run'.batch
        <5>1. run'.todo = run.todo \ {f} /\ DOMAIN run'.batch = DOMAIN run.batch \cup {f}
          BY <1>8, <4>4 DEF Finds, With
        <5> QED BY <2>3, <5>1
      <4> QED BY <1>1, <4>1, <4>2, <4>3, <4>4
    <3> QED BY <1>3, <2>3, <3>3 DEF OldAhead
  <2> QED BY <2>1, <2>2, <2>3 DEF OldAhead
<1>9. OldKnown(rows, ext, run')
  BY <1>1, <1>3, <1>6, <1>7, <1>8 DEF OldKnown
<1> QED BY <1>2, <1>9, KnownStep

\* A row whose mtime is stored anew is no older than it was.
LEMMA TouchedOld ==
  ASSUME NEW r \in [Files -> Row], NEW g \in Part(Nat), NEW f \in Files
  PROVE  OldRow(f, Touched(r, g)) => OldRow(f, r)
<1>1. /\ Touched(r, g)[f].hash = r[f].hash /\ Touched(r, g)[f].ver = r[f].ver
      /\ r[f] = NoRow => Touched(r, g)[f] = r[f]
  BY TouchedRow
<1> QED BY <1>1 DEF OldRow

\* A row that is removed is not old.
LEMMA RemovedOld ==
  ASSUME NEW r \in [Files -> Row], NEW D, NEW f \in Files
  PROVE  OldRow(f, Removed(r, D)) => OldRow(f, r)
<1>1. Removed(r, D)[f] = IF f \in D THEN NoRow ELSE r[f]
  BY RemovedRow
<1> QED BY <1>1 DEF OldRow

\* The files of whole lanes are in the first lane or in a later one.
LEMMA WholeAhead ==
  ASSUME NEW k, k.lanes \in Seq(LaneRec), k.lanes # << >>, k.todo = Head(k.lanes).files,
         NEW f \in WholeFiles(k.lanes)
  PROVE  OldAhead(f, k)
BY FirstLane DEF OldAhead

\* An update that finds other extractors parses every file again.
LEMMA ScopeKnown ==
  ASSUME TInv, OldKnown(rows, ext, run), Scope
  PROVE  OldKnown(rows, ext, run)'
<1>1. /\ UNCHANGED <<tree, version>> /\ rows' = rows
      /\ run'.cached = run.cached /\ run'.batch = run.batch
      /\ run'.reparse = IF ext # version /\ Indexed # {} THEN Present ELSE {}
      /\ ext' = IF ext # version /\ Indexed # {} /\ run'.reparse = {} THEN version ELSE ext
      /\ run'.pc = "head" \/ run'.pc = "filter"
  BY ScopeDoes DEF env, SameLook
<1>2. ASSUME NEW f \in Files, OldRow(f, rows) PROVE f \in run'.reparse /\ ext' # version
  <2>1. f \in Present /\ f \in Indexed
    BY <1>2, OldPresent
  <2>2. ext # version
    BY <1>2 DEF OldKnown
  <2> QED BY <1>1, <2>1, <2>2
<1>3. OldKnown(rows', ext', run')
  BY <1>1, <1>2 DEF OldKnown
<1> QED BY <1>1, <1>3, KnownStep

\* The filter passes the old rows on to the classification.
LEMMA FilterKnown ==
  ASSUME TInv, DInv, OldKnown(rows, ext, run), Filter
  PROVE  OldKnown(rows, ext, run)'
<1>1. /\ UNCHANGED <<tree, version, rows, ext>> /\ run.pc = "filter" /\ run'.pc = "classify"
      /\ run'.cached = run.cached /\ run'.batch = run.batch /\ run'.reparse = run.reparse
      /\ run'.differs = run.differs
  BY FilterDoes DEF env, db
<1>2. run'.differs = {}
  BY <1>1 DEF DInv
<1>3. OldKnown(rows', ext', run')
  BY <1>1, <1>2 DEF OldKnown
<1> QED BY <1>1, <1>3, KnownStep

\* The plan gives every old row a lane of whole files.
LEMMA PlanKnown ==
  ASSUME TInv, OldKnown(rows, ext, run), Plan
  PROVE  OldKnown(rows, ext, run)'
<1>1. /\ UNCHANGED <<tree, version, ext>> /\ run.pc = "classify" /\ run'.pc = "apply"
      /\ run'.cached = run.cached /\ run'.batch = run.batch
      /\ rows' = Touched(rows, Only(run.touch, Owned))
      /\ run.reparse \ run.differs \subseteq WholeFiles(run'.lanes)
  BY PlanDoes DEF env
<1>2. rows \in [Files -> Row] /\ run.touch \in Part(Nat)
  BY TypeFacts, RunFields
<1>3. PICK g \in Part(Nat) : g = Only(run.touch, Owned)
  BY <1>2, OnlyPart
<1>4. \A f \in Files : OldRow(f, rows') => OldRow(f, rows)
  BY <1>1, <1>2, <1>3, TouchedOld
<1>5. ASSUME NEW f \in Files, OldRow(f, rows) PROVE f \in WholeFiles(run'.lanes)
  <2>1. f \in run.reparse
    BY <1>1, <1>5 DEF OldKnown
  <2>2. f \notin run.differs
    BY <1>1, <1>5 DEF OldKnown, OldRow
  <2> QED BY <1>1, <2>1, <2>2
<1>6. OldKnown(rows', ext', run')
  BY <1>1, <1>4, <1>5 DEF OldKnown
<1> QED BY <1>1, <1>6, KnownStep

\* Removals and mtime updates make no row old.
LEMMA ApplyKnown ==
  ASSUME TInv, OldKnown(rows, ext, run), Apply
  PROVE  OldKnown(rows, ext, run)'
<1>1. /\ UNCHANGED <<tree, version, ext>> /\ run.pc = "apply" /\ run'.lanes = run.lanes
      /\ run'.pc = IF run.lanes = << >> THEN "head" ELSE "parse"
      /\ run'.cached = run.cached /\ run'.batch = run.batch
      /\ run'.todo = IF run.lanes = << >> THEN {} ELSE Head(run.lanes).files
      /\ rows' = Touched(Removed(rows, run.removed), run.touch)
  BY ApplyDoes DEF env
<1>2. rows \in [Files -> Row] /\ run.touch \in Part(Nat) /\ run.lanes \in Seq(LaneRec)
  BY TypeFacts, RunFields
<1>3. PICK r \in [Files -> Row] : r = Removed(rows, run.removed)
  BY <1>2, RemovedRow
<1>4. \A f \in Files : OldRow(f, rows') => OldRow(f, rows)
  BY <1>1, <1>2, <1>3, TouchedOld, RemovedOld
<1>5. \A f \in Files : OldRow(f, rows) => f \in WholeFiles(run.lanes)
  BY <1>1 DEF OldKnown
<1>6. run'.pc = "parse" => \A f \in WholeFiles(run.lanes) : OldAhead(f, run')
  BY <1>1, <1>2, WholeAhead
<1>7. OldKnown(rows', ext', run')
  BY <1>1, <1>4, <1>5, <1>6 DEF OldKnown
<1> QED BY <1>1, <1>7, KnownStep

\* A stored lane of whole files leaves old rows only to later lanes.
LEMMA StoreBatchKnown ==
  ASSUME TInv, OldKnown(rows, ext, run), StoreBatch
  PROVE  OldKnown(rows, ext, run)'
<1>1. /\ UNCHANGED <<tree, version, ext>> /\ run.pc = "parse" /\ run.todo = {}
      /\ run'.lanes = Tail(run.lanes) /\ run.lanes # << >>
      /\ run'.pc = IF run'.lanes # << >> THEN "parse"
                   ELSE IF run.base = 0 THEN "build head" ELSE "extractors"
      /\ run'.cached = run.cached /\ run'.batch = Empty
      /\ run'.todo = IF run'.lanes = << >> THEN {} ELSE Head(run'.lanes).files
      /\ rows' = Stored(Touched(rows, run.touch), run.batch)
  BY StoreBatchDoes DEF env
<1>2. /\ rows \in [Files -> Row] /\ run.touch \in Part(Nat) /\ run.lanes \in Seq(LaneRec)
      /\ run.batch \in Part(Row)
  BY TypeFacts, RunFields
<1>3. PICK r \in [Files -> Row] : r = Touched(rows, run.touch)
  BY <1>2, TouchedRow
<1>4. run'.lanes \in Seq(LaneRec)
  BY <1>1, <1>2, FirstLane
<1>5. ASSUME NEW f \in Files, OldRow(f, rows') PROVE OldRow(f, rows) /\ f \in WholeFiles(run'.lanes)
  <2>1. rows'[f] = IF f \in DOMAIN run.batch THEN run.batch[f] ELSE r[f]
    <3>1. rows' = Stored(r, run.batch)
      BY <1>1, <1>3
    <3> QED BY <1>2, <3>1, StoredRow
  <2>2. f \notin DOMAIN run.batch
    BY <1>5, <2>1 DEF OldKnown, OldRow
  <2>3. OldRow(f, r)
    BY <1>5, <2>1, <2>2 DEF OldRow
  <2>4. OldRow(f, rows)
    BY <1>2, <1>3, <2>3, TouchedOld
  <2>5. OldAhead(f, run)
    BY <1>1, <2>4 DEF OldKnown
  <2> QED BY <1>1, <2>2, <2>4, <2>5 DEF OldAhead
<1>6. run'.pc = "parse" => \A f \in WholeFiles(run'.lanes) : OldAhead(f, run')
  BY <1>1, <1>4, WholeAhead
<1>7. run'.pc # "parse" => \A f \in Files : ~OldRow(f, rows')
  BY <1>1, <1>5, NoLanes
<1>8. \A f \in DOMAIN run'.batch : FALSE
  BY <1>1, EmptyPart
<1>9. OldKnown(rows', ext', run')
  BY <1>1, <1>5, <1>6, <1>7, <1>8 DEF OldKnown
<1> QED BY <1>1, <1>9, KnownStep

\* A build reads every file for the current extractor.
LEMMA StartBuildKnown ==
  ASSUME TInv, OldKnown(rows, ext, run), StartBuild
  PROVE  OldKnown(rows, ext, run)'
<1>1. /\ UNCHANGED <<tree, version, ext>> /\ run' \in RunState
      /\ run'.pc = IF run'.lanes = << >> THEN "build head" ELSE "parse"
      /\ Present \subseteq WholeFiles(run'.lanes)
      /\ run'.todo = IF run'.lanes = << >> THEN {} ELSE Head(run'.lanes).files
      /\ run'.cached = Empty /\ run'.batch = Empty
      /\ rows' = Removed(rows, Indexed \ Present)
  BY StartBuildDoes DEF env
<1>2. rows \in [Files -> Row] /\ run'.lanes \in Seq(LaneRec)
  BY <1>1, TypeFacts, RunFields
<1>3. \A f \in Files : OldRow(f, rows') => OldRow(f, rows)
  BY <1>1, <1>2, RemovedOld
<1>4. \A f \in Files : OldRow(f, rows) => f \in WholeFiles(run'.lanes)
  BY <1>1, OldPresent
<1>5. run'.pc = "parse" => \A f \in WholeFiles(run'.lanes) : OldAhead(f, run')
  BY <1>1, <1>2, WholeAhead
<1>6. run'.pc # "parse" => \A f \in Files : ~OldRow(f, rows')
  BY <1>1, <1>3, <1>4, NoLanes
<1>7. DOMAIN run'.cached = {} /\ DOMAIN run'.batch = {}
  BY <1>1, EmptyPart
<1>8. OldKnown(rows', ext', run')
  BY <1>1, <1>3, <1>4, <1>5, <1>6, <1>7 DEF OldKnown
<1> QED BY <1>1, <1>8, KnownStep

\* Beginning, ending and moving on a run keeps the rows as they are.
LEMMA StageKnown ==
  ASSUME TInv, OldKnown(rows, ext, run),
         \/ DiffBase \/ Status \/ StampExtractors \/ BuildStampHead
         \/ Crash \/ StampHead \/ BuildStampExtractors
         \/ \E p \in Updaters : PeekBase(p) \/ NameBase(p) \/ StartUpdate(p)
  PROVE  OldKnown(rows, ext, run)'
<1>1. CASE DiffBase \/ Status \/ StampExtractors \/ BuildStampHead
  <2>1. /\ UNCHANGED <<tree, version, rows>>
        /\ run'.cached = run.cached /\ run'.batch = run.batch
    BY <1>1, MovesDo DEF env, SameLook
  <2>2. \/ run'.pc \in {"status", "scope"} /\ ext' = ext
        \/ run.pc = "extractors" /\ run'.pc = "head"
        \/ run.pc = "build head" /\ run'.pc = "build extractors"
    BY <1>1, MovesDo
  <2>3. OldKnown(rows', ext', run')
    BY <2>1, <2>2 DEF OldKnown
  <2> QED BY <2>1, <2>3, KnownStep
<1>2. CASE Crash \/ StampHead \/ BuildStampExtractors
  <2>1. /\ UNCHANGED <<tree, version, rows>> /\ run' = Idle
        /\ ext' = ext \/ run.pc = "build extractors"
    BY <1>2 DEF Crash, StampHead, BuildStampExtractors, env, db, Step
  <2>2. run'.pc = "idle" /\ DOMAIN run'.cached = {} /\ DOMAIN run'.batch = {}
    BY <2>1, IdleIs, EmptyPart
  <2>3. OldKnown(rows', ext', run')
    BY <2>1, <2>2 DEF OldKnown
  <2> QED BY <2>1, <2>3, KnownStep
<1>3. ASSUME NEW p \in Updaters, PeekBase(p) \/ NameBase(p) PROVE OldKnown(rows, ext, run)'
  <2>1. UNCHANGED <<tree, version, rows, ext, run>>
    BY <1>3 DEF PeekBase, NameBase, env, db
  <2> QED BY <2>1, KnownStep
<1>4. ASSUME NEW p \in Updaters, StartUpdate(p) PROVE OldKnown(rows, ext, run)'
  <2>1. UNCHANGED <<tree, version, rows, ext>> /\ SameLook(Idle, run') /\ run'.pc = "diff"
    BY <1>4, StartUpdateDoes DEF env, db
  <2>2. DOMAIN run'.cached = {} /\ DOMAIN run'.batch = {}
    BY <2>1, IdleIs, EmptyPart DEF SameLook
  <2>3. OldKnown(rows', ext', run')
    BY <2>1, <2>2 DEF OldKnown
  <2> QED BY <2>1, <2>3, KnownStep
<1> QED BY <1>1, <1>2, <1>3, <1>4

\* Every step but a discard and an unreadable file keeps the old rows known.
LEMMA StepKnown == TInv /\ DInv /\ EInv /\ [Next]_vars => EInv'
<1> SUFFICES ASSUME TInv, DInv, EInv, [Next]_vars, Without({"unreadable", "discard"})'
             PROVE  OldKnown(rows, ext, run)'
  BY DEF EInv
<1>0. /\ OldKnown(rows, ext, run) /\ "unreadable" \notin happened' /\ "discard" \notin happened'
  BY HappenedGrows DEF EInv, Without
<1>1. CASE UNCHANGED vars
  BY <1>0, <1>1, KnownStep DEF vars, env, db
<1>2. CASE \/ DiffBase \/ Status \/ StampExtractors \/ BuildStampHead
           \/ Crash \/ StampHead \/ BuildStampExtractors
           \/ \E p \in Updaters : PeekBase(p) \/ NameBase(p) \/ StartUpdate(p)
  BY <1>0, <1>2, StageKnown
<1>3. CASE StartBuild
  BY <1>0, <1>3, StartBuildKnown
<1>4. CASE Scope
  BY <1>0, <1>4, ScopeKnown
<1>5. CASE Filter
  BY <1>0, <1>5, FilterKnown
<1>6. CASE Plan
  BY <1>0, <1>6, PlanKnown
<1>7. CASE Apply
  BY <1>0, <1>7, ApplyKnown
<1>8. CASE StoreBatch
  BY <1>0, <1>8, StoreBatchKnown
<1>9. ASSUME NEW f \in Files, Look(f) \/ ReadFails(f) PROVE OldKnown(rows, ext, run)'
  BY <1>0, <1>9, LookKnown
<1>10. ASSUME NEW f \in Files, Write(f) \/ Touch(f) \/ Delete(f) \/ Discard(f) \/ Preserve(f)
       PROVE  OldKnown(rows, ext, run)'
  <2>1. PICK c \in Nat : \E m \in Nat :
           /\ Edited(f, c, m)
           /\ \/ c = clock + 1 \/ c = 0 \/ (f \in Present /\ c = tree[f].content)
              \/ "discard" \in happened'
    BY <1>10, EditorDoes
  <2>2. c = clock + 1 \/ c = 0 \/ c = tree[f].content
    BY <1>0, <2>1
  <2> QED BY <1>0, <2>1, <2>2, EditKnown
<1>11. CASE Commit
  <2>1. UNCHANGED <<tree, version, rows, ext, run>>
    BY <1>11 DEF Commit, db
  <2> QED BY <1>0, <2>1, KnownStep
<1>12. CASE Upgrade
  <2>1. run' = Idle /\ UNCHANGED <<rows, ext>> /\ version' = version + 1
    BY <1>12, TypeFacts DEF Upgrade, db, Step, CourseOf
  <2>2. ext' # version' /\ run'.pc = "idle" /\ DOMAIN run'.cached = {} /\ DOMAIN run'.batch = {}
    <3>1. ext <= version /\ ext \in Nat /\ version \in Nat
      BY DEF TInv, TypeOK
    <3> QED BY <2>1, <3>1, IdleIs, EmptyPart
  <2> QED BY <2>1, <2>2 DEF OldKnown
<1> QED
  BY <1>1, <1>2, <1>3, <1>4, <1>5, <1>6, <1>7, <1>8, <1>9, <1>10, <1>11, <1>12
     DEF Next, Running, Editor

\* Old rows are always known, without a discard or an unreadable file.
LEMMA KnownInvariant == Spec => []EInv
<1>1. Init => EInv
  <2> SUFFICES ASSUME Init PROVE OldKnown(rows, ext, run)
    BY DEF EInv
  <2>1. /\ run = Idle /\ version = 1
        /\ rows = [f \in Files |-> [hash |-> 1, mtime |-> 1, ver |-> 1]]
    BY DEF Init
  <2>2. run.pc = "idle" /\ DOMAIN run.cached = {} /\ DOMAIN run.batch = {}
    BY <2>1, IdleIs, EmptyPart
  <2>3. \A f \in Files : ~OldRow(f, rows)
    BY <2>1 DEF OldRow
  <2> QED BY <2>2, <2>3 DEF OldKnown
<1> QED BY <1>1, StepKnown, TypeInvariant, EarlyInvariant, PTL DEF Spec

\* Under a current extractor stamp every row that describes a file as it is was made
\* by the current extractor, however often re-parsing was interrupted: an update
\* stamps the extractors after the last lane is stored.
THEOREM ExtractorsStampedLast == Spec => []ExtractorStampHonest
<1>1. TInv /\ EInv => ExtractorStampHonest
  <2> SUFFICES ASSUME TInv, OldKnown(rows, ext, run), ext = version,
                      NEW f \in Indexed, Fresh(f)
               PROVE  rows[f].ver = version
    BY DEF ExtractorStampHonest, EInv
  <2>1. f \in Files /\ rows[f] # NoRow
    BY DEF Indexed
  <2> QED BY <2>1 DEF OldKnown, OldRow, Fresh
<1> QED BY <1>1, TypeInvariant, KnownInvariant, PTL

-----------------------------------------------------------------------------
(* What the HEAD stamp means *)

\* Git's answers and what they excuse depend on the tree and git alone.
LEMMA SameTree ==
  ASSUME UNCHANGED <<tree, commits, head>>
  PROVE  Present' = Present /\ Dirty' = Dirty /\ Loose' = Loose
BY DEF Present, Dirty, Loose

\* A step that leaves the tree and git alone has to keep the run honest.
LEMMA HonestStep ==
  ASSUME UNCHANGED <<tree, commits, head>>, Unseen, Quiet',
         Honest(rows', stamp', run', Excused')
  PROVE  (Unseen /\ Quiet /\ Honest(rows, stamp, run, Excused))'
<1>1. Dirty' = Dirty /\ Present' = Present /\ Loose' = Loose
  BY SameTree
<1>2. Unseen'
  BY <1>1 DEF Unseen
<1>3. AllShown(rows, stamp)'
  BY <1>1 DEF Honest, AllShown, Good, BaseDiff
<1>4. DiffRead(run, Excused)'
  BY <1>1 DEF Honest, DiffRead, BaseDiff
<1>5. ScopeGood(run, Excused)' /\ CarriedGood(run, Excused)'
  BY DEF Honest, ScopeGood, CarriedGood, Good
<1>6. RowsGood(rows, run, Excused)'
  BY DEF Honest, RowsGood, Good, Ahead
<1> QED BY <1>2, <1>3, <1>4, <1>5, <1>6 DEF Honest

\* What is excused is loose.
LEMMA ExcusedIs ==
  /\ Excused \subseteq Loose /\ Loose \subseteq Files
  /\ settled /\ run.clean => Excused = {}
  /\ ~settled \/ ~run.clean => Excused = Loose
BY DEF Excused, Loose

\* What is excused stays excused while the run goes on.
LEMMA ExcusedGrows ==
  ASSUME UNCHANGED <<tree, commits, head>>, settled' => settled, run'.clean => run.clean
  PROVE  Excused \subseteq Excused'
<1>1. Loose' = Loose
  BY SameTree
<1> QED BY <1>1 DEF Excused

\* Nothing new is excused by a step that sees no change and no error.
LEMMA SameExcuse ==
  ASSUME UNCHANGED <<tree, commits, head, settled>>, run'.clean = run.clean
  PROVE  Excused' = Excused
<1>1. Loose' = Loose
  BY SameTree
<1> QED BY <1>1 DEF Excused

\* A file that is not there is described by no row.
LEMMA AbsentGood ==
  ASSUME TInv, NEW f \in Files, f \notin Present, NEW X
  PROVE  tree[f].content = 0 /\ Good(f, 0, X) /\ f \in Loose
BY AbsentIs DEF Good, Loose

\* Good rows are shown under any stamp.
LEMMA GoodShown ==
  ASSUME NEW r, NEW s, \A f \in Files : Good(f, r[f].hash, Excused)
  PROVE  AllShown(r, s)
BY ExcusedIs DEF AllShown, Good

\* What is carried is good when nothing is.
LEMMA NothingCarried ==
  ASSUME NEW k, NEW X, k.cached = Empty, k.batch = Empty, k.probe = Empty
  PROVE  CarriedGood(k, X)
BY EmptyPart DEF CarriedGood

\* Stages at which only the rows and the stamp matter.
LEMMA Between ==
  ASSUME NEW k, NEW r, NEW X, k.pc \in {"idle", "diff"}
  PROVE  DiffRead(k, X) /\ ScopeGood(k, X) /\ RowsGood(r, k, X)
BY DEF DiffRead, ScopeGood, RowsGood, Late

\* An edited file is seen by the next update: its bytes are new, as they were, or gone.
LEMMA EditGood ==
  ASSUME TInv, Unseen, NEW f \in Files, NEW c \in Nat, NEW m, Edited(f, c, m),
         c = clock + 1 \/ c = 0 \/ (f \in Present /\ c = tree[f].content)
  PROVE  /\ Unseen' /\ Loose \subseteq Loose' /\ Excused' = Loose'
         /\ \A h \in Files : tree'[h].content = tree[h].content \/ h \in Loose'
         /\ \A h \in Dirty : h \in Dirty' \/ h \in Loose'
<1> DEFINE v == IF c = 0 THEN Absent ELSE [content |-> c, mtime |-> m]
<1>1. /\ tree' = [tree EXCEPT ![f] = v] /\ settled' = FALSE
      /\ UNCHANGED <<commits, head, version, db, base, run>>
  BY DEF Edited
<1>2. tree \in [Files -> [content : Nat, mtime : Nat]] /\ clock \in Nat /\ head \in 1..Len(commits)
  BY DEF TInv, TypeOK
<1>3. v.content = c /\ (v = Absent <=> c = 0)
  BY DEF Absent
<1> HIDE DEF v
<1>4. \A h \in Files : tree'[h] = IF h = f THEN v ELSE tree[h]
  BY <1>1, <1>2
<1>5. commits' = commits /\ head' = head /\ \A i \in 1..Len(commits) : \A h \in Files : commits[i][h] <= clock
  BY <1>1 DEF TInv, Bounds
<1>6. \A i \in 1..Len(commits) : commits[i][f] \in Nat
  BY DEF TInv, TypeOK
<1>7. CASE c = clock + 1
  <2>1. f \in Dirty' /\ f \in Present'
    BY <1>2, <1>3, <1>4, <1>5, <1>6, <1>7 DEF Dirty, Present
  <2>2. \A i \in 1..Len(commits) : commits[i][f] # tree'[f].content
    BY <1>2, <1>3, <1>4, <1>5, <1>6, <1>7
  <2>3. \A h \in Files \ {f} : (h \in Dirty' <=> h \in Dirty) /\ (h \in Present' <=> h \in Present)
                               /\ tree'[h] = tree[h]
    BY <1>4, <1>5 DEF Dirty, Present
  <2>4. Unseen'
    <3> SUFFICES ASSUME NEW h \in Dirty', h \in Present', NEW i \in 1..Len(commits)
                 PROVE  commits[i][h] # tree'[h].content
      BY <1>5 DEF Unseen
    <3>1. h \in Files
      BY DEF Dirty
    <3> QED BY <2>2, <2>3, <3>1 DEF Unseen
  <2>5. Dirty \subseteq Files
    BY DEF Dirty
  <2> QED BY <1>1, <2>1, <2>3, <2>4, <2>5 DEF Loose, Excused
<1>8. CASE c = 0
  <2>1. f \notin Present'
    BY <1>3, <1>4, <1>8 DEF Present
  <2>3. \A h \in Files \ {f} : (h \in Dirty' <=> h \in Dirty) /\ (h \in Present' <=> h \in Present)
                               /\ tree'[h] = tree[h]
    BY <1>4, <1>5 DEF Dirty, Present
  <2>4. Unseen'
    <3> SUFFICES ASSUME NEW h \in Dirty', h \in Present', NEW i \in 1..Len(commits)
                 PROVE  commits[i][h] # tree'[h].content
      BY <1>5 DEF Unseen
    <3>1. h \in Files
      BY DEF Dirty
    <3> QED BY <2>1, <2>3, <3>1 DEF Unseen
  <2>5. Dirty \subseteq Files
    BY DEF Dirty
  <2> QED BY <1>1, <2>1, <2>3, <2>4, <2>5 DEF Loose, Excused
<1>9. CASE f \in Present /\ c = tree[f].content
  <2>1. tree[f].content # 0
    BY <1>9, AbsentIs
  <2>2. \A h \in Files : tree'[h].content = tree[h].content /\ (h \in Present' <=> h \in Present)
    BY <1>3, <1>4, <1>9, <2>1 DEF Present
  <2>3. Dirty' = Dirty /\ Present' = Present
    BY <1>5, <2>2 DEF Dirty, Present
  <2>4. Unseen'
    BY <1>5, <2>2, <2>3 DEF Unseen, Dirty
  <2> QED BY <1>1, <2>2, <2>3, <2>4 DEF Loose, Excused
<1> QED BY <1>7, <1>8, <1>9

\* An edit keeps the run honest: what it may have wrong is seen by the next update.
LEMMA EditHonest ==
  ASSUME TInv, Unseen, Honest(rows, stamp, run, Excused), NEW f \in Files, NEW c \in Nat,
         NEW m, Edited(f, c, m), c = clock + 1 \/ c = 0 \/ (f \in Present /\ c = tree[f].content)
  PROVE  (Unseen /\ Quiet /\ Honest(rows, stamp, run, Excused))'
<1>1. /\ Unseen' /\ Loose \subseteq Loose' /\ Excused' = Loose'
      /\ \A h \in Files : tree'[h].content = tree[h].content \/ h \in Loose'
      /\ \A h \in Dirty : h \in Dirty' \/ h \in Loose'
  BY EditGood
<1>2. UNCHANGED <<rows, stamp, run, commits, head>> /\ settled' = FALSE
  BY DEF Edited, db
<1>3. \A h \in Files : \A x : Good(h, x, Excused) => (x = tree'[h].content \/ h \in Loose')
  BY <1>1, ExcusedIs DEF Good
<1>4. /\ run.removed \subseteq Files /\ DOMAIN run.cached \subseteq Files
      /\ DOMAIN run.batch \subseteq Files /\ DOMAIN run.probe \subseteq Files
  BY TypeFacts, RunFields, PartIs
<1>5. AllShown(rows, stamp)'
  BY <1>1, <1>2 DEF Honest, AllShown, Good, BaseDiff
<1>6. DiffRead(run, Excused)'
  <2>1. Dirty' \subseteq Loose'
    BY DEF Dirty, Loose
  <2> QED BY <1>1, <1>2, <2>1 DEF Honest, DiffRead, BaseDiff
<1>7. ScopeGood(run, Excused)'
  BY <1>1, <1>2, <1>3, <1>4 DEF Honest, ScopeGood, Good
<1>8. CarriedGood(run, Excused)'
  BY <1>1, <1>2, <1>3, <1>4 DEF Honest, CarriedGood, Good
<1>9. RowsGood(rows, run, Excused)'
  BY <1>1, <1>2, <1>3 DEF Honest, RowsGood, Good, Ahead
<1>10. Quiet'
  BY <1>2 DEF Quiet
<1> QED BY <1>1, <1>5, <1>6, <1>7, <1>8, <1>9, <1>10 DEF Honest

\* A commit between runs turns dirty files into files that differ from the stamp.
LEMMA CommitHonest ==
  ASSUME TInv, Unseen, Honest(rows, stamp, run, Excused), Commit, run.pc = "idle"
  PROVE  (Unseen /\ Quiet /\ Honest(rows, stamp, run, Excused))'
<1>1. /\ Len(commits) \in Nat /\ Len(commits') = Len(commits) + 1 /\ head' = Len(commits')
      /\ \A i \in 1..Len(commits) : commits'[i] = commits[i]
      /\ \A f \in Files : commits'[head'][f] = tree[f].content
      /\ settled' = FALSE /\ UNCHANGED <<tree, rows, stamp, run>>
  BY CommitDoes DEF db
<1>2. Dirty' = {}
  BY <1>1 DEF Dirty
<1>3. stamp \in 1..Len(commits) /\ commits'[stamp] = commits[stamp] /\ head \in 1..Len(commits)
  BY <1>1, TypeFacts
<1>4. ASSUME NEW f \in Files, rows[f].hash # tree[f].content
      PROVE  commits[stamp][f] # tree[f].content \/ f \notin Present
  <2>1. f \in BaseDiff(stamp) \cup Loose
    BY <1>4 DEF Honest, AllShown, Good
  <2>2. CASE f \in Dirty
    BY <1>3, <2>2 DEF Unseen
  <2>3. CASE f \in BaseDiff(stamp) /\ f \notin Dirty
    BY <2>3 DEF BaseDiff, Dirty
  <2> QED BY <2>1, <2>2, <2>3 DEF Loose
<1>5. AllShown(rows, stamp)'
  BY <1>1, <1>3, <1>4 DEF AllShown, Good, BaseDiff, Loose, Present
<1>6. run' = Idle
  BY <1>1, TypeFacts DEF CourseOf
<1>7. (CarriedGood(run, Excused) /\ DiffRead(run, Excused) /\ ScopeGood(run, Excused)
       /\ RowsGood(rows, run, Excused))'
  <2>1. run'.pc = "idle" /\ DOMAIN run'.cached = {} /\ DOMAIN run'.batch = {}
    BY <1>6, IdleIs, EmptyPart
  <2> QED BY <2>1 DEF CarriedGood, DiffRead, ScopeGood, RowsGood, Late
<1>8. Unseen' /\ Quiet'
  BY <1>1, <1>2 DEF Unseen, Quiet
<1> QED BY <1>5, <1>7, <1>8 DEF Honest

\* A run that moves on has read the base diff, then the status.
LEMMA MovesHonest ==
  ASSUME TInv, DInv, Unseen, Honest(rows, stamp, run, Excused),
         DiffBase \/ Status \/ StampExtractors \/ BuildStampHead
  PROVE  (Unseen /\ Quiet /\ Honest(rows, stamp, run, Excused))'
<1>1. /\ UNCHANGED <<tree, commits, head, rows, settled>>
      /\ run'.clean = run.clean /\ run'.cached = run.cached /\ run'.batch = run.batch
      /\ run'.covers = run.covers /\ run'.base = run.base
  BY MovesDo DEF env, SameLook
<1>2. \/ run.pc = "diff" /\ run'.pc = "status" /\ stamp' = stamp /\ run'.changed = BaseDiff(run.base)
      \/ run.pc = "status" /\ run'.pc = "scope" /\ stamp' = stamp /\ run'.changed = run.changed \cup Dirty
      \/ run.pc = "extractors" /\ run'.pc = "head" /\ stamp' = stamp
      \/ run.pc = "build head" /\ run'.pc = "build extractors" /\ stamp' = head
  BY MovesDo
<1>3. Excused' = Excused
  BY <1>1, SameExcuse
<1>4. DiffRead(run', Excused)
  BY <1>1, <1>2 DEF Honest, DiffRead
<1>5. ScopeGood(run', Excused) /\ CarriedGood(run', Excused)
  BY <1>1, <1>2 DEF Honest, ScopeGood, CarriedGood
<1>6. RowsGood(rows, run', Excused)
  BY <1>1, <1>2 DEF Honest, RowsGood, Ahead, Late
<1>7. AllShown(rows, stamp')
  <2>1. CASE stamp' = stamp
    BY <2>1 DEF Honest
  <2>2. CASE run.pc = "build head"
    <3>1. \A f \in Files : Good(f, rows[f].hash, Excused)
      BY <2>2 DEF DInv, Honest, RowsGood, Ahead, Late
    <3> QED BY <3>1, GoodShown
  <2> QED BY <1>2, <2>1, <2>2
<1>8. Honest(rows', stamp', run', Excused')
  BY <1>1, <1>3, <1>4, <1>5, <1>6, <1>7 DEF Honest
<1>9. Quiet'
  BY <1>2 DEF Quiet, Step
<1> QED BY <1>1, <1>8, <1>9, HonestStep

\* A run that ends quietly has left no row wrong, and HEAD is stamped only then.
LEMMA EndHonest ==
  ASSUME TInv, DInv, Unseen, Honest(rows, stamp, run, Excused),
         Crash \/ StampHead \/ BuildStampExtractors
  PROVE  (Unseen /\ Quiet /\ Honest(rows, stamp, run, Excused))'
<1>1. UNCHANGED <<tree, commits, head, rows>> /\ run' = Idle
  BY DEF Crash, StampHead, BuildStampExtractors, env, db
<1>2. \/ stamp' = stamp
      \/ run.pc = "head" /\ run.covers /\ stamp' = head
  BY DEF Crash, StampHead, BuildStampExtractors, env, db, Step
<1>3. \/ ~settled'
      \/ settled /\ run.clean /\ run.covers /\ run.pc \in {"head", "build extractors"}
  BY DEF Crash, StampHead, BuildStampExtractors, Step, DInv
<1>4. ASSUME run.covers, run.pc \in {"head", "build extractors"}
      PROVE  \A f \in Files : Good(f, rows[f].hash, Excused)
  BY <1>4 DEF Honest, RowsGood, Ahead, Late
<1>5. AllShown(rows, stamp')
  BY <1>2, <1>4, GoodShown DEF Honest
<1>6. Quiet'
  <2>1. CASE ~settled'
    BY <2>1 DEF Quiet
  <2>2. CASE settled /\ run.clean /\ run.covers /\ run.pc \in {"head", "build extractors"}
    BY <1>1, <1>4, <2>2, ExcusedIs DEF Good, Quiet, InSync, Fresh
  <2> QED BY <1>3, <2>1, <2>2
<1>7. run'.pc = "idle" /\ CarriedGood(run', Excused')
  BY <1>1, IdleIs, NothingCarried
<1>8. Honest(rows', stamp', run', Excused')
  BY <1>1, <1>5, <1>7, Between DEF Honest
<1> QED BY <1>1, <1>6, <1>8, HonestStep

\* A run that begins has read nothing.
LEMMA BeginHonest ==
  ASSUME TInv, Unseen, Quiet, Honest(rows, stamp, run, Excused), NEW p \in Updaters,
         PeekBase(p) \/ NameBase(p) \/ StartUpdate(p)
  PROVE  (Unseen /\ Quiet /\ Honest(rows, stamp, run, Excused))'
<1>1. CASE PeekBase(p) \/ NameBase(p)
  <2>1. UNCHANGED <<tree, commits, head, rows, stamp, run, settled>>
    BY <1>1 DEF PeekBase, NameBase, env, db
  <2>2. Excused' = Excused
    BY <2>1, SameExcuse
  <2>3. Quiet'
    BY <2>1 DEF Quiet, Step, InSync, Fresh
  <2> QED BY <2>1, <2>2, <2>3, HonestStep
<1>2. CASE StartUpdate(p)
  <2>1. UNCHANGED <<tree, commits, head, rows, stamp>> /\ SameLook(Idle, run') /\ run'.pc = "diff"
    BY <1>2, StartUpdateDoes DEF env, db
  <2>2. CarriedGood(run', Excused')
    BY <2>1, IdleIs, NothingCarried DEF SameLook
  <2>3. Honest(rows', stamp', run', Excused')
    BY <2>1, <2>2, Between DEF Honest
  <2>4. Quiet'
    BY <2>1 DEF Quiet, Step
  <2> QED BY <2>1, <2>3, <2>4, HonestStep
<1> QED BY <1>1, <1>2

\* A build removes what is not there and has everything else ahead.
LEMMA StartBuildHonest ==
  ASSUME TInv, Unseen, Honest(rows, stamp, run, Excused), StartBuild
  PROVE  (Unseen /\ Quiet /\ Honest(rows, stamp, run, Excused))'
<1>1. /\ UNCHANGED <<tree, commits, head, stamp>> /\ run' \in RunState
      /\ run'.pc = IF run'.lanes = << >> THEN "build head" ELSE "parse"
      /\ Present \subseteq LaneFiles(run'.lanes)
      /\ run'.todo = IF run'.lanes = << >> THEN {} ELSE Head(run'.lanes).files
      /\ run'.cached = Empty /\ run'.batch = Empty /\ run'.probe = Empty
      /\ rows' = Removed(rows, Indexed \ Present)
  BY StartBuildDoes DEF env
<1>2. rows \in [Files -> Row] /\ run'.lanes \in Seq(LaneRec)
  BY <1>1, TypeFacts, RunFields
<1>3. \A f \in Files : rows'[f] = IF f \in Indexed \ Present THEN NoRow ELSE rows[f]
  <2>1. PICK D : D = Indexed \ Present
    OBVIOUS
  <2>2. rows' = Removed(rows, D)
    BY <1>1, <2>1
  <2> QED BY <1>2, <2>1, <2>2, RemovedRow
<1>4. ASSUME NEW f \in Files, f \notin Present PROVE rows'[f].hash = 0 /\ tree[f].content = 0
  BY <1>3, <1>4, AbsentIs DEF NoRow
<1>5. ASSUME NEW f \in Files, f \in Present PROVE rows'[f] = rows[f] /\ Ahead(f, run')
  <2>1. f \in LaneFiles(run'.lanes) /\ run'.lanes # << >>
    BY <1>1, <1>5, NoLanes
  <2>2. f \in Head(run'.lanes).files \cup LaneFiles(Tail(run'.lanes))
    BY <1>2, <2>1, FirstLane
  <2> QED BY <1>1, <1>3, <1>5, <2>1, <2>2 DEF Ahead
<1>6. AllShown(rows', stamp)
  BY <1>4, <1>5 DEF Honest, AllShown, Good
<1>7. RowsGood(rows', run', Excused')
  BY <1>4, <1>5 DEF RowsGood, Good
<1>8. CarriedGood(run', Excused')
  BY <1>1, NothingCarried
<1>9. DiffRead(run', Excused') /\ ScopeGood(run', Excused')
  BY <1>1 DEF DiffRead, ScopeGood
<1>10. Quiet'
  BY <1>1 DEF Quiet, Step
<1> QED BY <1>1, <1>6, <1>7, <1>8, <1>9, <1>10, HonestStep DEF Honest

\* The base diff, the status and the scope name every wrong row the stamp shows.
LEMMA ScopeHonest ==
  ASSUME TInv, Unseen, Honest(rows, stamp, run, Excused), Scope
  PROVE  (Unseen /\ Quiet /\ Honest(rows, stamp, run, Excused))'
<1>1. /\ UNCHANGED <<tree, commits, head, rows, stamp, settled>> /\ run.pc = "scope"
      /\ run'.clean = run.clean /\ run'.cached = run.cached /\ run'.batch = run.batch
      /\ run'.changed = run.changed /\ run'.covers = (stamp = run.base)
      /\ run'.scope = Present /\ run'.removed = Indexed \ Present
      /\ \/ run'.pc = "filter"
         \/ run'.pc = "head" /\ run.changed = {} /\ run'.removed = {}
  BY ScopeDoes DEF env, SameLook
<1>2. Excused' = Excused
  BY <1>1, SameExcuse
<1>3. \A f \in Files \ Present : Good(f, 0, Excused)
  BY AbsentGood
<1>4. ScopeGood(run', Excused)
  BY <1>1, <1>3, ReadSets DEF ScopeGood
<1>5. ASSUME run'.covers, NEW f \in Files
      PROVE  Good(f, rows[f].hash, Excused) \/ f \in run.changed \cup run'.removed
  <2>1. CASE f \in BaseDiff(stamp)
    BY <1>1, <1>5, <2>1 DEF Honest, DiffRead
  <2>2. CASE f \in Dirty
    BY <1>1, <2>2 DEF Honest, DiffRead, Good
  <2>3. CASE f \notin Present
    <3>1. f \in Indexed \/ rows[f].hash = 0
      BY AbsentIs DEF NoRow
    <3> QED BY <1>1, <1>3, <2>3, <3>1
  <2>4. CASE rows[f].hash = tree[f].content
    BY <2>4 DEF Good
  <2> QED BY <2>1, <2>2, <2>3, <2>4 DEF Honest, AllShown, Good, Loose
<1>6. RowsGood(rows, run', Excused)
  BY <1>1, <1>5 DEF RowsGood, Ahead
<1>7. CarriedGood(run', Excused) /\ DiffRead(run', Excused)
  BY <1>1 DEF Honest, CarriedGood, DiffRead
<1>8. Honest(rows', stamp', run', Excused')
  BY <1>1, <1>2, <1>4, <1>6, <1>7 DEF Honest
<1>9. Quiet'
  BY <1>1 DEF Quiet, Step
<1> QED BY <1>1, <1>8, <1>9, HonestStep

\* What is changed is looked at, removed, or absent from the graph too.
LEMMA FilterHonest ==
  ASSUME TInv, DInv, Unseen, Honest(rows, stamp, run, Excused), Filter
  PROVE  (Unseen /\ Quiet /\ Honest(rows, stamp, run, Excused))'
<1>1. /\ UNCHANGED <<tree, commits, head, rows, stamp, settled>> /\ run.pc = "filter"
      /\ run'.clean = run.clean /\ run'.cached = run.cached /\ run'.batch = run.batch
      /\ run'.covers = run.covers /\ run'.scope = run.scope /\ run'.pc = "classify"
      /\ run'.removed = run.removed \cup ((run.changed \ (Present \cap run.scope)) \cap Indexed)
      /\ run'.todo = run.changed \cap Present \cap run.scope /\ run'.differs = run.differs
  BY FilterDoes DEF env, db
<1>2. Excused' = Excused
  BY <1>1, SameExcuse
<1>3. \A f \in Files \ (Present \cap run.scope) : Good(f, 0, Excused)
  BY <1>1, AbsentGood DEF Honest, ScopeGood
<1>4. run.changed \subseteq Files /\ run'.differs = {}
  BY <1>1, TypeFacts, RunFields DEF DInv
<1>5. ScopeGood(run', Excused)
  BY <1>1, <1>3, <1>4 DEF Honest, ScopeGood
<1>6. ASSUME run.covers, NEW f \in Files
      PROVE  Good(f, rows[f].hash, Excused) \/ f \in run'.removed \cup run'.todo
  <2>1. CASE f \in run.removed
    BY <1>1, <2>1
  <2>2. CASE f \in run.changed
    <3>1. CASE f \in Present \cap run.scope
      BY <1>1, <2>2, <3>1
    <3>2. CASE f \notin Present \cap run.scope
      <4>1. f \in Indexed \/ rows[f].hash = 0
        BY AbsentIs DEF NoRow
      <4> QED BY <1>1, <1>3, <2>2, <3>2, <4>1
    <3> QED BY <3>1, <3>2
  <2> QED BY <1>1, <1>6, <2>1, <2>2 DEF Honest, RowsGood, Ahead, Late
<1>7. RowsGood(rows, run', Excused)
  BY <1>1, <1>6 DEF RowsGood, Ahead
<1>8. CarriedGood(run', Excused) /\ DiffRead(run', Excused)
  BY <1>1 DEF Honest, CarriedGood, DiffRead
<1>9. Honest(rows', stamp', run', Excused')
  BY <1>1, <1>2, <1>5, <1>7, <1>8 DEF Honest
<1>10. Quiet'
  BY <1>1 DEF Quiet, Step
<1> QED BY <1>1, <1>9, <1>10, HonestStep

\* A look confirms the row, reads the bytes, or finds the file gone.
LEMMA LookHonest ==
  ASSUME TInv, Unseen, Honest(rows, stamp, run, Excused), NEW f \in Files,
         Look(f) \/ ReadFails(f), "unreadable" \notin happened'
  PROVE  (Unseen /\ Quiet /\ Honest(rows, stamp, run, Excused))'
<1>1. /\ run.pc \in {"classify", "parse"} /\ f \in run.todo /\ run' \in RunState
      /\ SamePlan(run, run') /\ UNCHANGED <<env, db, base, settled>>
      /\ Probes(f) \/ GivesUp(f) \/ Confirms(f) \/ \E row : Finds(f, row)
  BY LookDoes
<1>2. UNCHANGED <<tree, commits, head, rows, stamp, settled>>
  BY <1>1 DEF env, db
<1>3. /\ run'.pc = run.pc /\ run'.covers = run.covers /\ run'.changed = run.changed
      /\ run'.scope = run.scope /\ run'.removed = run.removed /\ run'.lanes = run.lanes
  BY <1>1 DEF SamePlan
<1>4. run.pc = "parse" => (Whole <=> Head(run.lanes).kind = "whole")
  BY TypeFacts DEF Whole, Kind, Step, CourseOf
<1>5. Excused \subseteq Excused'
  <2>1. run'.clean => run.clean
    BY <1>1 DEF Probes, GivesUp, Confirms, Finds
  <2> QED BY <1>2, <2>1, ExcusedGrows
<1>6. \A h, x : Good(h, x, Excused) => Good(h, x, Excused')
  BY <1>5 DEF Good
<1>7. /\ DOMAIN run'.probe \subseteq DOMAIN run.probe \cup {f}
      /\ \A h \in DOMAIN run'.probe : h # f => run'.probe[h] = run.probe[h]
      /\ f \in DOMAIN run'.probe => (Whole => run'.probe[f] = tree[f].content)
  <2>1. CASE Probes(f)
    BY <2>1 DEF Probes, With
  <2>2. CASE GivesUp(f) \/ Confirms(f) \/ \E row : Finds(f, row)
    <3>1. run'.probe = Drop(run.probe, f)
      BY <2>2 DEF GivesUp, Confirms, Finds
    <3> QED BY <3>1 DEF Drop
  <2> QED BY <1>1, <2>1, <2>2
<1>8. ASSUME run.pc = "parse", Head(run.lanes).kind = "whole", NEW h \in DOMAIN run'.probe
      PROVE  Good(h, run'.probe[h], Excused')
  <2>1. CASE h = f
    BY <1>4, <1>7, <1>8, <2>1 DEF Good
  <2>2. CASE h # f
    BY <1>6, <1>7, <1>8, <2>2 DEF Honest, CarriedGood
  <2> QED BY <2>1, <2>2
<1>9. ASSUME NEW row, Finds(f, row) PROVE Good(f, row.hash, Excused)
  <2>1. CASE row.hash = tree[f].content
    BY <2>1 DEF Good
  <2>2. CASE f \in DOMAIN run.cached /\ row = run.cached[f]
    BY <2>2 DEF Honest, CarriedGood
  <2>3. CASE Whole /\ f \in DOMAIN run.probe /\ row.hash = run.probe[f]
    BY <1>4, <2>3 DEF Honest, CarriedGood, Whole, Step
  <2> QED BY <1>9, <2>1, <2>2, <2>3 DEF Finds
<1>10. /\ \A h \in DOMAIN run'.cached : Good(h, run'.cached[h].hash, Excused')
       /\ \A h \in DOMAIN run'.batch : Good(h, run'.batch[h].hash, Excused')
  <2>1. CASE Probes(f) \/ GivesUp(f) \/ Confirms(f)
    <3>1. run'.cached = run.cached /\ run'.batch = run.batch
      BY <2>1 DEF Probes, GivesUp, Confirms
    <3> QED BY <1>6, <3>1 DEF Honest, CarriedGood
  <2>2. ASSUME NEW row, Finds(f, row)
        PROVE  /\ \A h \in DOMAIN run'.cached : Good(h, run'.cached[h].hash, Excused')
               /\ \A h \in DOMAIN run'.batch : Good(h, run'.batch[h].hash, Excused')
    <3>1. \A h \in DOMAIN run'.cached :
            (h \in DOMAIN run.cached /\ run'.cached[h] = run.cached[h]) \/ (h = f /\ run'.cached[h] = row)
      BY <2>2 DEF Finds, With
    <3>2. \A h \in DOMAIN run'.batch :
            (h \in DOMAIN run.batch /\ run'.batch[h] = run.batch[h]) \/ (h = f /\ run'.batch[h] = row)
      BY <2>2 DEF Finds, With
    <3>3. Good(f, row.hash, Excused')
      BY <1>6, <1>9, <2>2
    <3> QED BY <1>6, <3>1, <3>2, <3>3 DEF Honest, CarriedGood
  <2> QED BY <1>1, <2>1, <2>2
<1>11. CarriedGood(run', Excused')
  BY <1>3, <1>8, <1>10 DEF CarriedGood
<1>12. ASSUME run.pc = "classify"
       PROVE  /\ run'.todo \cup run'.differs \subseteq run.scope
              /\ run'.differs \cap Owned \subseteq DOMAIN run'.cached
  <2>1. run.todo \cup run.differs \subseteq run.scope /\ run.differs \cap Owned \subseteq DOMAIN run.cached
    BY <1>12 DEF Honest, ScopeGood
  <2>2. CASE Probes(f) \/ GivesUp(f) \/ Confirms(f)
    BY <1>1, <1>12, <2>1, <2>2 DEF Probes, GivesUp, Confirms
  <2>3. ASSUME NEW row, Finds(f, row)
        PROVE  /\ run'.todo \cup run'.differs \subseteq run.scope
               /\ run'.differs \cap Owned \subseteq DOMAIN run'.cached
    <3>1. /\ run'.todo = run.todo \ {f} /\ run'.differs = run.differs \cup {f}
          /\ run'.cached = IF f \in Owned THEN With(run.cached, f, row) ELSE run.cached
      BY <1>12, <2>3 DEF Finds
    <3>2. DOMAIN run.cached \subseteq DOMAIN run'.cached /\ (f \in Owned => f \in DOMAIN run'.cached)
      BY <3>1 DEF With
    <3> QED BY <1>1, <2>1, <3>1, <3>2
  <2> QED BY <1>1, <2>2, <2>3
<1>13. ScopeGood(run', Excused')
  BY <1>1, <1>3, <1>6, <1>12 DEF Honest, ScopeGood
<1>14. ASSUME run.covers, NEW h \in Files
       PROVE  Good(h, rows[h].hash, Excused') \/ Ahead(h, run')
  <2>1. Good(h, rows[h].hash, Excused) \/ Ahead(h, run)
    BY <1>1, <1>14 DEF Honest, RowsGood, Late
  <2>2. CASE Good(h, rows[h].hash, Excused)
    BY <1>6, <2>2
  <2>3. CASE Ahead(h, run) /\ Probes(f)
    BY <1>1, <1>3, <2>3 DEF Ahead, Probes
  <2>4. CASE Ahead(h, run) /\ GivesUp(f)
    <3>1. CASE h = f /\ ~run'.clean
      <4>1. f \notin Present
        BY <2>4 DEF GivesUp
      <4>2. f \in Loose /\ Loose' = Loose
        BY <1>2, <4>1, AbsentGood, SameTree
      <4>3. Excused' = Loose'
        BY <3>1, ExcusedIs DEF Excused
      <4> QED BY <3>1, <4>2, <4>3 DEF Good
    <3>2. CASE h # f
      <4>1. /\ run'.todo = run.todo \ {f} /\ run.differs \subseteq run'.differs
            /\ run'.batch = run.batch
        BY <2>4 DEF GivesUp
      <4> QED BY <1>1, <1>3, <2>4, <3>2, <4>1 DEF Ahead
    <3>3. CASE h = f /\ run.pc = "classify" /\ run'.differs = run.differs \cup {f}
      BY <1>3, <3>3 DEF Ahead
    <3> QED BY <2>4, <3>1, <3>2, <3>3 DEF GivesUp
  <2>5. CASE Ahead(h, run) /\ Confirms(f)
    <3>1. CASE h = f
      BY <2>5, <3>1 DEF Confirms, Good
    <3>2. CASE h # f
      BY <1>1, <1>3, <2>5, <3>2 DEF Ahead, Confirms
    <3> QED BY <3>1, <3>2
  <2>6. ASSUME NEW row, Ahead(h, run), Finds(f, row) PROVE Ahead(h, run')
    <3>1. run'.todo = run.todo \ {f}
      BY <2>6 DEF Finds
    <3>2. \/ run.pc = "classify" /\ run'.differs = run.differs \cup {f}
          \/ run.pc = "parse" /\ DOMAIN run'.batch = DOMAIN run.batch \cup {f}
      BY <2>6 DEF Finds, With
    <3> QED BY <1>3, <2>6, <3>1, <3>2 DEF Ahead
  <2> QED BY <1>1, <2>1, <2>2, <2>3, <2>4, <2>5, <2>6
<1>15. RowsGood(rows, run', Excused')
  BY <1>3, <1>14 DEF RowsGood
<1>16. DiffRead(run', Excused') /\ AllShown(rows, stamp)
  BY <1>1, <1>3 DEF Honest, DiffRead
<1>17. Honest(rows', stamp', run', Excused')
  BY <1>2, <1>11, <1>13, <1>15, <1>16 DEF Honest
<1>18. Quiet'
  BY <1>1, <1>3 DEF Quiet, Step
<1> QED BY <1>2, <1>17, <1>18, HonestStep

\* The plan has a lane or a removal for every file that differs.
LEMMA PlanHonest ==
  ASSUME TInv, Unseen, Honest(rows, stamp, run, Excused), Plan
  PROVE  (Unseen /\ Quiet /\ Honest(rows, stamp, run, Excused))'
<1>1. /\ UNCHANGED <<tree, commits, head, stamp, settled>> /\ run.pc = "classify"
      /\ run.todo = {} /\ run' \in RunState /\ run'.pc = "apply" /\ run'.covers = run.covers
      /\ run'.cached = run.cached /\ run'.batch = run.batch /\ run'.clean = run.clean
      /\ rows' = Touched(rows, Only(run.touch, Owned))
      /\ run.removed \subseteq run'.removed
      /\ \A f \in run'.removed : f \in run.removed \/ f \notin Present \cap run.scope
      /\ \A f \in run.differs \cap run.scope : (f \in Owned => f \in DOMAIN run.cached) =>
           \/ f \in LaneFiles(run'.lanes) \cup run'.removed
           \/ HashMatches(f)
           \/ f \notin Present \cup Indexed
  BY PlanDoes DEF env
<1>2. rows \in [Files -> Row] /\ run.touch \in Part(Nat) /\ run'.removed \subseteq Files
  BY <1>1, TypeFacts, RunFields
<1>3. PICK g \in Part(Nat) : g = Only(run.touch, Owned)
  BY <1>2, OnlyPart
<1>4. \A f \in Files : rows'[f].hash = rows[f].hash
  BY <1>1, <1>2, <1>3, TouchedRow
<1>5. Excused' = Excused
  BY <1>1, SameExcuse
<1>6. ASSUME NEW f \in run'.removed PROVE Good(f, 0, Excused)
  BY <1>1, <1>2, <1>6, AbsentGood DEF Honest, ScopeGood
<1>7. ASSUME run.covers, NEW f \in Files
      PROVE  Good(f, rows[f].hash, Excused) \/ Ahead(f, run')
  <2>1. CASE f \in run.removed
    BY <1>1, <2>1 DEF Ahead
  <2>2. CASE f \in run.differs
    <3>1. f \in run.scope /\ (f \in Owned => f \in DOMAIN run.cached)
      BY <1>1, <2>2 DEF Honest, ScopeGood
    <3>2. CASE f \in LaneFiles(run'.lanes) \cup run'.removed
      BY <1>1, <3>2 DEF Ahead
    <3>3. CASE HashMatches(f)
      BY <3>3 DEF HashMatches, Good
    <3>4. CASE f \notin Present \cup Indexed
      BY <3>4, AbsentIs DEF Good, NoRow
    <3> QED BY <1>1, <2>2, <3>1, <3>2, <3>3, <3>4
  <2> QED BY <1>1, <1>7, <2>1, <2>2 DEF Honest, RowsGood, Ahead, Late
<1>8. RowsGood(rows', run', Excused)
  BY <1>1, <1>4, <1>7 DEF RowsGood
<1>9. ScopeGood(run', Excused) /\ CarriedGood(run', Excused) /\ DiffRead(run', Excused)
  BY <1>1, <1>6 DEF Honest, ScopeGood, CarriedGood, DiffRead
<1>10. AllShown(rows', stamp)
  BY <1>4 DEF Honest, AllShown
<1>11. Honest(rows', stamp', run', Excused')
  BY <1>1, <1>5, <1>8, <1>9, <1>10 DEF Honest
<1>12. Quiet'
  BY <1>1 DEF Quiet, Step
<1> QED BY <1>1, <1>11, <1>12, HonestStep

\* Removals leave rows that are right, or of files the next update sees.
LEMMA ApplyHonest ==
  ASSUME TInv, Unseen, Honest(rows, stamp, run, Excused), Apply
  PROVE  (Unseen /\ Quiet /\ Honest(rows, stamp, run, Excused))'
<1>1. /\ UNCHANGED <<tree, commits, head, stamp, settled>> /\ run.pc = "apply"
      /\ run'.pc = IF run.lanes = << >> THEN "head" ELSE "parse"
      /\ run'.covers = run.covers /\ run'.lanes = run.lanes /\ run'.clean = run.clean
      /\ run'.cached = run.cached /\ run'.batch = run.batch /\ run'.probe = run.probe
      /\ run'.todo = IF run.lanes = << >> THEN {} ELSE Head(run.lanes).files
      /\ rows' = Touched(Removed(rows, run.removed), run.touch)
  BY ApplyDoes DEF env
<1>2. /\ rows \in [Files -> Row] /\ run.touch \in Part(Nat) /\ run.lanes \in Seq(LaneRec)
      /\ DOMAIN run.probe = {}
  BY <1>1, TypeFacts, RunFields DEF CourseOf
<1>3. PICK r \in [Files -> Row] : r = Removed(rows, run.removed)
  BY <1>2, RemovedRow
<1>4. \A f \in Files : rows'[f].hash = IF f \in run.removed THEN 0 ELSE rows[f].hash
  <2>1. \A f \in Files : rows'[f].hash = r[f].hash
    BY <1>1, <1>2, <1>3, TouchedRow
  <2>2. \A f \in Files : r[f] = IF f \in run.removed THEN NoRow ELSE rows[f]
    BY <1>2, <1>3, RemovedRow
  <2> QED BY <2>1, <2>2 DEF NoRow
<1>5. Excused' = Excused
  BY <1>1, SameExcuse
<1>6. \A f \in run.removed : Good(f, 0, Excused)
  BY <1>1 DEF Honest, ScopeGood
<1>7. AllShown(rows', stamp)
  BY <1>4, <1>6, ExcusedIs DEF Honest, AllShown, Good
<1>8. ASSUME run.covers, NEW f \in Files
      PROVE  Good(f, rows'[f].hash, Excused) \/ Ahead(f, run')
  <2>1. CASE f \in run.removed
    BY <1>4, <1>6, <2>1
  <2>2. CASE f \notin run.removed /\ f \in LaneFiles(run.lanes)
    <3>1. run.lanes # << >>
      BY <2>2, NoLanes
    <3>2. f \in Head(run.lanes).files \cup LaneFiles(Tail(run.lanes))
      BY <1>2, <2>2, <3>1, FirstLane
    <3> QED BY <1>1, <3>1, <3>2 DEF Ahead
  <2>3. CASE f \notin run.removed /\ Good(f, rows[f].hash, Excused)
    BY <1>4, <2>3
  <2> QED BY <1>1, <1>8, <2>1, <2>2, <2>3 DEF Honest, RowsGood, Ahead, Late
<1>9. RowsGood(rows', run', Excused)
  BY <1>1, <1>8 DEF RowsGood
<1>10. ScopeGood(run', Excused) /\ CarriedGood(run', Excused) /\ DiffRead(run', Excused)
  BY <1>1, <1>2 DEF Honest, ScopeGood, CarriedGood, DiffRead
<1>11. Honest(rows', stamp', run', Excused')
  BY <1>1, <1>5, <1>7, <1>9, <1>10 DEF Honest
<1>12. Quiet'
  BY <1>1 DEF Quiet, Step
<1> QED BY <1>1, <1>11, <1>12, HonestStep

\* A stored batch describes its files, or files the next update sees.
LEMMA StoreBatchHonest ==
  ASSUME TInv, Unseen, Honest(rows, stamp, run, Excused), StoreBatch
  PROVE  (Unseen /\ Quiet /\ Honest(rows, stamp, run, Excused))'
<1>1. /\ UNCHANGED <<tree, commits, head, stamp, settled>> /\ run.pc = "parse" /\ run.todo = {}
      /\ run'.pc = IF run'.lanes # << >> THEN "parse"
                   ELSE IF run.base = 0 THEN "build head" ELSE "extractors"
      /\ run.lanes # << >> /\ run'.lanes = Tail(run.lanes)
      /\ run'.covers = run.covers /\ run'.clean = run.clean
      /\ run'.cached = run.cached /\ run'.batch = Empty /\ run'.probe = run.probe
      /\ run'.todo = IF run'.lanes = << >> THEN {} ELSE Head(run'.lanes).files
      /\ rows' = Stored(Touched(rows, run.touch), run.batch)
  BY StoreBatchDoes DEF env
<1>2. /\ rows \in [Files -> Row] /\ run.touch \in Part(Nat) /\ run.lanes \in Seq(LaneRec)
      /\ run.batch \in Part(Row) /\ DOMAIN run.probe = {}
  BY <1>1, TypeFacts, RunFields DEF CourseOf
<1>3. PICK r \in [Files -> Row] : r = Touched(rows, run.touch)
  BY <1>2, TouchedRow
<1>4. \A f \in Files : rows'[f].hash = IF f \in DOMAIN run.batch THEN run.batch[f].hash ELSE rows[f].hash
  <2>1. \A f \in Files : r[f].hash = rows[f].hash
    BY <1>2, <1>3, TouchedRow
  <2>2. rows' = Stored(r, run.batch)
    BY <1>1, <1>3
  <2>3. \A f \in Files : rows'[f] = IF f \in DOMAIN run.batch THEN run.batch[f] ELSE r[f]
    BY <1>2, <2>2, StoredRow
  <2> QED BY <2>1, <2>3
<1>5. Excused' = Excused
  BY <1>1, SameExcuse
<1>6. \A f \in DOMAIN run.batch : Good(f, run.batch[f].hash, Excused)
  BY DEF Honest, CarriedGood
<1>7. AllShown(rows', stamp)
  BY <1>4, <1>6, ExcusedIs DEF Honest, AllShown, Good
<1>8. ASSUME run.covers, NEW f \in Files
      PROVE  Good(f, rows'[f].hash, Excused) \/ Ahead(f, run')
  <2>1. CASE f \in DOMAIN run.batch
    BY <1>4, <1>6, <2>1
  <2>2. CASE f \notin DOMAIN run.batch /\ f \in LaneFiles(run'.lanes)
    <3>1. run'.lanes # << >> /\ run'.lanes \in Seq(LaneRec)
      BY <1>1, <1>2, <2>2, NoLanes, FirstLane
    <3>2. f \in Head(run'.lanes).files \cup LaneFiles(Tail(run'.lanes))
      BY <2>2, <3>1, FirstLane
    <3> QED BY <1>1, <3>1, <3>2 DEF Ahead
  <2>3. CASE f \notin DOMAIN run.batch /\ Good(f, rows[f].hash, Excused)
    BY <1>4, <2>3
  <2> QED BY <1>1, <1>8, <2>1, <2>2, <2>3 DEF Honest, RowsGood, Ahead, Late
<1>9. RowsGood(rows', run', Excused)
  BY <1>1, <1>8 DEF RowsGood
<1>10. DOMAIN run'.batch = {} /\ DOMAIN run'.probe = {}
  BY <1>1, <1>2, EmptyPart
<1>11. ScopeGood(run', Excused) /\ CarriedGood(run', Excused) /\ DiffRead(run', Excused)
  BY <1>1, <1>10 DEF Honest, ScopeGood, CarriedGood, DiffRead
<1>12. Honest(rows', stamp', run', Excused')
  BY <1>1, <1>5, <1>7, <1>9, <1>11 DEF Honest
<1>13. Quiet'
  BY <1>1 DEF Quiet, Step
<1> QED BY <1>1, <1>12, <1>13, HonestStep

\* Every step but a commit in a run, a discard and an unreadable file keeps the run honest.
LEMMA StepHonest == TInv /\ DInv /\ SInv /\ [Next]_vars => SInv'
<1> DEFINE H == Unseen /\ Quiet /\ Honest(rows, stamp, run, Excused)
<1> SUFFICES ASSUME TInv, DInv, SInv, [Next]_vars, Without({"commit", "discard", "unreadable"})'
             PROVE  H'
  BY DEF SInv
<1>0. /\ Unseen /\ Quiet /\ Honest(rows, stamp, run, Excused)
      /\ "commit" \notin happened' /\ "discard" \notin happened' /\ "unreadable" \notin happened'
  BY HappenedGrows DEF SInv, Without
<1>1. CASE UNCHANGED vars
  <2>1. UNCHANGED <<tree, commits, head, rows, stamp, run, settled>>
    BY <1>1 DEF vars, env, db
  <2>2. Excused' = Excused
    BY <2>1, SameExcuse
  <2>3. Quiet'
    BY <1>0, <2>1 DEF Quiet, Step, InSync, Fresh
  <2> QED BY <1>0, <2>1, <2>2, <2>3, HonestStep
<1>2. ASSUME NEW p \in Updaters, PeekBase(p) \/ NameBase(p) \/ StartUpdate(p) PROVE H'
  BY <1>0, <1>2, BeginHonest
<1>3. CASE StartBuild
  BY <1>0, <1>3, StartBuildHonest
<1>4. CASE DiffBase \/ Status \/ StampExtractors \/ BuildStampHead
  BY <1>0, <1>4, MovesHonest
<1>5. CASE Scope
  BY <1>0, <1>5, ScopeHonest
<1>6. CASE Filter
  BY <1>0, <1>6, FilterHonest
<1>7. CASE Plan
  BY <1>0, <1>7, PlanHonest
<1>8. CASE Apply
  BY <1>0, <1>8, ApplyHonest
<1>9. CASE StoreBatch
  BY <1>0, <1>9, StoreBatchHonest
<1>10. CASE Crash \/ StampHead \/ BuildStampExtractors
  BY <1>0, <1>10, EndHonest
<1>11. ASSUME NEW f \in Files, Look(f) \/ ReadFails(f) PROVE H'
  BY <1>0, <1>11, LookHonest
<1>12. ASSUME NEW f \in Files, Write(f) \/ Touch(f) \/ Delete(f) \/ Discard(f) \/ Preserve(f) PROVE H'
  <2>1. PICK c \in Nat : \E m \in Nat :
           /\ Edited(f, c, m)
           /\ \/ c = clock + 1 \/ c = 0 \/ (f \in Present /\ c = tree[f].content)
              \/ "discard" \in happened'
    BY <1>12, EditorDoes
  <2>2. c = clock + 1 \/ c = 0 \/ (f \in Present /\ c = tree[f].content)
    BY <1>0, <2>1
  <2> QED BY <1>0, <2>1, <2>2, EditHonest
<1>13. CASE Commit
  <2>1. run.pc = "idle"
    BY <1>0, <1>13, CommitDoes
  <2> QED BY <1>0, <1>13, <2>1, CommitHonest
<1>14. CASE Upgrade
  <2>1. UNCHANGED <<tree, commits, head, rows, stamp, run, settled>>
    BY <1>14 DEF Upgrade, db
  <2>2. Excused' = Excused
    BY <2>1, SameExcuse
  <2>3. Quiet'
    BY <1>0, <2>1 DEF Quiet, Step, InSync, Fresh
  <2> QED BY <1>0, <2>1, <2>2, <2>3, HonestStep
<1> QED
  BY <1>1, <1>2, <1>3, <1>4, <1>5, <1>6, <1>7, <1>8, <1>9, <1>10, <1>11, <1>12, <1>13, <1>14
     DEF Next, Running, Editor

\* The graph just built of a clean checkout is right.
LEMMA InitHonest == Init => SInv
<1> SUFFICES ASSUME Init PROVE Unseen /\ Quiet /\ Honest(rows, stamp, run, Excused)
  BY DEF SInv
<1>1. /\ run = Idle /\ head = 1 /\ commits = << [f \in Files |-> 1] >>
      /\ rows = [f \in Files |-> [hash |-> 1, mtime |-> 1, ver |-> 1]]
      /\ tree = [f \in Files |-> [content |-> 1, mtime |-> 1]]
  BY DEF Init
<1>2. \A f \in Files : rows[f].hash = tree[f].content /\ tree[f].content = 1
  BY <1>1
<1>3. commits[1] = [f \in Files |-> 1]
  BY <1>1
<1>4. Dirty = {}
  BY <1>1, <1>2, <1>3 DEF Dirty
<1>5. Unseen /\ Quiet
  BY <1>2, <1>4 DEF Unseen, Quiet, InSync, Fresh
<1>6. AllShown(rows, stamp)
  BY <1>2 DEF AllShown, Good
<1>7. run.pc = "idle" /\ CarriedGood(run, Excused)
  BY <1>1, IdleIs, NothingCarried
<1> QED BY <1>5, <1>6, <1>7, Between DEF Honest

\* Runs are always honest, without a commit in a run, a discard or an unreadable file.
LEMMA HonestInvariant == Spec => []SInv
BY InitHonest, StepHonest, TypeInvariant, EarlyInvariant, PTL DEF Spec

\* Between runs the stamp hides no change: whatever crashed, was built or was given
\* as --base, a file the graph has wrong is in the base diff, the status or the scope
\* of the next update (diff_covers_graph_commit, record_head_when_verified).
THEOREM StampCovers == Spec => []StampHidesNothing
<1>1. TInv /\ SInv => StampHidesNothing
  <2> SUFFICES ASSUME TInv, Honest(rows, stamp, run, Excused), NEW f \in Files, ~Fresh(f)
               PROVE  f \in BaseDiff(stamp) \cup Dirty \cup (Indexed \ Present)
    BY DEF StampHidesNothing, NothingHidden, SInv
  <2>1. f \in BaseDiff(stamp) \cup Loose
    BY DEF Honest, AllShown, Good, Fresh
  <2>2. f \notin Present => f \in Indexed
    BY AbsentIs DEF Fresh
  <2> QED BY <2>1, <2>2 DEF Loose
<1> QED BY <1>1, TypeInvariant, HonestInvariant, PTL

\* A run that ended without errors over a tree that has not changed since it began
\* leaves the graph equal to the tree.
THEOREM QuietRunConverges == Spec => []QuietUpdateConverges
<1>1. SInv => QuietUpdateConverges
  BY DEF SInv, Quiet, QuietUpdateConverges
<1> QED BY <1>1, HonestInvariant, PTL
=============================================================================

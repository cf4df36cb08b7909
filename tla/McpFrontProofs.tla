--------------------------- MODULE McpFrontProofs ---------------------------
(***************************************************************************)
(* For any number of lines of any kinds: the client is answered at most    *)
(* once per request and only for its requests, nothing is on its way when  *)
(* serve returns, and the backend sees the session the client opened.      *)
(* RepliesOnce and ReturnsRelayed are not inductive: they rest on where a  *)
(* request can be - unread in the pipe, being answered, on its way back,   *)
(* delivered - and on being in exactly one of these places.                *)
(***************************************************************************)
EXTENDS McpFront, TLAPS

(* A line in the pipe is the proxy's own or the line of the client it names *)
PipeNamesLines ==
    \A j \in 1..Len(pipe) : pipe[j].id # ProxyId =>
        pipe[j].id \in 1..Len(lines) /\ pipe[j].kind = lines[pipe[j].id]

(* No line of the client is in the pipe twice *)
PipeIdsDistinct ==
    \A j, k \in 1..Len(pipe) :
        pipe[j].id = pipe[k].id /\ pipe[j].id # ProxyId => j = k

(* A request is in one place *)
OnePlace ==
    /\ working \ {ProxyId} \subseteq Requests
    /\ replies \ {ProxyId} \subseteq Requests
    /\ sent \subseteq Requests
    /\ working \cap replies \subseteq {ProxyId}
    /\ (working \cup replies) \cap sent = {}

(* What the backend has not read, nobody has answered *)
UnreadUnanswered ==
    \A j \in (read + 1)..Len(pipe) :
        pipe[j].id # ProxyId => pipe[j].id \notin working \cup replies \cup sent

Inv ==
    /\ TypeOK /\ PipeNamesLines /\ PipeIdsDistinct /\ OnePlace
    /\ UnreadUnanswered /\ ~doubled

Lines == [kind : AllKinds, id : Ids \cup {ProxyId}]
Sessions == [init : BOOLEAN, initialized : BOOLEAN, modern : BOOLEAN,
             booted : BOOLEAN]

(* What boot sends is the proxy's own *)
LEMMA BootSends ==
    ASSUME NEW s \in Sessions
    PROVE  /\ boot(s) \in Seq(Lines)
           /\ \A j \in 1..Len(boot(s)) : boot(s)[j].id = ProxyId
<1>1. Line("modern_list", ProxyId) \in Lines /\ Line("init", ProxyId) \in Lines
      /\ Line("initialized", ProxyId) \in Lines
  BY DEF Line, Lines, AllKinds
<1> DEFINE m == <<Line("modern_list", ProxyId)>>
           a == <<Line("init", ProxyId)>>
           b == <<Line("initialized", ProxyId)>>
<1>2. /\ m \in Seq(Lines) /\ Len(m) = 1 /\ m[1].id = ProxyId
      /\ a \in Seq(Lines) /\ Len(a) = 1 /\ a[1].id = ProxyId
      /\ b \in Seq(Lines) /\ Len(b) = 1 /\ b[1].id = ProxyId
  BY <1>1 DEF Line
<1>3. /\ a \o b \in Seq(Lines) /\ Len(a \o b) = 2
      /\ (a \o b)[1].id = ProxyId /\ (a \o b)[2].id = ProxyId
  BY <1>2
<1>4. a \o <<>> = a
  BY <1>2
<1>5. boot(s) \in {m, <<>>, a \o b, a}
  BY <1>4 DEF boot
<1> HIDE DEF m, a, b
<1>6. CASE boot(s) = m
  <2>1. \A j \in 1..Len(m) : j = 1
    BY <1>2
  <2> QED BY <1>2, <1>6, <2>1
<1>7. CASE boot(s) = <<>>
  BY <1>7
<1>8. CASE boot(s) = a \o b
  <2>1. \A j \in 1..Len(a \o b) : j = 1 \/ j = 2
    BY <1>3
  <2> HIDE DEF m, a, b
  <2> DEFINE c == a \o b
  <2>2. c \in Seq(Lines) /\ \A j \in 1..Len(c) : c[j].id = ProxyId
    BY <1>3, <2>1
  <2> HIDE DEF c
  <2> QED BY <1>8, <2>2 DEF c
<1>9. CASE boot(s) = a
  <2>1. \A j \in 1..Len(a) : j = 1
    BY <1>2
  <2> QED BY <1>2, <1>9, <2>1
<1> QED BY <1>5, <1>6, <1>7, <1>8, <1>9

(* The pipe after a delegated line: what was there, the proxy's own, the line *)
LEMMA DelegateGrows ==
    ASSUME NEW p \in Seq(Lines), NEW x \in Seq(Lines), NEW l \in Lines,
           \A j \in 1..Len(x) : x[j].id = ProxyId
    PROVE  LET q == p \o x \o <<l>> IN
           /\ q \in Seq(Lines)
           /\ Len(q) = Len(p) + Len(x) + 1
           /\ \A j \in 1..Len(p) : q[j] = p[j]
           /\ \A j \in (Len(p) + 1)..(Len(q) - 1) : q[j].id = ProxyId
           /\ \A j \in 1..Len(x) : q[Len(p) + j] = x[j]
           /\ q[Len(q)] = l
<1> DEFINE y == p \o x
<1>1. /\ y \in Seq(Lines) /\ Len(y) = Len(p) + Len(x)
      /\ \A j \in 1..Len(p) : y[j] = p[j]
      /\ \A j \in (Len(p) + 1)..Len(y) : y[j] = x[j - Len(p)]
  OBVIOUS
<1>2. \A j \in (Len(p) + 1)..Len(y) : y[j].id = ProxyId
  <2> TAKE j \in (Len(p) + 1)..Len(y)
  <2>1. j - Len(p) \in 1..Len(x)
    BY <1>1
  <2> QED BY <1>1, <2>1
<1> HIDE DEF y
<1>3. y \o <<l>> = Append(y, l)
  BY <1>1
<1>4. /\ Append(y, l) \in Seq(Lines) /\ Len(Append(y, l)) = Len(y) + 1
      /\ \A j \in 1..Len(y) : Append(y, l)[j] = y[j]
      /\ Append(y, l)[Len(y) + 1] = l
  BY <1>1
<1>5. \A j \in 1..Len(x) : Append(y, l)[Len(p) + j] = x[j]
  <2> TAKE j \in 1..Len(x)
  <2>1. Len(p) + j \in 1..Len(y) /\ Len(p) + j \in (Len(p) + 1)..Len(y)
        /\ (Len(p) + j) - Len(p) = j
    BY <1>1
  <2> QED BY <1>1, <1>4, <2>1
<1> QED BY <1>1, <1>2, <1>3, <1>4, <1>5 DEF y

(* A line the front end answers itself, or only remembers *)
LEMMA LocalKeeps ==
    ASSUME Inv, NEW k \in Kinds, NEW i, i = Len(lines) + 1, i <= MaxLines,
           lines' = Append(lines, k), session' \in Sessions, pipe' = pipe,
           (k \notin Silent /\ reply(i)) \/ NoReply,
           UNCHANGED <<read, working, replies, open, ends>>
    PROVE  Inv'
<1> USE DEF Inv
<1>1. /\ lines' \in Seq(Kinds) /\ Len(lines') = i
      /\ \A j \in 1..Len(lines) : lines'[j] = lines[j]
      /\ lines'[i] = k /\ i \in Ids /\ Len(lines) \in Nat
  BY McpAssumption DEF TypeOK, Ids
<1>2. Requests \subseteq Requests' /\ i \notin Requests
      /\ (k \notin Silent => i \in Requests')
  BY <1>1 DEF Requests
<1>3. TypeOK'
  BY <1>1 DEF TypeOK, Sessions, reply, NoReply, ends
<1>4. PipeNamesLines' /\ PipeIdsDistinct'
  BY <1>1 DEF PipeNamesLines, PipeIdsDistinct, TypeOK
<1>5. ProxyId \notin Requests' /\ i # ProxyId
  BY <1>1 DEF Requests, ProxyId
<1>6. OnePlace' /\ ~doubled'
  <2>1. i \notin working \cup replies \cup sent
    BY <1>2, <1>5 DEF OnePlace
  <2>2. CASE NoReply
    BY <1>2, <2>2 DEF OnePlace, NoReply
  <2>3. CASE k \notin Silent /\ reply(i)
    <3>1. sent' = sent \cup {i} /\ doubled' = (doubled \/ i \in sent)
      BY <2>3 DEF reply
    <3>2. ~doubled'
      BY <2>1, <3>1
    <3>3. sent' \subseteq Requests'
      BY <1>2, <2>3, <3>1 DEF OnePlace
    <3>4. (working' \cup replies') \cap sent' = {}
      BY <2>1, <3>1 DEF OnePlace
    <3> QED BY <1>2, <3>2, <3>3, <3>4 DEF OnePlace
  <2> QED BY <2>2, <2>3
<1>7. UnreadUnanswered'
  <2>1. \A j \in (read + 1)..Len(pipe) : pipe[j].id # i
    BY <1>1, <1>5 DEF PipeNamesLines, TypeOK
  <2> QED BY <2>1 DEF UnreadUnanswered, reply, NoReply
<1> QED BY <1>3, <1>4, <1>6, <1>7

(* A line that goes to the backend, after what boot sends *)
LEMMA PipedKeeps ==
    ASSUME Inv, NEW k \in Kinds, NEW i, i = Len(lines) + 1, i <= MaxLines,
           NEW x \in Seq(Lines), \A j \in 1..Len(x) : x[j].id = ProxyId,
           lines' = Append(lines, k), session' \in Sessions,
           pipe' = pipe \o x \o <<Line(k, i)>>, NoReply,
           UNCHANGED <<read, working, replies, open, ends>>
    PROVE  Inv'
<1> USE DEF Inv
<1>1. /\ lines' \in Seq(Kinds) /\ Len(lines') = i
      /\ \A j \in 1..Len(lines) : lines'[j] = lines[j]
      /\ lines'[i] = k /\ i \in Ids /\ Len(lines) \in Nat
  BY McpAssumption DEF TypeOK, Ids
<1>2. Requests \subseteq Requests' /\ i \notin Requests
  BY <1>1 DEF Requests
<1>3. pipe \in Seq(Lines) /\ read \in 0..Len(pipe)
  BY DEF TypeOK, Lines
<1>4. Line(k, i) \in Lines
  BY <1>1, McpAssumption DEF Line, Lines
<1>5. /\ pipe' \in Seq(Lines)
      /\ Len(pipe') = Len(pipe) + Len(x) + 1
      /\ \A j \in 1..Len(pipe) : pipe'[j] = pipe[j]
      /\ \A j \in (Len(pipe) + 1)..(Len(pipe') - 1) : pipe'[j].id = ProxyId
      /\ pipe'[Len(pipe')] = Line(k, i)
  BY <1>3, <1>4, DelegateGrows
<1>6. Len(x) \in Nat /\ Len(pipe) \in Nat /\ Len(pipe') \in Nat
  BY <1>3, <1>5
<1>7. TypeOK'
  BY <1>1, <1>3, <1>5, <1>6 DEF TypeOK, Sessions, NoReply, Lines, ends
<1>8. \A j \in 1..Len(pipe') :
        \/ j \in 1..Len(pipe) /\ pipe'[j] = pipe[j]
        \/ j \in (Len(pipe) + 1)..(Len(pipe') - 1) /\ pipe'[j].id = ProxyId
        \/ j = Len(pipe') /\ pipe'[j] = Line(k, i)
  BY <1>5, <1>6
<1>9. Line(k, i).id = i /\ Line(k, i).kind = k
  BY DEF Line
<1>10. PipeNamesLines'
  <2> SUFFICES ASSUME NEW j \in 1..Len(pipe'), pipe'[j].id # ProxyId
               PROVE  pipe'[j].id \in 1..Len(lines')
                      /\ pipe'[j].kind = lines'[pipe'[j].id]
    BY DEF PipeNamesLines
  <2>1. CASE j \in 1..Len(pipe) /\ pipe'[j] = pipe[j]
    BY <1>1, <2>1 DEF PipeNamesLines
  <2>2. CASE j = Len(pipe') /\ pipe'[j] = Line(k, i)
    BY <1>1, <1>9, <2>2
  <2> QED BY <1>8, <2>1, <2>2
<1>11. \A j \in 1..Len(pipe) : pipe[j].id # i
  <2> TAKE j \in 1..Len(pipe)
  <2>1. CASE pipe[j].id = ProxyId
    BY <1>1, <2>1 DEF ProxyId
  <2>2. CASE pipe[j].id # ProxyId
    BY <1>1, <2>2 DEF PipeNamesLines
  <2> QED BY <2>1, <2>2
<1>12. PipeIdsDistinct'
  <2> SUFFICES ASSUME NEW j \in 1..Len(pipe'), NEW h \in 1..Len(pipe'),
                      pipe'[j].id = pipe'[h].id, pipe'[j].id # ProxyId
               PROVE  j = h
    BY DEF PipeIdsDistinct
  <2>1. CASE j \in 1..Len(pipe) /\ h \in 1..Len(pipe)
    BY <1>5, <2>1 DEF PipeIdsDistinct
  <2>2. CASE j \in 1..Len(pipe) /\ h = Len(pipe')
    BY <1>5, <1>9, <1>11, <2>2
  <2>3. CASE h \in 1..Len(pipe) /\ j = Len(pipe')
    BY <1>5, <1>9, <1>11, <2>3
  <2> QED BY <1>8, <2>1, <2>2, <2>3
<1>13. OnePlace' /\ ~doubled'
  BY <1>2 DEF OnePlace, NoReply
<1>14. UnreadUnanswered'
  <2> SUFFICES ASSUME NEW j \in (read + 1)..Len(pipe'), pipe'[j].id # ProxyId
               PROVE  pipe'[j].id \notin working \cup replies \cup sent
    BY DEF UnreadUnanswered, NoReply
  <2>1. j \in 1..Len(pipe')
    BY <1>3, <1>6
  <2>2. CASE j \in 1..Len(pipe) /\ pipe'[j] = pipe[j]
    BY <1>3, <1>6, <2>2 DEF UnreadUnanswered
  <2>3. CASE j = Len(pipe') /\ pipe'[j] = Line(k, i)
    <3>1. i # ProxyId
      BY <1>1 DEF ProxyId
    <3> QED BY <1>2, <1>9, <2>3, <3>1 DEF OnePlace
  <2> QED BY <1>8, <2>1, <2>2, <2>3
<1> QED BY <1>7, <1>10, <1>12, <1>13, <1>14

(* What a line does: it is settled by the front end or added to the pipe *)
Local(k, i) ==
    /\ session' \in Sessions /\ session'.booted = session.booted /\ pipe' = pipe
    /\ IF k \in Silent THEN NoReply ELSE reply(i)

Piped(k, i) ==
    /\ session' \in Sessions /\ session'.booted /\ NoReply
    /\ \E x \in Seq(Lines) :
        /\ \A j \in 1..Len(x) : x[j].id = ProxyId
        /\ pipe' = pipe \o x \o <<Line(k, i)>>

LEMMA DelegatePipes ==
    ASSUME NEW s \in Sessions, NEW k, NEW i, delegate(s, k, i)
    PROVE  Piped(k, i)
<1> DEFINE x == IF session.booted THEN <<>> ELSE boot(s)
<1>1. x \in Seq(Lines) /\ \A j \in 1..Len(x) : x[j].id = ProxyId
  BY BootSends
<1>2. pipe' = pipe \o x \o <<Line(k, i)>> /\ NoReply
  BY DEF delegate
<1>3. session' \in Sessions /\ session'.booted
  BY DEF delegate, Sessions
<1> HIDE DEF x
<1> QED BY <1>1, <1>2, <1>3 DEF Piped

LEMMA ForwardPipes ==
    ASSUME Inv, NEW k \in Kinds, k \in Silent, NEW i \in Ids, forward_if_booted(k, i)
    PROVE  Local(k, i) \/ Piped(k, i)
<1>1. session' \in Sessions /\ session' = session /\ NoReply
  BY DEF Inv, TypeOK, Sessions, forward_if_booted
<1>2. CASE session.booted
  <2>1. pipe' = Append(pipe, Line(k, i)) /\ pipe \in Seq(Lines)
    BY <1>2 DEF forward_if_booted, Inv, TypeOK, Lines
  <2>2. Line(k, i) \in Lines
    BY McpAssumption DEF Line, Lines
  <2> DEFINE l == Line(k, i)
  <2> HIDE DEF l
  <2>3. Append(pipe, l) = pipe \o <<>> \o <<l>>
    BY <2>1, <2>2 DEF l
  <2>4. <<>> \in Seq(Lines) /\ \A j \in 1..Len(<<>>) : <<>>[j].id = ProxyId
    OBVIOUS
  <2> QED BY <1>1, <1>2, <2>1, <2>3, <2>4 DEF l, Piped
<1>3. CASE ~session.booted
  BY <1>1, <1>3 DEF Local, forward_if_booted
<1> QED BY <1>2, <1>3

(* Every handler does one or the other *)
LEMMA HandleSettlesOrPipes ==
    ASSUME Inv, NEW k \in Kinds, handle(k)
    PROVE  Local(k, Len(lines) + 1) \/ Piped(k, Len(lines) + 1)
<1> DEFINE i == Len(lines) + 1
<1>1. i \in Ids /\ session \in Sessions
  BY McpAssumption DEF Inv, TypeOK, Ids, handle, Sessions
<1> HIDE DEF i
<1> DEFINE si == [session EXCEPT !.init = TRUE]
           sm == [session EXCEPT !.modern = TRUE]
           sn == [session EXCEPT !.initialized = TRUE]
<1>2. /\ si \in Sessions /\ sm \in Sessions /\ sn \in Sessions
      /\ si.booted = session.booted /\ sm.booted = session.booted
      /\ sn.booted = session.booted
  BY <1>1 DEF Sessions
<1> HIDE DEF si, sm, sn
<1>3. ASSUME NEW s \in Sessions, s.booted = session.booted, answer(s, i), k \notin Silent
      PROVE  Local(k, i)
  BY <1>3 DEF answer, Local
<1>4. CASE k = "init"
  <2>1. handle_init(i)
    BY <1>4 DEF handle, i, Notifications, Modern, Envelopes
  <2>2. delegate(session, k, i) \/ delegate(si, k, i) \/ answer(si, i)
    BY <1>4, <2>1 DEF handle_init, si
  <2> QED BY <1>1, <1>2, <1>3, <1>4, <2>2, DelegatePipes DEF i, Notifications, Silent
<1>5. CASE k \in Notifications
  <2>1. handle_notification(k, i)
    BY <1>5 DEF handle, i, Notifications, Modern, Envelopes
  <2>2. CASE k = "initialized" /\ ~session.booted
    BY <1>2, <1>5, <2>1, <2>2 DEF handle_notification, Local, sn, i, Silent
  <2>3. CASE ~(k = "initialized" /\ ~session.booted)
    <3>1. forward_if_booted(k, i)
      BY <2>1, <2>3 DEF handle_notification
    <3> QED BY <1>1, <1>5, <3>1, ForwardPipes DEF i, Silent
  <2> QED BY <2>2, <2>3
<1>6. CASE k \in Envelopes
  <2>1. handle_modern(k, i)
    BY <1>6 DEF handle, i, Notifications, Modern, Envelopes
  <2>2. delegate(session, k, i) \/ delegate(sm, k, i) \/ answer(sm, i)
    BY <2>1 DEF handle_modern, sm
  <2>3. k \notin Silent
    BY <1>6 DEF Envelopes, Modern, Notifications, Silent
  <2> QED BY <1>1, <1>2, <1>3, <2>2, <2>3, DelegatePipes DEF i
<1>7. CASE k \in {"list", "level"}
  <2>1. local_result(k, i)
    BY <1>7 DEF handle, i, Notifications, Modern, Envelopes
  <2>2. delegate(session, k, i) \/ answer(session, i)
    BY <2>1 DEF local_result
  <2>3. k \notin Silent
    BY <1>7 DEF Notifications, Silent
  <2> QED BY <1>1, <1>3, <2>2, <2>3, DelegatePipes DEF i
<1>8. CASE k \in {"native", "write"}
  <2>1. native_call(k, i)
    BY <1>8 DEF handle, i, Notifications, Modern, Envelopes
  <2>2. delegate(session, k, i) \/ answer(session, i)
    BY <2>1 DEF native_call
  <2>3. k \notin Silent
    BY <1>8 DEF Notifications, Silent
  <2> QED BY <1>1, <1>3, <2>2, <2>3, DelegatePipes DEF i
<1>9. CASE k = "response"
  <2>1. forward_if_booted(k, i)
    BY <1>9 DEF handle, i, Notifications, Envelopes, Modern
  <2> QED BY <1>1, <1>9, <2>1, ForwardPipes DEF i, Silent
<1>10. CASE k \notin {"init", "list", "level", "native", "write", "response"}
              \cup Notifications \cup Envelopes
  <2>1. delegate(session, k, i)
    BY <1>10 DEF handle, i
  <2> QED BY <1>1, <2>1, DelegatePipes DEF i
<1> QED BY <1>4, <1>5, <1>6, <1>7, <1>8, <1>9, <1>10

LEMMA HandleKeeps ==
    ASSUME Inv, NEW k \in Kinds, handle(k)
    PROVE  Inv'
<1> DEFINE i == Len(lines) + 1
<1>1. /\ i <= MaxLines /\ lines' = Append(lines, k)
      /\ UNCHANGED <<read, working, replies, open, ends>>
  BY DEF handle
<1> HIDE DEF i
<1>2. CASE Local(k, i)
  BY <1>1, <1>2, LocalKeeps DEF Local, i
<1>3. CASE Piped(k, i)
  <2>1. PICK x \in Seq(Lines) :
          /\ \A j \in 1..Len(x) : x[j].id = ProxyId
          /\ pipe' = pipe \o x \o <<Line(k, i)>>
    BY <1>3 DEF Piped
  <2> QED BY <1>1, <1>3, <2>1, PipedKeeps DEF Piped, i
<1> QED BY <1>2, <1>3, HandleSettlesOrPipes DEF i

LEMMA BackendReadKeeps ==
    ASSUME Inv, BackendRead
    PROVE  Inv'
<1> USE DEF Inv
<1> DEFINE l == pipe[read + 1]
<1>1. /\ read < Len(pipe) /\ read' = read + 1
      /\ working' = IF l.kind \in Silent THEN working
                    ELSE working \cup {l.id}
      /\ UNCHANGED <<lines, session, pipe, replies, sent, doubled, open, ends>>
  BY DEF BackendRead
<1>2. /\ pipe \in Seq(Lines) /\ read \in 0..Len(pipe) /\ Len(pipe) \in Nat
      /\ read + 1 \in 1..Len(pipe)
  BY <1>1 DEF TypeOK, Lines
<1>3. l \in Lines
  BY <1>2
<1>4. Requests' = Requests
  BY <1>1 DEF Requests
<1>5. l.id \in Ids \cup {ProxyId}
  BY <1>3 DEF Lines
<1>6. TypeOK'
  <2>1. working' \subseteq Ids \cup {ProxyId} /\ read' \in 0..Len(pipe')
    BY <1>1, <1>2, <1>5 DEF TypeOK
  <2> QED BY <1>1, <2>1 DEF TypeOK, ends
<1>7. PipeNamesLines' /\ PipeIdsDistinct' /\ ~doubled'
  BY <1>1 DEF PipeNamesLines, PipeIdsDistinct
<1>8. l.id # ProxyId => l.id \notin working \cup replies \cup sent
  BY <1>2 DEF UnreadUnanswered
<1>9. l.id # ProxyId /\ l.kind \notin Silent => l.id \in Requests
  BY <1>2 DEF PipeNamesLines, Requests
<1>10. ProxyId \notin Requests
  BY DEF Requests, ProxyId
<1> HIDE DEF l
<1>11. OnePlace'
  <2>1. CASE working' = working
    BY <1>1, <1>4, <2>1 DEF OnePlace
  <2>2. CASE l.kind \notin Silent /\ working' = working \cup {l.id}
    <3>1. working' \ {ProxyId} \subseteq Requests
      BY <1>9, <2>2 DEF OnePlace
    <3>2. working' \cap replies \subseteq {ProxyId}
      BY <1>8, <2>2 DEF OnePlace
    <3>3. ProxyId \notin sent
      BY <1>10 DEF OnePlace
    <3>4. (working' \cup replies) \cap sent = {}
      BY <1>8, <2>2, <3>3 DEF OnePlace
    <3> QED BY <1>1, <1>4, <3>1, <3>2, <3>4 DEF OnePlace
  <2> QED BY <1>1, <2>1, <2>2
<1>12. UnreadUnanswered'
  <2> SUFFICES ASSUME NEW j \in (read + 2)..Len(pipe), pipe[j].id # ProxyId
               PROVE  pipe[j].id \notin working' \cup replies \cup sent
    BY <1>1, <1>2 DEF UnreadUnanswered
  <2>1. j \in (read + 1)..Len(pipe) /\ j \in 1..Len(pipe) /\ j # read + 1
    BY <1>2
  <2>2. pipe[j].id # l.id
    BY <1>2, <2>1 DEF PipeIdsDistinct, l
  <2>3. pipe[j].id \notin working \cup replies \cup sent
    BY <2>1 DEF UnreadUnanswered
  <2> QED BY <1>1, <2>2, <2>3
<1> QED BY <1>6, <1>7, <1>11, <1>12

LEMMA BackendReplyKeeps ==
    ASSUME Inv, BackendReply
    PROVE  Inv'
<1> USE DEF Inv
<1>1. PICK i \in working :
        /\ working' = working \ {i} /\ replies' = replies \cup {i}
        /\ UNCHANGED <<lines, session, pipe, read, sent, doubled, open, ends>>
  BY DEF BackendReply
<1>2. Requests' = Requests
  BY <1>1 DEF Requests
<1>3. TypeOK'
  BY <1>1 DEF TypeOK, ends
<1>4. PipeNamesLines' /\ PipeIdsDistinct' /\ ~doubled'
  BY <1>1 DEF PipeNamesLines, PipeIdsDistinct
<1>5. OnePlace'
  BY <1>1, <1>2 DEF OnePlace
<1>6. working' \cup replies' = working \cup replies
  BY <1>1
<1>7. UnreadUnanswered'
  BY <1>1, <1>6 DEF UnreadUnanswered
<1> QED BY <1>3, <1>4, <1>5, <1>7

LEMMA RelayKeeps ==
    ASSUME Inv, relay
    PROVE  Inv'
<1> USE DEF Inv
<1>1. PICK i \in replies :
        /\ replies' = replies \ {i}
        /\ IF i = ProxyId THEN NoReply ELSE reply(i)
        /\ UNCHANGED <<lines, session, pipe, read, working, open, ends>>
  BY DEF relay
<1>2. Requests' = Requests
  BY <1>1 DEF Requests
<1>3. PipeNamesLines' /\ PipeIdsDistinct'
  BY <1>1 DEF PipeNamesLines, PipeIdsDistinct
<1>4. CASE i = ProxyId
  <2>1. sent' = sent /\ doubled' = doubled
    BY <1>1, <1>4 DEF NoReply
  <2>2. TypeOK'
    BY <1>1, <2>1 DEF TypeOK, ends
  <2>3. OnePlace'
    BY <1>1, <1>2, <2>1 DEF OnePlace
  <2>4. UnreadUnanswered'
    BY <1>1, <2>1 DEF UnreadUnanswered
  <2> QED BY <1>3, <2>1, <2>2, <2>3, <2>4
<1>5. CASE i # ProxyId
  <2>1. sent' = sent \cup {i} /\ doubled' = (doubled \/ i \in sent)
    BY <1>1, <1>5 DEF reply
  <2>2. i \in Requests /\ i \notin sent /\ i \notin working
    BY <1>5 DEF OnePlace
  <2>3. ~doubled' /\ doubled' \in BOOLEAN
    BY <2>1, <2>2
  <2>4. TypeOK'
    BY <1>1, <2>3 DEF TypeOK, ends
  <2>5. OnePlace'
    BY <1>1, <1>2, <2>1, <2>2 DEF OnePlace
  <2>6. UnreadUnanswered'
    BY <1>1, <2>1 DEF UnreadUnanswered
  <2> QED BY <1>3, <2>3, <2>4, <2>5, <2>6
<1> QED BY <1>4, <1>5

LEMMA InvHolds == Spec => []Inv
<1>1. Init => Inv
  <2> SUFFICES ASSUME Init PROVE Inv
    OBVIOUS
  <2>1. lines = <<>> /\ pipe = <<>> /\ read = 0 /\ Len(lines) = 0 /\ Len(pipe) = 0
    BY DEF Init
  <2>2. TypeOK
    <3>1. lines \in Seq(Kinds) /\ pipe \in Seq(Lines)
      BY <2>1
    <3>2. session \in Sessions
      BY DEF Init, Sessions
    <3>3. Len(lines) <= MaxLines /\ read \in 0..Len(pipe)
      BY <2>1, McpAssumption
    <3> QED BY <3>1, <3>2, <3>3 DEF Init, TypeOK, Lines, Sessions
  <2>3. PipeNamesLines /\ PipeIdsDistinct /\ UnreadUnanswered
    BY <2>1 DEF PipeNamesLines, PipeIdsDistinct, UnreadUnanswered
  <2>4. OnePlace /\ ~doubled
    BY DEF Init, OnePlace
  <2> QED BY <2>2, <2>3, <2>4 DEF Inv
<1>2. Inv /\ [Next]_vars => Inv'
  <2> SUFFICES ASSUME Inv, [Next]_vars PROVE Inv'
    OBVIOUS
  <2>1. CASE \E k \in Kinds : handle(k)
    BY <2>1, HandleKeeps
  <2>2. CASE serve_eof \/ serve_return \/ BackendEnds
    <3>1. /\ UNCHANGED <<lines, session, pipe, read, working, replies, sent, doubled>>
          /\ open' \in BOOLEAN /\ closed' \in BOOLEAN /\ returned' \in BOOLEAN
      BY <2>2 DEF serve_eof, serve_return, BackendEnds, ends, Inv, TypeOK
    <3> QED BY <3>1 DEF Inv, TypeOK, PipeNamesLines, PipeIdsDistinct, OnePlace,
                        UnreadUnanswered, Requests
  <2>3. CASE BackendRead
    BY <2>3, BackendReadKeeps
  <2>4. CASE BackendReply
    BY <2>4, BackendReplyKeeps
  <2>5. CASE relay
    BY <2>5, RelayKeeps
  <2>6. CASE UNCHANGED vars
    BY <2>6 DEF vars, ends, Inv, TypeOK, PipeNamesLines, PipeIdsDistinct,
                OnePlace, UnreadUnanswered, Requests
  <2> QED BY <2>1, <2>2, <2>3, <2>4, <2>5, <2>6 DEF Next
<1> QED BY <1>1, <1>2, PTL DEF Spec

(* For any session: the types of McpFront's state are kept by every handler *)
THEOREM TypeCorrect == Spec => []TypeOK
<1>1. Inv => TypeOK
  BY DEF Inv
<1> QED BY <1>1, InvHolds, PTL

(* For any session: whatever handle, boot and relay do, the client gets replies
   to its own requests only, each at most once                               *)
THEOREM RepliesOnceHolds == Spec => []RepliesOnce
<1>1. Inv => RepliesOnce
  BY DEF Inv, OnePlace, RepliesOnce
<1> QED BY <1>1, InvHolds, PTL

----------------------------------------------------------------------------
(* What the backend sees of the session.  SessionSeen and EraAgrees rest on
   what the front end remembers while there is no backend: that the client has
   sent initialize, and the notification after it, is in the session until
   boot puts it into the pipe.                                               *)
Asked(kind) == \E j \in 1..Len(lines) : lines[j] = kind
AskedBoth == \E h, j \in 1..Len(lines) :
                h < j /\ lines[h] = "init" /\ lines[j] = "initialized"
Piping(kind) == \E j \in 1..Len(pipe) : pipe[j].kind = kind

BootedOnce == session.booted <=> Len(pipe) > 0
OneEra == ~(session.init /\ session.modern)
EraKept == Len(pipe) > 0 => (session.modern <=> pipe[1].kind \in Modern)
Remembered ==
    /\ Asked("init") => IF session.booted THEN Piping("init") ELSE session.init
    /\ AskedBoth => IF session.booted THEN Piping("initialized")
                    ELSE session.init /\ session.initialized

SInv == BootedOnce /\ OneEra /\ EraKept /\ Remembered /\ SessionSeen

(* What boot replays of a session *)
LEMMA BootReplays ==
    ASSUME NEW s \in Sessions
    PROVE  /\ s.modern => Len(boot(s)) = 1 /\ boot(s)[1].kind \in Modern
           /\ ~s.modern /\ s.init => Len(boot(s)) > 0 /\ boot(s)[1].kind = "init"
           /\ ~s.modern /\ s.init /\ s.initialized =>
                Len(boot(s)) = 2 /\ boot(s)[2].kind = "initialized"
           /\ ~s.modern /\ ~s.init => Len(boot(s)) = 0
<1> DEFINE m == <<Line("modern_list", ProxyId)>>
           a == <<Line("init", ProxyId)>>
           b == <<Line("initialized", ProxyId)>>
           c == a \o b
<1>1. Len(m) = 1 /\ m[1].kind \in Modern
  BY DEF Line, Modern
<1>2. Len(c) = 2 /\ c[1] = Line("init", ProxyId) /\ c[2] = Line("initialized", ProxyId)
  OBVIOUS
<1>3. Len(a) = 1 /\ a[1] = Line("init", ProxyId) /\ a \o <<>> = a
  OBVIOUS
<1>4. Line("init", ProxyId).kind = "init" /\ Line("initialized", ProxyId).kind = "initialized"
  BY DEF Line
<1>5. /\ s.modern => boot(s) = m
      /\ ~s.modern /\ ~s.init => boot(s) = <<>>
      /\ ~s.modern /\ s.init /\ s.initialized => boot(s) = c
      /\ ~s.modern /\ s.init /\ ~s.initialized => boot(s) = a
  BY <1>3 DEF boot
<1> HIDE DEF m, a, b, c
<1> QED BY <1>1, <1>2, <1>3, <1>4, <1>5

(* A line that is settled by the front end *)
LEMMA SeenLocal ==
    ASSUME Inv, SInv, NEW k \in Kinds, NEW i, i = Len(lines) + 1, i <= MaxLines,
           lines' = Append(lines, k), pipe' = pipe,
           session'.booted = session.booted,
           session.booted => session' = session /\ k \notin {"init", "initialized"},
           session.init => session'.init, session.initialized => session'.initialized,
           ~(session'.init /\ session'.modern),
           k = "init" => session'.init, k = "initialized" => session'.initialized
    PROVE  SInv'
<1>1. /\ Len(lines) \in Nat /\ Len(lines') = Len(lines) + 1 /\ lines'[i] = k
      /\ \A j \in 1..Len(lines) : lines'[j] = lines[j]
      /\ pipe \in Seq(Lines) /\ Len(pipe) \in Nat
  BY DEF Inv, TypeOK, Lines
<1>2. BootedOnce' /\ OneEra' /\ EraKept'
  BY DEF SInv, BootedOnce, OneEra, EraKept
<1>3. Asked("init")' => Asked("init") \/ k = "init"
  BY <1>1 DEF Asked
<1>4. AskedBoth' => AskedBoth \/ (k = "initialized" /\ Asked("init"))
  BY <1>1 DEF AskedBoth, Asked
<1>5. Remembered'
  BY <1>3, <1>4 DEF SInv, Remembered, Piping
<1>6. SessionSeen'
  <2>1. \A n \in 1..Len(pipe) : pipe[n].id # ProxyId =>
          pipe[n].id \in 1..Len(lines)
    BY DEF Inv, PipeNamesLines
  <2>2. \A n \in 1..Len(pipe) : pipe[n].id # ProxyId =>
          \A j \in 1..(pipe[n].id - 1) : lines'[j] = lines[j]
    BY <1>1, <2>1
  <2> QED BY <2>1, <2>2 DEF SInv, SessionSeen, Before
<1> QED BY <1>2, <1>5, <1>6 DEF SInv

(* A line that is delegated *)
LEMMA SeenPiped ==
    ASSUME Inv, SInv, NEW k \in Kinds, NEW i, i = Len(lines) + 1, i <= MaxLines,
           lines' = Append(lines, k), NEW s \in Sessions,
           pipe' = pipe \o (IF session.booted THEN <<>> ELSE boot(s)) \o <<Line(k, i)>>,
           session' = [s EXCEPT !.booted = TRUE],
           ~(s.init /\ s.modern),
           session.init => s.init, session.initialized => s.initialized,
           session.booted => s.modern = session.modern,
           ~session.booted /\ k \in Modern => s.modern \/ s.init,
           k = "initialized" => session.booted
    PROVE  SInv'
<1> DEFINE x == IF session.booted THEN <<>> ELSE boot(s)
<1>1. /\ Len(lines) \in Nat /\ Len(lines') = Len(lines) + 1 /\ lines'[i] = k /\ i \in Ids
      /\ \A j \in 1..Len(lines) : lines'[j] = lines[j]
      /\ pipe \in Seq(Lines) /\ Len(pipe) \in Nat
  BY McpAssumption DEF Inv, TypeOK, Lines, Ids
<1>2. x \in Seq(Lines) /\ \A j \in 1..Len(x) : x[j].id = ProxyId
  BY BootSends
<1>3. Line(k, i) \in Lines /\ Line(k, i).kind = k /\ Line(k, i).id = i
  BY <1>1, McpAssumption DEF Line, Lines
<1>4. /\ pipe' \in Seq(Lines)
      /\ Len(pipe') = Len(pipe) + Len(x) + 1
      /\ \A j \in 1..Len(pipe) : pipe'[j] = pipe[j]
      /\ \A j \in (Len(pipe) + 1)..(Len(pipe') - 1) : pipe'[j].id = ProxyId
      /\ \A j \in 1..Len(x) : pipe'[Len(pipe) + j] = x[j]
      /\ pipe'[Len(pipe')] = Line(k, i)
  BY <1>1, <1>2, <1>3, DelegateGrows
<1>5. session.booted => Len(x) = 0
  OBVIOUS
<1>6. ~session.booted =>
        /\ Len(pipe) = 0
        /\ s.modern => Len(x) = 1 /\ x[1].kind \in Modern
        /\ ~s.modern /\ s.init => Len(x) > 0 /\ x[1].kind = "init"
        /\ ~s.modern /\ s.init /\ s.initialized => Len(x) = 2 /\ x[2].kind = "initialized"
        /\ ~s.modern /\ ~s.init => Len(x) = 0
  BY <1>1, BootReplays DEF SInv, BootedOnce
<1>7. Len(x) \in Nat
  BY <1>2
<1> HIDE DEF x
<1>20. \A j \in 1..Len(x) : Len(pipe) = 0 => pipe'[j] = x[j] /\ j \in 1..(Len(pipe') - 1)
  <2> SUFFICES ASSUME NEW j \in 1..Len(x), Len(pipe) = 0
               PROVE  pipe'[j] = x[j] /\ j \in 1..(Len(pipe') - 1)
    OBVIOUS
  <2>1. Len(pipe) + j = j /\ Len(pipe') - 1 = Len(x)
    BY <1>4, <1>7
  <2> QED BY <1>4, <2>1
<1>8. session'.booted /\ session'.modern = s.modern /\ session'.init = s.init
  BY DEF Sessions
<1>9. BootedOnce' /\ OneEra'
  BY <1>1, <1>4, <1>7, <1>8 DEF BootedOnce, OneEra
<1>10. EraKept'
  <2>1. CASE session.booted
    BY <1>1, <1>4, <1>8, <2>1 DEF EraKept, SInv, BootedOnce
  <2>2. CASE ~session.booted /\ Len(x) = 0
    BY <1>3, <1>4, <1>6, <1>8, <2>2 DEF EraKept
  <2>3. CASE ~session.booted /\ Len(x) # 0
    <3>1. pipe'[1] = x[1]
      BY <1>20, <1>6, <1>7, <2>3
    <3> QED BY <1>6, <1>8, <2>3, <3>1 DEF EraKept, Modern
  <2> QED BY <2>1, <2>2, <2>3
<1> DEFINE Seen(kind) == \E j \in 1..(Len(pipe') - 1) : pipe'[j].kind = kind
<1>11. Asked("init") => Seen("init")
  <2> SUFFICES ASSUME Asked("init") PROVE Seen("init")
    OBVIOUS
  <2>1. CASE session.booted
    BY <1>1, <1>4, <1>7, <2>1 DEF SInv, Remembered, Piping
  <2>2. CASE ~session.booted
    <3>1. s.init /\ Len(x) > 0 /\ x[1].kind = "init" /\ Len(pipe) = 0
      BY <1>6, <2>2 DEF SInv, Remembered
    <3>2. pipe'[1].kind = "init" /\ 1 \in 1..(Len(pipe') - 1)
      <4>1. 1 \in 1..Len(x)
        BY <1>7, <3>1
      <4> QED BY <1>20, <3>1, <4>1
    <3> QED BY <3>2
  <2> QED BY <2>1, <2>2
<1>12. AskedBoth => Seen("initialized")
  <2> SUFFICES ASSUME AskedBoth PROVE Seen("initialized")
    OBVIOUS
  <2>1. CASE session.booted
    BY <1>1, <1>4, <1>7, <2>1 DEF SInv, Remembered, Piping
  <2>2. CASE ~session.booted
    <3>1. Len(x) = 2 /\ x[2].kind = "initialized" /\ Len(pipe) = 0
      BY <1>6, <2>2 DEF SInv, Remembered
    <3>2. pipe'[2].kind = "initialized" /\ 2 \in 1..(Len(pipe') - 1)
      BY <1>20, <3>1
    <3> QED BY <3>2
  <2> QED BY <2>1, <2>2
<1>13. ASSUME NEW kind, Seen(kind) \/ kind = k
       PROVE  Piping(kind)'
  <2>1. \A j \in 1..(Len(pipe') - 1) : j \in 1..Len(pipe')
    BY <1>1, <1>4, <1>7
  <2>2. Len(pipe') \in 1..Len(pipe') /\ pipe'[Len(pipe')].kind = k
    BY <1>1, <1>3, <1>4, <1>7
  <2> QED BY <1>13, <2>1, <2>2 DEF Piping
<1>14. Remembered'
  <2>1. Asked("init")' => Asked("init") \/ k = "init"
    BY <1>1 DEF Asked
  <2>2. AskedBoth' => AskedBoth \/ k = "initialized"
    BY <1>1 DEF AskedBoth
  <2> HIDE DEF Seen
  <2> QED BY <1>8, <1>11, <1>12, <1>13, <2>1, <2>2 DEF Remembered
<1>15. SessionSeen'
  <2> DEFINE After(r) == \E j \in 1..(r - 1) : lines'[j] = "init"
             AfterBoth(r) == \E h, j \in 1..(r - 1) :
                               h < j /\ lines'[h] = "init" /\ lines'[j] = "initialized"
  <2> SUFFICES ASSUME NEW n \in 1..Len(pipe'), pipe'[n].id # ProxyId
               PROVE  /\ After(pipe'[n].id) => Before(n, "init")'
                      /\ AfterBoth(pipe'[n].id) => Before(n, "initialized")'
    BY DEF SessionSeen
  <2> DEFINE r == pipe'[n].id
  <2>1. CASE n \in 1..Len(pipe)
    <3>1. pipe'[n] = pipe[n] /\ r \in 1..Len(lines)
      BY <1>4, <2>1 DEF Inv, PipeNamesLines
    <3>2. \A j \in 1..(r - 1) : lines'[j] = lines[j]
      BY <1>1, <3>1
    <3>3. \A j \in 1..(n - 1) : pipe'[j] = pipe[j]
      BY <1>1, <1>4, <2>1
    <3>4. /\ After(r) => Before(n, "init")
          /\ AfterBoth(r) => Before(n, "initialized")
      BY <2>1, <3>1, <3>2 DEF SInv, SessionSeen
    <3> HIDE DEF After, AfterBoth, r
    <3> QED BY <3>3, <3>4 DEF Before, r
  <2>2. CASE n = Len(pipe')
    <3>1. r = i
      BY <1>3, <1>4, <2>2
    <3>2. After(r) => Asked("init")
      BY <1>1, <3>1 DEF Asked
    <3>3. AfterBoth(r) => AskedBoth
      BY <1>1, <3>1 DEF AskedBoth
    <3>4. /\ Seen("init") => Before(n, "init")'
          /\ Seen("initialized") => Before(n, "initialized")'
      BY <2>2 DEF Before
    <3> HIDE DEF Seen, After, AfterBoth, r
    <3> QED BY <1>11, <1>12, <3>2, <3>3, <3>4 DEF r
  <2>3. n \in 1..Len(pipe) \/ n \in (Len(pipe) + 1)..(Len(pipe') - 1) \/ n = Len(pipe')
    <3> DEFINE u == Len(pipe)
               v == Len(pipe')
    <3>1. u \in Nat /\ v \in Nat /\ n \in 1..v
      BY <1>1, <1>4
    <3> HIDE DEF u, v
    <3>2. n \in 1..u \/ n \in (u + 1)..(v - 1) \/ n = v
      BY <3>1
    <3> QED BY <3>2 DEF u, v
  <2> QED BY <1>4, <2>1, <2>2, <2>3
<1> QED BY <1>9, <1>10, <1>14, <1>15 DEF SInv

(* Every handler does one or the other, and keeps what the session is for *)
LEMMA HandleSeen ==
    ASSUME Inv, SInv, NEW k \in Kinds, handle(k)
    PROVE  SInv'
<1> DEFINE i == Len(lines) + 1
<1>1. i <= MaxLines /\ lines' = Append(lines, k) /\ session \in Sessions
  BY DEF handle, Inv, TypeOK, Sessions
<1> HIDE DEF i
<1> DEFINE si == [session EXCEPT !.init = TRUE]
           sm == [session EXCEPT !.modern = TRUE]
           sn == [session EXCEPT !.initialized = TRUE]
<1>2. /\ si \in Sessions /\ si.init /\ si.modern = session.modern
      /\ si.initialized = session.initialized /\ si.booted = session.booted
      /\ sm \in Sessions /\ sm.modern /\ sm.init = session.init
      /\ sm.initialized = session.initialized /\ sm.booted = session.booted
      /\ sn \in Sessions /\ sn.initialized /\ sn.init = session.init
      /\ sn.modern = session.modern /\ sn.booted = session.booted
  BY <1>1 DEF Sessions
<1> HIDE DEF si, sm, sn
<1>3. ASSUME delegate(session, k, i), k = "initialized" => session.booted,
             ~session.booted /\ k \in Modern => session.modern \/ session.init
      PROVE  SInv'
  BY <1>1, <1>3, SeenPiped DEF delegate, i, SInv, OneEra
<1>4. ASSUME answer(session, i), k \notin {"init", "initialized"}
      PROVE  SInv'
  BY <1>1, <1>4, SeenLocal DEF answer, i, SInv, OneEra
<1>5. CASE k = "init"
  <2>1. handle_init(i)
    BY <1>5 DEF handle, i, Notifications, Modern, Envelopes
  <2>2. CASE session.init \/ session.modern
    BY <1>3, <1>5, <2>1, <2>2 DEF handle_init, Modern
  <2>3. CASE ~(session.init \/ session.modern) /\ session.booted
    <3>1. delegate(si, k, i)
      BY <1>5, <2>1, <2>3 DEF handle_init, si
    <3> QED BY <1>1, <1>2, <1>5, <2>3, <3>1, SeenPiped DEF delegate, i
  <2>4. CASE ~(session.init \/ session.modern) /\ ~session.booted
    <3>1. session' = si /\ pipe' = pipe
      BY <2>1, <2>4 DEF handle_init, si, answer
    <3> QED BY <1>1, <1>2, <1>5, <2>4, <3>1, SeenLocal DEF i
  <2> QED BY <2>2, <2>3, <2>4
<1>6. CASE k \in Silent
  <2>1. /\ k \in Notifications => handle_notification(k, i)
        /\ k \notin Notifications => k = "response" /\ forward_if_booted(k, i)
    BY <1>6 DEF handle, i, Silent, Notifications, Modern, Envelopes
  <2>2. CASE k = "initialized" /\ ~session.booted
    <3>1. session' = sn /\ pipe' = pipe
      BY <2>1, <2>2 DEF handle_notification, sn, Notifications
    <3> QED BY <1>1, <1>2, <2>2, <3>1, SeenLocal DEF i, SInv, OneEra
  <2>3. CASE ~(k = "initialized" /\ ~session.booted) /\ session.booted
    <3>1. pipe' = Append(pipe, Line(k, i)) /\ session' = session /\ NoReply
      BY <2>1, <2>3 DEF handle_notification, forward_if_booted
    <3>2. delegate(session, k, i)
      <4> DEFINE l == Line(k, i)
      <4>1. pipe \in Seq(Lines) /\ l \in Lines
        BY <1>1, McpAssumption DEF Inv, TypeOK, Lines, Line, Ids, i
      <4> HIDE DEF l
      <4>2. Append(pipe, l) = pipe \o <<>> \o <<l>>
        BY <4>1
      <4>3. session' = [session EXCEPT !.booted = TRUE]
        BY <1>1, <2>3, <3>1 DEF Sessions
      <4> QED BY <2>3, <3>1, <4>2, <4>3 DEF delegate, l
    <3> QED BY <1>3, <2>3, <3>2
  <2>4. CASE ~(k = "initialized" /\ ~session.booted) /\ ~session.booted
    <3>1. session' = session /\ pipe' = pipe
      BY <2>1, <2>4 DEF handle_notification, forward_if_booted
    <3> QED BY <1>1, <1>6, <2>4, <3>1, SeenLocal DEF i, SInv, OneEra, Silent, Notifications
  <2> QED BY <2>2, <2>3, <2>4
<1>7. CASE k \in Envelopes
  <2>1. handle_modern(k, i) /\ k \notin {"init", "initialized"}
    BY <1>7 DEF handle, i, Notifications, Modern, Envelopes
  <2>2. CASE k \notin Modern \/ ~(session.modern \/ (~session.init /\ ~session.booted))
    BY <1>3, <2>1, <2>2 DEF handle_modern
  <2>3. CASE k \in Modern /\ session.modern
    <3>1. sm = session
      BY <1>1, <2>3 DEF sm, Sessions
    <3>2. answer(sm, i) \/ delegate(sm, k, i)
      BY <2>1, <2>3 DEF handle_modern, sm
    <3> QED BY <1>3, <1>4, <2>1, <2>3, <3>1, <3>2
  <2>4. CASE k \in Modern /\ ~session.modern /\ ~session.init /\ ~session.booted
    <3>1. answer(sm, i) \/ delegate(sm, k, i)
      BY <2>1, <2>4 DEF handle_modern, sm
    <3>2. CASE answer(sm, i)
      BY <1>1, <1>2, <2>1, <2>4, <3>2, SeenLocal DEF answer, i
    <3>3. CASE delegate(sm, k, i)
      BY <1>1, <1>2, <2>1, <2>4, <3>3, SeenPiped DEF delegate, i
    <3> QED BY <3>1, <3>2, <3>3
  <2> QED BY <2>2, <2>3, <2>4
<1>8. CASE k \in {"list", "level"}
  <2>1. local_result(k, i) /\ k \notin {"init", "initialized"} /\ k \notin Modern
    BY <1>8 DEF handle, i, Notifications, Modern, Envelopes
  <2> QED BY <1>3, <1>4, <2>1 DEF local_result
<1>9. CASE k \in {"native", "write"}
  <2>1. native_call(k, i) /\ k \notin {"init", "initialized"} /\ k \notin Modern
    BY <1>9 DEF handle, i, Notifications, Modern, Envelopes
  <2> QED BY <1>3, <1>4, <2>1 DEF native_call
<1>10. CASE k \notin {"init", "list", "level", "native", "write"}
               \cup Silent \cup Envelopes
  <2>1. delegate(session, k, i) /\ k \notin {"init", "initialized"} /\ k \notin Modern
    BY <1>10 DEF handle, i, Notifications, Silent, Envelopes
  <2> QED BY <1>3, <2>1
<1> QED BY <1>5, <1>6, <1>7, <1>8, <1>9, <1>10

LEMMA SInvHolds == Spec => []SInv
<1>1. Init => SInv
  BY DEF Init, SInv, BootedOnce, OneEra, EraKept, Remembered, SessionSeen, Asked, AskedBoth
<1>2. Inv /\ SInv /\ [Next]_vars => SInv'
  <2> SUFFICES ASSUME Inv, SInv, [Next]_vars PROVE SInv'
    OBVIOUS
  <2>1. CASE \E k \in Kinds : handle(k)
    BY <2>1, HandleSeen
  <2>2. CASE UNCHANGED <<lines, session, pipe>>
    BY <2>2 DEF SInv, BootedOnce, OneEra, EraKept, Remembered, SessionSeen, Asked, AskedBoth,
                Piping, Before
  <2> QED BY <2>1, <2>2 DEF Next, vars, serve_eof, serve_return, BackendRead, BackendReply,
                              BackendEnds, relay
<1> QED BY <1>1, <1>2, InvHolds, PTL DEF Spec

(* For any session: a line that reaches the backend does so after the
   initialize, and after the initialized notification, that the client sent
   before it, even if boot had to replay them                                *)
THEOREM SessionIsSeen == Spec => []SessionSeen
<1>1. SInv => SessionSeen
  BY DEF SInv
<1> QED BY <1>1, SInvHolds, PTL

(* For any session: the front end serves the client in the 2026-07-28 era exactly
   if the first line of the pipe is an envelope of that revision, whatever
   envelopes of other revisions come with it, and never after an initialize  *)
THEOREM ErasAgree == Spec => []EraAgrees
<1>1. Inv /\ SInv => EraAgrees
  <2> SUFFICES ASSUME Inv, SInv PROVE EraAgrees
    OBVIOUS
  <2>1. pipe # <<>> => Len(pipe) > 0
    <3>1. pipe \in Seq(Lines)
      BY DEF Inv, TypeOK, Lines
    <3> QED BY <3>1
  <2> QED BY <2>1 DEF SInv, OneEra, EraKept, EraAgrees
<1> QED BY <1>1, InvHolds, SInvHolds, PTL
----------------------------------------------------------------------------
(* Nothing is lost: what keeps ReturnsRelayed *)

(* The requests written to the backend that it has not read *)
Unread == {pipe[j].id : j \in (read + 1)..Len(pipe)}

(* A request that is nowhere else is in the pipe *)
Somewhere == Requests \subseteq sent \cup working \cup replies \cup Unread

(* Without a backend nothing is being answered; it closes its replies when it has
   read everything, and serve returns when the last of them is delivered     *)
Quiet ==
    /\ ~session.booted => pipe = <<>> /\ working = {} /\ replies = {}
    /\ closed => ~open /\ read = Len(pipe)
    /\ returned => /\ ~open
                   /\ session.booted => closed /\ replies = {}

RInv == Somewhere /\ Quiet

LEMMA HandleLoses ==
    ASSUME Inv, RInv, NEW k \in Kinds, handle(k)
    PROVE  RInv'
<1> DEFINE i == Len(lines) + 1
<1>1. /\ Len(lines) \in Nat /\ lines' = Append(lines, k) /\ Len(lines') = i
      /\ \A j \in 1..Len(lines) : lines'[j] = lines[j]
      /\ lines'[i] = k /\ open /\ open' = open
      /\ UNCHANGED <<read, working, replies, closed, returned>>
      /\ pipe \in Seq(Lines) /\ read \in 0..Len(pipe) /\ i \in Ids
  BY McpAssumption DEF handle, Inv, TypeOK, ends, Lines, Ids
<1>2. Requests' = Requests \cup (IF k \in Silent THEN {} ELSE {i})
  BY <1>1 DEF Requests
<1>3. ~closed /\ ~returned
  BY <1>1 DEF RInv, Quiet
<1>4. CASE Local(k, i)
  <2>1. Unread' = Unread
    BY <1>1, <1>4 DEF Unread, Local
  <2>2. sent' = sent \cup (IF k \in Silent THEN {} ELSE {i})
    BY <1>4 DEF Local, reply, NoReply
  <2>3. Somewhere'
    BY <1>1, <1>2, <2>1, <2>2 DEF RInv, Somewhere
  <2> QED BY <1>1, <1>3, <1>4, <2>3 DEF RInv, Quiet, Local
<1>5. CASE Piped(k, i)
  <2>1. PICK x \in Seq(Lines) :
          /\ \A j \in 1..Len(x) : x[j].id = ProxyId
          /\ pipe' = pipe \o x \o <<Line(k, i)>>
    BY <1>5 DEF Piped
  <2>2. Line(k, i) \in Lines /\ Line(k, i).id = i
    BY <1>1, McpAssumption DEF Line, Lines
  <2>3. /\ pipe' \in Seq(Lines) /\ Len(pipe') = Len(pipe) + Len(x) + 1
        /\ \A j \in 1..Len(pipe) : pipe'[j] = pipe[j]
        /\ pipe'[Len(pipe')] = Line(k, i)
    BY <1>1, <2>1, <2>2, DelegateGrows
  <2>4. Len(x) \in Nat /\ Len(pipe) \in Nat /\ read \in Nat /\ read' = read
    BY <1>1, <2>1
  <2>5. i \in Unread'
    <3>1. Len(pipe') \in (read' + 1)..Len(pipe')
      BY <1>1, <2>3, <2>4
    <3> QED BY <2>2, <2>3, <3>1 DEF Unread
  <2>6. Unread \subseteq Unread'
    <3> SUFFICES ASSUME NEW j \in (read + 1)..Len(pipe)
                 PROVE  pipe[j].id \in Unread'
      BY DEF Unread
    <3>1. j \in 1..Len(pipe) /\ j \in (read' + 1)..Len(pipe')
      BY <2>3, <2>4
    <3>2. pipe'[j] = pipe[j]
      BY <2>3, <3>1
    <3> QED BY <3>1, <3>2 DEF Unread
  <2>7. sent' = sent
    BY <1>5 DEF Piped, NoReply
  <2>8. Somewhere'
    BY <1>1, <1>2, <2>5, <2>6, <2>7 DEF RInv, Somewhere
  <2> QED BY <1>1, <1>3, <1>5, <2>8 DEF RInv, Quiet, Piped
<1> QED BY <1>4, <1>5, HandleSettlesOrPipes

LEMMA RInvHolds == Spec => []RInv
<1>1. Init => RInv
  BY DEF Init, RInv, Somewhere, Quiet, Requests
<1>2. Inv /\ RInv /\ [Next]_vars => RInv'
  <2> SUFFICES ASSUME Inv, RInv, [Next]_vars PROVE RInv'
    OBVIOUS
  <2>1. CASE \E k \in Kinds : handle(k)
    BY <2>1, HandleLoses
  <2>2. CASE serve_eof \/ serve_return \/ BackendEnds \/ UNCHANGED vars
    <3>1. UNCHANGED <<lines, session, pipe, read, working, replies, sent>>
      BY <2>2 DEF serve_eof, serve_return, BackendEnds, vars
    <3>2. Somewhere'
      BY <3>1 DEF RInv, Somewhere, Requests, Unread
    <3>3. Quiet'
      BY <2>2, <3>1 DEF RInv, Quiet, serve_eof, serve_return, BackendEnds, vars, ends
    <3> QED BY <3>2, <3>3 DEF RInv
  <2>3. CASE BackendRead
    <3> DEFINE l == pipe[read + 1]
    <3>1. /\ read < Len(pipe) /\ read' = read + 1
          /\ working' = IF l.kind \in Silent THEN working ELSE working \cup {l.id}
          /\ UNCHANGED <<lines, session, pipe, replies, sent, open, closed, returned>>
          /\ read \in Nat /\ Len(pipe) \in Nat
      BY <2>3 DEF BackendRead, Inv, TypeOK, ends
    <3>2. Unread \subseteq Unread' \cup {l.id}
      <4> SUFFICES ASSUME NEW j \in (read + 1)..Len(pipe), j # read + 1
                   PROVE  pipe[j].id \in Unread'
        BY DEF Unread
      <4>1. j \in (read' + 1)..Len(pipe')
        BY <3>1
      <4> QED BY <3>1, <4>1 DEF Unread
    <3>3. l.kind \in Silent => l.id \notin Requests
      <4>1. read + 1 \in 1..Len(pipe)
        BY <3>1
      <4>2. CASE l.id = ProxyId
        BY <4>2 DEF ProxyId, Requests
      <4>3. CASE l.id # ProxyId
        BY <4>1, <4>3 DEF Inv, PipeNamesLines, Requests
      <4> QED BY <4>2, <4>3
    <3> HIDE DEF l
    <3>4. Requests' = Requests
      BY <3>1 DEF Requests
    <3>5. Somewhere'
      BY <3>1, <3>2, <3>3, <3>4 DEF RInv, Somewhere
    <3>6. session.booted
      BY <3>1 DEF RInv, Quiet
    <3>7. Quiet'
      BY <3>1, <3>6 DEF RInv, Quiet
    <3> QED BY <3>5, <3>7 DEF RInv
  <2>4. CASE BackendReply
    <3>1. PICK n \in working :
            /\ ~closed /\ working' = working \ {n} /\ replies' = replies \cup {n}
            /\ UNCHANGED <<lines, session, pipe, read, sent, open, closed, returned>>
      BY <2>4 DEF BackendReply, ends
    <3>2. Somewhere'
      <4>1. Requests' = Requests /\ Unread' = Unread
        BY <3>1 DEF Requests, Unread
      <4> QED BY <3>1, <4>1 DEF RInv, Somewhere
    <3>3. Quiet'
      BY <3>1 DEF RInv, Quiet
    <3> QED BY <3>2, <3>3 DEF RInv
  <2>5. CASE relay
    <3>1. PICK n \in replies :
            /\ replies' = replies \ {n}
            /\ IF n = ProxyId THEN NoReply ELSE reply(n)
            /\ UNCHANGED <<lines, session, pipe, read, working, open, closed, returned>>
      BY <2>5 DEF relay, ends
    <3>2. Somewhere'
      <4>1. Requests' = Requests /\ Unread' = Unread /\ ProxyId \notin Requests
        BY <3>1 DEF Requests, Unread, ProxyId
      <4>2. sent \subseteq sent' /\ (n # ProxyId => n \in sent')
        BY <3>1 DEF NoReply, reply
      <4> QED BY <3>1, <4>1, <4>2 DEF RInv, Somewhere
    <3>3. Quiet'
      BY <3>1 DEF RInv, Quiet
    <3> QED BY <3>2, <3>3 DEF RInv
  <2> QED BY <2>1, <2>2, <2>3, <2>4, <2>5 DEF Next
<1> QED BY <1>1, <1>2, InvHolds, PTL DEF Spec

(* For any session: when serve_return ends the process, a request the client has
   no reply to is one the backend read and left unanswered; no line is left in
   the pipe and no reply between the backend and the relay                   *)
THEOREM ReturnsRelayedHolds == Spec => []ReturnsRelayed
<1>1. Inv /\ RInv => ReturnsRelayed
  <2> SUFFICES ASSUME Inv, RInv, returned PROVE Requests \ sent \subseteq working
    BY DEF ReturnsRelayed
  <2>1. replies = {} /\ read = Len(pipe)
    <3>1. CASE session.booted
      BY <3>1 DEF RInv, Quiet
    <3>2. CASE ~session.booted
      <4>1. pipe = <<>> /\ replies = {}
        BY <3>2 DEF RInv, Quiet
      <4> QED BY <4>1 DEF Inv, TypeOK
    <3> QED BY <3>1, <3>2
  <2>2. Unread = {}
    BY <2>1 DEF Unread, Inv, TypeOK
  <2> QED BY <2>1, <2>2 DEF RInv, Somewhere
<1> QED BY <1>1, InvHolds, RInvHolds, PTL
============================================================================

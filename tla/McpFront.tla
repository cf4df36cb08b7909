------------------------------ MODULE McpFront ------------------------------
(***************************************************************************)
(* The stdio front end of `dagayn serve`: one thread reads the client's    *)
(* lines and answers what only describes the server; everything else goes  *)
(* through a pipe to the Python backend, booted on first use, and a relay  *)
(* thread copies the backend's replies to the client.                      *)
(*                                                                         *)
(* A line is its kind; the n-th line has id n, and its reply is named by   *)
(* it.  ProxyId is the id of what the front end itself sends.              *)
(***************************************************************************)
EXTENDS Naturals, Sequences, FiniteSets

CONSTANTS
    Kinds,      \* the kinds of lines the client sends
    MaxLines    \* bound on the lines of a session

(* init: initialize; initialized: its notification; level: logging/setLevel;
   list: a listing, ping or recorded prompt; native, write: tools/call of a tool
   the front end may answer, the second one writing the graph; call: any other
   request; note: another notification; response: a line without a method, the
   client's reply to a request of the backend; garbage: a line that is not JSON;
   modern_list, modern_call: the same in the 2026-07-28 envelope; modern_other: a
   request in the envelope of another revision                               *)
AllKinds == {"init", "initialized", "level", "list", "native", "write", "call",
             "note", "response", "garbage", "modern_list", "modern_call",
             "modern_other"}
Notifications == {"initialized", "note"}
Silent == Notifications \cup {"response"}     \* what nobody answers
Modern == {"modern_list", "modern_call"}
Envelopes == Modern \cup {"modern_other"}

ASSUME McpAssumption ==
    /\ Kinds \subseteq AllKinds
    /\ MaxLines \in Nat

VARIABLES
    lines,      \* the lines read so far
    session,    \* Session: init_params, initialized, modern, proxy
    pipe,       \* every line written to the backend
    read,       \* how many of them it has read
    working,    \* requests the backend is answering
    replies,    \* replies it wrote that the relay has not copied
    sent,       \* ids of the replies the client got
    doubled,    \* whether it got one twice
    open,       \* whether the input, and the request pipe, is still open
    closed,     \* whether the backend has closed its replies
    returned    \* whether serve has returned

ends == <<closed, returned>>
vars == <<lines, session, pipe, read, working, replies, sent, doubled, open, ends>>

ProxyId == 0
Ids == 1..MaxLines
Line(k, i) == [kind |-> k, id |-> i]

Init ==
    /\ lines = <<>>
    /\ session = [init |-> FALSE, initialized |-> FALSE, modern |-> FALSE,
                  booted |-> FALSE]
    /\ pipe = <<>> /\ read = 0
    /\ working = {} /\ replies = {} /\ sent = {} /\ doubled = FALSE
    /\ open = TRUE /\ closed = FALSE /\ returned = FALSE

----------------------------------------------------------------------------
(* The front end *)

(* reply, write_line: under the output's mutex *)
reply(i) == sent' = sent \cup {i} /\ doubled' = (doubled \/ i \in sent)
NoReply == UNCHANGED <<sent, doubled>>

(* Mutant: the notification the front end kept is not replayed *)
boot_handshake_only(s) ==
    IF s.modern THEN <<Line("modern_list", ProxyId)>>
    ELSE IF ~s.init THEN <<>>
    ELSE <<Line("init", ProxyId)>>

(* Mutant: a connection without initialize is replayed nothing *)
boot_no_discover(s) ==
    IF ~s.init THEN <<>>
    ELSE <<Line("init", ProxyId)>>
         \o IF s.initialized THEN <<Line("initialized", ProxyId)>> ELSE <<>>

(* Mutant: the era is replayed under a method the backend does not have *)
boot_discover(s) ==
    IF s.modern THEN <<Line("discover", ProxyId)>>
    ELSE IF ~s.init THEN <<>>
    ELSE <<Line("init", ProxyId)>>

(* boot: the backend is given the session the client opened, its reply to
   which is dropped by the relay                                            *)
boot(s) ==
    IF s.modern THEN <<Line("modern_list", ProxyId)>>
    ELSE IF ~s.init THEN <<>>
    ELSE <<Line("init", ProxyId)>>
         \o IF s.initialized THEN <<Line("initialized", ProxyId)>> ELSE <<>>

(* Mutant: the line that boots the backend is not forwarded *)
delegate_boot_only(s, k, i) ==
    /\ pipe' = IF session.booted THEN Append(pipe, Line(k, i)) ELSE pipe \o boot(s)
    /\ session' = [s EXCEPT !.booted = TRUE]
    /\ NoReply

(* delegate: boots the backend if none runs, then forwards the line *)
delegate(s, k, i) ==
    /\ pipe' = pipe \o (IF session.booted THEN <<>> ELSE boot(s)) \o <<Line(k, i)>>
    /\ session' = [s EXCEPT !.booted = TRUE]
    /\ NoReply

(* forward_if_booted: a notification nobody listens to is dropped *)
forward_if_booted(k, i) ==
    /\ pipe' = IF session.booted THEN Append(pipe, Line(k, i)) ELSE pipe
    /\ UNCHANGED session /\ NoReply

answer(s, i) == reply(i) /\ session' = s /\ UNCHANGED pipe

(* initialize, before and after the backend was booted without one *)
handle_init(i) ==
    LET s == [session EXCEPT !.init = TRUE] IN
    IF session.init \/ session.modern THEN delegate(session, "init", i)
    ELSE IF session.booted THEN delegate(s, "init", i)
    ELSE answer(s, i)

(* Mutant: a notification is acknowledged like a request *)
handle_notification_acked(k, i) ==
    /\ session' = IF k = "initialized" /\ ~session.booted
                  THEN [session EXCEPT !.initialized = TRUE] ELSE session
    /\ pipe' = IF session.booted THEN Append(pipe, Line(k, i)) ELSE pipe
    /\ reply(i)

handle_notification(k, i) ==
    IF k = "initialized" /\ ~session.booted
    THEN /\ session' = [session EXCEPT !.initialized = TRUE]
         /\ UNCHANGED pipe /\ NoReply
    ELSE forward_if_booted(k, i)

(* A request in an envelope: the first one of revision 2026-07-28 on a fresh
   connection decides its era; another revision, or an envelope on a handshake
   connection, is the backend's to answer                                   *)
handle_modern(k, i) ==
    LET fresh == ~session.init /\ ~session.booted
        s == [session EXCEPT !.modern = TRUE]
    IN  IF k \notin Modern \/ ~(session.modern \/ fresh) THEN delegate(session, k, i)
        ELSE IF k = "modern_list" THEN answer(s, i)
        ELSE answer(s, i) \/ delegate(s, k, i)

(* local_result, prompt_get: only after initialize; the log level only until
   the backend keeps its own                                                *)
local_result(k, i) ==
    IF session.init /\ (k = "list" \/ ~session.booted) THEN answer(session, i)
    ELSE delegate(session, k, i)

(* native_call: a tool may be declined, and one that writes the graph is
   answered only while no backend runs                                      *)
native_call(k, i) ==
    \/ /\ session.init /\ ~(k = "write" /\ session.booted)
       /\ answer(session, i)
    \/ delegate(session, k, i)

(* handle: one line of the client *)
handle(k) ==
    LET i == Len(lines) + 1 IN
    /\ open /\ i <= MaxLines
    /\ lines' = Append(lines, k)
    /\ CASE k = "init" -> handle_init(i)
         [] k \in Notifications -> handle_notification(k, i)
         [] k = "response" -> forward_if_booted(k, i)
         [] k \in Envelopes -> handle_modern(k, i)
         [] k \in {"list", "level"} -> local_result(k, i)
         [] k \in {"native", "write"} -> native_call(k, i)
         [] OTHER -> delegate(session, k, i)
    /\ UNCHANGED <<read, working, replies, open, ends>>

(* serve at the end of the input: the request pipe is closed *)
serve_eof ==
    /\ open
    /\ open' = FALSE
    /\ UNCHANGED <<lines, session, pipe, read, working, replies, sent, doubled, ends>>

(* Mutant: serve returns when the backend is done, without joining the relay *)
serve_return_unjoined ==
    /\ ~open /\ ~returned
    /\ session.booted => closed
    /\ returned' = TRUE
    /\ UNCHANGED <<lines, session, pipe, read, working, replies, sent, doubled,
                   open, closed>>

(* The relay is joined, which ends with the backend's replies; serve returns,
   and with it the process                                                  *)
serve_return ==
    /\ ~open /\ ~returned
    /\ session.booted => closed /\ replies = {}
    /\ returned' = TRUE
    /\ UNCHANGED <<lines, session, pipe, read, working, replies, sent, doubled,
                   open, closed>>

----------------------------------------------------------------------------
(* The backend: reads in order, answers in any order, and closes its replies
   once it has read the end of the requests, some perhaps still unanswered  *)

BackendRead ==
    /\ read < Len(pipe)
    /\ read' = read + 1
    /\ working' = IF pipe[read + 1].kind \in Silent THEN working
                  ELSE working \cup {pipe[read + 1].id}
    /\ UNCHANGED <<lines, session, pipe, replies, sent, doubled, open, ends>>

BackendReply ==
    \E i \in working :
        /\ ~closed
        /\ working' = working \ {i}
        /\ replies' = replies \cup {i}
        /\ UNCHANGED <<lines, session, pipe, read, sent, doubled, open, ends>>

BackendEnds ==
    /\ session.booted /\ ~open /\ ~closed /\ read = Len(pipe)
    /\ closed' = TRUE
    /\ UNCHANGED <<lines, session, pipe, read, working, replies, sent, doubled, open,
                   returned>>

(* relay: all but the reply to the replayed initialize or server/discover *)
relay ==
    \E i \in replies :
        /\ ~returned
        /\ replies' = replies \ {i}
        /\ IF i = ProxyId THEN NoReply ELSE reply(i)
        /\ UNCHANGED <<lines, session, pipe, read, working, open, ends>>

Next ==
    \/ \E k \in Kinds : handle(k)
    \/ serve_eof \/ serve_return \/ relay
    \/ BackendRead \/ BackendReply \/ BackendEnds

Fairness == WF_vars(BackendRead) /\ WF_vars(BackendReply) /\ WF_vars(relay)

Spec == Init /\ [][Next]_vars /\ Fairness

----------------------------------------------------------------------------
(* Properties *)

Requests == {i \in 1..Len(lines) : lines[i] \notin Silent}

(* The session, the pipe and the sets of ids are well formed; what is written to
   the backend is a line it knows. *)
TypeOK ==
    /\ lines \in Seq(Kinds) /\ Len(lines) <= MaxLines
    /\ session \in [init : BOOLEAN, initialized : BOOLEAN, modern : BOOLEAN,
                    booted : BOOLEAN]
    /\ pipe \in Seq([kind : AllKinds, id : Ids \cup {ProxyId}])
    /\ read \in 0..Len(pipe)
    /\ working \subseteq Ids \cup {ProxyId} /\ replies \subseteq Ids \cup {ProxyId}
    /\ doubled \in BOOLEAN /\ open \in BOOLEAN
    /\ closed \in BOOLEAN /\ returned \in BOOLEAN

(* The client gets replies only to its own requests, each once: a request is
   answered by the front end or delegated, never both, and the reply to the
   replayed handshake does not reach the client.                             *)
RepliesOnce == sent \subseteq Requests /\ ~doubled

(* Where the client's n-th line is in the pipe, and what precedes it *)
Before(k, kind) == \E j \in 1..(k - 1) : pipe[j].kind = kind

(* The backend sees the session the client opened: a request the client sent
   after its initialize, or after the initialized notification that follows it,
   reaches the backend after an initialize, or such a notification, although
   both were answered or kept before the backend existed.                    *)
SessionSeen ==
    \A k \in 1..Len(pipe) :
        LET r == pipe[k].id IN
        r # ProxyId =>
            /\ (\E j \in 1..(r - 1) : lines[j] = "init") => Before(k, "init")
            /\ (\E h, j \in 1..(r - 1) :
                    h < j /\ lines[h] = "init" /\ lines[j] = "initialized")
               => Before(k, "initialized")

(* The era of the connection is decided once, and the backend decides as the
   front end did: the client is served in the 2026-07-28 era exactly if the
   first line the backend reads is an envelope of that revision.  (An envelope
   of another revision decides nothing here: the backend reads it as it is.)  *)
EraAgrees ==
    /\ ~(session.init /\ session.modern)
    /\ pipe # <<>> => (session.modern <=> pipe[1].kind \in Modern)

(* Every request is answered, after the end of the input too, unless the backend
   closes its replies without answering it.                                  *)
EveryRequestAnswered ==
    \A i \in Ids : (i \in Requests) ~> (i \in sent \/ (closed /\ i \in working))

(* serve returns, and the process ends, only when nothing is on its way any
   more: a request the client has no reply to is one the backend read and left
   unanswered.  ("Returns after the backend, if it was booted, has closed its
   replies", lib.rs.)                                                        *)
ReturnsRelayed == returned => Requests \ sent \subseteq working
============================================================================

------------------------------- MODULE McpHttp -------------------------------
(***************************************************************************)
(* The HTTP transports of ferrin-mcp.  The streamable one                  *)
(* (transport/http.rs, http_stream.rs): posts that may be answered late,   *)
(* by one JSON body or by a stream of their own; the session id learned    *)
(* from responses and cleared by a 404; the inbound stream, restarted and  *)
(* resumed; close.                                                         *)
(*                                                                         *)
(* The server answers a request with what is true when it handles it; the  *)
(* answer reaches the client any time later.  A success may name the       *)
(* session it assigns, or the one the request was sent under; failures     *)
(* name none.                                                              *)
(***************************************************************************)
EXTENDS Naturals, FiniteSets, Sequences

CONSTANTS
    Initializes, Requests, Notifications,   \* messages to send
    Inbounds,             \* inbound stream tasks there may be at once
    MaxSession,           \* sessions the server may ever name
    MaxEvents,            \* events of a session's inbound stream
    MaxRetries,           \* ReconnectionOptions::max_retries
    MaxRedirects          \* UrlPolicy::max_redirects

ASSUME McpHttpAssumption ==
    /\ Inbounds \cap (Initializes \cup Requests \cup Notifications) = {}
    /\ Initializes \cap Notifications = {}
    /\ {MaxSession, MaxEvents, MaxRetries, MaxRedirects} \subseteq Nat
    /\ MaxSession # 0

Posts == Initializes \cup Requests \cup Notifications
Callers == Posts \cup Inbounds    \* requests and streams that may be refused

-----------------------------------------------------------------------------
(***************************************************************************)
(* The Authenticator that both transports share (transport/common.rs).     *)
(* Requests refused with 401 ask for authorization together: one of them   *)
(* runs the OAuth flow, the others wait for its end and go on with         *)
(* whatever token it stored.  Any of the futures can be dropped at any     *)
(* await.                                                                  *)
(***************************************************************************)

VARIABLES
    inFlight,             \* Authenticator::in_flight
    generation,           \* the watch channel bumped when a flow ends
    token,                \* what the provider stores: "none", "stale", "valid"
    auth,                 \* where each caller is inside authorize
    seen                  \* the generation a waiter was told

authVars == <<inFlight, generation, token, auth, seen>>

AuthPlaces == {"out", "running", "granted", "waiting", "authorized", "refused"}

AuthTypeOK ==
    /\ inFlight \in BOOLEAN
    /\ generation \in Nat
    /\ token \in {"none", "stale", "valid"}
    /\ auth \in [Callers -> AuthPlaces]
    /\ seen \in [Callers -> Nat]

AuthInit ==
    /\ inFlight = FALSE
    /\ generation = 0
    /\ token \in {"none", "stale", "valid"}
    /\ auth = [c \in Callers |-> "out"]
    /\ seen = [c \in Callers |-> 0]

\* Callers inside the flow, holding the guard.
Holding(c) == auth[c] \in {"running", "granted"}

-----------------------------------------------------------------------------
\* A 401 reaches authorize: under the lock it joins the flow under way,
\* remembering its generation, or becomes the flow.
Authorize(c) ==
    /\ auth[c] = "out"
    /\ IF inFlight
       THEN /\ auth' = [auth EXCEPT ![c] = "waiting"]
            /\ seen' = [seen EXCEPT ![c] = generation]
            /\ UNCHANGED inFlight
       ELSE /\ auth' = [auth EXCEPT ![c] = "running"]
            /\ inFlight' = TRUE
            /\ UNCHANGED seen
    /\ UNCHANGED <<generation, token>>

\* oauth::auth stores the tokens it obtained ...
StoreTokens(c) ==
    /\ auth[c] = "running"
    /\ auth' = [auth EXCEPT ![c] = "granted"]
    /\ token' = "valid"
    /\ UNCHANGED <<inFlight, generation, seen>>

\* What dropping AuthFlightGuard does when c leaves authorize.
endFlight_SuccessOnly(c) ==
    IF auth[c] = "granted"
    THEN inFlight' = FALSE /\ generation' = generation + 1
    ELSE inFlight' = FALSE /\ UNCHANGED generation

endFlight_EveryCaller(c) == inFlight' = FALSE /\ generation' = generation + 1

endFlight(c) ==
    IF Holding(c)
    THEN inFlight' = FALSE /\ generation' = generation + 1
    ELSE UNCHANGED <<inFlight, generation>>

\* ... and ends: authorized, sent to the browser, or failed.
FlowEnds(c) ==
    /\ Holding(c)
    /\ auth' = [auth EXCEPT ![c] = IF auth[c] = "granted" THEN "authorized" ELSE "refused"]
    /\ endFlight(c)
    /\ UNCHANGED <<token, seen>>

\* A waiter sees the generation change and looks at the token.
WaiterResumes(c) ==
    /\ auth[c] = "waiting"
    /\ generation # seen[c]
    /\ auth' = [auth EXCEPT ![c] = IF token # "none" THEN "authorized" ELSE "refused"]
    /\ seen' = [seen EXCEPT ![c] = 0]
    /\ UNCHANGED <<inFlight, generation, token>>

AuthSteps(c) == StoreTokens(c) \/ FlowEnds(c) \/ WaiterResumes(c)

\* The caller leaves with the outcome it has, or its future is dropped.
LeaveAuthorize(c) ==
    /\ auth' = [auth EXCEPT ![c] = "out"]
    /\ endFlight(c)
    /\ seen' = [seen EXCEPT ![c] = 0]
    /\ UNCHANGED token

-----------------------------------------------------------------------------
(* The streamable transport.                                               *)

VARIABLES
    st,                   \* State
    task,                 \* the locals of each send_message and run_inbound
    closing,              \* where close is
    srv,                  \* the server
    seenBy                \* what the client has learned and emitted

httpVars == <<st, task, closing, srv, seenBy>>

Sessions == 1..MaxSession
None == 0                 \* no session id
Position == [session : {None} \cup Sessions, n : 0..MaxEvents]
Start0 == [session |-> None, n |-> 0]

\* "json" stands for a success complete in itself; "failed" for whatever only
\* ends the call: a failure, or a JSON-RPC error in the body of one, be it a 404.
Statuses == {"unauthorized", "redirect", "accepted", "notFound", "failed", "stream", "json"}
NoAnswer == [status |-> "none", session |-> None]
Idle == [pc |-> "idle", sent |-> None, answer |-> NoAnswer, tried |-> FALSE, hops |-> 0,
         at |-> Start0]

State == [started : BOOLEAN, closed : BOOLEAN, modern : BOOLEAN,
          inboundStarted : BOOLEAN, session : {None} \cup Sessions, lastEvent : Position]
Local == [pc : {"idle", "headers", "sent", "answered", "auth", "streaming", "sleeping", "done"},
          sent : {None} \cup Sessions,
          answer : [status : Statuses \cup {"none"}, session : {None} \cup Sessions],
          tried : BOOLEAN, hops : Nat, at : Position]

HttpTypeOK ==
    /\ st \in State
    /\ task \in [Callers -> Local]
    /\ closing \in {"no", "deleting", "closed"}
    /\ srv \in [live : SUBSET Sessions, named : Sessions, stateful : BOOLEAN]
    /\ seenBy \in [learned : {None} \cup Sessions, returned : SUBSET Sessions,
                   events : [{None} \cup Sessions -> Seq(1..MaxEvents)]]

\* A transport may resume the session it was configured with.
HttpInit ==
    /\ AuthInit
    /\ st \in [started : {FALSE}, closed : {FALSE}, modern : BOOLEAN,
               inboundStarted : {FALSE}, session : {None, 1}, lastEvent : {Start0}]
    /\ task = [c \in Callers |-> Idle]
    /\ closing = "no"
    /\ srv \in [live : {{1}}, named : {1}, stateful : BOOLEAN]
    /\ seenBy = [learned |-> None, returned |-> {},
                 events |-> [s \in {None} \cup Sessions |-> <<>>]]

-----------------------------------------------------------------------------
(* Steps the handlers are made of.                                         *)

\* set_session_id, with the header of the response of c, when it has one.
adopt(c, into) ==
    LET id == task[c].answer.session
    IN  IF id = None THEN into ELSE [into EXCEPT !.session = id]

\* What it has been told, and the sessions that a late answer to a request
\* sent under them put the client back to, though it had left them.
learn(c) ==
    LET id == task[c].answer.session
    IN  IF id = None THEN seenBy
        ELSE [seenBy EXCEPT !.learned = id,
                            !.returned = IF id = task[c].sent /\ id # st.session
                                         THEN @ \cup {id} ELSE @]

\* expire_session: only the session that was refused is forgotten.
expire_session_Any(id, into) == [into EXCEPT !.session = None]

expire_session(id, into) ==
    IF into.session = id THEN [into EXCEPT !.session = None] ELSE into

\* A response is only looked at in the legacy era (http.rs:228); the inbound
\* stream does not ask (http.rs:368).
adoptLegacy(p) == IF st.modern THEN st ELSE adopt(p, st)

learnLegacy(p) == IF st.modern THEN seenBy ELSE learn(p)

\* The locals that are still of use at a place.
Done == [Idle EXCEPT !.pc = "done"]

At(c, place) ==
    [task[c] EXCEPT !.pc = place, !.answer = NoAnswer, !.sent = None, !.at = Start0]

goTo(c, v) == task' = [task EXCEPT ![c] = v]

\* base_headers: the session is read before the bearer token is awaited.
toHeaders(c) ==
    [At(c, "headers") EXCEPT !.sent = st.session]

\* The Last-Event-ID header of an inbound request.
lastEventId_Forgotten(i) == Start0
lastEventId(i) == st.lastEvent

\* ... and sent with anything but initialize, in the legacy era.
includesSession(c) == c \notin Initializes /\ ~st.modern

Around == <<closing, srv>>

-----------------------------------------------------------------------------
(* The client's calls.  The era of State::protocol_version is modern while  *)
(* the client tries to discover the server.                                *)

Start ==
    /\ ~st.started
    /\ st' = [st EXCEPT !.started = TRUE]
    /\ UNCHANGED <<task, seenBy, Around, authVars>>

\* discover failed, and the client falls back to the legacy era.
SetProtocolVersion ==
    /\ st.modern
    /\ st' = [st EXCEPT !.modern = FALSE]
    /\ UNCHANGED <<task, seenBy, Around, authVars>>

\* send_message: refused when the transport is closed or not started.
Send(p) ==
    /\ task[p].pc = "idle"
    /\ task' = [task EXCEPT ![p] =
            IF st.closed \/ ~st.started THEN Done ELSE toHeaders(p)]
    /\ UNCHANGED <<st, seenBy, Around, authVars>>

\* The caller's token, or a dropped future, ends a send or its stream.
CancelPost(p) ==
    /\ task[p].pc \in {"headers", "sent", "answered", "auth", "streaming"}
    /\ goTo(p, Done)
    /\ LeaveAuthorize(p)
    /\ UNCHANGED <<st, seenBy, Around>>

-----------------------------------------------------------------------------
(* A request on its way.                                                   *)

\* The token is there and the request goes out, unless the transport was
\* closed meanwhile: its cancellation token is the request's.
Execute(c) ==
    /\ task[c].pc = "headers"
    /\ ~st.closed
    /\ task' = [task EXCEPT ![c].pc = "sent",
                            ![c].sent = IF includesSession(c) THEN @ ELSE None,
                            ![c].at = IF c \in Inbounds THEN lastEventId(c) ELSE @]
    /\ UNCHANGED <<st, seenBy, Around, authVars>>

\* One that keeps sessions refuses those it has forgotten, and takes only an
\* initialize without one.
Takes(c) ==
    LET id == task[c].sent
    IN  ~srv.stateful \/ IF id = None THEN c \in Initializes ELSE id \in srv.live

\* What the server may answer; a POST that is refused may be told why in a
\* JSON-RPC error, and then its 404 is not looked at (http.rs:264-271).
Answers(c) ==
    IF ~Takes(c)
    THEN IF task[c].sent = None THEN {"failed"}
         ELSE IF c \in Inbounds THEN {"notFound"} ELSE {"notFound", "failed"}
    ELSE IF c \in Inbounds THEN {"failed", "stream"}
    ELSE {"redirect", "accepted", "failed"}
         \cup (IF c \in Notifications THEN {} ELSE {"stream", "json"})

\* The sessions a success may name: none, that of the request, or the next.
Names(c, status) ==
    IF srv.stateful /\ Takes(c) /\ status \in {"accepted", "stream", "json"}
    THEN {None, task[c].sent} \cup {s \in Sessions : s = srv.named + 1}
    ELSE {None}

ServerAnswers(c) ==
    /\ task[c].pc = "sent"
    /\ \/ /\ token # "valid"
          /\ task' = [task EXCEPT ![c].pc = "answered",
                                  ![c].answer = [NoAnswer EXCEPT !.status = "unauthorized"]]
          /\ UNCHANGED srv
       \/ \E status \in Answers(c) : \E id \in Names(c, status) :
             /\ srv' = IF id = srv.named + 1
                       THEN [srv EXCEPT !.live = @ \cup {id}, !.named = id]
                       ELSE srv
             /\ task' = [task EXCEPT ![c].pc = "answered",
                                     ![c].answer = [status |-> status, session |-> id]]
    /\ UNCHANGED <<st, seenBy, closing, authVars>>

ServerForgets ==
    /\ \E s \in srv.live : srv' = [srv EXCEPT !.live = @ \ {s}]
    /\ UNCHANGED <<st, task, seenBy, closing, authVars>>

\* Waiting on a server that says nothing ends with close.
ExecuteCancelled(c) ==
    /\ task[c].pc \in {"headers", "sent"}
    /\ st.closed
    /\ goTo(c, Done)
    /\ st' = IF c \in Inbounds THEN [st EXCEPT !.inboundStarted = FALSE] ELSE st
    /\ UNCHANGED <<seenBy, Around, authVars>>

-----------------------------------------------------------------------------
(* send_message meets its response.                                        *)

Answered(c, status) == task[c].pc = "answered" /\ task[c].answer.status = status

\* The first 401 is met by authorizing; the second is the caller's.
Refused(c) ==
    /\ Answered(c, "unauthorized")
    /\ IF task[c].tried
       THEN /\ goTo(c, Done)
            /\ UNCHANGED authVars
       ELSE /\ goTo(c, [At(c, "auth") EXCEPT !.tried = TRUE])
            /\ Authorize(c)
    /\ st' = IF c \in Inbounds /\ task[c].tried
             THEN [st EXCEPT !.inboundStarted = FALSE] ELSE st
    /\ UNCHANGED <<seenBy, Around>>

AuthorizeProgresses(c) ==
    /\ task[c].pc = "auth"
    /\ AuthSteps(c)
    /\ UNCHANGED httpVars

Authorized(c) ==
    /\ auth[c] = "authorized"
    /\ task' = [task EXCEPT ![c] = toHeaders(c)]
    /\ LeaveAuthorize(c)
    /\ UNCHANGED <<st, seenBy, Around>>

NotAuthorized(c) ==
    /\ auth[c] = "refused"
    /\ goTo(c, Done)
    /\ LeaveAuthorize(c)
    /\ st' = IF c \in Inbounds THEN [st EXCEPT !.inboundStarted = FALSE] ELSE st
    /\ UNCHANGED <<seenBy, Around>>

Redirected(p) ==
    /\ Answered(p, "redirect")
    /\ task' = [task EXCEPT ![p] =
            IF @.hops = MaxRedirects THEN Done
            ELSE [toHeaders(p) EXCEPT !.hops = @ + 1]]
    /\ UNCHANGED <<st, seenBy, Around, authVars>>

\* 202: the inbound stream of a legacy server is started, once at a time.
start_inbound(from, tasks) ==
    IF from.modern \/ from.inboundStarted \/ from.closed
    THEN st' = from /\ task' = tasks
    ELSE \E i \in Inbounds :
            /\ tasks[i].pc \in {"idle", "done"}
            /\ st' = [from EXCEPT !.inboundStarted = TRUE]
            /\ task' = [tasks EXCEPT ![i] = [Idle EXCEPT !.pc = "headers",
                                                         !.sent = from.session]]

Accepted(p) ==
    /\ Answered(p, "accepted")
    /\ start_inbound(adoptLegacy(p), [task EXCEPT ![p] = Done])
    /\ seenBy' = learnLegacy(p)
    /\ UNCHANGED <<Around, authVars>>

\* 404 to a request that carried a session: the session has expired.
Expired(p) ==
    /\ Answered(p, "notFound")
    /\ goTo(p, Done)
    /\ st' = IF task[p].sent # None THEN expire_session(task[p].sent, st) ELSE st
    /\ UNCHANGED <<seenBy, Around, authVars>>

Failed(p) ==
    /\ Answered(p, "failed")
    /\ goTo(p, Done)
    /\ UNCHANGED <<st, seenBy, Around, authVars>>

\* A stream of the request's own is read by a task of its own.
Streamed(p) ==
    /\ Answered(p, "stream")
    /\ goTo(p, [Idle EXCEPT !.pc = "streaming"])
    /\ st' = adoptLegacy(p)
    /\ seenBy' = learnLegacy(p)
    /\ UNCHANGED <<Around, authVars>>

AnsweredByJson(p) ==
    /\ Answered(p, "json")
    /\ goTo(p, Done)
    /\ st' = adoptLegacy(p)
    /\ seenBy' = learnLegacy(p)
    /\ UNCHANGED <<Around, authVars>>

\* pump_response: the answer, a failure told as RequestError, or, when the
\* transport closes, neither.
PumpEnds(p) ==
    /\ task[p].pc = "streaming"
    /\ goTo(p, Done)
    /\ UNCHANGED <<st, seenBy, Around, authVars>>
-----------------------------------------------------------------------------
(* run_inbound meets its response.  InboundGuard clears the flag whenever   *)
(* the task ends.                                                          *)

inboundEnds(i, from) ==
    /\ goTo(i, Done)
    /\ st' = [from EXCEPT !.inboundStarted = FALSE]

InboundRefused(i) ==
    /\ \/ /\ Answered(i, "failed")
          /\ inboundEnds(i, st)
       \/ /\ Answered(i, "notFound")
          /\ inboundEnds(i, IF task[i].sent # None
                            THEN expire_session(task[i].sent, st) ELSE st)
    /\ UNCHANGED <<seenBy, Around, authVars>>

\* The server resumes a stream of the session the last event is of.
InboundOpens(i) ==
    LET id == IF task[i].answer.session # None THEN task[i].answer.session ELSE task[i].sent
    IN  /\ Answered(i, "stream")
        /\ task' = [task EXCEPT ![i].pc = "streaming", ![i].answer = NoAnswer,
                ![i].at = IF @.session = id THEN @ ELSE [session |-> id, n |-> 0]]
        /\ st' = adopt(i, st)
        /\ seenBy' = learn(i)
        /\ UNCHANGED <<Around, authVars>>

InboundEvent(i) ==
    LET at == task[i].at
        next == [at EXCEPT !.n = @ + 1]
    IN  /\ task[i].pc = "streaming" /\ ~st.closed
        /\ at.n < MaxEvents
        /\ task' = [task EXCEPT ![i].at = next]
        /\ st' = [st EXCEPT !.lastEvent = next]
        /\ seenBy' = [seenBy EXCEPT !.events[at.session] = Append(@, next.n)]
        /\ UNCHANGED <<Around, authVars>>

\* An event that was on its way is lost with the connection.
InboundBreaks(i) ==
    /\ task[i].pc = "streaming"
    /\ IF task[i].hops >= MaxRetries
       THEN inboundEnds(i, st)
       ELSE /\ goTo(i, [At(i, "sleeping") EXCEPT !.hops = @ + 1])
            /\ UNCHANGED st
    /\ UNCHANGED <<seenBy, Around, authVars>>

InboundFinishes(i) ==
    /\ task[i].pc = "streaming"
    /\ inboundEnds(i, st)
    /\ UNCHANGED <<seenBy, Around, authVars>>

InboundReconnects(i) ==
    /\ task[i].pc = "sleeping" /\ ~st.closed
    /\ task' = [task EXCEPT ![i] = toHeaders(i)]
    /\ UNCHANGED <<st, seenBy, Around, authVars>>

\* close cancels its token and aborts the task at whatever it waits for.
InboundAborted(i) ==
    /\ task[i].pc \notin {"idle", "done"} /\ st.closed
    /\ inboundEnds(i, st)
    /\ LeaveAuthorize(i)
    /\ UNCHANGED <<seenBy, Around>>

-----------------------------------------------------------------------------
(* close: a legacy session is ended with a DELETE.                         *)

Close ==
    /\ ~st.closed
    /\ st' = [st EXCEPT !.closed = TRUE]
    /\ closing' = IF st.started /\ ~st.modern /\ st.session # None
                  THEN "deleting" ELSE "closed"
    /\ UNCHANGED <<task, seenBy, srv, authVars>>

DeleteAnswered ==
    /\ closing = "deleting"
    /\ closing' = "closed"
    /\ srv' \in {srv, [srv EXCEPT !.live = @ \ {st.session}]}
    /\ UNCHANGED <<st, task, seenBy, authVars>>

-----------------------------------------------------------------------------

Meets(p) ==
    \/ Redirected(p) \/ Accepted(p) \/ Expired(p)
    \/ Failed(p) \/ Streamed(p) \/ AnsweredByJson(p)

Proceeds(c) == Refused(c) \/ AuthorizeProgresses(c) \/ Authorized(c) \/ NotAuthorized(c)

PostNext(p) == Send(p) \/ CancelPost(p) \/ Meets(p) \/ PumpEnds(p)

InboundNext(i) ==
    \/ InboundRefused(i) \/ InboundOpens(i) \/ InboundEvent(i) \/ InboundBreaks(i)
    \/ InboundFinishes(i) \/ InboundReconnects(i) \/ InboundAborted(i)

HttpNext ==
    \/ Start \/ SetProtocolVersion \/ ServerForgets \/ Close \/ DeleteAnswered
    \/ \E c \in Callers : Execute(c) \/ ExecuteCancelled(c) \/ ServerAnswers(c) \/ Proceeds(c)
    \/ \E p \in Posts : PostNext(p)
    \/ \E i \in Inbounds : InboundNext(i)

\* Tasks are polled, and an answer that has arrived is read; neither the server
\* nor, inside a flow, the authorization server need answer, and nobody need
\* close.
HttpFairness ==
    /\ \A c \in Callers :
          WF_<<httpVars, authVars>>(\/ Execute(c) \/ ExecuteCancelled(c)
                                    \/ auth[c] # "running" /\ Proceeds(c))
    /\ \A p \in Posts : WF_<<httpVars, authVars>>(Meets(p) \/ (st.closed /\ PumpEnds(p)))
    /\ \A i \in Inbounds : WF_<<httpVars, authVars>>(InboundAborted(i))

-----------------------------------------------------------------------------
(* Properties.                                                             *)

\* "A concurrent replacement session is retained"
\* (docs/01-architecture/15-mcp.md:266): no late 404 of a request sent under an
\* older session takes away the session the client was told last, as long as
\* the server keeps it.  What the client was told last is what arrived last: a
\* late success that names the older session does put it back (http.rs:231).
ReplacementRetained ==
    seenBy.learned \in srv.live => st.session = seenBy.learned

\* Across broken connections, streams that ended and were started again, and
\* changes of session, the events of a session are emitted in order, none
\* twice and none skipped (the resumption of run_inbound).  Not so for a
\* session that a late answer put the client back to: the last event id it
\* then sends may be of the other session (http.rs:231, 354), and the stream
\* starts over.
InboundInOrder ==
    \A s \in ({None} \cup Sessions) \ seenBy.returned : \A k \in DOMAIN seenBy.events[s] :
        seenBy.events[s][k] = k

\* At most one authorization flow runs, and the flag says whether one does:
\* neither a waiter that leaves nor a flow that is dropped may upset it
\* (common.rs:159, "One flow at a time").
OneFlow ==
    /\ Cardinality({c \in Callers : Holding(c)}) <= 1
    /\ inFlight <=> \E c \in Callers : Holding(c)

-----------------------------------------------------------------------------
(***************************************************************************)
(* The older HTTP+SSE transport (transport/sse.rs): start opens one event  *)
(* stream and waits for its endpoint event, posts go to that endpoint, and *)
(* the end of the stream closes the transport.                             *)
(***************************************************************************)

CONSTANTS Opener, SsePosts    \* the call of start, the calls of send

ASSUME McpSseAssumption == Opener \in Callers /\ SsePosts \subseteq Callers \ {Opener}

VARIABLES
    sse,                      \* State, with endpoint as a flag
    reader,                   \* stream_task
    ready,                    \* the one-shot that start waits on
    call                      \* where start and each send are

sseVars == <<sse, reader, ready, call>>

SseCalls == SsePosts \cup {Opener}

SseState == [started : BOOLEAN, closed : BOOLEAN, cancelled : BOOLEAN,
             endpoint : BOOLEAN, told : 0..2]

SseTypeOK ==
    /\ sse \in SseState
    /\ reader \in {"none", "reading", "lost", "ended"}
    /\ ready \in {"none", "pending", "ok", "error", "taken"}
    /\ call \in [SseCalls -> [pc : {"idle", "sent", "refused", "auth", "ready", "done"},
                              tried : BOOLEAN]]

\* closed is the flag, cancelled the token, and told counts the Closed events
\* emitted.
SseInit ==
    /\ AuthInit
    /\ sse = [started |-> FALSE, closed |-> FALSE, cancelled |-> FALSE,
              endpoint |-> FALSE, told |-> 0]
    /\ reader = "none" /\ ready = "none"
    /\ call = [c \in SseCalls |-> [pc |-> "idle", tried |-> FALSE]]

at(c, place) == call[c].pc = place
moveTo(c, place) ==
    call' = [call EXCEPT ![c] = IF place = "done" THEN [pc |-> "done", tried |-> FALSE]
                               ELSE [@ EXCEPT !.pc = place]]

-----------------------------------------------------------------------------
(* Calls.                                                                  *)

SseStart ==
    /\ at(Opener, "idle")
    /\ sse' = [sse EXCEPT !.started = TRUE]
    /\ moveTo(Opener, "sent")
    /\ UNCHANGED <<reader, ready, authVars>>

\* post: refused when closed, or before the endpoint is known.
SsePost(c) ==
    /\ at(c, "idle")
    /\ moveTo(c, IF sse.closed \/ ~sse.endpoint THEN "done" ELSE "sent")
    /\ UNCHANGED <<sse, reader, ready, authVars>>

\* A request of either kind is refused once and sent again after
\* authorization; its failure is the caller's; a success ends a post.
SseAnswered(c) ==
    /\ at(c, "sent")
    /\ \/ /\ token # "valid"
          /\ moveTo(c, IF call[c].tried THEN "done" ELSE "refused")
       \/ moveTo(c, "done")
    /\ UNCHANGED <<sse, reader, ready, authVars>>

SseAuthorize(c) ==
    /\ at(c, "refused")
    /\ Authorize(c)
    /\ call' = [call EXCEPT ![c] = [pc |-> "auth", tried |-> TRUE]]
    /\ UNCHANGED <<sse, reader, ready>>

SseAuthProgresses(c) == at(c, "auth") /\ AuthSteps(c) /\ UNCHANGED sseVars

SseAuthorized(c) ==
    /\ auth[c] \in {"authorized", "refused"}
    /\ moveTo(c, IF auth[c] = "authorized" THEN "sent" ELSE "done")
    /\ LeaveAuthorize(c)
    /\ UNCHANGED <<sse, reader, ready>>

\* The stream is open: stream_task is spawned and start waits for it.
SseOpened ==
    /\ at(Opener, "sent")
    /\ reader' = "reading" /\ ready' = "pending"
    /\ moveTo(Opener, "ready")
    /\ UNCHANGED <<sse, authVars>>

SseStartReturns ==
    /\ at(Opener, "ready") /\ ready \in {"ok", "error"}
    /\ moveTo(Opener, "done")
    /\ ready' = "taken"
    /\ UNCHANGED <<sse, reader, authVars>>

\* The token of a request is a child of the transport's, which only close
\* cancels.
SseExecuteCancelled(c) ==
    /\ at(c, "sent") /\ sse.cancelled
    /\ moveTo(c, "done")
    /\ UNCHANGED <<sse, reader, ready, authVars>>

\* A caller gives up; the stream, once open, goes on without start.
SseCancel(c) ==
    /\ call[c].pc \in {"sent", "refused", "auth", "ready"}
    /\ moveTo(c, "done")
    /\ LeaveAuthorize(c)
    /\ ready' = IF at(c, "ready") THEN "taken" ELSE ready
    /\ UNCHANGED <<sse, reader>>

-----------------------------------------------------------------------------
(* stream_task.                                                            *)

\* The first endpoint event resolves start, with an error when the address is
\* of another origin; a later one only replaces the address.
SseEndpoint(sameOrigin) ==
    /\ reader = "reading"
    /\ sse' = [sse EXCEPT !.endpoint = @ \/ sameOrigin]
    /\ ready' = IF ready # "pending" THEN ready ELSE IF sameOrigin THEN "ok" ELSE "error"
    /\ UNCHANGED <<reader, call, authVars>>

\* The stream ends or fails: start is told if it still waits ...
SseLost ==
    /\ reader = "reading" /\ ~sse.closed
    /\ reader' = "lost"
    /\ ready' = IF ready = "pending" THEN "error" ELSE ready
    /\ UNCHANGED <<sse, call, authVars>>

\* ... and the transport is marked closed, with nothing cancelled: close does
\* nothing from now on.  Between the two there is no await, but close may come.
SseClosesItself ==
    /\ reader = "lost"
    /\ reader' = "ended"
    /\ sse' = [sse EXCEPT !.closed = TRUE, !.told = @ + 1]
    /\ UNCHANGED <<ready, call, authVars>>

\* close cancelled the token, or aborted the task at its await: the sender is
\* dropped with it.
readerStops_KeepsSender == reader' = "ended" /\ UNCHANGED ready

readerStops ==
    /\ reader' = "ended"
    /\ ready' = IF ready = "pending" THEN "error" ELSE ready

SseAborted ==
    /\ reader = "reading" /\ sse.cancelled
    /\ readerStops
    /\ UNCHANGED <<sse, call, authVars>>

SseClose ==
    /\ ~sse.closed
    /\ sse' = [sse EXCEPT !.closed = TRUE, !.cancelled = TRUE, !.told = @ + 1]
    /\ UNCHANGED <<reader, ready, call, authVars>>

-----------------------------------------------------------------------------

SseCallNext(c) ==
    \/ SseAnswered(c) \/ SseAuthorize(c) \/ SseAuthProgresses(c) \/ SseAuthorized(c)
    \/ SseExecuteCancelled(c) \/ SseCancel(c)

SseNext ==
    \/ SseStart \/ SseOpened \/ SseStartReturns \/ SseLost \/ SseClosesItself
    \/ SseAborted \/ SseClose
    \/ \E sameOrigin \in BOOLEAN : SseEndpoint(sameOrigin)
    \/ \E c \in SsePosts : SsePost(c)
    \/ \E c \in SseCalls : SseCallNext(c)

\* Tasks are polled; neither of the servers need answer.
SseFairness ==
    /\ WF_<<sseVars, authVars>>(SseStartReturns)
    /\ WF_<<sseVars, authVars>>(SseClosesItself \/ SseAborted)
    /\ \A c \in SseCalls :
          WF_<<sseVars, authVars>>(\/ SseAuthorize(c) \/ SseAuthorized(c)
                                   \/ auth[c] # "running" /\ SseAuthProgresses(c)
                                   \/ SseExecuteCancelled(c))

-----------------------------------------------------------------------------
(***************************************************************************)
(* A client is given one of the two transports.                            *)
(***************************************************************************)

VARIABLE transport        \* which of the two it is

vars == <<transport, httpVars, sseVars, authVars>>

\* A configured session is one the server keeps; the state of the transport
\* that is not used does not vary.
Init ==
    /\ HttpInit /\ SseInit
    /\ transport \in {"http", "sse"}
    /\ st.session # None => srv.stateful
    /\ transport = "sse" => ~st.modern /\ st.session = None /\ ~srv.stateful

Next ==
    \/ transport = "http" /\ HttpNext /\ UNCHANGED <<transport, sseVars>>
    \/ transport = "sse" /\ SseNext /\ UNCHANGED <<transport, httpVars>>

Spec == Init /\ [][Next]_vars /\ HttpFairness /\ SseFairness

TypeOK == AuthTypeOK /\ HttpTypeOK /\ SseTypeOK

\* A caller that a silent authorization server holds up: no token reaches into
\* a flow, its own or the one it waits for.
HeldByFlow(c) ==
    \/ auth[c] = "running"
    \/ auth[c] = "waiting" /\ \E d \in Callers : auth[d] = "running"

\* After close no call and no task is left waiting, neither on a server that
\* says nothing, nor for an endpoint event, nor on a flow that somebody dropped;
\* the one thing close does not reach is a flow itself.  The older transport is
\* closed by the loss of its event stream, too, which ends start and its task,
\* but not a POST or GET under way: nothing cancels the token it waits on
\* (sse.rs:262-263, 291), and close then returns early (sse.rs:414-416).
CloseSettles ==
    /\ st.closed ~> \A c \in Callers : task[c].pc \in {"idle", "done"} \/ HeldByFlow(c)
    /\ sse.closed ~>
          /\ reader \in {"none", "ended"}
          /\ \A c \in SseCalls : \/ call[c].pc \in {"idle", "done"}
                                 \/ HeldByFlow(c)
                                 \/ at(c, "sent") /\ ~sse.cancelled
=============================================================================

---------------------------- MODULE McpHttpProofs ----------------------------
(***************************************************************************)
(* Theorems about McpHttp for any sets of messages and inbound tasks, any  *)
(* number of sessions, events, retries and redirects, and either transport.*)
(***************************************************************************)
EXTENDS McpHttp, FiniteSetTheorems, TLAPS

(***************************************************************************)
(* The authorization flow.                                                 *)
(***************************************************************************)

\* The flag says whether a caller holds the flow, and no two do.
OneHolder ==
    /\ inFlight <=> \E c \in Callers : Holding(c)
    /\ \A c, d \in Callers : Holding(c) /\ Holding(d) => c = d

FlowInv == AuthTypeOK /\ OneHolder

\* What a step does to the shared authenticator.
FlowStep(c) == Authorize(c) \/ AuthSteps(c) \/ LeaveAuthorize(c)

-----------------------------------------------------------------------------
LEMMA FlowStarts == Init => FlowInv
  <1> SUFFICES ASSUME Init PROVE FlowInv
    OBVIOUS
  <1>1. AuthInit
    BY DEF Init, HttpInit
  <1>2. AuthTypeOK
    BY <1>1 DEF AuthInit, AuthTypeOK, AuthPlaces
  <1>3. \A c \in Callers : ~Holding(c)
    BY <1>1 DEF AuthInit, Holding
  <1>4. QED
    BY <1>1, <1>2, <1>3 DEF AuthInit, FlowInv, OneHolder

\* Where a caller that moves goes, everybody else staying.
LEMMA Elsewhere ==
  ASSUME AuthTypeOK, NEW c \in Callers, NEW place \in AuthPlaces,
         auth' = [auth EXCEPT ![c] = place]
  PROVE  /\ auth' \in [Callers -> AuthPlaces]
         /\ auth'[c] = place /\ \A d \in Callers \ {c} : auth'[d] = auth[d]
  BY DEF AuthTypeOK

LEMMA FlowKept ==
  ASSUME FlowInv, NEW c \in Callers, FlowStep(c)
  PROVE  FlowInv'
  <1> USE DEF FlowInv
  <1> {"out", "running", "granted", "waiting", "authorized", "refused"} = AuthPlaces
    BY DEF AuthPlaces
  <1>1. CASE Authorize(c)
    <2>1. CASE inFlight
      <3>1. auth' = [auth EXCEPT ![c] = "waiting"] /\ seen' \in [Callers -> Nat]
        BY <1>1, <2>1 DEF Authorize, AuthTypeOK
      <3>2. /\ auth' \in [Callers -> AuthPlaces] /\ auth[c] = "out"
            /\ auth'[c] = "waiting" /\ \A d \in Callers \ {c} : auth'[d] = auth[d]
        BY <1>1, <3>1, Elsewhere DEF Authorize, AuthPlaces
      <3>3. QED
        BY <1>1, <2>1, <3>1, <3>2 DEF Authorize, AuthTypeOK, OneHolder, Holding
    <2>2. CASE ~inFlight
      <3>1. auth' = [auth EXCEPT ![c] = "running"]
        BY <1>1, <2>2 DEF Authorize
      <3>2. /\ auth' \in [Callers -> AuthPlaces] /\ auth[c] = "out"
            /\ auth'[c] = "running" /\ \A d \in Callers \ {c} : auth'[d] = auth[d]
        BY <1>1, <3>1, Elsewhere DEF Authorize, AuthPlaces
      <3>3. QED
        BY <1>1, <2>2, <3>2 DEF Authorize, AuthTypeOK, OneHolder, Holding
    <2>3. QED
      BY <2>1, <2>2
  <1>2. CASE StoreTokens(c)
    <2>1. /\ auth' \in [Callers -> AuthPlaces] /\ auth[c] = "running"
          /\ auth'[c] = "granted" /\ \A d \in Callers \ {c} : auth'[d] = auth[d]
      BY <1>2, Elsewhere DEF StoreTokens, AuthPlaces
    <2>2. QED
      BY <1>2, <2>1 DEF StoreTokens, AuthTypeOK, OneHolder, Holding
  <1>3. CASE FlowEnds(c)
    <2>1. PICK place \in {"authorized", "refused"} : auth' = [auth EXCEPT ![c] = place]
      BY <1>3 DEF FlowEnds
    <2>2. /\ auth' \in [Callers -> AuthPlaces]
          /\ auth'[c] = place /\ \A d \in Callers \ {c} : auth'[d] = auth[d]
      BY <2>1, Elsewhere DEF AuthPlaces
    <2>3. Holding(c) /\ inFlight' = FALSE /\ generation' = generation + 1
          /\ UNCHANGED <<token, seen>>
      BY <1>3 DEF FlowEnds, endFlight
    <2>4. AuthTypeOK'
      <3>1. generation' \in Nat /\ token' \in {"none", "stale", "valid"} /\ seen' \in [Callers -> Nat]
        BY <2>3 DEF AuthTypeOK
      <3>2. QED
        BY <2>2, <2>3, <3>1, Zenon DEF AuthTypeOK
    <2>5. \A d \in Callers : ~Holding(d)'
      BY <2>2, <2>3 DEF OneHolder, Holding
    <2>6. QED
      BY <2>3, <2>4, <2>5 DEF OneHolder
  <1>4. CASE WaiterResumes(c)
    <2>1. PICK place \in {"authorized", "refused"} : auth' = [auth EXCEPT ![c] = place]
      BY <1>4 DEF WaiterResumes
    <2>2. /\ auth' \in [Callers -> AuthPlaces]
          /\ auth'[c] = place /\ \A d \in Callers \ {c} : auth'[d] = auth[d]
      BY <2>1, Elsewhere DEF AuthPlaces
    <2>3. auth[c] = "waiting" /\ UNCHANGED <<inFlight, generation, token>>
          /\ seen' \in [Callers -> Nat]
      BY <1>4 DEF WaiterResumes, AuthTypeOK
    <2>4. QED
      BY <2>2, <2>3 DEF AuthTypeOK, OneHolder, Holding
  <1>5. CASE LeaveAuthorize(c)
    <2>1. /\ auth' \in [Callers -> AuthPlaces]
          /\ auth'[c] = "out" /\ \A d \in Callers \ {c} : auth'[d] = auth[d]
      BY <1>5, Elsewhere DEF LeaveAuthorize, AuthPlaces
    <2>2. seen' \in [Callers -> Nat] /\ UNCHANGED token
      BY <1>5 DEF LeaveAuthorize, AuthTypeOK
    <2>3. CASE Holding(c)
      <3>1. inFlight' = FALSE /\ generation' = generation + 1
        BY <1>5, <2>3 DEF LeaveAuthorize, endFlight
      <3>2. AuthTypeOK'
        <4>1. generation' \in Nat /\ token' \in {"none", "stale", "valid"}
          BY <2>2, <3>1 DEF AuthTypeOK
        <4>2. QED
          BY <2>1, <2>2, <3>1, <4>1, Zenon DEF AuthTypeOK
      <3>3. \A d \in Callers : ~Holding(d)'
        BY <2>1, <2>3 DEF OneHolder, Holding
      <3>4. QED
        BY <3>1, <3>2, <3>3 DEF OneHolder
    <2>4. CASE ~Holding(c)
      <3>1. UNCHANGED <<inFlight, generation>>
        BY <1>5, <2>4 DEF LeaveAuthorize, endFlight
      <3>2. QED
        BY <2>1, <2>2, <2>4, <3>1 DEF AuthTypeOK, OneHolder, Holding
    <2>5. QED
      BY <2>3, <2>4
  <1>6. QED
    BY <1>1, <1>2, <1>3, <1>4, <1>5 DEF FlowStep, AuthSteps

\* Every step either leaves the authenticator alone or is one of its own.
LEMMA FlowSteps ==
  ASSUME [Next]_vars
  PROVE  UNCHANGED authVars \/ \E c \in Callers : FlowStep(c)
  <1>1. CASE UNCHANGED vars
    BY <1>1 DEF vars
  <1>2. CASE HttpNext
    <2>1. CASE Start \/ SetProtocolVersion \/ ServerForgets \/ Close \/ DeleteAnswered
      BY <2>1 DEF Start, SetProtocolVersion, ServerForgets, Close, DeleteAnswered
    <2>2. ASSUME NEW c \in Callers,
                 Execute(c) \/ ExecuteCancelled(c) \/ ServerAnswers(c) \/ Proceeds(c)
          PROVE  UNCHANGED authVars \/ \E d \in Callers : FlowStep(d)
      <3>1. CASE Execute(c) \/ ExecuteCancelled(c) \/ ServerAnswers(c)
        BY <3>1 DEF Execute, ExecuteCancelled, ServerAnswers
      <3>2. CASE Proceeds(c)
        <4>1. UNCHANGED authVars \/ FlowStep(c)
          BY <3>2 DEF Proceeds, Refused, AuthorizeProgresses, Authorized, NotAuthorized, FlowStep
        <4>2. QED
          BY <4>1
      <3>3. QED
        BY <2>2, <3>1, <3>2
    <2>3. ASSUME NEW p \in Posts, PostNext(p)
          PROVE  UNCHANGED authVars \/ \E d \in Callers : FlowStep(d)
      <3>1. UNCHANGED authVars \/ FlowStep(p)
        BY <2>3 DEF PostNext, Meets, Send, CancelPost, Redirected, Accepted, Expired, Failed,
                    Streamed, AnsweredByJson, PumpEnds, FlowStep
      <3>2. QED
        BY <3>1 DEF Callers
    <2>4. ASSUME NEW i \in Inbounds, InboundNext(i)
          PROVE  UNCHANGED authVars \/ \E d \in Callers : FlowStep(d)
      <3>1. UNCHANGED authVars \/ FlowStep(i)
        BY <2>4 DEF InboundNext, InboundRefused, InboundOpens, InboundEvent, InboundBreaks,
                    InboundFinishes, InboundReconnects, InboundAborted, FlowStep
      <3>2. QED
        BY <3>1 DEF Callers
    <2>5. QED
      BY <1>2, <2>1, <2>2, <2>3, <2>4 DEF HttpNext
  <1>3. CASE SseNext
    <2>1. SseCalls \subseteq Callers
      BY McpSseAssumption DEF SseCalls
    <2>2. ASSUME NEW c \in SseCalls, SseCallNext(c)
          PROVE  UNCHANGED authVars \/ \E d \in Callers : FlowStep(d)
      <3>1. UNCHANGED authVars \/ FlowStep(c)
        BY <2>2 DEF SseCallNext, SseAnswered, SseAuthorize, SseAuthProgresses, SseAuthorized,
                    SseExecuteCancelled, SseCancel, FlowStep
      <3>2. QED
        BY <2>1, <3>1
    <2>3. QED
      BY <1>3, <2>2 DEF SseNext, SseStart, SseOpened, SseStartReturns, SseLost,
         SseClosesItself, SseAborted, SseClose, SseEndpoint, SsePost
  <1>4. QED
    BY <1>1, <1>2, <1>3 DEF Next

LEMMA FlowInvariant == Spec => []FlowInv
  <1>1. FlowInv /\ [Next]_vars => FlowInv'
    <2> SUFFICES ASSUME FlowInv, [Next]_vars PROVE FlowInv'
      OBVIOUS
    <2>1. CASE UNCHANGED authVars
      BY <2>1 DEF authVars, FlowInv, AuthTypeOK, OneHolder, Holding
    <2>2. QED
      BY <2>1, FlowSteps, FlowKept
  <1>2. QED
    BY <1>1, FlowStarts, PTL DEF Spec

\* Whatever waits, leaves or is dropped, at most one authorization flow runs
\* and the flag says whether one does.
THEOREM OneFlowRuns == Spec => []OneFlow
  <1>1. FlowInv => OneFlow
    <2> SUFFICES ASSUME FlowInv PROVE Cardinality({c \in Callers : Holding(c)}) <= 1
      BY DEF FlowInv, OneHolder, OneFlow
    <2> DEFINE holders == {c \in Callers : Holding(c)}
    <2>1. CASE holders = {}
      BY <2>1, FS_EmptySet
    <2>2. CASE holders # {}
      <3>1. PICK c \in Callers : Holding(c)
        BY <2>2
      <3>2. holders = {c}
        BY <3>1 DEF FlowInv, OneHolder
      <3>3. Cardinality(holders) = 1
        BY <3>2, FS_Singleton
      <3>4. QED
        BY <3>3
    <2>3. QED
      BY <2>1, <2>2
  <1>2. QED
    BY <1>1, FlowInvariant, PTL
-----------------------------------------------------------------------------
(***************************************************************************)
(* The streamable transport.  ReplacementRetained needs that a 404 is about *)
(* a session the server no longer keeps; InboundInOrder needs to know where *)
(* the one inbound task is in the events of its session, and that a session *)
(* left behind is returned to only by an answer to a request sent under it. *)
(***************************************************************************)

\* Inside authorize only while the task waits for authorization.
OutUnlessAuth == \A c \in Callers : auth[c] = "out" \/ task[c].pc = "auth"

\* A task has an answer only until it has looked at it, and a 404 to a
\* session is true.
AnswersHold == \A c \in Callers :
    /\ task[c].pc # "answered" => task[c].answer = NoAnswer
    /\ task[c].answer.status = "notFound" => task[c].sent \notin srv.live

\* Nobody knows a session the server has not named.
KnownSessions ==
    /\ \A s \in srv.live : s <= srv.named
    /\ st.session <= srv.named /\ st.lastEvent.session <= srv.named
    /\ seenBy.learned <= srv.named
    /\ \A c \in Callers : /\ task[c].sent <= srv.named /\ task[c].at.session <= srv.named
                          /\ task[c].answer.session <= srv.named
    /\ \A s \in Sessions : s > srv.named => seenBy.events[s] = <<>>

\* A session on its way to the client in an answer is that of the request, or
\* in nobody's hands yet.
NewToAll == \A c \in Callers :
    LET s == task[c].answer.session
    IN  s \notin {None, task[c].sent} =>
        /\ st.session # s /\ st.lastEvent.session # s /\ seenBy.events[s] = <<>>
        /\ \A d \in Callers : task[d].sent # s /\ task[d].at.session # s
        /\ \A d \in Callers : task[d].answer.session = s => d = c

\* One inbound task at a time, and the flag is up while there is one.
Active(i) == task[i].pc \notin {"idle", "done"}

OneInbound ==
    /\ \A i \in Inbounds : Active(i) => st.inboundStarted
    /\ \A i, j \in Inbounds : Active(i) /\ Active(j) => i = j

\* The session an inbound task asks for, and then reads.
InboundSession(i) == IF task[i].pc = "streaming" THEN task[i].at.session ELSE task[i].sent
Asking(i) == task[i].pc \in {"headers", "sent", "answered", "streaming"}

\* Where the inbound task and the state are in the events of their session.
Cursors ==
    /\ \/ st.lastEvent.session \in seenBy.returned
       \/ st.lastEvent.n = Len(seenBy.events[st.lastEvent.session])
    /\ \A i \in Inbounds :
         /\ task[i].pc = "streaming" =>
               \/ task[i].at.session \in seenBy.returned
               \/ task[i].at.n = Len(seenBy.events[task[i].at.session])
         /\ task[i].pc \in {"sent", "answered"} => task[i].at = st.lastEvent

\* Sessions with events that are not the one of the last event are over.
LeftBehind == \A s \in ({None} \cup Sessions) \ seenBy.returned :
    seenBy.events[s] # <<>> /\ s # st.lastEvent.session =>
        /\ st.session # s
        /\ \A i \in Inbounds : Asking(i) => InboundSession(i) # s

\* Once the inbound task asks for another session than that of the last event,
\* the latter is not the client's any more.
MovedOn == \A i \in Inbounds :
    LET last == st.lastEvent.session
    IN  /\ Asking(i) /\ InboundSession(i) \notin {None, last}
        /\ seenBy.events[last] # <<>> /\ last \notin seenBy.returned
        => st.session # last

\* A server either keeps sessions, and streams only under one, or has none.
SessionsOrNone ==
    IF srv.stateful
    THEN /\ seenBy.events[None] = <<>>
         /\ \A i \in Inbounds :
              /\ task[i].answer.status = "stream" => task[i].sent # None
              /\ task[i].pc = "streaming" => task[i].at.session # None
    ELSE /\ st.session = None /\ st.lastEvent.session = None
         /\ \A c \in Callers : /\ task[c].sent = None /\ task[c].at.session = None
                               /\ task[c].answer.session = None

HttpInv ==
    /\ HttpTypeOK /\ AnswersHold /\ KnownSessions /\ NewToAll /\ OneInbound
    /\ Cursors /\ LeftBehind /\ MovedOn /\ SessionsOrNone
    /\ ReplacementRetained /\ InboundInOrder

-----------------------------------------------------------------------------
(***************************************************************************)
(* Most steps are calm: they name no session, emit no event, and leave each *)
(* task as it was or move it without giving it a stream or an answer.       *)
(***************************************************************************)

MovesTo(d, v) ==
    /\ v.answer = NoAnswer /\ v.pc # "answered"
    /\ v.at.session \in {task[d].at.session, None, st.lastEvent.session}
    /\ v.sent \in {task[d].sent, None, st'.session}
    /\ d \in Inbounds =>
         /\ v.pc # "streaming"
         /\ v.pc = "headers" => v.sent = st'.session
         /\ v.pc = "sent" => /\ task[d].pc = "headers" /\ v.at = st.lastEvent
                            /\ v.sent \in {task[d].sent, None}

Moved(d) == MovesTo(d, task'[d])

\* The session stays, perhaps named again, is over, or is replaced by one an
\* answer named, which is noted when the client had left it.
SessionKept == st'.session = st.session /\ seenBy'.learned \in {seenBy.learned, st.session}
SessionOver ==
    /\ st.session \notin srv.live /\ st'.session = None
    /\ seenBy'.learned = seenBy.learned
SessionAdopted == \E c \in Callers :
    /\ task[c].answer.session # None /\ task'[c].answer = NoAnswer
    /\ st'.session = task[c].answer.session /\ seenBy'.learned = task[c].answer.session
    /\ task[c].answer.session = task[c].sent => task[c].sent \in seenBy'.returned

\* No inbound task starts, or the one there is ends, or one starts alone.
InboundsKept ==
    \/ /\ st'.inboundStarted = st.inboundStarted
       /\ \A i \in Inbounds : Active(i)' => Active(i)
    \/ \E i \in Inbounds :
         /\ Active(i) /\ ~Active(i)'
         /\ \A j \in Inbounds \ {i} : task'[j] = task[j]
    \/ \E i \in Inbounds :
         /\ st.inboundStarted = FALSE /\ st'.inboundStarted = TRUE
         /\ \A j \in Inbounds \ {i} : task'[j] = task[j]

Calm ==
    /\ HttpTypeOK'
    /\ \A d \in Callers : task'[d] = task[d] \/ Moved(d)
    /\ st'.lastEvent = st.lastEvent /\ seenBy'.events = seenBy.events
    /\ seenBy.returned \subseteq seenBy'.returned
    /\ srv'.named = srv.named /\ srv'.stateful = srv.stateful /\ srv'.live \subseteq srv.live
    /\ SessionKept \/ SessionOver \/ SessionAdopted
    /\ InboundsKept

-----------------------------------------------------------------------------
LEMMA Answerless ==
  NoAnswer.status = "none" /\ NoAnswer.session = None
  BY DEF NoAnswer

\* The types of the fields, one by one.
LEMMA Fields ==
  ASSUME HttpTypeOK
  PROVE  /\ srv.live \subseteq Nat /\ srv.named \in Nat /\ srv.stateful \in BOOLEAN
         /\ st.session \in {None} \cup Sessions /\ st.lastEvent.session \in {None} \cup Sessions
         /\ st.inboundStarted \in BOOLEAN
         /\ st.lastEvent \in Position
         /\ seenBy.learned \in {None} \cup Sessions /\ seenBy.returned \subseteq Sessions
         /\ seenBy.events \in [{None} \cup Sessions -> Seq(1..MaxEvents)]
         /\ \A c \in Callers :
              /\ task[c] \in Local
              /\ task[c].sent \in {None} \cup Sessions
              /\ task[c].answer.session \in {None} \cup Sessions
              /\ task[c].at \in Position /\ task[c].at.session \in {None} \cup Sessions
         /\ None \in Nat /\ {None} \cup Sessions \subseteq Nat
  BY DEF HttpTypeOK, State, Local, Position, None, Sessions

LEMMA CalmKept ==
  ASSUME HttpInv, Calm
  PROVE  HttpInv'
  <1>1. HttpTypeOK /\ HttpTypeOK'
    BY DEF HttpInv, Calm
  <1>2. AnswersHold'
    BY Answerless DEF HttpInv, AnswersHold, Calm, Moved, MovesTo
  <1> DEFINE ids == {None} \cup Sessions
  <1>3. KnownSessions'
    <2>1. st'.session <= srv.named /\ seenBy'.learned <= srv.named
      <3>1. CASE SessionKept
        BY <3>1 DEF HttpInv, KnownSessions, SessionKept
      <3>2. CASE SessionOver
        BY <3>2, <1>1, Fields DEF HttpInv, KnownSessions, SessionOver, None
      <3>3. CASE SessionAdopted
        BY <3>3 DEF HttpInv, KnownSessions, SessionAdopted
      <3>4. QED
        BY <3>1, <3>2, <3>3 DEF Calm
    <2>2. None <= srv.named
      BY <1>1, Fields DEF None
    <2>3. ASSUME NEW c \in Callers
          PROVE  /\ task'[c].sent <= srv.named /\ task'[c].at.session <= srv.named
                 /\ task'[c].answer.session <= srv.named
      BY <2>1, <2>2, Answerless DEF HttpInv, KnownSessions, Calm, Moved, MovesTo
    <2>4. QED
      BY <2>1, <2>3 DEF HttpInv, KnownSessions, Calm
  <1>4. NewToAll'
    <2> SUFFICES ASSUME NEW c \in Callers, task'[c].answer.session \notin {None, task'[c].sent}
                 PROVE  LET s == task'[c].answer.session
                        IN /\ st'.session # s /\ st'.lastEvent.session # s
                           /\ seenBy'.events[s] = <<>>
                           /\ \A d \in Callers : task'[d].sent # s /\ task'[d].at.session # s
                           /\ \A d \in Callers : task'[d].answer.session = s => d = c
      BY DEF NewToAll
    <2>1. task'[c] = task[c]
      BY Answerless DEF Calm, Moved, MovesTo
    <2> DEFINE s == task[c].answer.session
    <2>2. /\ s # None /\ st.session # s /\ st.lastEvent.session # s /\ seenBy.events[s] = <<>>
          /\ \A d \in Callers : task[d].sent # s /\ task[d].at.session # s
          /\ \A d \in Callers : task[d].answer.session = s => d = c
      BY <2>1 DEF HttpInv, NewToAll
    <2>3. st'.session # s
      <3>1. CASE SessionKept \/ SessionOver
        BY <3>1, <2>2 DEF SessionKept, SessionOver
      <3>2. CASE SessionAdopted
        BY <3>2, <2>1, <2>2, Answerless DEF SessionAdopted
      <3>3. QED
        BY <3>1, <3>2 DEF Calm
    <2>4. \A d \in Callers : task'[d].sent # s /\ task'[d].at.session # s
      BY <2>2, <2>3 DEF Calm, Moved, MovesTo
    <2>5. \A d \in Callers : task'[d].answer.session = s => d = c
      BY <2>2, Answerless DEF Calm, Moved, MovesTo
    <2>6. QED
      BY <2>1, <2>2, <2>3, <2>4, <2>5 DEF Calm
  <1>5. OneInbound'
    <2> USE DEF HttpInv, OneInbound
    <2>1. CASE /\ st'.inboundStarted = st.inboundStarted
               /\ \A i \in Inbounds : Active(i)' => Active(i)
      BY <2>1
    <2>2. CASE \E i \in Inbounds :
                 /\ Active(i) /\ ~Active(i)'
                 /\ \A j \in Inbounds \ {i} : task'[j] = task[j]
      <3>1. \A j \in Inbounds : ~Active(j)'
        BY <2>2 DEF Active
      <3>2. QED
        BY <3>1
    <2>3. CASE \E i \in Inbounds :
                 /\ st.inboundStarted = FALSE /\ st'.inboundStarted = TRUE
                 /\ \A j \in Inbounds \ {i} : task'[j] = task[j]
      <3>1. PICK i \in Inbounds :
                 /\ st.inboundStarted = FALSE /\ st'.inboundStarted = TRUE
                 /\ \A j \in Inbounds \ {i} : task'[j] = task[j]
        BY <2>3
      <3>2. \A j \in Inbounds \ {i} : ~Active(j)'
        BY <3>1 DEF Active
      <3>3. QED
        BY <3>1, <3>2
    <2>4. QED
      BY <2>1, <2>2, <2>3 DEF Calm, InboundsKept
  <1>6. Cursors'
    <2>1. ASSUME NEW i \in Inbounds
          PROVE  /\ task'[i].pc = "streaming" =>
                      \/ task'[i].at.session \in seenBy.returned
                      \/ task'[i].at.n = Len(seenBy.events[task'[i].at.session])
                 /\ task'[i].pc \in {"sent", "answered"} => task'[i].at = st.lastEvent
      BY DEF HttpInv, Cursors, Calm, Moved, MovesTo, Callers
    <2>2. QED
      BY <2>1 DEF HttpInv, Cursors, Calm
  <1>7. LeftBehind'
    <2> SUFFICES ASSUME NEW s \in ids, s \notin seenBy'.returned,
                        seenBy'.events[s] # <<>>, s # st'.lastEvent.session
                 PROVE  /\ st'.session # s
                        /\ \A i \in Inbounds : Asking(i)' => InboundSession(i)' # s
      BY DEF LeftBehind
    <2>1. seenBy.events[s] # <<>> /\ s # st.lastEvent.session /\ s \notin seenBy.returned
      BY DEF Calm
    <2>2. st.session # s /\ \A i \in Inbounds : Asking(i) => InboundSession(i) # s
      BY <2>1 DEF HttpInv, LeftBehind
    <2>3. s # None
      BY <2>1, <1>1, Fields DEF HttpInv, SessionsOrNone
    <2>4. st'.session # s
      <3>1. CASE SessionKept \/ SessionOver
        BY <3>1, <2>2, <2>3 DEF SessionKept, SessionOver
      <3>2. CASE SessionAdopted
        BY <3>2, <2>1 DEF HttpInv, NewToAll, SessionAdopted
      <3>3. QED
        BY <3>1, <3>2 DEF Calm
    <2>5. ASSUME NEW i \in Inbounds, Asking(i)' PROVE InboundSession(i)' # s
      <3>1. CASE task'[i] = task[i]
        BY <3>1, <2>2, <2>5 DEF Asking, InboundSession
      <3>2. CASE Moved(i)
        BY <3>2, <2>2, <2>3, <2>4, <2>5 DEF Asking, InboundSession, Moved, MovesTo
      <3>3. QED
        BY <3>1, <3>2 DEF Calm, Callers
    <2>6. QED
      BY <2>4, <2>5
  <1>8. MovedOn'
    <2> SUFFICES ASSUME NEW i \in Inbounds, Asking(i)', InboundSession(i)' # None,
                        InboundSession(i)' # st.lastEvent.session,
                        seenBy.events[st.lastEvent.session] # <<>>,
                        st.lastEvent.session \notin seenBy'.returned
                 PROVE  st'.session # st.lastEvent.session
      BY DEF MovedOn, Calm
    <2>0. st.lastEvent.session \notin seenBy.returned
      BY DEF Calm
    <2> DEFINE last == st.lastEvent.session
    <2>1. CASE SessionAdopted
      BY <2>1 DEF HttpInv, NewToAll, SessionAdopted
    <2>2. CASE SessionOver
      <3>1. CASE srv.stateful
        BY <3>1, <2>2 DEF SessionOver, HttpInv, SessionsOrNone
      <3>2. CASE ~srv.stateful
        <4>1. task[i].sent = None /\ task[i].at.session = None /\ st.session = None
          BY <3>2 DEF HttpInv, SessionsOrNone, Callers
        <4>2. InboundSession(i)' = None
          BY <4>1, <2>2 DEF SessionOver, Calm, Moved, MovesTo, InboundSession, Callers, Asking
        <4>3. QED
          BY <4>2
      <3>3. QED
        BY <3>1, <3>2
    <2>3. CASE SessionKept
      <3>1. CASE task'[i] = task[i]
        BY <3>1, <2>0, <2>3 DEF HttpInv, MovedOn, SessionKept, Asking, InboundSession
      <3>2. CASE Moved(i)
        BY <3>2, <2>0, <2>3 DEF HttpInv, MovedOn, SessionKept, Asking, InboundSession, Moved, MovesTo
      <3>3. QED
        BY <3>1, <3>2 DEF Calm, Callers
    <2>4. QED
      BY <2>1, <2>2, <2>3 DEF Calm
  <1>9. SessionsOrNone'
    <2>1. CASE srv.stateful
      <3>1. ASSUME NEW i \in Inbounds
            PROVE  /\ task'[i].answer.status = "stream" => task'[i].sent # None
                   /\ task'[i].pc = "streaming" => task'[i].at.session # None
        BY <2>1, Answerless DEF HttpInv, SessionsOrNone, Calm, Moved, MovesTo, Callers
      <3>2. QED
        BY <2>1, <3>1 DEF HttpInv, SessionsOrNone, Calm
    <2>2. CASE ~srv.stateful
      <3>1. st'.session = None
        BY <2>2 DEF HttpInv, SessionsOrNone, Calm, SessionKept, SessionOver, SessionAdopted
      <3>2. QED
        BY <2>2, <3>1, Answerless DEF HttpInv, SessionsOrNone, Calm, Moved, MovesTo
    <2>3. QED
      BY <2>1, <2>2
  <1>10. ReplacementRetained'
    <2>1. CASE SessionKept \/ SessionOver
      BY <2>1 DEF HttpInv, ReplacementRetained, Calm, SessionKept, SessionOver
    <2>2. CASE SessionAdopted
      BY <2>2 DEF ReplacementRetained, SessionAdopted
    <2>3. QED
      BY <2>1, <2>2 DEF Calm
  <1>11. InboundInOrder'
    BY DEF HttpInv, InboundInOrder, Calm
  <1>12. QED
    BY <1>1, <1>2, <1>3, <1>4, <1>5, <1>6, <1>7, <1>8, <1>9, <1>10, <1>11 DEF HttpInv

-----------------------------------------------------------------------------
(* The steps that are not calm.                                            *)

\* One task changes.
LEMMA OneTask ==
  ASSUME HttpTypeOK, NEW c \in Callers, NEW v \in Local, task' = [task EXCEPT ![c] = v]
  PROVE  /\ task' \in [Callers -> Local]
         /\ task'[c] = v /\ \A d \in Callers \ {c} : task'[d] = task[d]
  BY DEF HttpTypeOK

\* What an answer may say.
LEMMA Truthful ==
  ASSUME NEW c \in Callers, NEW status \in Answers(c)
  PROVE  /\ status \in Statuses
         /\ status = "notFound" => task[c].sent \notin srv.live
         /\ c \in Inbounds /\ srv.stateful /\ status = "stream" => task[c].sent # None
  <1>1. c \in Inbounds => c \notin Initializes
    BY McpHttpAssumption
  <1>2. QED
    BY <1>1 DEF Answers, Takes, Statuses, None

\* The session a success names: none, that of the request, or the next one.
LEMMA Named ==
  ASSUME HttpTypeOK, NEW c \in Callers, NEW status \in Answers(c), NEW id \in Names(c, status)
  PROVE  /\ id \in {None} \cup Sessions
         /\ id # srv.named + 1 => id \in {None, task[c].sent}
         /\ id = srv.named + 1 => srv.stateful /\ id \in Sessions /\ status # "notFound"
  <1>1. /\ srv.named + 1 # None /\ None \in {None} \cup Sessions
        /\ task[c].sent \in {None} \cup Sessions
    BY Fields DEF None
  <1>2. CASE srv.stateful /\ Takes(c) /\ status \in {"accepted", "stream", "json"}
    <2>1. Names(c, status) = {None, task[c].sent} \cup {s \in Sessions : s = srv.named + 1}
      BY <1>2 DEF Names
    <2>2. srv.named + 1 = task[c].sent => task[c].sent \in Sessions
      BY <1>1
    <2>3. QED
      BY <1>1, <1>2, <2>1, <2>2
  <1>3. CASE ~(srv.stateful /\ Takes(c) /\ status \in {"accepted", "stream", "json"})
    BY <1>1, <1>3 DEF Names
  <1>4. QED
    BY <1>2, <1>3

\* The answer the server gives.
LEMMA ServerAnswer ==
  ASSUME HttpTypeOK, NEW c \in Callers, ServerAnswers(c)
  PROVE  \E v \in Local :
           /\ task' = [task EXCEPT ![c] = v]
           /\ v.pc = "answered" /\ v.sent = task[c].sent /\ v.at = task[c].at
           /\ v.answer.status = "notFound" => task[c].sent \notin srv.live
           /\ c \in Inbounds /\ srv.stateful /\ v.answer.status = "stream" => task[c].sent # None
           /\ \/ v.answer.session \in {None, task[c].sent} /\ srv' = srv
              \/ /\ srv.stateful /\ srv.named + 1 \in Sessions
                 /\ v.answer.session = srv.named + 1 /\ v.answer.status # "notFound"
                 /\ srv' = [srv EXCEPT !.live = @ \cup {srv.named + 1}, !.named = @ + 1]
  <1> DEFINE Given(a) == [task[c] EXCEPT !.pc = "answered", !.answer = a]
  <1>1. ASSUME NEW a \in [status : Statuses \cup {"none"}, session : {None} \cup Sessions]
        PROVE  /\ Given(a) \in Local
               /\ Given(a).pc = "answered" /\ Given(a).sent = task[c].sent
               /\ Given(a).at = task[c].at /\ Given(a).answer = a
    BY Fields DEF Local
  <1>2. CASE task' = [task EXCEPT ![c].pc = "answered",
                                  ![c].answer = [NoAnswer EXCEPT !.status = "unauthorized"]]
             /\ UNCHANGED srv
    <2> DEFINE a == [NoAnswer EXCEPT !.status = "unauthorized"]
    <2>1. /\ a \in [status : Statuses \cup {"none"}, session : {None} \cup Sessions]
          /\ a.status = "unauthorized" /\ a.session = None
      BY DEF NoAnswer, Statuses
    <2>2. task' = [task EXCEPT ![c] = Given(a)]
      BY <1>2
    <2> HIDE DEF a, Given
    <2>3. QED
      BY <1>1, <1>2, <2>1, <2>2
  <1>3. ASSUME NEW status \in Answers(c), NEW id \in Names(c, status),
               srv' = IF id = srv.named + 1
                      THEN [srv EXCEPT !.live = @ \cup {id}, !.named = id]
                      ELSE srv,
               task' = [task EXCEPT ![c].pc = "answered",
                                    ![c].answer = [status |-> status, session |-> id]]
        PROVE  \E v \in Local :
                  /\ task' = [task EXCEPT ![c] = v]
                  /\ v.pc = "answered" /\ v.sent = task[c].sent /\ v.at = task[c].at
                  /\ v.answer.status = "notFound" => task[c].sent \notin srv.live
                  /\ c \in Inbounds /\ srv.stateful /\ v.answer.status = "stream" => task[c].sent # None
                  /\ \/ v.answer.session \in {None, task[c].sent} /\ srv' = srv
                     \/ /\ srv.stateful /\ srv.named + 1 \in Sessions
                        /\ v.answer.session = srv.named + 1 /\ v.answer.status # "notFound"
                        /\ srv' = [srv EXCEPT !.live = @ \cup {srv.named + 1}, !.named = @ + 1]
    <2> DEFINE a == [status |-> status, session |-> id]
    <2>1. /\ a \in [status : Statuses \cup {"none"}, session : {None} \cup Sessions]
          /\ a.status = status /\ a.session = id
      BY Named, Truthful
    <2>2. task' = [task EXCEPT ![c] = Given(a)]
      BY <1>3
    <2>3. /\ Given(a) \in Local /\ Given(a).pc = "answered" /\ Given(a).sent = task[c].sent
          /\ Given(a).at = task[c].at /\ Given(a).answer.status = status
          /\ Given(a).answer.session = id
      BY <1>1, <2>1
    <2> HIDE DEF a, Given
    <2>4. CASE id = srv.named + 1
      <3>1. srv' = [srv EXCEPT !.live = @ \cup {srv.named + 1}, !.named = @ + 1]
        BY <1>3, <2>4
      <3>2. srv.stateful /\ srv.named + 1 \in Sessions /\ status # "notFound"
        BY <2>4, Named
      <3>3. c \in Inbounds /\ srv.stateful /\ status = "stream" => task[c].sent # None
        BY Truthful
      <3>4. QED
        BY <2>2, <2>3, <2>4, <3>1, <3>2, <3>3
    <2>5. CASE id # srv.named + 1
      BY <1>3, <2>2, <2>3, <2>5, Truthful, Named
    <2>6. QED
      BY <2>4, <2>5
  <1>4. QED
    BY <1>2, <1>3 DEF ServerAnswers

LEMMA ServerAnswersKept ==
  ASSUME HttpInv, NEW c \in Callers, ServerAnswers(c)
  PROVE  HttpInv'
  <1>1. HttpTypeOK
    BY DEF HttpInv
  <1>2. PICK v \in Local :
           /\ task' = [task EXCEPT ![c] = v]
           /\ v.pc = "answered" /\ v.sent = task[c].sent /\ v.at = task[c].at
           /\ v.answer.status = "notFound" => task[c].sent \notin srv.live
           /\ c \in Inbounds /\ srv.stateful /\ v.answer.status = "stream" => task[c].sent # None
           /\ \/ v.answer.session \in {None, task[c].sent} /\ srv' = srv
              \/ /\ srv.stateful /\ srv.named + 1 \in Sessions
                 /\ v.answer.session = srv.named + 1 /\ v.answer.status # "notFound"
                 /\ srv' = [srv EXCEPT !.live = @ \cup {srv.named + 1}, !.named = @ + 1]
    BY <1>1, ServerAnswer
  <1>3. /\ task' \in [Callers -> Local]
        /\ task'[c] = v /\ \A d \in Callers \ {c} : task'[d] = task[d]
    BY <1>1, <1>2, OneTask
  <1>4. UNCHANGED <<st, seenBy, closing>> /\ task[c].pc = "sent"
    BY DEF ServerAnswers
  \* The server names its sessions in order.
  <1>5. /\ srv'.stateful = srv.stateful /\ srv'.named \in {srv.named, srv.named + 1}
        /\ srv'.live \subseteq srv.live \cup {srv.named + 1}
        /\ \/ srv' = srv /\ v.answer.session \in {None, task[c].sent}
           \/ /\ srv.stateful /\ srv'.named = srv.named + 1
              /\ v.answer.session = srv.named + 1
        /\ srv' \in [live : SUBSET Sessions, named : Sessions, stateful : BOOLEAN]
    <2>1. /\ srv \in [live : SUBSET Sessions, named : Sessions, stateful : BOOLEAN]
          /\ srv.named \in Nat /\ srv.named + 1 # None
      BY <1>1, Fields DEF HttpTypeOK, None
    <2>2. CASE v.answer.session \in {None, task[c].sent} /\ srv' = srv
      BY <2>1, <2>2
    <2>3. CASE /\ srv.stateful /\ srv.named + 1 \in Sessions
               /\ v.answer.session = srv.named + 1
               /\ srv' = [srv EXCEPT !.live = @ \cup {srv.named + 1}, !.named = @ + 1]
      <3>1. /\ srv'.stateful = srv.stateful /\ srv'.named = srv.named + 1
            /\ srv'.live = srv.live \cup {srv.named + 1}
            /\ srv' \in [live : SUBSET Sessions, named : Sessions, stateful : BOOLEAN]
        BY <2>1, <2>3
      <3>2. QED
        BY <2>1, <2>3, <3>1
    <2>4. QED
      BY <1>2, <2>2, <2>3
  <1>6. HttpTypeOK'
    BY <1>1, <1>3, <1>4, <1>5 DEF HttpTypeOK
  <1>7. \A d \in Callers : task'[d].sent = task[d].sent /\ task'[d].at = task[d].at
    BY <1>2, <1>3
  <1>8. KnownSessions /\ srv.named \in Nat /\ {None} \cup Sessions \subseteq Nat
    BY <1>1, Fields DEF HttpInv
  <1>9. AnswersHold'
    <2>1. \A d \in Callers : task[d].sent \notin srv.live => task'[d].sent \notin srv'.live
      BY <1>1, <1>5, <1>7, <1>8, Fields DEF KnownSessions
    <2>2. QED
      BY <1>2, <1>3, <2>1 DEF HttpInv, AnswersHold
  <1>10. KnownSessions'
    <2>1. srv.named <= srv'.named /\ \A s \in srv'.live : s <= srv'.named
      BY <1>5, <1>8 DEF KnownSessions
    <2>2. \A n \in Nat : n <= srv.named => n <= srv'.named
      BY <1>5, <1>8
    <2>3. \A d \in Callers : task'[d].answer.session <= srv'.named
      <3>1. task'[c].answer.session <= srv'.named
        BY <1>3, <1>5, <1>8 DEF None, KnownSessions
      <3>2. QED
        BY <1>1, <1>3, <1>8, <2>2, <3>1, Fields DEF KnownSessions
    <2>4. /\ st.session <= srv'.named /\ st.lastEvent.session <= srv'.named
          /\ seenBy.learned <= srv'.named
          /\ \A d \in Callers : task'[d].sent <= srv'.named /\ task'[d].at.session <= srv'.named
      BY <1>1, <1>7, <1>8, <2>2, Fields DEF KnownSessions
    <2>5. \A s \in Sessions : s > srv'.named => seenBy.events[s] = <<>>
      BY <1>5, <1>8, <2>1 DEF KnownSessions
    <2>6. QED
      BY <1>4, <2>1, <2>3, <2>4, <2>5 DEF KnownSessions
  <1>11. NewToAll'
    <2> SUFFICES ASSUME NEW e \in Callers, task'[e].answer.session \notin {None, task'[e].sent}
                 PROVE  LET s == task'[e].answer.session
                        IN /\ st.session # s /\ st.lastEvent.session # s
                           /\ seenBy.events[s] = <<>>
                           /\ \A d \in Callers : task[d].sent # s /\ task[d].at.session # s
                           /\ \A d \in Callers : task'[d].answer.session = s => d = e
      BY <1>4, <1>7 DEF NewToAll
    <2>1. CASE e = c
      <3>1. task'[e].answer.session = srv.named + 1
        BY <2>1, <1>3, <1>5, <1>7
      <3>2. srv.named + 1 \in Sessions
        BY <2>1, <1>2, <1>3, <1>7
      <3>3. \A n \in Nat : n <= srv.named => n # srv.named + 1
        BY <1>8
      <3>4. /\ st.session # srv.named + 1 /\ st.lastEvent.session # srv.named + 1
            /\ seenBy.events[srv.named + 1] = <<>>
            /\ \A d \in Callers : task[d].sent # srv.named + 1 /\ task[d].at.session # srv.named + 1
            /\ \A d \in Callers : task[d].answer.session # srv.named + 1
        BY <1>1, <1>8, <3>2, <3>3, Fields DEF KnownSessions
      <3>5. QED
        BY <2>1, <1>3, <3>1, <3>4
    <2>2. CASE e # c
      <3>1. task'[e] = task[e]
        BY <2>2, <1>3
      <3>2. task[e].answer.session # srv.named + 1
        BY <1>1, <1>8, Fields DEF KnownSessions
      <3>3. \A d \in Callers : task[d].sent # task[e].answer.session
        BY <3>1 DEF HttpInv, NewToAll
      <3>4. task'[c].answer.session # task[e].answer.session
        BY <3>1, <3>2, <3>3, <1>2, <1>3
      <3>5. QED
        BY <2>2, <1>3, <3>1, <3>4 DEF HttpInv, NewToAll
    <2>3. QED
      BY <2>1, <2>2
  <1>12. OneInbound'
    <2>1. \A i \in Inbounds : Active(i)' <=> Active(i)
      BY <1>2, <1>3, <1>4 DEF Active, Callers
    <2>2. QED
      BY <2>1, <1>4 DEF HttpInv, OneInbound
  <1>13. Cursors'
    <2>1. ASSUME NEW i \in Inbounds
          PROVE  /\ task'[i].pc = "streaming" => task[i].pc = "streaming"
                 /\ task'[i].pc \in {"sent", "answered"} => task[i].pc \in {"sent", "answered"}
      BY <1>2, <1>3, <1>4 DEF Callers
    <2>2. QED
      BY <2>1, <1>4, <1>7 DEF HttpInv, Cursors, Callers
  <1>14. ASSUME NEW i \in Inbounds
         PROVE  Asking(i)' = Asking(i) /\ InboundSession(i)' = InboundSession(i)
    BY <1>2, <1>3, <1>4 DEF Asking, InboundSession, Callers
  <1>15. LeftBehind' /\ MovedOn'
    BY <1>4, <1>14 DEF HttpInv, LeftBehind, MovedOn
  <1>16. SessionsOrNone'
    BY <1>2, <1>3, <1>4, <1>5, <1>7 DEF HttpInv, SessionsOrNone, Callers
  <1>17. ReplacementRetained'
    <2>1. seenBy.learned # srv.named + 1
      BY <1>1, <1>8, Fields DEF KnownSessions
    <2>2. QED
      BY <2>1, <1>4, <1>5 DEF HttpInv, ReplacementRetained
  <1>18. InboundInOrder'
    BY <1>4 DEF HttpInv, InboundInOrder
  <1>19. QED
    BY <1>6, <1>9, <1>10, <1>11, <1>12, <1>13, <1>15, <1>16, <1>17, <1>18 DEF HttpInv

\* The connection of an inbound task is there: it reads on where the last
\* event was, or from the start of another session.
LEMMA InboundOpensKept ==
  ASSUME HttpInv, NEW i \in Inbounds, InboundOpens(i)
  PROVE  HttpInv'
  <1> DEFINE named == task[i].answer.session
             id == IF named # None THEN named ELSE task[i].sent
             place == IF task[i].at.session = id THEN task[i].at ELSE [session |-> id, n |-> 0]
             v == [task[i] EXCEPT !.pc = "streaming", !.answer = NoAnswer, !.at = place]
  <1>1. HttpTypeOK /\ i \in Callers
    BY DEF HttpInv, Callers
  <1>2. id \in {None} \cup Sessions /\ named \in {None} \cup Sessions
    BY <1>1, Fields
  <1>3. /\ place \in Position /\ place.session = id
        /\ place # task[i].at => task[i].at.session # id /\ place.n = 0
    BY <1>1, <1>2, Fields, McpHttpAssumption DEF Position
  <1>4. /\ v \in Local /\ v.pc = "streaming" /\ v.answer = NoAnswer
        /\ v.sent = task[i].sent /\ v.at = place
    BY <1>1, <1>3, Fields DEF Local, NoAnswer, Statuses
  <1>5. /\ task[i].pc = "answered" /\ task[i].answer.status = "stream"
        /\ task' = [task EXCEPT ![i] = v]
        /\ st' = adopt(i, st) /\ seenBy' = learn(i)
        /\ UNCHANGED <<closing, srv>>
    BY DEF InboundOpens, Answered, Around
  <1>6. /\ st' \in State /\ st'.lastEvent = st.lastEvent
        /\ st'.inboundStarted = st.inboundStarted
        /\ st'.session = IF named = None THEN st.session ELSE named
    BY <1>1, <1>2, <1>5 DEF adopt, HttpTypeOK, State
  <1>7. /\ seenBy' \in [learned : {None} \cup Sessions, returned : SUBSET Sessions,
                         events : [{None} \cup Sessions -> Seq(1..MaxEvents)]]
        /\ seenBy'.events = seenBy.events
        /\ seenBy'.learned = IF named = None THEN seenBy.learned ELSE named
        /\ seenBy.returned \subseteq seenBy'.returned
        /\ named = task[i].sent /\ named # None /\ named # st.session
           => named \in seenBy'.returned
    BY <1>1, <1>2, <1>5 DEF learn, HttpTypeOK
  <1> HIDE DEF v, place
  <1>8. /\ task' \in [Callers -> Local]
        /\ task'[i] = v /\ \A d \in Callers \ {i} : task'[d] = task[d]
    BY <1>1, <1>4, <1>5, OneTask
  <1>9. HttpTypeOK'
    BY <1>1, <1>5, <1>6, <1>7, <1>8 DEF HttpTypeOK
  <1>10. ASSUME named \notin {None, task[i].sent}
         PROVE  /\ st.session # named /\ st.lastEvent.session # named
                /\ seenBy.events[named] = <<>>
                /\ \A d \in Callers : task[d].sent # named /\ task[d].at.session # named
                /\ \A d \in Callers : task[d].answer.session = named => d = i
    BY <1>1, <1>10 DEF HttpInv, NewToAll
  <1>11. task[i].at = st.lastEvent /\ Asking(i) /\ InboundSession(i) = task[i].sent
    BY <1>5 DEF HttpInv, Cursors, Asking, InboundSession
  \* Another session than that of the last event has no events yet, or was
  \* returned to.
  <1>12. place # task[i].at => seenBy.events[id] = <<>> \/ id \in seenBy.returned
    BY <1>2, <1>3, <1>10, <1>11 DEF HttpInv, LeftBehind
  <1>13. Asking(i)' /\ InboundSession(i)' = id
    BY <1>3, <1>4, <1>8 DEF Asking, InboundSession
  <1>14. ASSUME NEW j \in Inbounds \ {i}
         PROVE  task'[j] = task[j] /\ ~Asking(j)' /\ ~Asking(j)
    <2>1. task'[j] = task[j]
      BY <1>8 DEF Callers
    <2>2. ~Active(j)
      BY <1>5 DEF HttpInv, OneInbound, Active
    <2>3. QED
      BY <2>1, <2>2 DEF Active, Asking
  <1>15. AnswersHold'
    BY <1>4, <1>5, <1>8, Answerless DEF HttpInv, AnswersHold
  <1>16. KnownSessions'
    <2>1. named <= srv.named /\ id <= srv.named
      BY <1>1 DEF HttpInv, KnownSessions
    <2>2. task'[i].answer.session <= srv.named
      BY <1>1, <1>4, <1>8, Answerless, Fields DEF None
    <2>3. QED
      BY <2>1, <2>2, <1>3, <1>4, <1>5, <1>6, <1>7, <1>8 DEF HttpInv, KnownSessions
  <1>17. NewToAll'
    <2> SUFFICES ASSUME NEW e \in Callers, task'[e].answer.session \notin {None, task'[e].sent}
                 PROVE  LET s == task'[e].answer.session
                        IN /\ st'.session # s /\ st.lastEvent.session # s
                           /\ seenBy.events[s] = <<>>
                           /\ \A d \in Callers : task'[d].sent # s /\ task'[d].at.session # s
                           /\ \A d \in Callers : task'[d].answer.session = s => d = e
      BY <1>6, <1>7 DEF NewToAll
    <2>1. e # i /\ task'[e] = task[e]
      BY <1>4, <1>8, Answerless
    <2> DEFINE s == task[e].answer.session
    <2>2. /\ s # None /\ st.session # s /\ st.lastEvent.session # s /\ seenBy.events[s] = <<>>
          /\ \A d \in Callers : task[d].sent # s /\ task[d].at.session # s
          /\ \A d \in Callers : task[d].answer.session = s => d = e
      BY <2>1 DEF HttpInv, NewToAll
    <2>3. named # s /\ id # s
      BY <2>1, <2>2, <1>1
    <2>4. QED
      BY <2>1, <2>2, <2>3, <1>3, <1>4, <1>6, <1>8, Answerless
  <1>18. OneInbound'
    <2>1. \A j \in Inbounds : Active(j)' => Active(j)
      BY <1>5, <1>14 DEF Active
    <2>2. QED
      BY <2>1, <1>6 DEF HttpInv, OneInbound
  <1>19. Cursors'
    <2>1. task'[i].pc = "streaming" /\ task'[i].at = place
      BY <1>4, <1>8
    <2>2. \/ place.session \in seenBy.returned
          \/ place.n = Len(seenBy.events[place.session])
      BY <1>3, <1>11, <1>12 DEF HttpInv, Cursors
    <2>3. QED
      BY <2>1, <2>2, <1>6, <1>7, <1>14 DEF HttpInv, Cursors
  <1>20. LeftBehind'
    <2> SUFFICES ASSUME NEW s \in {None} \cup Sessions, s \notin seenBy'.returned,
                        seenBy.events[s] # <<>>, s # st.lastEvent.session
                 PROVE  /\ st'.session # s
                        /\ \A j \in Inbounds : Asking(j)' => InboundSession(j)' # s
      BY <1>6, <1>7 DEF LeftBehind
    <2>1. st.session # s /\ task[i].sent # s
      BY <1>7, <1>11 DEF HttpInv, LeftBehind
    <2>2. named # None => named # s
      BY <2>1, <1>10
    <2>3. QED
      BY <2>1, <2>2, <1>6, <1>13, <1>14
  <1>21. MovedOn'
    <2> SUFFICES ASSUME id # None, id # st.lastEvent.session,
                        st.lastEvent.session \notin seenBy'.returned,
                        seenBy.events[st.lastEvent.session] # <<>>
                 PROVE  st'.session # st.lastEvent.session
      BY <1>6, <1>7, <1>13, <1>14 DEF MovedOn
    <2>1. CASE named = None
      BY <2>1, <1>6, <1>7, <1>11 DEF HttpInv, MovedOn
    <2>2. CASE named # None
      BY <2>2, <1>6
    <2>3. QED
      BY <2>1, <2>2
  <1>22. SessionsOrNone'
    <2>1. CASE srv.stateful
      <3>1. task[i].sent # None
        BY <2>1, <1>5 DEF HttpInv, SessionsOrNone
      <3>2. QED
        BY <2>1, <3>1, <1>3, <1>4, <1>5, <1>7, <1>8, <1>14, Answerless DEF HttpInv, SessionsOrNone
    <2>2. CASE ~srv.stateful
      BY <2>2, <1>1, <1>3, <1>4, <1>5, <1>6, <1>8, Answerless DEF HttpInv, SessionsOrNone
    <2>3. QED
      BY <2>1, <2>2
  <1>23. ReplacementRetained'
    BY <1>5, <1>6, <1>7 DEF HttpInv, ReplacementRetained
  <1>24. InboundInOrder'
    BY <1>7 DEF HttpInv, InboundInOrder
  <1>25. QED
    BY <1>9, <1>15, <1>16, <1>17, <1>18, <1>19, <1>20, <1>21, <1>22, <1>23, <1>24 DEF HttpInv

\* The next event of the stream: the one after all that were emitted.
LEMMA InboundEventKept ==
  ASSUME HttpInv, NEW i \in Inbounds, InboundEvent(i)
  PROVE  HttpInv'
  <1> DEFINE here == task[i].at
             next == [here EXCEPT !.n = @ + 1]
             v == [task[i] EXCEPT !.at = next]
             t == here.session
             told == seenBy.events[t]
  <1>1. HttpTypeOK /\ i \in Callers
    BY DEF HttpInv, Callers
  <1>2. /\ task[i].pc = "streaming" /\ here.n < MaxEvents
        /\ task' = [task EXCEPT ![i].at = next]
        /\ st' = [st EXCEPT !.lastEvent = next]
        /\ seenBy' = [seenBy EXCEPT !.events[t] = Append(@, next.n)]
        /\ UNCHANGED <<closing, srv>>
    BY DEF InboundEvent, Around
  <1>3. here \in Position /\ t \in {None} \cup Sessions /\ here.n \in Nat
    BY <1>1, Fields DEF Position
  <1>4. /\ next \in Position /\ next.session = t /\ next.n = here.n + 1
        /\ next.n \in 1..MaxEvents
    BY <1>2, <1>3, McpHttpAssumption DEF Position
  <1>5. /\ v \in Local /\ v.at = next /\ v.pc = task[i].pc /\ v.sent = task[i].sent
        /\ v.answer = task[i].answer /\ task' = [task EXCEPT ![i] = v]
    BY <1>1, <1>2, <1>4, Fields DEF Local
  <1>6. /\ st' \in State /\ st'.lastEvent = next /\ st'.session = st.session
        /\ st'.inboundStarted = st.inboundStarted
    BY <1>1, <1>2, <1>4 DEF HttpTypeOK, State
  <1>7. /\ Append(told, next.n) \in Seq(1..MaxEvents) /\ Append(told, next.n) # <<>>
        /\ t \notin seenBy.returned =>
             /\ Len(Append(told, next.n)) = next.n
             /\ \A k \in DOMAIN Append(told, next.n) : Append(told, next.n)[k] = k
    <2>1. told \in Seq(1..MaxEvents)
      BY <1>1, <1>3, Fields
    <2>2. t \notin seenBy.returned => here.n = Len(told)
      BY <1>2 DEF HttpInv, Cursors
    <2>3. t \notin seenBy.returned => \A k \in DOMAIN told : told[k] = k
      BY <1>3 DEF HttpInv, InboundInOrder
    <2> HIDE DEF told
    <2>4. ASSUME NEW s \in Seq(1..MaxEvents), NEW n \in 1..MaxEvents
          PROVE  Append(s, n) \in Seq(1..MaxEvents) /\ Append(s, n) # <<>>
      OBVIOUS
    <2>5. ASSUME NEW s \in Seq(1..MaxEvents), NEW n \in 1..MaxEvents, n = Len(s) + 1,
                 \A k \in DOMAIN s : s[k] = k
          PROVE  /\ Len(Append(s, n)) = n
                 /\ \A k \in DOMAIN Append(s, n) : Append(s, n)[k] = k
      BY <2>5
    <2>6. QED
      BY <1>4, <2>1, <2>2, <2>3, <2>4, <2>5
  <1> HIDE DEF next, v, here
  <1>8. /\ seenBy' \in [learned : {None} \cup Sessions, returned : SUBSET Sessions,
                         events : [{None} \cup Sessions -> Seq(1..MaxEvents)]]
        /\ seenBy'.learned = seenBy.learned /\ seenBy'.returned = seenBy.returned
        /\ seenBy'.events[t] = Append(told, next.n)
        /\ \A s \in ({None} \cup Sessions) \ {t} : seenBy'.events[s] = seenBy.events[s]
    BY <1>1, <1>2, <1>3, <1>7 DEF HttpTypeOK
  <1>9. /\ task' \in [Callers -> Local]
        /\ task'[i] = v /\ \A d \in Callers \ {i} : task'[d] = task[d]
    BY <1>1, <1>5, OneTask
  <1>10. HttpTypeOK'
    BY <1>1, <1>2, <1>6, <1>8, <1>9 DEF HttpTypeOK
  <1>11. \A d \in Callers : /\ task'[d].sent = task[d].sent /\ task'[d].answer = task[d].answer
                             /\ task'[d].pc = task[d].pc /\ task'[d].at.session = task[d].at.session
    BY <1>4, <1>5, <1>9 DEF here
  <1>12. ASSUME NEW j \in Inbounds
         PROVE  /\ Active(j)' = Active(j) /\ Asking(j)' = Asking(j)
                /\ InboundSession(j)' = InboundSession(j)
    BY <1>11 DEF Active, Asking, InboundSession, Callers
  <1>13. Asking(i) /\ InboundSession(i) = t
    BY <1>2 DEF Asking, InboundSession, here
  <1>14. ASSUME NEW j \in Inbounds \ {i} PROVE ~Active(j) /\ ~Asking(j)
    BY <1>2 DEF HttpInv, OneInbound, Active, Asking
  <1>15. AnswersHold'
    BY <1>2, <1>11 DEF HttpInv, AnswersHold
  <1>16. KnownSessions'
    <2>1. t <= srv.named
      BY <1>1 DEF HttpInv, KnownSessions, here
    <2>2. \A s \in Sessions : s > srv.named => s # t
      BY <2>1, <1>1, <1>3, Fields
    <2>3. QED
      BY <2>1, <2>2, <1>2, <1>4, <1>6, <1>8, <1>11 DEF HttpInv, KnownSessions
  <1>17. NewToAll'
    <2> SUFFICES ASSUME NEW e \in Callers, task[e].answer.session \notin {None, task[e].sent}
                 PROVE  LET s == task[e].answer.session
                        IN /\ st.session # s /\ t # s /\ seenBy'.events[s] = <<>>
                           /\ \A d \in Callers : task[d].sent # s /\ task[d].at.session # s
                           /\ \A d \in Callers : task[d].answer.session = s => d = e
      BY <1>4, <1>6, <1>11 DEF NewToAll
    <2>1. task[e].answer.session \in {None} \cup Sessions
      BY <1>1, Fields
    <2>2. QED
      BY <2>1, <1>1, <1>8 DEF HttpInv, NewToAll, here
  <1>18. OneInbound'
    BY <1>6, <1>12 DEF HttpInv, OneInbound
  <1>19. Cursors'
    <2>1. \/ st'.lastEvent.session \in seenBy'.returned
          \/ st'.lastEvent.n = Len(seenBy'.events[st'.lastEvent.session])
      BY <1>4, <1>6, <1>7, <1>8
    <2>2. task'[i].pc = "streaming" /\ task'[i].at = st'.lastEvent
      BY <1>2, <1>5, <1>6, <1>9
    <2>3. \A j \in Inbounds \ {i} : task'[j].pc \notin {"streaming", "sent", "answered"}
      BY <1>11, <1>14 DEF Active, Asking, Callers
    <2>4. QED
      BY <2>1, <2>2, <2>3 DEF Cursors
  \* The session of the event is the client's, or the stream would not be its.
  <1>20. LeftBehind'
    <2> SUFFICES ASSUME NEW s \in {None} \cup Sessions, s \notin seenBy.returned,
                        seenBy'.events[s] # <<>>, s # t
                 PROVE  /\ st.session # s
                        /\ \A j \in Inbounds : Asking(j) => InboundSession(j) # s
      BY <1>4, <1>6, <1>8, <1>12 DEF LeftBehind
    <2>1. seenBy.events[s] # <<>>
      BY <1>8
    <2>2. \A j \in Inbounds : Asking(j) => InboundSession(j) # s
      BY <1>13, <1>14
    <2>3. CASE s # st.lastEvent.session
      BY <2>1, <2>2, <2>3 DEF HttpInv, LeftBehind
    <2>4. CASE s = st.lastEvent.session
      <3>1. srv.stateful
        BY <2>4, <1>1 DEF HttpInv, SessionsOrNone, here
      <3>2. t # None
        BY <3>1, <1>2 DEF HttpInv, SessionsOrNone, here
      <3>3. QED
        BY <2>1, <2>2, <2>4, <3>2, <1>13 DEF HttpInv, MovedOn
    <2>5. QED
      BY <2>3, <2>4
  <1>21. MovedOn'
    BY <1>4, <1>6, <1>12, <1>13, <1>14 DEF MovedOn
  <1>22. SessionsOrNone'
    <2>1. CASE srv.stateful
      <3>1. t # None
        BY <2>1, <1>2 DEF HttpInv, SessionsOrNone, here
      <3>2. QED
        BY <2>1, <3>1, <1>2, <1>8, <1>11 DEF HttpInv, SessionsOrNone, Callers
    <2>2. CASE ~srv.stateful
      BY <2>2, <1>1, <1>2, <1>4, <1>6, <1>11 DEF HttpInv, SessionsOrNone, here
    <2>3. QED
      BY <2>1, <2>2
  <1>23. ReplacementRetained'
    BY <1>2, <1>6, <1>8 DEF HttpInv, ReplacementRetained
  <1>24. InboundInOrder'
    BY <1>7, <1>8 DEF HttpInv, InboundInOrder
  <1>25. QED
    BY <1>10, <1>15, <1>16, <1>17, <1>18, <1>19, <1>20, <1>21, <1>22, <1>23, <1>24 DEF HttpInv

-----------------------------------------------------------------------------
(* The calm steps.                                                         *)

LEMMA Finished ==
  ASSUME NEW c \in Callers
  PROVE  Done \in Local /\ Done.pc = "done" /\ MovesTo(c, Done)
  <1>1. NoAnswer \in [status : Statuses \cup {"none"}, session : {None} \cup Sessions]
    BY DEF NoAnswer
  <1>2. Start0 \in Position /\ Start0.session = None
    BY McpHttpAssumption DEF Start0, Position
  <1>3. /\ Idle \in Local /\ Idle.sent = None /\ Idle.answer = NoAnswer /\ Idle.at = Start0
    BY <1>1, <1>2 DEF Idle, Local
  <1>4. /\ Done \in Local /\ Done.pc = "done" /\ Done.sent = None
        /\ Done.answer = NoAnswer /\ Done.at = Start0
    BY <1>3 DEF Done, Local
  <1>5. QED
    BY <1>2, <1>4 DEF MovesTo

\* A task that keeps its session and its place and drops its answer.
LEMMA Going ==
  ASSUME NEW c \in Callers, NEW v, v.answer = NoAnswer,
         v.sent \in {task[c].sent, None}, v.at \in {task[c].at, Start0},
         v.pc \in {"auth", "sleeping"} \/ (v.pc = "streaming" /\ c \notin Inbounds)
  PROVE  MovesTo(c, v)
  BY DEF MovesTo, Start0

\* What a task keeps at another place.
LEMMA Moving ==
  ASSUME HttpTypeOK, NEW c \in Callers, NEW place \in {"auth", "sleeping", "headers"}
  PROVE  /\ At(c, place) \in Local /\ At(c, place).pc = place
         /\ At(c, place).answer = NoAnswer /\ At(c, place).sent = None
         /\ At(c, place).at = Start0 /\ At(c, place).hops = task[c].hops
         /\ At(c, place).hops \in Nat
  <1>1. task[c] \in Local
    BY Fields
  <1>2. NoAnswer \in [status : Statuses \cup {"none"}, session : {None} \cup Sessions]
    BY DEF NoAnswer
  <1>3. Start0 \in Position /\ None \in {None} \cup Sessions
    BY McpHttpAssumption DEF Start0, Position
  <1>4. QED
    BY <1>1, <1>2, <1>3 DEF At, Local

\* A task whose request is made anew, under the session of the moment.
LEMMA Asks ==
  ASSUME HttpTypeOK, NEW c \in Callers, st'.session = st.session
  PROVE  /\ toHeaders(c) \in Local /\ toHeaders(c).pc = "headers" /\ MovesTo(c, toHeaders(c))
         /\ LET v == [toHeaders(c) EXCEPT !.hops = @ + 1]
            IN  v \in Local /\ v.pc = "headers" /\ MovesTo(c, v)
  <1> DEFINE u == toHeaders(c)
             v == [toHeaders(c) EXCEPT !.hops = @ + 1]
  <1>1. st.session \in {None} \cup Sessions
    BY Fields
  <1>2. /\ At(c, "headers") \in Local /\ At(c, "headers").pc = "headers"
        /\ At(c, "headers").answer = NoAnswer /\ At(c, "headers").at = Start0
    BY Moving
  <1>3. /\ u \in Local /\ u.pc = "headers" /\ u.answer = NoAnswer
        /\ u.sent = st.session /\ u.at = Start0
    BY <1>1, <1>2 DEF toHeaders, Local
  <1>4. /\ v \in Local /\ v.pc = "headers" /\ v.answer = NoAnswer
        /\ v.sent = st.session /\ v.at = Start0
    <2> HIDE DEF u
    <2>1. u.hops \in Nat
      BY <1>3 DEF Local
    <2>2. v = [u EXCEPT !.hops = u.hops + 1]
      BY DEF u
    <2>3. QED
      BY <1>3, <2>1, <2>2 DEF Local
  <1> HIDE DEF u, v
  <1>5. MovesTo(c, u) /\ MovesTo(c, v)
    BY <1>3, <1>4 DEF MovesTo, Start0
  <1>6. QED
    BY <1>3, <1>4, <1>5 DEF u, v

\* One task moves; the session is kept, over or adopted.
LEMMA OneMove ==
  ASSUME HttpInv, NEW c \in Callers, NEW v \in Local, MovesTo(c, v),
         task' = [task EXCEPT ![c] = v],
         st' \in State, st'.lastEvent = st.lastEvent,
         seenBy' \in [learned : {None} \cup Sessions, returned : SUBSET Sessions,
                      events : [{None} \cup Sessions -> Seq(1..MaxEvents)]],
         seenBy'.events = seenBy.events, seenBy.returned \subseteq seenBy'.returned,
         UNCHANGED <<closing, srv>>,
         SessionKept \/ SessionOver \/ SessionAdopted,
         c \in Inbounds => Active(c),
         st'.inboundStarted = st.inboundStarted \/ (c \in Inbounds /\ v.pc = "done")
  PROVE  HttpInv'
  <1>1. /\ HttpTypeOK /\ task' \in [Callers -> Local]
        /\ task'[c] = v /\ \A d \in Callers \ {c} : task'[d] = task[d]
    BY OneTask DEF HttpInv
  <1>2. HttpTypeOK'
    BY <1>1 DEF HttpTypeOK
  <1>3. \A d \in Callers : task'[d] = task[d] \/ Moved(d)
    BY <1>1 DEF Moved
  <1>4. InboundsKept
    <2>1. CASE st'.inboundStarted = st.inboundStarted
      BY <2>1, <1>1 DEF InboundsKept, Active, Callers
    <2>2. CASE c \in Inbounds /\ v.pc = "done"
      BY <2>2, <1>1 DEF InboundsKept, Active, Callers
    <2>3. QED
      BY <2>1, <2>2
  <1>5. Calm
    BY <1>1, <1>2, <1>3, <1>4 DEF Calm, HttpTypeOK
  <1>6. QED
    BY <1>5, CalmKept

\* What the step does to authorization: the task is not inside, or leaves.
LEMMA Outside ==
  ASSUME HttpTypeOK, OutUnlessAuth, NEW c \in Callers, NEW v \in Local,
         task' = [task EXCEPT ![c] = v],
         \/ task[c].pc # "auth" /\ UNCHANGED auth
         \/ AuthTypeOK /\ LeaveAuthorize(c)
         \/ /\ v.pc = "auth" /\ task[c].pc # "auth"
            /\ \A d \in Callers \ {c} : auth'[d] = auth[d]
  PROVE  OutUnlessAuth'
  <1>1. task'[c] = v /\ \A d \in Callers \ {c} : task'[d] = task[d]
    BY OneTask
  <1>2. \A d \in Callers \ {c} : auth'[d] = auth[d]
    BY Elsewhere DEF LeaveAuthorize, AuthPlaces
  <1>3. auth'[c] = "out" \/ task'[c].pc = "auth"
    <2>1. CASE AuthTypeOK /\ LeaveAuthorize(c)
      BY <2>1, Elsewhere DEF LeaveAuthorize, AuthPlaces
    <2>2. CASE task[c].pc # "auth" /\ UNCHANGED auth
      BY <2>2 DEF OutUnlessAuth
    <2>3. QED
      BY <1>1, <2>1, <2>2
  <1>4. QED
    BY <1>1, <1>2, <1>3 DEF OutUnlessAuth

\* Nothing but the task and the flag of the inbound task changes.
LEMMA TaskOnly ==
  ASSUME HttpInv, NEW c \in Callers, NEW v \in Local, MovesTo(c, v),
         task' = [task EXCEPT ![c] = v], UNCHANGED <<seenBy, Around>>,
         c \in Inbounds => Active(c),
         \/ st' = st
         \/ c \in Inbounds /\ v.pc = "done" /\ st' = [st EXCEPT !.inboundStarted = FALSE]
  PROVE  HttpInv'
  <1>1. /\ st \in State
        /\ seenBy \in [learned : {None} \cup Sessions, returned : SUBSET Sessions,
                       events : [{None} \cup Sessions -> Seq(1..MaxEvents)]]
    BY DEF HttpInv, HttpTypeOK
  <1>2. /\ st' \in State /\ st'.lastEvent = st.lastEvent /\ st'.session = st.session
        /\ st'.inboundStarted = st.inboundStarted \/ (c \in Inbounds /\ v.pc = "done")
    BY <1>1 DEF State
  <1>3. SessionKept
    BY <1>2 DEF SessionKept
  <1>4. QED
    BY <1>1, <1>2, <1>3, OneMove DEF Around

\* The same when a 404 is met: the session refused is not the server's.
LEMMA TaskExpires ==
  ASSUME HttpInv, NEW c \in Callers, Answered(c, "notFound"),
         goTo(c, Done), UNCHANGED <<seenBy, Around>>,
         NEW from, from = IF task[c].sent # None THEN expire_session(task[c].sent, st) ELSE st,
         \/ st' = from
         \/ c \in Inbounds /\ st' = [from EXCEPT !.inboundStarted = FALSE]
  PROVE  HttpInv'
  <1>1. /\ HttpTypeOK /\ st \in State
        /\ seenBy \in [learned : {None} \cup Sessions, returned : SUBSET Sessions,
                       events : [{None} \cup Sessions -> Seq(1..MaxEvents)]]
    BY DEF HttpInv, HttpTypeOK
  <1>2. /\ from \in State /\ from.lastEvent = st.lastEvent
        /\ from.inboundStarted = st.inboundStarted
        /\ from.session = st.session \/ (st.session = task[c].sent /\ from.session = None)
    BY <1>1 DEF expire_session, State
  <1>3. /\ st' \in State /\ st'.lastEvent = st.lastEvent /\ st'.session = from.session
        /\ st'.inboundStarted = st.inboundStarted \/ c \in Inbounds
    BY <1>2 DEF State
  <1>4. task[c].sent \notin srv.live
    BY DEF HttpInv, AnswersHold, Answered
  <1>5. SessionKept \/ SessionOver
    BY <1>2, <1>3, <1>4 DEF SessionKept, SessionOver
  <1>6. task' = [task EXCEPT ![c] = Done]
    BY DEF goTo
  <1>7. c \in Inbounds => Active(c)
    BY DEF Answered, Active
  <1>8. QED
    BY <1>1, <1>3, <1>5, <1>6, <1>7, Finished, OneMove DEF Around

\* The same when a response is met that may name a session.
LEMMA Adopting ==
  ASSUME HttpInv, NEW c \in Callers
  PROVE  /\ adoptLegacy(c) \in State
         /\ adoptLegacy(c).lastEvent = st.lastEvent
         /\ adoptLegacy(c).inboundStarted = st.inboundStarted
         /\ learnLegacy(c) \in [learned : {None} \cup Sessions, returned : SUBSET Sessions,
                                events : [{None} \cup Sessions -> Seq(1..MaxEvents)]]
         /\ learnLegacy(c).events = seenBy.events
         /\ seenBy.returned \subseteq learnLegacy(c).returned
         /\ \/ /\ adoptLegacy(c).session = st.session
               /\ learnLegacy(c).learned \in {seenBy.learned, st.session}
            \/ /\ task[c].answer.session # None
               /\ adoptLegacy(c).session = task[c].answer.session
               /\ learnLegacy(c).learned = task[c].answer.session
               /\ task[c].answer.session = task[c].sent
                  => task[c].sent \in learnLegacy(c).returned
  <1>1. /\ task[c].answer.session \in {None} \cup Sessions /\ st \in State
        /\ seenBy \in [learned : {None} \cup Sessions, returned : SUBSET Sessions,
                       events : [{None} \cup Sessions -> Seq(1..MaxEvents)]]
    BY Fields DEF HttpInv, HttpTypeOK
  <1>2. QED
    BY <1>1 DEF adoptLegacy, learnLegacy, adopt, learn, State, None, Sessions

LEMMA TaskAdopts ==
  ASSUME HttpInv, NEW p \in Posts, NEW v \in Local, MovesTo(p, v),
         task' = [task EXCEPT ![p] = v],
         st' = adoptLegacy(p), seenBy' = learnLegacy(p), UNCHANGED Around
  PROVE  HttpInv'
  <1>1. p \in Callers /\ p \notin Inbounds
    BY McpHttpAssumption DEF Callers, Posts
  <1>2. /\ HttpTypeOK /\ task'[p] = v
    BY <1>1, OneTask DEF HttpInv
  <1>3. SessionKept \/ SessionAdopted
    BY <1>1, <1>2, Adopting DEF SessionKept, SessionAdopted, MovesTo
  <1>4. QED
    BY <1>1, <1>3, Adopting, OneMove DEF Around

-----------------------------------------------------------------------------
(* The steps of each kind of task.                                         *)

\* What the steps of a task keep.
TasksKept == HttpInv /\ OutUnlessAuth /\ AuthTypeOK

LEMMA ExecuteKept ==
  ASSUME TasksKept, NEW c \in Callers, Execute(c)
  PROVE  HttpInv' /\ OutUnlessAuth'
  <1> DEFINE v == [task[c] EXCEPT !.pc = "sent",
                                  !.sent = IF includesSession(c) THEN @ ELSE None,
                                  !.at = IF c \in Inbounds THEN lastEventId(c) ELSE @]
  <1>1. /\ HttpInv /\ HttpTypeOK /\ OutUnlessAuth
        /\ task[c] \in Local /\ st.lastEvent \in Position
    BY Fields DEF TasksKept, HttpInv
  <1>2. /\ task[c].pc = "headers" /\ task' = [task EXCEPT ![c] = v]
        /\ UNCHANGED <<st, seenBy, Around, authVars>>
    BY DEF Execute
  <1>3. /\ v \in Local /\ v.pc = "sent" /\ v.answer = task[c].answer
        /\ v.sent \in {task[c].sent, None}
        /\ v.at = IF c \in Inbounds THEN st.lastEvent ELSE task[c].at
    BY <1>1 DEF Local, lastEventId
  <1> HIDE DEF v
  <1>4. MovesTo(c, v)
    BY <1>1, <1>2, <1>3 DEF MovesTo, HttpInv, AnswersHold
  <1>5. HttpInv'
    BY <1>1, <1>2, <1>3, <1>4, TaskOnly DEF Active
  <1>6. QED
    BY <1>1, <1>2, <1>3, <1>5, Outside DEF authVars

LEMMA RefusedKept ==
  ASSUME TasksKept, NEW c \in Callers, Refused(c)
  PROVE  HttpInv' /\ OutUnlessAuth'
  <1>1. /\ HttpInv /\ HttpTypeOK /\ OutUnlessAuth /\ AuthTypeOK
        /\ task[c] \in Local
    BY Fields DEF TasksKept, HttpInv
  <1>2. /\ task[c].pc = "answered" /\ UNCHANGED <<seenBy, Around>> /\ Active(c)
    BY DEF Refused, Answered, Active
  <1>3. CASE task[c].tried
    <2>1. /\ task' = [task EXCEPT ![c] = Done] /\ UNCHANGED authVars
          /\ st' = IF c \in Inbounds THEN [st EXCEPT !.inboundStarted = FALSE] ELSE st
      BY <1>3 DEF Refused, goTo
    <2>2. HttpInv'
      BY <1>1, <1>2, <2>1, Finished, TaskOnly
    <2>3. QED
      BY <1>1, <1>2, <2>1, <2>2, Finished, Outside DEF authVars
  <1>4. CASE ~task[c].tried
    <2> DEFINE v == [At(c, "auth") EXCEPT !.tried = TRUE]
    <2>1. task' = [task EXCEPT ![c] = v] /\ Authorize(c) /\ st' = st
      BY <1>4 DEF Refused, goTo
    <2>3. /\ v \in Local /\ v.pc = "auth" /\ v.answer = NoAnswer
          /\ v.sent = None /\ v.at = Start0
      BY <1>1, Moving DEF Local
    <2> HIDE DEF v
    <2>4. HttpInv'
      BY <1>1, <1>2, <2>1, <2>3, Going, TaskOnly
    <2>5. \A d \in Callers \ {c} : auth'[d] = auth[d]
      BY <1>1, <2>1 DEF Authorize, AuthTypeOK
    <2>6. QED
      BY <1>1, <1>2, <2>1, <2>3, <2>4, <2>5, Outside
  <1>5. QED
    BY <1>3, <1>4

LEMMA CallerKept ==
  ASSUME TasksKept, NEW c \in Callers,
         Execute(c) \/ ExecuteCancelled(c) \/ ServerAnswers(c) \/ Proceeds(c)
  PROVE  HttpInv' /\ OutUnlessAuth'
  <1>1. /\ HttpInv /\ HttpTypeOK /\ OutUnlessAuth /\ AuthTypeOK
    BY DEF TasksKept, HttpInv
  <1>2. CASE Execute(c)
    BY <1>2, ExecuteKept
  <1>3. CASE ExecuteCancelled(c)
    <2>1. /\ task[c].pc \in {"headers", "sent"} /\ task' = [task EXCEPT ![c] = Done]
          /\ st' = IF c \in Inbounds THEN [st EXCEPT !.inboundStarted = FALSE] ELSE st
          /\ UNCHANGED <<seenBy, Around, authVars>>
      BY <1>3 DEF ExecuteCancelled, goTo
    <2>2. HttpInv'
      BY <1>1, <2>1, Finished, TaskOnly DEF Active
    <2>3. QED
      BY <1>1, <2>1, <2>2, Finished, Outside DEF authVars
  <1>4. CASE ServerAnswers(c)
    <2>1. PICK v \in Local : task' = [task EXCEPT ![c] = v]
      BY <1>1, <1>4, ServerAnswer
    <2>2. task[c].pc = "sent" /\ UNCHANGED authVars
      BY <1>4 DEF ServerAnswers
    <2>3. QED
      BY <1>1, <1>4, <2>1, <2>2, ServerAnswersKept, Outside DEF authVars
  <1>5. CASE Refused(c)
    BY <1>5, RefusedKept
  <1>6. CASE AuthorizeProgresses(c)
    <2>1. UNCHANGED httpVars
      BY <1>6 DEF AuthorizeProgresses
    <2>2. HttpInv'
      BY <1>1, <2>1 DEF httpVars, HttpInv, HttpTypeOK, AnswersHold, KnownSessions, NewToAll,
         OneInbound, Active, Cursors, LeftBehind, MovedOn, Asking, InboundSession,
         SessionsOrNone, ReplacementRetained, InboundInOrder
    <2>3. task[c].pc = "auth" /\ \A d \in Callers \ {c} : auth'[d] = auth[d]
      BY <1>1, <1>6 DEF AuthorizeProgresses, AuthSteps, StoreTokens, FlowEnds, WaiterResumes,
                        AuthTypeOK
    <2>4. QED
      BY <1>1, <2>1, <2>2, <2>3 DEF httpVars, OutUnlessAuth
  <1>7. CASE Authorized(c)
    <2>1. /\ auth[c] = "authorized" /\ task' = [task EXCEPT ![c] = toHeaders(c)]
          /\ LeaveAuthorize(c) /\ UNCHANGED <<st, seenBy, Around>>
      BY <1>7 DEF Authorized
    <2>2. Active(c)
      BY <1>1, <2>1 DEF OutUnlessAuth, Active
    <2>3. HttpInv'
      BY <1>1, <2>1, <2>2, Asks, TaskOnly
    <2>4. QED
      BY <1>1, <2>1, <2>3, Asks, Outside
  <1>8. CASE NotAuthorized(c)
    <2>1. /\ auth[c] = "refused" /\ task' = [task EXCEPT ![c] = Done]
          /\ LeaveAuthorize(c) /\ UNCHANGED <<seenBy, Around>>
          /\ st' = IF c \in Inbounds THEN [st EXCEPT !.inboundStarted = FALSE] ELSE st
      BY <1>8 DEF NotAuthorized, goTo
    <2>2. Active(c)
      BY <1>1, <2>1 DEF OutUnlessAuth, Active
    <2>3. HttpInv'
      BY <1>1, <2>1, <2>2, Finished, TaskOnly
    <2>4. QED
      BY <1>1, <2>1, <2>3, Finished, Outside
  <1>9. QED
    BY <1>2, <1>3, <1>4, <1>5, <1>6, <1>7, <1>8 DEF Proceeds

\* A 202 starts the inbound task when there is none, under the session of
\* the moment.
LEMMA AcceptedKept ==
  ASSUME HttpInv, NEW p \in Posts, Accepted(p)
  PROVE  HttpInv'
  <1> DEFINE from == adoptLegacy(p)
             tasks == [task EXCEPT ![p] = Done]
             N == [Idle EXCEPT !.pc = "headers", !.sent = from.session]
  <1>1. /\ HttpTypeOK /\ p \in Callers /\ p \notin Inbounds /\ task \in [Callers -> Local]
        /\ task[p].pc = "answered"
        /\ seenBy' = learnLegacy(p) /\ UNCHANGED <<Around, authVars>>
    BY McpHttpAssumption DEF HttpInv, HttpTypeOK, Callers, Posts, Accepted, Answered
  <1>2. CASE st' = from /\ task' = tasks
    BY <1>1, <1>2, Finished, TaskAdopts
  <1>3. CASE /\ ~from.inboundStarted
             /\ \E i \in Inbounds :
                  /\ tasks[i].pc \in {"idle", "done"}
                  /\ st' = [from EXCEPT !.inboundStarted = TRUE]
                  /\ task' = [tasks EXCEPT ![i] = N]
    <2>1. PICK i \in Inbounds : /\ tasks[i].pc \in {"idle", "done"}
                                /\ st' = [from EXCEPT !.inboundStarted = TRUE]
                                /\ task' = [tasks EXCEPT ![i] = N]
      BY <1>3
    <2>2. i \in Callers /\ i # p
      BY <1>1 DEF Callers
    <2>3. /\ from \in State /\ from.lastEvent = st.lastEvent
          /\ from.inboundStarted = st.inboundStarted
      BY <1>1, Adopting
    <2>4. /\ st' \in State /\ st'.lastEvent = st.lastEvent /\ st'.session = from.session
          /\ st'.inboundStarted = TRUE /\ st.inboundStarted = FALSE
      BY <1>3, <2>1, <2>3 DEF State
    <2>5. Done \in Local /\ MovesTo(p, Done) /\ Done.answer = NoAnswer
      BY <1>1, Finished DEF MovesTo
    <2>6. /\ N \in Local /\ N.pc = "headers" /\ N.sent = from.session
          /\ N.answer = NoAnswer /\ N.at = Start0
      <3>1. NoAnswer \in [status : Statuses \cup {"none"}, session : {None} \cup Sessions]
        BY DEF NoAnswer
      <3>2. Start0 \in Position
        BY McpHttpAssumption DEF Start0, Position
      <3>3. Idle \in Local /\ Idle.answer = NoAnswer /\ Idle.at = Start0
        BY <3>1, <3>2 DEF Idle, Local
      <3>4. from.session \in {None} \cup Sessions
        BY <2>3 DEF State
      <3>5. QED
        BY <3>3, <3>4 DEF Local
    <2> HIDE DEF N
    <2>7. /\ tasks \in [Callers -> Local] /\ tasks[p] = Done
          /\ \A d \in Callers \ {p} : tasks[d] = task[d]
      BY <1>1, <2>5
    <2> HIDE DEF tasks
    <2>8. /\ task' \in [Callers -> Local] /\ task'[p] = Done /\ task'[i] = N
          /\ \A d \in Callers \ {p, i} : task'[d] = task[d]
      BY <1>1, <2>1, <2>2, <2>6, <2>7
    <2>9. MovesTo(i, N)
      BY <2>4, <2>6 DEF MovesTo, Start0
    <2>10. \A d \in Callers : task'[d] = task[d] \/ Moved(d)
      BY <2>5, <2>8, <2>9 DEF Moved
    <2>11. InboundsKept
      BY <1>1, <2>4, <2>8 DEF InboundsKept, Callers
    <2>12. SessionKept \/ SessionAdopted
      BY <1>1, <2>4, <2>5, <2>8, Adopting DEF SessionKept, SessionAdopted
    <2>13. HttpTypeOK'
      BY <1>1, <2>4, <2>8, Adopting DEF HttpTypeOK, Around
    <2>14. Calm
      BY <1>1, <2>4, <2>10, <2>11, <2>12, <2>13, Adopting DEF Calm, Around
    <2>15. QED
      BY <2>14, CalmKept
  <1>4. QED
    BY <1>2, <1>3 DEF Accepted, start_inbound

LEMMA PostKept ==
  ASSUME TasksKept, NEW p \in Posts, PostNext(p)
  PROVE  HttpInv' /\ OutUnlessAuth'
  <1>1. /\ HttpInv /\ HttpTypeOK /\ OutUnlessAuth /\ AuthTypeOK
        /\ p \in Callers /\ p \notin Inbounds /\ task[p] \in Local
    BY Fields, McpHttpAssumption DEF TasksKept, HttpInv, Callers, Posts
  <1>2. CASE Send(p)
    <2>1. /\ task[p].pc = "idle" /\ UNCHANGED <<st, seenBy, Around, authVars>>
          /\ \/ task' = [task EXCEPT ![p] = Done]
             \/ task' = [task EXCEPT ![p] = toHeaders(p)]
      BY <1>2 DEF Send
    <2>2. HttpInv'
      BY <1>1, <2>1, Finished, Asks, TaskOnly
    <2>3. QED
      BY <1>1, <2>1, <2>2, Finished, Asks, Outside DEF authVars
  <1>3. CASE CancelPost(p)
    <2>1. /\ task' = [task EXCEPT ![p] = Done] /\ LeaveAuthorize(p)
          /\ UNCHANGED <<st, seenBy, Around>>
      BY <1>3 DEF CancelPost, goTo
    <2>2. QED
      BY <1>1, <2>1, Finished, TaskOnly, Outside
  <1>4. CASE Redirected(p)
    <2>1. /\ task[p].pc = "answered" /\ UNCHANGED <<st, seenBy, Around, authVars>>
          /\ \/ task' = [task EXCEPT ![p] = Done]
             \/ task' = [task EXCEPT ![p] = [toHeaders(p) EXCEPT !.hops = @ + 1]]
      <3>1. toHeaders(p).hops = task[p].hops
        BY <1>1, Moving DEF toHeaders
      <3>2. QED
        BY <1>4, <3>1 DEF Redirected, Answered
    <2>2. HttpInv'
      BY <1>1, <2>1, Finished, Asks, TaskOnly
    <2>3. QED
      BY <1>1, <2>1, <2>2, Finished, Asks, Outside DEF authVars
  <1>5. CASE Accepted(p)
    <2>1. /\ task[p].pc = "answered" /\ UNCHANGED auth
          /\ \A d \in Callers \ {p} : \/ task'[d] = task[d]
                                      \/ task[d].pc \in {"idle", "done"}
      BY <1>1, <1>5 DEF Accepted, Answered, start_inbound, authVars, HttpTypeOK
    <2>2. OutUnlessAuth'
      BY <1>1, <2>1 DEF OutUnlessAuth
    <2>3. QED
      BY <1>1, <1>5, <2>2, AcceptedKept
  <1>6. CASE Expired(p)
    <2>1. HttpInv'
      BY <1>1, <1>6, TaskExpires DEF Expired
    <2>2. task[p].pc = "answered" /\ task' = [task EXCEPT ![p] = Done] /\ UNCHANGED authVars
      BY <1>6 DEF Expired, Answered, goTo
    <2>3. QED
      BY <1>1, <2>1, <2>2, Finished, Outside DEF authVars
  <1>7. CASE Failed(p) \/ PumpEnds(p)
    <2>1. /\ task[p].pc \in {"answered", "streaming"} /\ task' = [task EXCEPT ![p] = Done]
          /\ UNCHANGED <<st, seenBy, Around, authVars>>
      BY <1>7 DEF Failed, PumpEnds, Answered, goTo
    <2>2. HttpInv'
      BY <1>1, <2>1, Finished, TaskOnly
    <2>3. QED
      BY <1>1, <2>1, <2>2, Finished, Outside DEF authVars
  <1>8. CASE Streamed(p)
    <2> DEFINE v == [Idle EXCEPT !.pc = "streaming"]
    <2>1. /\ task[p].pc = "answered" /\ task' = [task EXCEPT ![p] = v]
          /\ st' = adoptLegacy(p) /\ seenBy' = learnLegacy(p) /\ UNCHANGED <<Around, authVars>>
      BY <1>8 DEF Streamed, Answered, goTo
    <2>2. /\ NoAnswer \in [status : Statuses \cup {"none"}, session : {None} \cup Sessions]
          /\ Start0 \in Position
      BY McpHttpAssumption DEF NoAnswer, Start0, Position
    <2>3. /\ v \in Local /\ v.pc = "streaming" /\ v.answer = NoAnswer
          /\ v.sent = None /\ v.at = Start0
      BY <2>2 DEF Idle, Local
    <2> HIDE DEF v
    <2>4. HttpInv'
      BY <1>1, <2>1, <2>3, Going, TaskAdopts
    <2>5. QED
      BY <1>1, <2>1, <2>3, <2>4, Outside DEF authVars
  <1>9. CASE AnsweredByJson(p)
    <2>1. /\ task[p].pc = "answered" /\ task' = [task EXCEPT ![p] = Done]
          /\ st' = adoptLegacy(p) /\ seenBy' = learnLegacy(p) /\ UNCHANGED <<Around, authVars>>
      BY <1>9 DEF AnsweredByJson, Answered, goTo
    <2>2. HttpInv'
      BY <1>1, <2>1, Finished, TaskAdopts
    <2>3. QED
      BY <1>1, <2>1, <2>2, Finished, Outside DEF authVars
  <1>10. QED
    BY <1>2, <1>3, <1>4, <1>5, <1>6, <1>7, <1>8, <1>9 DEF PostNext, Meets

LEMMA InboundKept ==
  ASSUME TasksKept, NEW i \in Inbounds, InboundNext(i)
  PROVE  HttpInv' /\ OutUnlessAuth'
  <1>1. /\ HttpInv /\ HttpTypeOK /\ OutUnlessAuth /\ AuthTypeOK
        /\ i \in Callers /\ task[i] \in Local
    BY Fields DEF TasksKept, HttpInv, Callers
  <1>2. CASE InboundRefused(i)
    <2>1. /\ task[i].pc = "answered" /\ task' = [task EXCEPT ![i] = Done]
          /\ UNCHANGED <<seenBy, Around, authVars>>
      BY <1>2 DEF InboundRefused, inboundEnds, Answered, goTo
    <2>2. HttpInv'
      <3>1. CASE Answered(i, "failed") /\ inboundEnds(i, st)
        BY <1>1, <2>1, <3>1, Finished, TaskOnly DEF inboundEnds, Active
      <3>2. CASE /\ Answered(i, "notFound")
                 /\ inboundEnds(i, IF task[i].sent # None
                                   THEN expire_session(task[i].sent, st) ELSE st)
        BY <1>1, <2>1, <3>2, TaskExpires DEF inboundEnds
      <3>3. QED
        BY <1>2, <3>1, <3>2 DEF InboundRefused
    <2>3. QED
      BY <1>1, <2>1, <2>2, Finished, Outside DEF authVars
  <1>3. CASE InboundOpens(i) \/ InboundEvent(i)
    <2>1. /\ task[i].pc \in {"answered", "streaming"} /\ UNCHANGED auth
          /\ \A d \in Callers \ {i} : task'[d] = task[d]
      BY <1>1, <1>3 DEF InboundOpens, InboundEvent, Answered, authVars, HttpTypeOK
    <2>2. OutUnlessAuth'
      BY <1>1, <2>1 DEF OutUnlessAuth
    <2>3. QED
      BY <1>1, <1>3, <2>2, InboundOpensKept, InboundEventKept
  <1>4. CASE InboundBreaks(i)
    <2>1. task[i].pc = "streaming" /\ UNCHANGED <<seenBy, Around, authVars>>
      BY <1>4 DEF InboundBreaks
    <2>2. CASE inboundEnds(i, st)
      <3>1. HttpInv'
        BY <1>1, <2>1, <2>2, Finished, TaskOnly DEF inboundEnds, goTo, Active
      <3>2. QED
        BY <1>1, <2>1, <2>2, <3>1, Finished, Outside DEF inboundEnds, goTo, authVars
    <2>3. CASE goTo(i, [At(i, "sleeping") EXCEPT !.hops = @ + 1]) /\ UNCHANGED st
      <3> DEFINE u == At(i, "sleeping")
                 v == [u EXCEPT !.hops = u.hops + 1]
      <3>1. task' = [task EXCEPT ![i] = v]
        BY <2>3 DEF goTo
      <3>2. /\ v \in Local /\ v.pc = "sleeping" /\ v.answer = NoAnswer
            /\ v.sent = None /\ v.at = Start0
        <4>1. /\ u \in Local /\ u.pc = "sleeping" /\ u.answer = NoAnswer
              /\ u.sent = None /\ u.at = Start0 /\ u.hops + 1 \in Nat
          BY <1>1, Moving
        <4> HIDE DEF u
        <4>2. QED
          BY <4>1 DEF Local
      <3> HIDE DEF v
      <3>3. HttpInv'
        BY <1>1, <2>1, <2>3, <3>1, <3>2, Going, TaskOnly DEF Active
      <3>4. QED
        BY <1>1, <2>1, <3>1, <3>2, <3>3, Outside DEF authVars
    <2>4. QED
      BY <1>4, <2>2, <2>3 DEF InboundBreaks
  <1>5. CASE InboundFinishes(i)
    <2>1. /\ task[i].pc = "streaming" /\ task' = [task EXCEPT ![i] = Done]
          /\ st' = [st EXCEPT !.inboundStarted = FALSE] /\ UNCHANGED <<seenBy, Around, authVars>>
      BY <1>5 DEF InboundFinishes, inboundEnds, goTo
    <2>2. HttpInv'
      BY <1>1, <2>1, Finished, TaskOnly DEF Active
    <2>3. QED
      BY <1>1, <2>1, <2>2, Finished, Outside DEF authVars
  <1>6. CASE InboundReconnects(i)
    <2>1. /\ task[i].pc = "sleeping" /\ task' = [task EXCEPT ![i] = toHeaders(i)]
          /\ UNCHANGED <<st, seenBy, Around, authVars>>
      BY <1>6 DEF InboundReconnects
    <2>2. HttpInv'
      BY <1>1, <2>1, Asks, TaskOnly DEF Active
    <2>3. QED
      BY <1>1, <2>1, <2>2, Asks, Outside DEF authVars
  <1>7. CASE InboundAborted(i)
    <2>1. /\ Active(i) /\ task' = [task EXCEPT ![i] = Done] /\ LeaveAuthorize(i)
          /\ st' = [st EXCEPT !.inboundStarted = FALSE] /\ UNCHANGED <<seenBy, Around>>
      BY <1>7 DEF InboundAborted, inboundEnds, goTo, Active
    <2>2. QED
      BY <1>1, <2>1, Finished, TaskOnly, Outside
  <1>8. QED
    BY <1>2, <1>3, <1>4, <1>5, <1>6, <1>7 DEF InboundNext

LEMMA HttpStepKept ==
  ASSUME TasksKept, HttpNext
  PROVE  HttpInv' /\ OutUnlessAuth'
  <1>1. HttpInv /\ HttpTypeOK /\ OutUnlessAuth
    BY DEF TasksKept, HttpInv
  <1>2. CASE Start \/ SetProtocolVersion \/ Close \/ ServerForgets \/ DeleteAnswered
    <2>1. UNCHANGED <<task, seenBy, authVars>>
      BY <1>2 DEF Start, SetProtocolVersion, Close, ServerForgets, DeleteAnswered
    <2>2. /\ st' \in State /\ st'.lastEvent = st.lastEvent /\ st'.session = st.session
          /\ st'.inboundStarted = st.inboundStarted
      BY <1>1, <1>2 DEF Start, SetProtocolVersion, Close, ServerForgets, DeleteAnswered,
                        HttpTypeOK, State
    <2>3. /\ srv' \in [live : SUBSET Sessions, named : Sessions, stateful : BOOLEAN]
          /\ srv'.named = srv.named /\ srv'.stateful = srv.stateful
          /\ srv'.live \subseteq srv.live
      BY <1>1, <1>2 DEF Start, SetProtocolVersion, Close, ServerForgets, DeleteAnswered,
                        HttpTypeOK, Around
    <2>4. closing' \in {"no", "deleting", "closed"}
      BY <1>1, <1>2 DEF Start, SetProtocolVersion, Close, ServerForgets, DeleteAnswered,
                        HttpTypeOK, Around
    <2>5. HttpTypeOK'
      BY <1>1, <2>1, <2>2, <2>3, <2>4 DEF HttpTypeOK
    <2>6. SessionKept /\ InboundsKept
      BY <2>1, <2>2 DEF SessionKept, InboundsKept, Active
    <2>7. Calm
      BY <2>1, <2>2, <2>3, <2>5, <2>6 DEF Calm
    <2>8. QED
      BY <1>1, <2>1, <2>7, CalmKept DEF OutUnlessAuth, authVars
  <1>3. QED
    BY <1>2, CallerKept, PostKept, InboundKept DEF HttpNext

LEMMA HttpStarts == Init => HttpInv /\ OutUnlessAuth
  <1> SUFFICES ASSUME Init PROVE HttpInv /\ OutUnlessAuth
    OBVIOUS
  <1>1. HttpInit /\ AuthInit /\ (st.session # None => srv.stateful)
    BY DEF Init, HttpInit
  <1>2. /\ NoAnswer \in [status : Statuses \cup {"none"}, session : {None} \cup Sessions]
        /\ Start0 \in Position /\ Start0.session = None /\ Start0.n = 0
    BY McpHttpAssumption DEF NoAnswer, Start0, Position
  <1>3. /\ Idle \in Local /\ Idle.pc = "idle" /\ Idle.sent = None /\ Idle.answer = NoAnswer
        /\ Idle.at = Start0
    BY <1>2 DEF Idle, Local
  <1>4. 1 \in Sessions /\ None \notin Sessions
    BY McpHttpAssumption DEF Sessions, None
  <1>5. /\ st \in State /\ st.session \in {None, 1} /\ st.lastEvent = Start0
        /\ st.inboundStarted = FALSE
    BY <1>1, <1>2, <1>4 DEF HttpInit, State
  <1>6. /\ task \in [Callers -> Local] /\ \A c \in Callers : task[c] = Idle
    BY <1>1, <1>3 DEF HttpInit
  <1>7. /\ srv \in [live : SUBSET Sessions, named : Sessions, stateful : BOOLEAN]
        /\ srv.live = {1} /\ srv.named = 1
    BY <1>1, <1>4 DEF HttpInit
  <1>8. <<>> \in Seq(1..MaxEvents) /\ Len(<<>>) = 0 /\ DOMAIN <<>> = {}
    OBVIOUS
  <1>9. /\ seenBy \in [learned : {None} \cup Sessions, returned : SUBSET Sessions,
                       events : [{None} \cup Sessions -> Seq(1..MaxEvents)]]
        /\ seenBy.learned = None /\ seenBy.returned = {}
        /\ \A s \in {None} \cup Sessions : seenBy.events[s] = <<>>
    BY <1>1, <1>8 DEF HttpInit
  <1>10. HttpTypeOK
    BY <1>1, <1>5, <1>6, <1>7, <1>9 DEF HttpInit, HttpTypeOK
  <1>11. AnswersHold /\ NewToAll /\ OneInbound /\ MovedOn
    BY <1>3, <1>6, Answerless DEF AnswersHold, NewToAll, OneInbound, Active, MovedOn, Asking, Callers
  <1>12. KnownSessions
    <2>1. None <= 1
      BY DEF None
    <2>2. QED
      BY <2>1, <1>2, <1>3, <1>5, <1>6, <1>7, <1>9, Answerless DEF KnownSessions
  <1>13. Cursors /\ LeftBehind
    BY <1>2, <1>3, <1>5, <1>6, <1>8, <1>9 DEF Cursors, LeftBehind, Callers
  <1>14. SessionsOrNone
    BY <1>1, <1>2, <1>3, <1>5, <1>6, <1>9, Answerless DEF SessionsOrNone, Callers
  <1>15. ReplacementRetained /\ InboundInOrder
    BY <1>4, <1>7, <1>8, <1>9 DEF ReplacementRetained, InboundInOrder
  <1>16. OutUnlessAuth
    BY <1>1 DEF AuthInit, OutUnlessAuth
  <1>17. QED
    BY <1>10, <1>11, <1>12, <1>13, <1>14, <1>15, <1>16 DEF HttpInv

\* The invariant of the streamable transport; the older one leaves it alone.
StreamableInv ==
    /\ HttpInv /\ AuthTypeOK
    /\ transport = "http" => OutUnlessAuth

LEMMA StreamableInvariant == Spec => []StreamableInv
  <1>1. Init => StreamableInv
    BY HttpStarts, FlowStarts DEF StreamableInv, FlowInv
  <1>2. StreamableInv /\ [Next]_vars /\ FlowInv /\ FlowInv' => StreamableInv'
    <2> SUFFICES ASSUME StreamableInv, [Next]_vars, FlowInv, FlowInv' PROVE StreamableInv'
      OBVIOUS
    <2>1. AuthTypeOK'
      BY DEF FlowInv
    <2>2. CASE transport = "http" /\ HttpNext /\ UNCHANGED <<transport, sseVars>>
      BY <2>1, <2>2, HttpStepKept DEF StreamableInv, TasksKept
    <2>3. ASSUME UNCHANGED httpVars PROVE HttpInv'
      BY <2>3 DEF StreamableInv, httpVars, HttpInv, HttpTypeOK, AnswersHold, KnownSessions,
         NewToAll, OneInbound, Active, Cursors, LeftBehind, MovedOn, Asking, InboundSession,
         SessionsOrNone, ReplacementRetained, InboundInOrder
    <2>4. CASE transport = "sse" /\ SseNext /\ UNCHANGED <<transport, httpVars>>
      BY <2>1, <2>3, <2>4 DEF StreamableInv
    <2>5. CASE UNCHANGED vars
      BY <2>1, <2>3, <2>5 DEF StreamableInv, vars, httpVars, authVars, OutUnlessAuth
    <2>6. QED
      BY <2>2, <2>4, <2>5 DEF Next
  <1>3. QED
    BY <1>1, <1>2, FlowInvariant, PTL DEF Spec

\* A session the client was told and the server keeps is not lost to a late
\* 404 of an older one, however requests and answers overlap.
THEOREM ReplacementsStay == Spec => []ReplacementRetained
  <1>1. StreamableInv => ReplacementRetained
    BY DEF StreamableInv, HttpInv
  <1>2. QED
    BY <1>1, StreamableInvariant, PTL

\* Across any number of breaks, restarts and changes of session, the events
\* of a session are emitted in order, each once, none skipped, but for a session
\* that a late answer put the client back to.
THEOREM EventsInOrder == Spec => []InboundInOrder
  <1>1. StreamableInv => InboundInOrder
    BY DEF StreamableInv, HttpInv
  <1>2. QED
    BY <1>1, StreamableInvariant, PTL

-----------------------------------------------------------------------------
(***************************************************************************)
(* The older transport.  Its end is announced by close and by the reader,  *)
(* once by each, which takes that the reader is started once.              *)
(***************************************************************************)

Announced ==
    /\ ~sse.closed => sse.told = 0
    /\ reader # "ended" => sse.told <= 1
    /\ reader # "none" => call[Opener].pc \in {"ready", "done"}

\* Inside authorize only while the call waits for authorization.
CallOutUnlessAuth == \A c \in SseCalls : auth[c] = "out" \/ call[c].pc = "auth"

SseInv == SseTypeOK /\ Announced /\ (transport = "sse" => CallOutUnlessAuth)

CallPlaces == {"idle", "sent", "refused", "auth", "ready", "done"}

LEMMA MovesCall ==
  ASSUME SseTypeOK, NEW c \in SseCalls, NEW place \in CallPlaces,
         moveTo(c, place) \/ call' = [call EXCEPT ![c] = [pc |-> place, tried |-> TRUE]]
  PROVE  /\ call' \in [SseCalls -> [pc : CallPlaces, tried : BOOLEAN]]
         /\ call'[c].pc = place /\ \A d \in SseCalls \ {c} : call'[d] = call[d]
  <1>1. /\ call \in [SseCalls -> [pc : CallPlaces, tried : BOOLEAN]]
        /\ call[c] \in [pc : CallPlaces, tried : BOOLEAN]
    BY DEF SseTypeOK, CallPlaces
  <1>2. \E v \in [pc : CallPlaces, tried : BOOLEAN] :
           v.pc = place /\ call' = [call EXCEPT ![c] = v]
    <2>1. CASE call' = [call EXCEPT ![c] = [pc |-> place, tried |-> TRUE]]
      BY <2>1
    <2>2. CASE moveTo(c, place) /\ place = "done"
      BY <2>2 DEF moveTo
    <2>3. CASE moveTo(c, place) /\ place # "done"
      <3> DEFINE v == [call[c] EXCEPT !.pc = place]
      <3>1. v \in [pc : CallPlaces, tried : BOOLEAN] /\ v.pc = place
        BY <1>1
      <3>2. call' = [call EXCEPT ![c] = v]
        BY <2>3 DEF moveTo
      <3> HIDE DEF v
      <3>3. QED
        BY <3>1, <3>2
    <2>4. QED
      BY <2>1, <2>2, <2>3
  <1>3. QED
    BY <1>1, <1>2

\* A call moves, which leaves the reader alone.
LEMMA CallKept ==
  ASSUME SseInv, UNCHANGED transport, transport = "sse",
         NEW c \in SseCalls, NEW place \in CallPlaces,
         moveTo(c, place) \/ call' = [call EXCEPT ![c] = [pc |-> place, tried |-> TRUE]],
         c = Opener /\ call[c].pc \in {"ready", "done"} => place \in {"ready", "done"},
         sse' \in SseState,
         sse'.closed = sse.closed, sse'.told = sse.told,
         UNCHANGED reader,
         ready' \in {"none", "pending", "ok", "error", "taken"},
         \/ call[c].pc # "auth" /\ UNCHANGED auth
         \/ AuthTypeOK /\ LeaveAuthorize(c)
         \/ place = "auth" /\ \A d \in Callers \ {c} : auth'[d] = auth[d]
  PROVE  SseInv'
  <1>1. /\ call' \in [SseCalls -> [pc : CallPlaces, tried : BOOLEAN]]
        /\ call'[c].pc = place /\ \A d \in SseCalls \ {c} : call'[d] = call[d]
    BY MovesCall DEF SseInv
  <1>2. SseTypeOK'
    BY <1>1 DEF SseInv, SseTypeOK, CallPlaces
  <1>3. Announced'
    BY <1>1 DEF SseInv, Announced, SseCalls
  <1>4. CallOutUnlessAuth'
    <2>1. SseCalls \subseteq Callers
      BY McpSseAssumption DEF SseCalls
    <2>2. CASE call[c].pc # "auth" /\ UNCHANGED auth
      BY <1>1, <2>2 DEF SseInv, CallOutUnlessAuth
    <2>3. CASE AuthTypeOK /\ LeaveAuthorize(c)
      <3>1. auth'[c] = "out" /\ \A d \in Callers \ {c} : auth'[d] = auth[d]
        BY <2>1, <2>3, Elsewhere DEF LeaveAuthorize, AuthPlaces
      <3>2. QED
        BY <1>1, <2>1, <3>1 DEF SseInv, CallOutUnlessAuth
    <2>4. CASE place = "auth" /\ \A d \in Callers \ {c} : auth'[d] = auth[d]
      BY <1>1, <2>1, <2>4 DEF SseInv, CallOutUnlessAuth
    <2>5. QED
      BY <2>2, <2>3, <2>4
  <1>5. QED
    BY <1>2, <1>3, <1>4 DEF SseInv

LEMMA SseStarts == Init => SseInv
  <1> SUFFICES ASSUME Init PROVE SseInv
    OBVIOUS
  <1>1. SseInit /\ AuthInit
    BY DEF Init, SseInit
  <1>2. SseTypeOK
    BY <1>1 DEF SseInit, SseTypeOK, SseState
  <1>3. Announced
    BY <1>1 DEF SseInit, Announced
  <1>4. CallOutUnlessAuth
    BY <1>1, McpSseAssumption DEF AuthInit, CallOutUnlessAuth, SseCalls
  <1>5. QED
    BY <1>2, <1>3, <1>4 DEF SseInv

\* The steps of one call, but for the opening of the stream.
LEMMA CallStepKept ==
  ASSUME SseInv, AuthTypeOK, UNCHANGED transport, transport = "sse",
         NEW c \in SseCalls, SseCallNext(c) \/ (SsePost(c) /\ c # Opener)
  PROVE  SseInv'
  <1>1. /\ SseTypeOK /\ CallPlaces = {"idle", "sent", "refused", "auth", "ready", "done"}
        /\ sse \in SseState
        /\ ready \in {"none", "pending", "ok", "error", "taken"}
    BY DEF SseInv, SseTypeOK, CallPlaces
  <1>2. CASE SsePost(c) /\ c # Opener
    <2>1. call[c].pc = "idle" /\ UNCHANGED <<sse, reader, ready, auth>>
      BY <1>2 DEF SsePost, at, authVars
    <2>2. moveTo(c, "done") \/ moveTo(c, "sent")
      BY <1>2 DEF SsePost
    <2>3. QED
      BY <1>1, <1>2, <2>1, <2>2, CallKept
  <1>3. CASE SseAnswered(c) \/ SseExecuteCancelled(c)
    <2>1. call[c].pc = "sent" /\ UNCHANGED <<sse, reader, ready, auth>>
      BY <1>3 DEF SseAnswered, SseExecuteCancelled, at, authVars
    <2>2. moveTo(c, "done") \/ moveTo(c, "refused")
      BY <1>3 DEF SseAnswered, SseExecuteCancelled
    <2>3. QED
      BY <1>1, <2>1, <2>2, CallKept
  <1>4. CASE SseAuthorize(c)
    <2>1. /\ call[c].pc = "refused" /\ UNCHANGED <<sse, reader, ready>>
          /\ call' = [call EXCEPT ![c] = [pc |-> "auth", tried |-> TRUE]]
      BY <1>4 DEF SseAuthorize, at
    <2>2. \A d \in Callers \ {c} : auth'[d] = auth[d]
      BY <1>4 DEF SseAuthorize, Authorize, AuthTypeOK
    <2>3. QED
      BY <1>1, <2>1, <2>2, CallKept
  <1>5. CASE SseAuthProgresses(c)
    <2>1. call[c].pc = "auth" /\ \A d \in Callers \ {c} : auth'[d] = auth[d]
      BY <1>5 DEF SseAuthProgresses, at, AuthSteps, StoreTokens, FlowEnds, WaiterResumes,
                  AuthTypeOK
    <2>2. SseCalls \subseteq Callers
      BY McpSseAssumption DEF SseCalls
    <2>3. UNCHANGED sseVars
      BY <1>5 DEF SseAuthProgresses
    <2>4. CallOutUnlessAuth'
      BY <2>1, <2>2, <2>3 DEF SseInv, CallOutUnlessAuth, sseVars
    <2>5. QED
      BY <2>3, <2>4 DEF sseVars, SseInv, SseTypeOK, Announced
  <1>6. CASE SseAuthorized(c)
    <2>1. call[c].pc = "auth"
      BY <1>6 DEF SseAuthorized, SseInv, CallOutUnlessAuth
    <2>2. /\ LeaveAuthorize(c) /\ UNCHANGED <<sse, reader, ready>>
          /\ moveTo(c, "sent") \/ moveTo(c, "done")
      BY <1>6 DEF SseAuthorized
    <2>3. QED
      BY <1>1, <2>1, <2>2, CallKept
  <1>7. CASE SseCancel(c)
    <2>1. moveTo(c, "done") /\ LeaveAuthorize(c) /\ UNCHANGED <<sse, reader>>
      BY <1>7 DEF SseCancel
    <2>2. ready' \in {"none", "pending", "ok", "error", "taken"}
      BY <1>1, <1>7 DEF SseCancel
    <2>3. QED
      BY <1>1, <2>1, <2>2, CallKept
  <1>8. QED
    BY <1>2, <1>3, <1>4, <1>5, <1>6, <1>7 DEF SseCallNext

LEMMA SseStepKept ==
  ASSUME SseInv, AuthTypeOK, UNCHANGED transport, transport = "sse", SseNext
  PROVE  SseInv'
  <1>1. /\ SseTypeOK /\ Announced /\ CallOutUnlessAuth /\ Opener \in SseCalls
        /\ sse \in SseState
        /\ ready \in {"none", "pending", "ok", "error", "taken"}
        /\ call \in [SseCalls -> [pc : CallPlaces, tried : BOOLEAN]]
    BY DEF SseInv, SseTypeOK, CallPlaces, SseCalls
  <1>2. CASE SseStart
    <2>1. /\ call[Opener].pc = "idle" /\ moveTo(Opener, "sent")
          /\ UNCHANGED <<reader, ready, auth>>
      BY <1>2 DEF SseStart, at, authVars
    <2>2. /\ sse' \in SseState
          /\ sse'.closed = sse.closed /\ sse'.told = sse.told
      BY <1>1, <1>2 DEF SseStart, SseState
    <2>3. QED
      BY <1>1, <2>1, <2>2, CallKept DEF CallPlaces
  <1>3. CASE SseStartReturns
    <2>1. /\ call[Opener].pc = "ready" /\ moveTo(Opener, "done") /\ ready' = "taken"
          /\ UNCHANGED <<sse, reader, auth>>
      BY <1>3 DEF SseStartReturns, at, authVars
    <2>2. QED
      BY <1>1, <2>1, CallKept DEF CallPlaces
  <1>4. CASE SseOpened
    <2>1. /\ call[Opener].pc = "sent" /\ moveTo(Opener, "ready")
          /\ reader' = "reading" /\ ready' = "pending" /\ UNCHANGED <<sse, auth>>
      BY <1>4 DEF SseOpened, at, authVars
    <2>2. /\ call' \in [SseCalls -> [pc : CallPlaces, tried : BOOLEAN]]
          /\ call'[Opener].pc = "ready" /\ \A d \in SseCalls \ {Opener} : call'[d] = call[d]
      BY <1>1, <2>1, MovesCall DEF CallPlaces
    <2>3. SseTypeOK'
      BY <1>1, <2>1, <2>2 DEF SseTypeOK, CallPlaces
    <2>4. reader = "none"
      BY <1>1, <2>1 DEF Announced
    <2>5. Announced'
      BY <1>1, <2>1, <2>2, <2>4 DEF Announced
    <2>6. CallOutUnlessAuth'
      BY <1>1, <2>1, <2>2 DEF CallOutUnlessAuth
    <2>7. QED
      BY <2>3, <2>5, <2>6 DEF SseInv
  \* The steps of the reader and close.
  <1>5. CASE \/ SseLost \/ SseClosesItself \/ SseAborted \/ SseClose
             \/ \E sameOrigin \in BOOLEAN : SseEndpoint(sameOrigin)
    <2>1. UNCHANGED <<call, authVars>>
      BY <1>5 DEF SseLost, SseClosesItself, SseAborted, SseClose, SseEndpoint
    <2>2. /\ reader' \in {"none", "reading", "lost", "ended"}
          /\ ready' \in {"none", "pending", "ok", "error", "taken"}
          /\ reader # "none" <=> reader' # "none"
      BY <1>1, <1>5 DEF SseTypeOK, SseLost, SseClosesItself, SseAborted, SseClose, SseEndpoint,
                        readerStops
    <2>3. /\ sse' \in SseState
          /\ ~sse'.closed => sse'.told = 0
          /\ reader' # "ended" => sse'.told <= 1
      <3>1. CASE SseLost \/ SseAborted
        BY <1>1, <3>1 DEF Announced, SseLost, SseAborted, readerStops
      <3>2. CASE SseClosesItself
        <4>1. sse.told \in 0..1
          BY <1>1, <3>2 DEF Announced, SseClosesItself, SseState
        <4>2. sse' = [sse EXCEPT !.closed = TRUE, !.told = @ + 1] /\ reader' = "ended"
          BY <3>2 DEF SseClosesItself
        <4>3. sse.told + 1 \in 0..2
          BY <4>1
        <4>4. QED
          BY <1>1, <4>2, <4>3 DEF SseState
      <3>3. CASE SseClose
        <4>1. sse.told = 0 /\ sse' = [sse EXCEPT !.closed = TRUE, !.cancelled = TRUE, !.told = @ + 1]
          BY <1>1, <3>3 DEF Announced, SseClose
        <4>2. sse.told + 1 = 1
          BY <4>1
        <4>3. sse' = [sse EXCEPT !.closed = TRUE, !.cancelled = TRUE, !.told = 1]
          BY <4>1, <4>2
        <4>4. /\ sse' \in SseState
              /\ sse'.closed = TRUE /\ sse'.told = 1
          <5>1. ASSUME NEW n \in 0..2
                PROVE  LET u == [sse EXCEPT !.closed = TRUE, !.cancelled = TRUE, !.told = n]
                       IN  /\ u \in SseState
                           /\ u.closed = TRUE /\ u.told = n
            BY <1>1 DEF SseState
          <5>2. 1 \in 0..2
            OBVIOUS
          <5>3. QED
            BY <4>3, <5>1, <5>2
        <4>5. QED
          BY <4>4
      <3>4. CASE \E sameOrigin \in BOOLEAN : SseEndpoint(sameOrigin)
        <4>1. PICK sameOrigin \in BOOLEAN : SseEndpoint(sameOrigin)
          BY <3>4
        <4>2. sse' \in SseState
              /\ sse'.closed = sse.closed /\ sse'.told = sse.told /\ UNCHANGED reader
          BY <1>1, <4>1 DEF SseEndpoint, SseState
        <4>3. QED
          BY <1>1, <4>2 DEF Announced
      <3>5. QED
        BY <1>5, <3>1, <3>2, <3>3, <3>4
    <2>4. SseTypeOK' /\ Announced'
      BY <1>1, <2>1, <2>2, <2>3 DEF SseTypeOK, Announced
    <2>5. QED
      BY <1>1, <2>1, <2>4 DEF SseInv, CallOutUnlessAuth, authVars
  <1>6. CASE \E c \in SsePosts : SsePost(c)
    BY <1>6, CallStepKept, McpSseAssumption DEF SseCalls
  <1>7. CASE \E c \in SseCalls : SseCallNext(c)
    BY <1>7, CallStepKept
  <1>8. QED
    BY <1>2, <1>3, <1>4, <1>5, <1>6, <1>7 DEF SseNext

LEMMA SseInvariant == Spec => []SseInv
  <1>1. SseInv /\ [Next]_vars /\ FlowInv => SseInv'
    <2> SUFFICES ASSUME SseInv, [Next]_vars, FlowInv PROVE SseInv'
      OBVIOUS
    <2>1. CASE transport = "sse" /\ SseNext /\ UNCHANGED <<transport, httpVars>>
      BY <2>1, SseStepKept DEF FlowInv
    <2>2. ASSUME UNCHANGED <<transport, sseVars>>, transport = "http" \/ UNCHANGED authVars
          PROVE  SseInv'
      BY <2>2 DEF SseInv, sseVars, authVars, SseTypeOK, Announced, CallOutUnlessAuth
    <2>3. QED
      BY <2>1, <2>2 DEF Next, vars
  <1>2. QED
    BY <1>1, SseStarts, FlowInvariant, PTL DEF Spec

\* The types of both transports and of the authenticator they share; the end
\* of the older one is announced at most twice.
THEOREM TypeCorrect == Spec => []TypeOK
  <1>1. FlowInv /\ StreamableInv /\ SseInv => TypeOK
    BY DEF FlowInv, StreamableInv, HttpInv, SseInv, TypeOK
  <1>2. QED
    BY <1>1, FlowInvariant, StreamableInvariant, SseInvariant, PTL
=============================================================================

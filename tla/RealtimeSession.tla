-------------------------- MODULE RealtimeSession --------------------------
(***************************************************************************)
(* A realtime session: the provider's server sends responses that carry    *)
(* tool calls; one connection task reads the socket, forwards each event   *)
(* to the consumer through a bounded channel, starts tool tasks and drains *)
(* the bounded outbound queue; tool tasks and the application submit       *)
(* outputs through handles, which serialize one event at a time (a         *)
(* semaphore of one permit) and put it in the outbound queue.  ToolTurn    *)
(* decides who asks for the follow-up response once the calls are answered.*)
(*                                                                         *)
(* Abstracted: audio and text content, serialization (every event has a    *)
(* wire message), health checks, one event per frame, and back pressure of *)
(* the socket itself.                                                      *)
(***************************************************************************)
EXTENDS Naturals, FiniteSets, Sequences

CONSTANTS
    Calls,           \* tool call ids
    MaxResponses,    \* bound: responses of the server
    Detection,       \* whether responses start that no follow-up asked for
    OutboundBuffer,  \* OUTBOUND_BUFFER
    EventBuffer,     \* event_buffer
    MaxAudio,        \* bound: other events the application sends
    MayClose         \* the session is closed at some point

ASSUME BufferAssumption == OutboundBuffer \in Nat \ {0} /\ EventBuffer \in Nat \ {0}
ASSUME BoundAssumption == MaxResponses \in Nat /\ MaxAudio \in Nat
ASSUME SwitchAssumption == Detection \subseteq BOOLEAN /\ MayClose \in BOOLEAN

VARIABLES
    response,   \* responses the server has started
    open,       \* the last of them is in progress
    of,         \* the response each call belongs to, 0 before the call is made
    prompted,   \* a response was requested and not started yet
    detection,  \* the server starts others too: turn detection, the application
    wire,       \* frames from the server to the connection task
    conn,       \* the connection task: [at, frame]
    events,     \* the channel to the consumer
    known,      \* the calls the consumer has read
    outbound,   \* the outbound queue
    permit,     \* who holds the serialization permit, or "free"
    inResponse, submitted, closed,   \* ToolTurn
    worker,     \* the tool task and add_tool_output of each call
    audio,      \* other events sent so far
    asked,      \* follow-up responses decided on
    written,    \* follow-up responses written to the socket
    cancelled,
    dropped     \* the application has dropped the session, its handles stay

server == <<response, open, of, prompted, detection, wire>>
turn == <<inResponse, submitted, closed>>
ending == <<cancelled, dropped>>
vars == <<server, conn, events, known, outbound, permit, turn, worker, audio,
          asked, written, ending>>

Frames == {<<"call", c>> : c \in Calls} \union {<<"done", r>> : r \in 1..MaxResponses}
Messages == {<<"output", c>> : c \in Calls} \union {<<"create">>, <<"audio">>}
Idle == [at |-> "select", frame |-> <<"done", 0>>]

EventRoom == Len(events) < EventBuffer
OutboundRoom == Len(outbound) < OutboundBuffer

Init ==
    /\ response = 0 /\ open = FALSE /\ of = [c \in Calls |-> 0]
    /\ prompted = TRUE /\ detection \in Detection /\ wire = <<>>
    /\ conn = Idle
    /\ events = <<>> /\ known = {}
    /\ outbound = <<>> /\ permit = "free"
    /\ inResponse = {} /\ submitted = {} /\ closed = FALSE
    /\ worker = [c \in Calls |-> "idle"]
    /\ audio = 0 /\ asked = 0 /\ written = 0
    /\ cancelled = FALSE /\ dropped = FALSE

-----------------------------------------------------------------------------
(* The server: one response at a time, its calls, then its end.            *)
ServerStarts ==
    /\ ~ open /\ response < MaxResponses
    /\ prompted \/ detection
    /\ response' = response + 1 /\ open' = TRUE /\ prompted' = FALSE
    /\ UNCHANGED <<of, detection, wire, conn, events, known, outbound, permit, turn,
                   worker, audio, asked, written, ending>>

ServerCalls(c) ==
    /\ open /\ of[c] = 0
    /\ of' = [of EXCEPT ![c] = response]
    /\ wire' = Append(wire, <<"call", c>>)
    /\ UNCHANGED <<response, open, prompted, detection, conn, events, known, outbound,
                   permit, turn, worker, audio, asked, written, ending>>

ServerDone ==
    /\ open
    /\ open' = FALSE
    /\ wire' = Append(wire, <<"done", response>>)
    /\ UNCHANGED <<response, of, prompted, detection, conn, events, known, outbound,
                   permit, turn, worker, audio, asked, written, ending>>

-----------------------------------------------------------------------------
(* ToolTurn::maybe_request_response, on the given state of the turn.       *)
Follows_BeforeDone(calls, outputs, done) == calls # {} /\ calls \subseteq outputs

Follows_Exactly(calls, outputs, done) == done /\ calls # {} /\ calls = outputs

Follows(calls, outputs, done) == done /\ calls # {} /\ calls \subseteq outputs

Turn_PerCall(calls, outputs, done) ==
    IF Follows(calls, outputs, done)
    THEN /\ inResponse' = {} /\ submitted' = {} /\ closed' = FALSE
         /\ asked' = asked + Cardinality(calls)
    ELSE /\ inResponse' = calls /\ submitted' = outputs /\ closed' = done
         /\ UNCHANGED asked

(* A follow-up is asked for when it follows, and the turn starts over.     *)
Turn(calls, outputs, done) ==
    IF Follows(calls, outputs, done)
    THEN /\ inResponse' = {} /\ submitted' = {} /\ closed' = FALSE
         /\ asked' = asked + 1
    ELSE /\ inResponse' = calls /\ submitted' = outputs /\ closed' = done
         /\ UNCHANGED asked

-----------------------------------------------------------------------------
(* The connection task.  Its select is biased: the end of the session,     *)
(* then the outbound queue, then the socket.                               *)
Close_AfterTheQueue ==
    /\ conn.at = "select" /\ cancelled /\ outbound = <<>>
    /\ conn' = [conn EXCEPT !.at = "ended"]
    /\ UNCHANGED <<server, events, known, outbound, permit, turn, worker,
                   audio, asked, written, ending>>

Close ==
    /\ conn.at = "select" /\ cancelled
    /\ conn' = [conn EXCEPT !.at = "ended"]
    /\ UNCHANGED <<server, events, known, outbound, permit, turn, worker,
                   audio, asked, written, ending>>

(* The socket closes, or fails when it is read or written to.              *)
SocketEnds ==
    /\ MayClose
    /\ conn.at = "select" /\ ~ cancelled /\ ~ dropped
    /\ outbound' = IF outbound = <<>> THEN <<>> ELSE Tail(outbound)
    /\ \/ /\ outbound = <<>>
          /\ conn' = [conn EXCEPT !.at = "ended"]
          /\ cancelled' = TRUE
       \/ /\ conn' = [conn EXCEPT !.at = "failed"]
          /\ UNCHANGED cancelled
    /\ UNCHANGED <<server, events, known, permit, turn, worker, audio, asked,
                   written, dropped>>

(* The failure is told before the task ends.                               *)
EmitFailure ==
    /\ conn.at = "failed" /\ EventRoom
    /\ events' = Append(events, <<"error">>)
    /\ conn' = [conn EXCEPT !.at = "ended"]
    /\ cancelled' = TRUE
    /\ UNCHANGED <<server, known, outbound, permit, turn, worker, audio,
                   asked, written, dropped>>

WriteOut ==
    /\ conn.at = "select" /\ ~ cancelled /\ outbound # <<>>
    /\ outbound' = Tail(outbound)
    /\ IF Head(outbound) = <<"create">>
       THEN prompted' = TRUE /\ written' = written + 1
       ELSE UNCHANGED <<prompted, written>>
    /\ UNCHANGED <<response, open, of, detection, wire, conn, events, known, permit,
                   turn, worker, audio, asked, ending>>

ReadFrame ==
    /\ conn.at = "select" /\ ~ cancelled /\ outbound = <<>> /\ wire # <<>>
    /\ conn' = [at |-> "emit", frame |-> Head(wire)]
    /\ wire' = Tail(wire)
    /\ UNCHANGED <<response, open, of, prompted, detection, events, known, outbound,
                   permit, turn, worker, audio, asked, written, ending>>

(* handle_event first forwards the event ...                               *)
Emit ==
    /\ conn.at = "emit" /\ EventRoom
    /\ events' = Append(events, conn.frame)
    /\ conn' = [conn EXCEPT !.at = conn.frame[1]]
    /\ UNCHANGED <<server, known, outbound, permit, turn, worker, audio,
                   asked, written, ending>>

(* ... then start_tool_call: a call whose arguments are no JSON does not   *)
(* join the turn; an unknown tool or an invalid input joins and is         *)
(* reported; a tool without executor waits for the application.            *)
StartCall ==
    /\ conn.at = "call"
    /\ LET c == conn.frame[2] IN
       \/ /\ conn' = [conn EXCEPT !.at = "error"]
          /\ inResponse' \in {inResponse, inResponse \union {c}}
          /\ UNCHANGED worker
       \/ /\ conn' = Idle
          /\ inResponse' = inResponse \union {c}
          /\ worker' \in {worker, [worker EXCEPT ![c] =
                                     IF @ = "idle" THEN "tool" ELSE @]}
    /\ UNCHANGED <<server, events, known, outbound, permit, submitted, closed,
                   audio, asked, written, ending>>

EmitError ==
    /\ conn.at = "error" /\ EventRoom
    /\ events' = Append(events, <<"error">>)
    /\ conn' = Idle
    /\ UNCHANGED <<server, known, outbound, permit, turn, worker, audio,
                   asked, written, ending>>

(* ... and at the end of a response, response_done.                        *)
ResponseDone ==
    /\ conn.at = "done"
    /\ IF inResponse = {} THEN UNCHANGED <<turn, asked>>
       ELSE Turn(inResponse, submitted, TRUE)
    /\ conn' = IF asked' # asked THEN [conn EXCEPT !.at = "permit"] ELSE Idle
    /\ UNCHANGED <<server, events, known, outbound, permit, worker, audio,
                   written, ending>>

(* The connection task asks for the follow-up itself, through a handle.    *)
ConnAcquires ==
    /\ conn.at = "permit" /\ ~ dropped
    /\ IF cancelled
       THEN conn' = [conn EXCEPT !.at = "error"] /\ UNCHANGED permit
       ELSE /\ permit = "free" /\ permit' = "conn"
            /\ conn' = [conn EXCEPT !.at = "send"]
    /\ UNCHANGED <<server, events, known, outbound, turn, worker, audio,
                   asked, written, ending>>

ConnSends ==
    /\ conn.at = "send" /\ OutboundRoom
    /\ outbound' = Append(outbound, <<"create">>)
    /\ permit' = "free"
    /\ conn' = Idle
    /\ UNCHANGED <<server, events, known, turn, worker, audio, asked, written,
                   ending>>

-----------------------------------------------------------------------------
(* Dropping the session aborts the connection task, and the tool tasks     *)
(* with it, wherever they are.                                             *)
Alive == conn.at # "ended" /\ ~ dropped

(* The consumer reads an event; the application answers a call it has      *)
(* read, when no tool task does.                                           *)
Read ==
    /\ events # <<>> /\ ~ dropped
    /\ events' = Tail(events)
    /\ known' = known \union {c \in Calls : Head(events) = <<"call", c>>}
    /\ UNCHANGED <<server, conn, outbound, permit, turn, worker, audio, asked,
                   written, ending>>

AppAnswers(c) ==
    /\ c \in known /\ worker[c] = "idle" /\ Alive
    /\ worker' = [worker EXCEPT ![c] = "run"]
    /\ UNCHANGED <<server, conn, events, known, outbound, permit, turn, audio,
                   asked, written, ending>>

(* The tool of a call needs approval or fails, which is told: the          *)
(* application may still answer the call.                                  *)
ToolStops(c) ==
    /\ worker[c] = "tool" /\ EventRoom /\ Alive
    /\ events' = Append(events, <<"error">>)
    /\ worker' = [worker EXCEPT ![c] = "idle"]
    /\ UNCHANGED <<server, conn, known, outbound, permit, turn, audio, asked,
                   written, ending>>

(* add_tool_output: the output is sent, then recorded, and the follow-up   *)
(* sent when the turn is complete.                                         *)
Acquire(c) ==
    /\ worker[c] \in {"tool", "run", "ask"} /\ Alive
    /\ ~ cancelled /\ permit = "free"
    /\ permit' = c
    /\ worker' = [worker EXCEPT ![c] = IF @ = "ask" THEN "create" ELSE "send"]
    /\ UNCHANGED <<server, conn, events, known, outbound, turn, audio, asked,
                   written, ending>>

Send(c) ==
    /\ worker[c] \in {"send", "create"} /\ Alive
    /\ OutboundRoom
    /\ outbound' = Append(outbound, IF worker[c] = "send" THEN <<"output", c>>
                                    ELSE <<"create">>)
    /\ permit' = "free"
    /\ worker' = [worker EXCEPT ![c] = IF @ = "send" THEN "record" ELSE "end"]
    /\ UNCHANGED <<server, conn, events, known, turn, audio, asked, written,
                   ending>>

Record(c) ==
    /\ worker[c] = "record" /\ Alive
    /\ Turn(inResponse, submitted \union {c}, closed)
    /\ worker' = [worker EXCEPT ![c] = IF asked' # asked THEN "ask" ELSE "end"]
    /\ UNCHANGED <<server, conn, events, known, outbound, permit, audio,
                   written, ending>>

GiveUp(c) ==
    /\ worker[c] \in {"tool", "run", "ask"} /\ cancelled /\ Alive
    /\ worker' = [worker EXCEPT ![c] = "cancelled"]
    /\ UNCHANGED <<server, conn, events, known, outbound, permit, turn, audio,
                   asked, written, ending>>

(* Any other event the application sends, by a handle of its own.          *)
AudioAcquires ==
    /\ audio < MaxAudio /\ permit = "free" /\ ~ cancelled /\ Alive
    /\ permit' = "app"
    /\ audio' = audio + 1
    /\ UNCHANGED <<server, conn, events, known, outbound, turn, worker, asked,
                   written, ending>>

AudioSends ==
    /\ permit = "app" /\ Alive /\ OutboundRoom
    /\ outbound' = Append(outbound, <<"audio">>)
    /\ permit' = "free"
    /\ UNCHANGED <<server, conn, events, known, turn, worker, audio, asked,
                   written, ending>>

(* RealtimeHandle::send looks at the cancellation again while the event is *)
(* serialized, after which it waits for room in the queue alone.           *)
ConnRefused ==
    /\ conn.at = "send" /\ cancelled /\ ~ dropped
    /\ permit' = "free"
    /\ conn' = [conn EXCEPT !.at = "error"]
    /\ UNCHANGED <<server, events, known, outbound, turn, worker, audio,
                   asked, written, ending>>

Refused(c) ==
    /\ worker[c] \in {"send", "create"} /\ cancelled /\ Alive
    /\ permit' = "free"
    /\ worker' = [worker EXCEPT ![c] = "cancelled"]
    /\ UNCHANGED <<server, conn, events, known, outbound, turn, audio, asked,
                   written, ending>>

AudioRefused ==
    /\ permit = "app" /\ cancelled /\ Alive
    /\ permit' = "free"
    /\ UNCHANGED <<server, conn, events, known, outbound, turn, worker, audio,
                   asked, written, ending>>

Cancel ==
    /\ MayClose /\ ~ cancelled /\ Alive
    /\ cancelled' = TRUE
    /\ UNCHANGED <<server, conn, events, known, outbound, permit, turn, worker,
                   audio, asked, written, dropped>>

(* The application drops the session, and both channels with it.           *)
Drop ==
    /\ MayClose /\ Alive
    /\ dropped' = TRUE
    /\ outbound' = <<>> /\ events' = <<>>
    /\ UNCHANGED <<server, conn, known, permit, turn, worker, audio, asked,
                   written, cancelled>>

Connection ==
    /\ ~ dropped
    /\ \/ Close \/ WriteOut \/ ReadFrame \/ Emit \/ StartCall \/ EmitError
       \/ ResponseDone \/ ConnAcquires \/ ConnSends \/ EmitFailure

(* What a task does by itself once it has the output.                      *)
Worker(c) == Acquire(c) \/ Send(c) \/ Record(c) \/ GiveUp(c)

(* What the server sends matters while the connection task lives.          *)
Server == Alive /\ (ServerStarts \/ ServerDone \/ \E c \in Calls : ServerCalls(c))

Next ==
    \/ Server
    \/ Connection \/ SocketEnds \/ ConnRefused
    \/ Read \/ Cancel \/ Drop
    \/ AudioAcquires \/ AudioSends \/ AudioRefused
    \/ \E c \in Calls : AppAnswers(c) \/ ToolStops(c) \/ Worker(c) \/ Refused(c)

(* The runtime polls every task that can go on, the semaphore is fair, and *)
(* the consumer keeps reading.  Nothing says that the server ends a        *)
(* response, that a tool or the application answers a call or that the     *)
(* session is closed.                                                      *)
Fairness ==
    /\ WF_vars(Connection) /\ SF_vars(ConnAcquires)
    /\ WF_vars(Read) /\ WF_vars(AudioSends)
    /\ \A c \in Calls :
         /\ WF_vars(worker[c] # "tool" /\ Worker(c))
         /\ SF_vars(worker[c] # "tool" /\ Acquire(c))

Spec == Init /\ [][Next]_vars /\ Fairness

-----------------------------------------------------------------------------
(* The end of response r has been read and is not being handled any more.  *)
Handled(r) ==
    /\ r < response \/ (r = response /\ ~ open)
    /\ \A i \in DOMAIN wire : wire[i] # <<"done", r>>
    /\ conn.frame = <<"done", r>> => conn.at # "emit"

Answered(c) == worker[c] \in {"record", "ask", "create", "end"}

(* realtime/tools.rs:54: a follow-up response is requested "after the      *)
(* response that carried the tool calls is done and every call has an      *)
(* output".  Whenever the turn starts over, every call of it has its       *)
(* output, and the first response it has calls of is done, as are all when *)
(* responses start only because a follow-up was asked for.  With turn      *)
(* detection the turn may also hold calls of a later response, which       *)
(* joined while an output of the first was missing (response_done,         *)
(* tools.rs:91, closes the turn and nothing parts the two), and that one   *)
(* may not be done: there the code does not do what tools.rs:54 says.      *)
FollowUpAfterDone ==
    [][asked' # asked =>
         /\ \A c \in inResponse : Answered(c)
         /\ \E d \in inResponse :
              /\ Handled(of[d])
              /\ \A c \in inResponse :
                   Handled(of[c]) \/ (detection /\ of[c] > of[d])]_vars

(* ... exactly once: as many follow-ups as responses that carried calls,   *)
(* at most, however the outputs and the ends of responses interleave.      *)
OneFollowUpPerResponse ==
    asked <= Cardinality({of[c] : c \in {d \in Calls : of[d] # 0}})

(* Every response is done and every call has its output.                   *)
Complete ==
    /\ \A r \in 1..response : Handled(r)
    /\ \A c \in Calls : of[c] # 0 => worker[c] = "end"

(* The connection task waits to put a message in the queue that it alone   *)
(* empties, or for the permit of one that does: a full queue stops it.     *)
Wedged == conn.at \in {"permit", "send"} /\ ~ OutboundRoom

(* Calls whose output is not in the turn although it has been recorded.    *)
Cleared == {c \in inResponse : worker[c] = "end" /\ c \notin submitted}

(* docs/01-architecture/11-other-modalities.md:212, as it is written: when *)
(* every response is done and every call has an output, no call is left in *)
(* the turn and the follow-up is written, unless the session ends.         *)
FollowUpComes ==
    Complete ~> (inResponse = {} /\ written = asked) \/ cancelled \/ ~ Alive

(* What holds of it: the follow-up does not come only where the queue is   *)
(* full when the connection task asks for it, or, with turn detection,     *)
(* where the output of a call was recorded before the call joined and then *)
(* cleared with the turn before.                                           *)
FollowUpComesOrIsLost ==
    Complete ~> \/ inResponse = {} /\ written = asked
                \/ cancelled \/ ~ Alive
                \/ Wedged
                \/ detection /\ Cleared # {}

(* RealtimeHandle::close asks the connection task to close the connection: *)
(* it does, when the consumer keeps reading, unless it waits for room in   *)
(* the queue that it alone empties.                                        *)
CloseEnds ==
    cancelled ~> ~ Alive \/ (conn.at = "send" /\ ~ OutboundRoom)
=============================================================================

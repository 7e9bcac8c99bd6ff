----------------------------- MODULE McpClient -----------------------------
(***************************************************************************)
(* An MCP client over a stdio transport.  Requests run concurrently; each  *)
(* of them checks that the client is open, registers a fresh id, sends its *)
(* frame through the writer task and waits for the dispatcher to resolve   *)
(* the id; a result may ask for input and start another round.  The reader *)
(* task turns the server's output into events and, at its end, closes the  *)
(* transport and then tells the dispatcher.  Every step is what one task   *)
(* does under one lock or between two awaits: the runtime has many threads.*)
(*                                                                         *)
(* Abstracted: what requests and results contain, capabilities and         *)
(* protocol versions, notifications (those of a cancellation included) and *)
(* requests of the server, the retry of tools/call (a new request),        *)
(* negotiation at connect, the order of the frames.                        *)
(***************************************************************************)
EXTENDS Naturals, FiniteSets, Sequences

CONSTANTS
    Requests,       \* the calls of McpClient::request
    MaxRounds,      \* max_input_rounds
    Prompted,       \* the requests the server may want input for
    Impatient,      \* those with a timeout or a cancellation token
    MayEnd          \* the server may close its output or exit

ASSUME RoundsAssumption == MaxRounds \in Nat
ASSUME SwitchAssumption ==
    Prompted \subseteq Requests /\ Impatient \subseteq Requests /\ MayEnd \in BOOLEAN

VARIABLES
    at,        \* where each request is
    id,        \* the id of its current exchange (active_id), 0 for none
    outcome,   \* what it returned
    rounds,    \* input rounds it went through
    nextId, pending,
    slot,      \* by id: what was sent to its oneshot
    frame,     \* by id: "none" | "queued" | "written" | "failed"
    answered,  \* by id: the result the server gave
    events,    \* EventChannel
    dispatch,  \* "run" | "failing" | "ended"
    closed,    \* ServerState::closed
    cancelled, \* ClientInner::cancellation
    closing,   \* McpClient::close: where it is
    reader,    \* "reading" | "closed" | "taken" | "ended"
    frames,    \* the frame sender is there
    shut,      \* State::closed of the transport
    child      \* "running" | "exited" | "killed"

request == <<at, id, outcome, rounds>>
table == <<nextId, pending, slot>>
client == <<dispatch, closed, cancelled, closing>>
transport == <<reader, frames, shut>>
vars == <<request, table, frame, answered, child, events, client, transport>>

Sending == {"registered", "writing", "waiting"}
Active == Sending \union {"checked", "input"}

Init ==
    /\ at = [r \in Requests |-> "idle"]
    /\ id = [r \in Requests |-> 0]
    /\ outcome = [r \in Requests |-> "none"]
    /\ rounds = [r \in Requests |-> 0]
    /\ nextId = 1 /\ pending = {}
    /\ slot = <<>> /\ frame = <<>> /\ answered = <<>>
    /\ child = "running"
    /\ events = <<>>
    /\ dispatch = "run" /\ closed = FALSE /\ cancelled = FALSE /\ closing = "no"
    /\ reader = "reading" /\ frames = TRUE /\ shut = FALSE

-----------------------------------------------------------------------------
Unregistered_Leaked(r) == pending

(* The drop of PendingRequest: the registration goes with the exchange.    *)
Unregistered(r) == pending \ {id[r]}

Return(r, result) ==
    /\ at' = [at EXCEPT ![r] = "done"]
    /\ outcome' = [outcome EXCEPT ![r] = result]
    /\ pending' = Unregistered(r)
    /\ UNCHANGED <<id, rounds, nextId, slot>>

Go(r, place) ==
    /\ at' = [at EXCEPT ![r] = place]
    /\ UNCHANGED <<id, outcome, rounds>>

(* exchange, for the first round or after an input round ...               *)
Check(r) ==
    /\ at[r] \in {"idle", "input"}
    /\ IF closed THEN Return(r, "closed")
       ELSE Go(r, "checked") /\ UNCHANGED table
    /\ UNCHANGED <<frame, answered, child, events, client, transport>>

Fresh_Reused == Cardinality(pending) + 1

(* next_id.                                                                *)
Fresh == nextId

Register(r) ==
    /\ at[r] = "checked"
    /\ id' = [id EXCEPT ![r] = Fresh]
    /\ nextId' = nextId + 1
    /\ pending' = pending \union {Fresh}
    /\ at' = [at EXCEPT ![r] = "registered"]
    /\ slot' = Append(slot, "none")
    /\ frame' = Append(frame, "none") /\ answered' = Append(answered, "none")
    /\ UNCHANGED <<outcome, rounds, child, events, client, transport>>

(* ... the frame goes to the writer, or the transport is closed ...        *)
Send(r) ==
    /\ at[r] = "registered"
    /\ IF frames
       THEN /\ Go(r, "writing")
            /\ frame' = [frame EXCEPT ![id[r]] = "queued"]
            /\ UNCHANGED table
       ELSE Return(r, "closed") /\ UNCHANGED frame
    /\ UNCHANGED <<answered, child, events, client, transport>>

(* ... the writer reports what became of it ...                            *)
Written(r) ==
    /\ at[r] = "writing"
    /\ \/ frame[id[r]] = "written" /\ Go(r, "waiting") /\ UNCHANGED table
       \/ frame[id[r]] = "failed" /\ Return(r, "failed")
    /\ UNCHANGED <<frame, answered, child, events, client, transport>>

(* The rounds request_rounds still allows.                                 *)
MayGoOn(r) == rounds[r] < MaxRounds

(* ... and the receiver has the outcome.                                   *)
Receive(r) ==
    /\ at[r] = "waiting" /\ slot[id[r]] # "none"
    /\ IF slot[id[r]] = "input" /\ MayGoOn(r)
       THEN /\ at' = [at EXCEPT ![r] = "input"]
            /\ rounds' = [rounds EXCEPT ![r] = @ + 1]
            /\ pending' = Unregistered(r)
            /\ UNCHANGED <<id, outcome, nextId, slot>>
       ELSE Return(r, slot[id[r]])
    /\ UNCHANGED <<frame, answered, child, events, client, transport>>

(* The deadline passes or the token of the request is cancelled.           *)
GiveUp(r) ==
    /\ r \in Impatient /\ at[r] \in Active
    /\ Return(r, "timeout")
    /\ UNCHANGED <<frame, answered, child, events, client, transport>>

(* The client was closed: the biased select sees it first.                 *)
SeeClosed(r) ==
    /\ at[r] \in Active /\ cancelled
    /\ Return(r, "closed")
    /\ UNCHANGED <<frame, answered, child, events, client, transport>>

-----------------------------------------------------------------------------
(* write_frames, which goes on after the sender of its frames was taken.   *)
Write(i) ==
    /\ frame[i] = "queued"
    /\ frame' = [frame EXCEPT ![i] = IF child = "running" THEN "written"
                                     ELSE "failed"]
    /\ UNCHANGED <<request, table, answered, child, events, client, transport>>

(* The server answers a request it has read, or wants input for it.        *)
Answer(i, result) ==
    /\ frame[i] = "written" /\ answered[i] = "none"
    /\ child = "running" /\ reader = "reading" /\ ~ shut
    /\ result = "input" => \E r \in Prompted : id[r] = i
    /\ answered' = [answered EXCEPT ![i] = result]
    /\ events' = Append(events, <<"result", i>>)
    /\ UNCHANGED <<request, table, frame, child, client, transport>>

ChildExits ==
    /\ MayEnd /\ child = "running"
    /\ child' = "exited"
    /\ UNCHANGED <<request, table, frame, answered, events, client, transport>>

(* read_lines after the end of the output, which a server may close before *)
(* it exits: the transport is closed, the frame sender is taken, and only  *)
(* then the dispatcher is told.                                            *)
ReaderEnds ==
    /\ MayEnd \/ child # "running"
    /\ reader = "reading" /\ ~ shut
    /\ reader' = "closed" /\ shut' = TRUE
    /\ UNCHANGED <<request, table, frame, answered, child, events, client,
                   frames>>

ReaderTakesFrames ==
    /\ reader = "closed"
    /\ reader' = "taken" /\ frames' = FALSE
    /\ UNCHANGED <<request, table, frame, answered, child, events, client, shut>>

ReaderTells_Early ==
    /\ reader = "closed"
    /\ reader' = "ended"
    /\ events' = Append(events, <<"closed">>)
    /\ UNCHANGED <<request, table, frame, answered, child, client, frames, shut>>

ReaderTells ==
    /\ reader = "taken"
    /\ reader' = "ended"
    /\ events' = Append(events, <<"closed">>)
    /\ UNCHANGED <<request, table, frame, answered, child, client, frames, shut>>

-----------------------------------------------------------------------------
FailPending ==
    /\ pending' = {}
    /\ slot' = [i \in DOMAIN slot |-> IF i \in pending THEN "closed" ELSE slot[i]]
    /\ UNCHANGED nextId

(* The sender taken out of the table gets the result; without one the      *)
(* result is reported.                                                     *)
Resolve(i) ==
    /\ pending' = pending \ {i}
    /\ slot' = IF i \in pending THEN [slot EXCEPT ![i] = answered[i]] ELSE slot
    /\ UNCHANGED nextId

(* dispatch: its select is not biased, so events may still be handled when *)
(* the client is cancelled.                                                *)
Dispatch ==
    /\ dispatch = "run" /\ events # <<>>
    /\ events' = Tail(events)
    /\ IF Head(events) = <<"closed">>
       THEN dispatch' = "failing" /\ closed' = TRUE /\ UNCHANGED table
       ELSE Resolve(Head(events)[2]) /\ UNCHANGED <<dispatch, closed>>
    /\ UNCHANGED <<request, frame, answered, child, cancelled, closing, transport>>

DispatchCancelled ==
    /\ dispatch = "run" /\ cancelled
    /\ dispatch' = "failing" /\ closed' = TRUE
    /\ UNCHANGED <<request, table, frame, answered, child, events, cancelled,
                   closing, transport>>

DispatchFails ==
    /\ dispatch = "failing"
    /\ FailPending
    /\ dispatch' = "ended"
    /\ UNCHANGED <<request, frame, answered, child, events, closed, cancelled,
                   closing, transport>>

-----------------------------------------------------------------------------
(* McpClient::close: the state is closed under its lock ...                *)
Close ==
    /\ closing = "no"
    /\ closing' = IF closed THEN "was closed" ELSE "was open"
    /\ closed' = TRUE
    /\ UNCHANGED <<request, table, frame, answered, child, events, dispatch,
                   cancelled, transport>>

(* ... then the token is cancelled ...                                     *)
CancelToken ==
    /\ closing \in {"was closed", "was open"} /\ ~ cancelled
    /\ cancelled' = TRUE
    /\ UNCHANGED <<request, table, frame, answered, child, events, dispatch,
                   closed, closing, transport>>

(* ... what is pending fails and the dispatcher is aborted where it waits  *)
Stop ==
    /\ closing \in {"was closed", "was open"} /\ cancelled
    /\ FailPending
    /\ closing' = IF closing = "was open" THEN "transport" ELSE "done"
    /\ dispatch' = IF dispatch = "run" THEN "ended" ELSE dispatch
    /\ UNCHANGED <<request, frame, answered, child, events, closed, cancelled,
                   transport>>

(* ... then StdioTransport::close, which returns early when the transport  *)
(* is closed already, and else ends its tasks and kills the child.         *)
CloseTransport ==
    /\ closing = "transport"
    /\ closing' = "done"
    /\ IF shut THEN UNCHANGED <<transport, frame, child>>
       ELSE /\ shut' = TRUE /\ frames' = FALSE /\ reader' = "ended"
            /\ frame' = [i \in DOMAIN frame |->
                           IF frame[i] = "queued" THEN "failed" ELSE frame[i]]
            /\ child' = IF child = "running" THEN "killed" ELSE child
    /\ UNCHANGED <<request, table, answered, events, dispatch, closed, cancelled>>

-----------------------------------------------------------------------------
Step(r) ==
    Check(r) \/ Register(r) \/ Send(r) \/ Written(r) \/ Receive(r) \/ SeeClosed(r)
Writer == \E i \in DOMAIN frame : Write(i)
Reader == ReaderTakesFrames \/ ReaderTells
Dispatcher == Dispatch \/ DispatchFails
Closer == CancelToken \/ Stop \/ CloseTransport

Next ==
    \/ \E r \in Requests : Step(r) \/ GiveUp(r)
    \/ Writer
    \/ \E i \in DOMAIN frame, result \in {"complete", "input"} : Answer(i, result)
    \/ ChildExits \/ ReaderEnds \/ Reader
    \/ Dispatcher \/ DispatchCancelled
    \/ Close \/ Closer

(* The runtime polls every task that can go on, and the child takes what   *)
(* is written to it; the server need not answer, and nobody need close.    *)
Fairness ==
    /\ \A r \in Requests : WF_vars(Step(r))
    /\ WF_vars(Writer) /\ WF_vars(Reader) /\ WF_vars(Dispatcher) /\ WF_vars(Closer)

Spec == Init /\ [][Next]_vars /\ Fairness

-----------------------------------------------------------------------------
Outcomes == {"none", "complete", "input", "closed", "failed", "timeout"}

(* The table of pending requests holds only ids somebody waits for: a      *)
(* timeout, a cancellation or a failed send leaves nothing behind.         *)
NoLeak ==
    pending \subseteq {id[r] : r \in {q \in Requests : at[q] \in Sending}}

(* A request returns the result the server gave to its own last exchange,  *)
(* whatever came late, out of order, or for another round or request.      *)
OwnResult ==
    \A r \in Requests : outcome[r] \in {"complete", "input"} =>
        /\ answered[id[r]] = outcome[r]
        /\ \A q \in Requests \ {r} : id[q] # id[r]

(* Once the server's output has ended, or the client was closed            *)
(* (docs/01-architecture/15-mcp.md:151), no request is left hanging, with  *)
(* or without a timeout: not one either that found the client open and     *)
(* registers only after the pending ones were failed.                      *)
NoneLeftHanging ==
    \A r \in Requests :
        dispatch = "ended" /\ at[r] \in Active ~> at[r] = "done"

=============================================================================

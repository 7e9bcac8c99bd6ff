--------------------------- MODULE StreamAttempt ---------------------------
(***************************************************************************)
(* The model call of one streaming step: Attempt::read of                  *)
(* stream_text/pipeline/attempt.rs with the part mapping of parts.rs, and  *)
(* the step accumulator the event processor builds from what is sent.      *)
(*                                                                         *)
(* A model stream may end with an error part.  When retries are configured *)
(* the model is called again within the same step: what tool parts the     *)
(* abandoned attempt produced must never be seen, what text it already     *)
(* sent must be closed and discarded behind a RetryAttempt boundary.       *)
(*                                                                         *)
(* The module starts where the first model stream of the step has been     *)
(* established.  The event channel is FIFO and the processor sequential,   *)
(* so acc is the state the processor reaches once it has drained what was  *)
(* sent; the channel itself is modelled by StreamPipeline.                 *)
(***************************************************************************)
EXTENDS Naturals, Sequences, FiniteSets

CONSTANTS
    Calls,          \* tool call ids
    StreamRetries,  \* stream_retries: {} for None, {n} for Some(n)
    Settings        \* what the application may have configured, and the kinds
                    \* of parts and the part ids its provider uses, each id a
                    \* sequence, with the bound on the parts of one step

Kinds == {"text", "reasoning"}

ASSUME StreamAttemptAssumption ==
    /\ StreamRetries \in SUBSET Nat /\ \A m, n \in StreamRetries : m = n
    /\ \A s \in Settings : s.on_error \in BOOLEAN /\ s.first_chunk \in BOOLEAN /\ s.chunk \in BOOLEAN
    /\ \A s \in Settings : s.max_parts \in Nat /\ \A id \in s.ids : id \in Seq(Nat)
    /\ \A s \in Settings : s.kinds \subseteq Kinds

VARIABLES
    settings,
    phase,       \* reading, retrying (model called again), finished, failed, reported
    st,          \* AttemptState of the current attempt
    acc,         \* the processor's view of the step
    used,        \* part ids reserved in the call
    attempt, automatic, callback,   \* attempt number and the two retry counters
    pendingBoundary, startedStep,
    deadline,    \* first_chunk, chunk, either of them nearly over, or none
    cancelled,   \* the step token
    error,       \* what ended the step
    errorReported, seen,    \* Attempt::error_reported; errors telemetry saw
    marked, told,           \* handled errors; errors passed to on_error
    parts        \* parts read so far (bound)

vars == <<phase, st, acc, used, attempt, automatic, callback, pendingBoundary,
          startedStep, deadline, cancelled, error, errorReported, seen, marked,
          told, parts>>

allVars == <<settings, vars>>

HasOnError == settings.on_error     \* is an on_error callback registered?
FirstChunk == settings.first_chunk  \* is a first-chunk timeout configured?
Chunk == settings.chunk             \* is a chunk timeout configured?
ProviderIds == settings.ids
MaxParts == settings.max_parts
ProviderKinds == settings.kinds

NoError == <<"none", 0>>
NoRef == <<>>

-----------------------------------------------------------------------------
(* Part ids.  format!("{id}-{n}") is the id with n appended.               *)

reserve_part_id_Reuse(ids, id) == id
reserve_part_id(ids, id) ==
    IF id \notin ids THEN id
    ELSE Append(id, CHOOSE n \in 1..(Cardinality(ids) + 1) :
                       /\ Append(id, n) \notin ids
                       /\ \A m \in 1..(n - 1) : Append(id, m) \in ids)

(* Events and content items; att names the attempt that produced the event. *)
Event(type, kind, ref) == [type |-> type, kind |-> kind, ref |-> ref, att |-> attempt]
Item(type, kind, ref) == [type |-> type, kind |-> kind, ref |-> ref, n |-> 0]

ToolTypes == {"tool-input-start", "tool-input-delta", "tool-input-end", "tool-call",
              "approval-request", "approved", "denied", "tool-result",
              "tool-preliminary", "tool-error"}
IsToolEvent(e) == e.type \in ToolTypes

\* The list of emit in attempt.rs.
is_tool_part_WithoutErrors(e) == e.type \in ToolTypes \ {"tool-error"}
is_tool_part(e) == e.type \in ToolTypes

NoParts == [k \in Kinds |-> <<>>]

(* Maps: insert and remove.                                                *)
Put(f, x, v) == [y \in DOMAIN f \cup {x} |-> IF y = x THEN v ELSE f[y]]
Without(f, x) == [y \in DOMAIN f \ {x} |-> f[y]]

AttemptState == [ids |-> NoParts, open |-> NoParts, content |-> <<>>, index |-> <<>>,
                 calls |-> {}, queued |-> {}, resultIds |-> {}, clientOutputs |-> 0,
                 denied |-> 0, output |-> FALSE, buffer |-> <<>>]

-----------------------------------------------------------------------------
(* The processor: Processor::handle and StepAccumulator.                   *)

StepAccumulator == [current |-> FALSE, content |-> <<>>, open |-> NoParts,
                    rejected |-> FALSE, toolsFrom |-> {}]

reset_ForgetContent(a) == [a EXCEPT !.open = NoParts]
reset(a) == [a EXCEPT !.content = <<>>, !.open = NoParts]

start_part(a, e) ==
    [a EXCEPT !.content = Append(@, Item("part", e.kind, NoRef)),
              !.open[e.kind] = Put(@, e.ref, Len(a.content) + 1)]

update_part(a, e) ==
    IF e.ref \notin DOMAIN a.open[e.kind] THEN [a EXCEPT !.rejected = TRUE]
    ELSE IF e.type = "part-delta"
         THEN [a EXCEPT !.content[a.open[e.kind][e.ref]].n = @ + 1]
         ELSE [a EXCEPT !.open[e.kind] = Without(@, e.ref)]

(* One event: the accumulator starts at StartStep, is reset by RetryAttempt *)
(* and collects the rest; preliminary results and tool inputs are not kept. *)
handle(a, e) ==
    LET b == IF IsToolEvent(e) THEN [a EXCEPT !.toolsFrom = @ \cup {e.att}] ELSE a IN
    IF a.rejected THEN a
    ELSE
    CASE e.type = "start-step" -> [reset(b) EXCEPT !.current = TRUE]
      [] e.type = "retry-attempt" -> IF b.current THEN reset(b) ELSE b
      [] e.type \in {"part-start", "part-delta", "part-end"} /\ ~b.current ->
             [b EXCEPT !.rejected = TRUE]
      [] e.type = "part-start" /\ b.current -> start_part(b, e)
      [] e.type \in {"part-delta", "part-end"} /\ b.current -> update_part(b, e)
      [] e.type \in {"tool-preliminary", "tool-input-start", "tool-input-delta",
                     "tool-input-end"} -> b
      [] OTHER -> [b EXCEPT !.content = Append(@, Item(e.type, e.kind, e.ref))]

Delivered(a, events) ==
    LET after[n \in 0..Len(events)] ==
            IF n = 0 THEN a ELSE handle(after[n - 1], events[n])
    IN  after[Len(events)]

-----------------------------------------------------------------------------
(* Emission.                                                               *)

retries_possible == \E max \in StreamRetries : max > 0 \/ HasOnError

(* Vec::retain of the elements at the positions I.                         *)
Kept(s, I) ==
    LET kept[n \in 0..Len(s)] ==
            IF n = 0 THEN <<>>
            ELSE IF n \in I THEN Append(kept[n - 1], s[n]) ELSE kept[n - 1]
    IN  kept[Len(s)]

Others(ids, ref) == {n \in 1..Len(ids) : ids[n] # ref}

(* send_tracked keeps which parts were started on the wire and not ended.  *)
Tracked(open, e) ==
    CASE e.type = "part-start" -> [open EXCEPT ![e.kind] = Append(@, e.ref)]
      [] e.type = "part-end" -> [open EXCEPT ![e.kind] = Kept(@, Others(@, e.ref))]
      [] OTHER -> open

OpenAfter(open, events) ==
    LET after[n \in 0..Len(events)] ==
            IF n = 0 THEN open ELSE Tracked(after[n - 1], events[n])
    IN  after[Len(events)]

send_tracked(s, events) == [s EXCEPT !.open = OpenAfter(@, events)]

(* What precedes the events of a part: the retry boundary, then StartStep. *)
Prefix(streamStart) ==
    (IF pendingBoundary THEN <<Event("retry-attempt", "step", NoRef)>> ELSE <<>>)
    \o (IF ~startedStep /\ ~streamStart
        THEN <<Event("start-step", "step", NoRef)>> ELSE <<>>)

(* The events map_part returns for one part are held back together: the    *)
(* first of several is always a tool call.                                 *)
HeldBack(s, events) ==
    /\ retries_possible
    /\ s.buffer # <<>> \/ (events # <<>> /\ is_tool_part(Head(events)))

emit(s, events) ==
    IF HeldBack(s, events)
    THEN /\ st' = [s EXCEPT !.buffer = @ \o events]
         /\ acc' = Delivered(acc, Prefix(FALSE))
    ELSE /\ st' = send_tracked(s, events)
         /\ acc' = Delivered(acc, Prefix(FALSE) \o events)

flush_buffer_Nothing(s) == <<>>
flush_buffer(s) == s.buffer

close_open_parts(s) ==
    [i \in DOMAIN s.open["text"] |-> Event("part-end", "text", s.open["text"][i])]
    \o [i \in DOMAIN s.open["reasoning"] |->
            Event("part-end", "reasoning", s.open["reasoning"][i])]

(* record_output_chunk: the first output switches to the chunk timeout,    *)
(* every later one starts it again; no other part touches the timer.       *)
record_output_chunk(s) ==
    IF s.output /\ deadline = "none" THEN "none" ELSE IF Chunk THEN "chunk" ELSE "none"

Rearmed_AnyPart(isOutput) == record_output_chunk(st)
Rearmed(isOutput) == IF isOutput THEN record_output_chunk(st) ELSE deadline

FirstDeadline == IF FirstChunk THEN "first_chunk" ELSE "none"

-----------------------------------------------------------------------------
Init ==
    /\ settings \in Settings
    /\ phase = "reading" /\ st = AttemptState /\ acc = StepAccumulator
    /\ used = {} /\ attempt = 0 /\ automatic = 0 /\ callback = 0
    /\ pendingBoundary = FALSE /\ startedStep = FALSE
    /\ deadline = FirstDeadline /\ cancelled = FALSE
    /\ error = NoError /\ errorReported = FALSE /\ seen = {}
    /\ marked = {} /\ told = <<>> /\ parts = 0

Reading == phase = "reading" /\ ~cancelled

(* A part arrives: the shared beginning of every arm below.  Content parts *)
(* are bounded by MaxParts; error and finish parts end the attempt.        *)
Ends == Reading /\ pendingBoundary' = FALSE /\ startedStep' = TRUE
Arrive == Ends /\ parts < MaxParts /\ parts' = parts + 1

NoRetryStep == UNCHANGED <<attempt, automatic, callback>>
NoErrorStep == UNCHANGED <<error, errorReported, seen, marked, told>>

(* read_attempt leaves with an error that map_part, a token or a timer     *)
(* raised: nothing is flushed.                                             *)
Fail(why) ==
    /\ phase' = "failed" /\ error' = <<why, attempt>>
    /\ UNCHANGED <<st, used, deadline, cancelled, errorReported, seen, marked, told>>
    /\ NoRetryStep

(* A part was mapped to events; isOutput says whether it counts as output. *)
Mapped(s, events, isOutput) ==
    /\ phase' = phase
    /\ emit([s EXCEPT !.output = @ \/ isOutput], events)
    /\ deadline' = Rearmed(isOutput)
    /\ UNCHANGED cancelled /\ NoRetryStep /\ NoErrorStep

InvalidPart ==
    /\ Fail("invalid_part")
    /\ acc' = Delivered(acc, Prefix(FALSE))

-----------------------------------------------------------------------------
(* Parts of the model stream.                                              *)

ReadStreamStart ==
    /\ Reading /\ parts < MaxParts /\ parts' = parts + 1
    /\ acc' = Delivered(acc, Prefix(TRUE)) /\ pendingBoundary' = FALSE
    /\ UNCHANGED <<phase, st, used, startedStep, deadline, cancelled>>
    /\ NoRetryStep /\ NoErrorStep

\* Response metadata, or a raw chunk that is not forwarded; the provider may
\* send these without end.
ReadMetadata == Ends /\ Mapped(st, <<>>, FALSE) /\ UNCHANGED <<used, parts>>

ReadPartStart(k, id) ==
    LET mapped == reserve_part_id(used, id)
        s == [st EXCEPT !.content = Append(@, Item("part", k, NoRef)),
                        !.index = Put(@, mapped, Len(st.content) + 1),
                        !.ids[k] = Put(@, id, mapped)] IN
    /\ Arrive
    /\ Mapped(s, <<Event("part-start", k, mapped)>>, FALSE)
    /\ used' = used \cup {mapped}

\* What a delta carries: text, provider metadata alone, or nothing at all.  A
\* delta with nothing in it is swallowed; only text is output.
Deltas == {"text", "metadata", "empty"}

ReadPartDelta(k, id, delta) ==
    /\ Arrive
    /\ IF id \notin DOMAIN st.ids[k] THEN InvalidPart
       ELSE /\ UNCHANGED used
            /\ IF delta = "empty" THEN Mapped(st, <<>>, FALSE)
               ELSE LET mapped == st.ids[k][id] IN
                    Mapped([st EXCEPT !.content[st.index[mapped]].n = @ + 1],
                           <<Event("part-delta", k, mapped)>>, delta = "text")

ReadPartEnd(k, id) ==
    /\ Arrive
    /\ IF id \in DOMAIN st.ids[k]
       THEN /\ Mapped([st EXCEPT !.ids[k] = Without(@, id)],
                      <<Event("part-end", k, st.ids[k][id])>>, FALSE)
            /\ UNCHANGED used
       ELSE InvalidPart

\* File, reasoning file, source and custom parts; only files count as output.
ReadContent(isFile) ==
    /\ Arrive
    /\ Mapped([st EXCEPT !.content = Append(@, Item("content", "step", NoRef))],
              <<Event("content", "step", NoRef)>>, isFile)
    /\ UNCHANGED used

\* An empty delta of an input is forwarded, but is no output.
ReadToolInput(type, c, full) ==
    /\ Arrive
    /\ Mapped(st, <<Event(type, "client", c)>>, type = "tool-input-delta" /\ full)
    /\ UNCHANGED used

\* The context for the tool's hook on its input can be refused.
ReadToolInputFails ==
    /\ Arrive
    /\ Fail("tool") /\ acc' = Delivered(acc, Prefix(FALSE))

\* resolve_call_approval: no policy entry, a request to the user, or an
\* automatic decision.
Approvals == {"none", "request", "approved", "denied"}

ApprovalEvents(c, approval) ==
    CASE approval = "none" -> <<>>
      [] approval = "request" -> <<Event("approval-request", "client", c)>>
      [] OTHER -> <<Event("approval-request", "client", c), Event(approval, "client", c)>>

ToolCallOutcomes ==
    [invalid : {TRUE}, side : {"client", "provider"}, executable : {FALSE}, approval : {"none"}]
    \cup [invalid : {FALSE}, side : {"client"}, executable : BOOLEAN, approval : Approvals]
    \cup [invalid : {FALSE}, side : {"provider"}, executable : {FALSE}, approval : Approvals]

countsAsOutput_AnySide(o) == o.invalid
countsAsOutput(o) == o.invalid /\ o.side = "client"

\* Nothing checks that the id is new: the code lists a repeated call twice,
\* here calls and queued say which ids are listed.
ReadToolCall(c, o) ==
    LET s == [st EXCEPT
                !.content = Append(@, Item("tool-call", o.side, c)),
                !.calls = @ \cup {c},
                !.clientOutputs = IF countsAsOutput(o) THEN @ + 1 ELSE @,
                !.denied = IF o.approval = "denied" THEN @ + 1 ELSE @,
                !.queued = IF o.executable /\ o.approval \in {"none", "approved"}
                           THEN @ \cup {c} ELSE @] IN
    /\ Arrive
    /\ Mapped(s, <<Event("tool-call", o.side, c)>>
                 \o (IF o.invalid /\ o.side = "client"
                     THEN <<Event("tool-error", "client", c)>> ELSE <<>>)
                 \o ApprovalEvents(c, o.approval), TRUE)
    /\ UNCHANGED used

\* The context of its hook or its approval can fail; the events of the call
\* are then not emitted.
ReadToolCallFails ==
    /\ Arrive
    /\ Fail("tool") /\ acc' = Delivered(acc, Prefix(FALSE))

ReadToolResult(c, type) ==
    LET s == [st EXCEPT !.content = Append(@, Item(type, "provider", c)),
                        !.resultIds = @ \cup {c}] IN
    /\ Arrive
    /\ Mapped(s, <<Event(type, "provider", c)>>, FALSE)
    /\ UNCHANGED used

ReadProviderApproval(c) ==
    /\ Arrive
    /\ IF c \in st.calls
       THEN /\ Mapped([st EXCEPT !.content = Append(@, Item("approval-request", "provider", c))],
                      <<Event("approval-request", "provider", c)>>, FALSE)
            /\ UNCHANGED used
       ELSE /\ Fail("approval_without_call")
            /\ acc' = Delivered(acc, Prefix(FALSE))

-----------------------------------------------------------------------------
(* The ends of an attempt.                                                 *)

\* check_tool_choice may reject the finished attempt.
ReadFinish(choiceOk) ==
    LET events == flush_buffer(st) IN
    /\ Ends /\ UNCHANGED parts
    /\ acc' = Delivered(acc, Prefix(FALSE) \o events)
    /\ st' = [send_tracked(st, events) EXCEPT !.buffer = <<>>]
    /\ IF choiceOk THEN phase' = "finished" /\ UNCHANGED error
       ELSE phase' = "failed" /\ error' = <<"tool_choice", attempt>>
    /\ UNCHANGED <<used, deadline, cancelled, errorReported, seen, marked, told>>
    /\ NoRetryStep

\* The stream ends without a finish part.
ReadEof ==
    LET boundary == IF pendingBoundary THEN <<Event("retry-attempt", "step", NoRef)>> ELSE <<>> IN
    /\ Reading
    /\ acc' = Delivered(acc, boundary \o st.buffer)
    /\ st' = [send_tracked(st, st.buffer) EXCEPT !.buffer = <<>>]
    /\ phase' = "failed" /\ error' = <<"truncated", attempt>>
    /\ pendingBoundary' = FALSE
    /\ UNCHANGED <<used, startedStep, deadline, cancelled, errorReported, seen,
                   marked, told, parts>>
    /\ NoRetryStep

automatic_retry == \E max \in StreamRetries : automatic < max
callback_retry(decision) ==
    /\ ~automatic_retry /\ StreamRetries # {} /\ HasOnError
    /\ decision = "retry" /\ callback < 1

TellCallback(e) == IF HasOnError THEN Append(told, e) ELSE told

mark_error_handled_Forgotten(e) == {}
mark_error_handled(e) == {e}

\* handle_stream_error: telemetry and the callback see the error, then the
\* attempt is abandoned for another one or ends the step.
ReadError(decision) ==
    LET e == <<"stream", attempt>> IN
    /\ Ends /\ UNCHANGED parts
    /\ decision = "retry" => HasOnError
    /\ seen' = seen \cup {e} /\ told' = TellCallback(e) /\ errorReported' = TRUE
    /\ IF automatic_retry \/ callback_retry(decision)
       THEN /\ phase' = "retrying"
            /\ IF automatic_retry
               THEN automatic' = automatic + 1 /\ UNCHANGED callback
               ELSE callback' = callback + 1 /\ UNCHANGED automatic
            /\ acc' = Delivered(acc, Prefix(FALSE) \o close_open_parts(st))
            /\ st' = [st EXCEPT !.buffer = <<>>, !.open = NoParts]
            /\ attempt' = attempt + 1
            /\ UNCHANGED <<error, marked>>
       ELSE /\ phase' = "failed" /\ error' = e
            /\ marked' = marked \cup mark_error_handled(e)
            /\ acc' = Delivered(acc, Prefix(FALSE) \o st.buffer)
            /\ st' = [send_tracked(st, st.buffer) EXCEPT !.buffer = <<>>]
            /\ NoRetryStep
    /\ UNCHANGED <<used, deadline, cancelled>>

ReadCancelled ==
    /\ phase = "reading" /\ cancelled
    /\ Fail("cancelled") /\ UNCHANGED <<acc, pendingBoundary, startedStep, parts>>

\* Time passes while a deadline is armed: a first stretch leaves it nearly
\* over, what comes then may start it again, and a second one ends it.
TimePasses ==
    /\ Reading /\ deadline \in {"first_chunk", "chunk"} /\ deadline' = "nearly over"
    /\ UNCHANGED <<phase, st, acc, used, pendingBoundary, startedStep, cancelled, parts>>
    /\ NoRetryStep /\ NoErrorStep

\* timeout_error cancels the step token and records the reason.
DeadlinePasses ==
    /\ Reading /\ deadline = "nearly over"
    /\ phase' = "failed" /\ error' = <<"timeout", attempt>> /\ cancelled' = TRUE
    /\ UNCHANGED <<st, acc, used, pendingBoundary, startedStep, deadline,
                   errorReported, seen, marked, told, parts>>
    /\ NoRetryStep

-----------------------------------------------------------------------------
(* The model is called again after a retry (call_model and the outer loop  *)
(* of read).  The state of the abandoned attempt is replaced.              *)
CallModelOk ==
    /\ phase = "retrying" /\ ~cancelled
    /\ phase' = "reading" /\ st' = AttemptState
    /\ pendingBoundary' = TRUE /\ deadline' = FirstDeadline
    /\ UNCHANGED <<acc, used, startedStep, cancelled, parts>>
    /\ NoRetryStep /\ NoErrorStep

CallModelFails ==
    /\ phase = "retrying"
    /\ Fail(IF cancelled THEN "cancelled" ELSE "call")
    /\ UNCHANGED <<acc, pendingBoundary, startedStep, parts>>

Cancel ==
    /\ phase \in {"reading", "retrying"} /\ ~cancelled
    /\ cancelled' = TRUE
    /\ UNCHANGED <<phase, st, acc, used, pendingBoundary, startedStep, deadline, parts>>
    /\ NoRetryStep /\ NoErrorStep

(* Stage::report_failure and the Error event as the processor handles it:  *)
(* telemetry unless error_reported, the callback unless already handled.   *)
ReportFailure ==
    /\ phase = "failed"
    /\ phase' = "reported"
    /\ IF error[1] = "cancelled" THEN UNCHANGED <<seen, told, marked>>
       ELSE /\ seen' = IF errorReported THEN seen ELSE seen \cup {error}
            /\ told' = IF error \in marked THEN told ELSE TellCallback(error)
            /\ marked' = marked \ {error}
    /\ UNCHANGED <<st, acc, used, attempt, automatic, callback, pendingBoundary,
                   startedStep, deadline, cancelled, error, errorReported, parts>>

Step ==
    \/ ReadStreamStart \/ ReadMetadata
    \/ \E k \in ProviderKinds, id \in ProviderIds :
          \/ ReadPartStart(k, id) \/ ReadPartEnd(k, id)
          \/ \E delta \in Deltas : ReadPartDelta(k, id, delta)
    \/ \E isFile \in BOOLEAN : ReadContent(isFile)
    \/ \E type \in {"tool-input-start", "tool-input-delta", "tool-input-end"}, c \in Calls :
          \E full \in BOOLEAN : ReadToolInput(type, c, full)
    \/ \E c \in Calls, o \in ToolCallOutcomes : ReadToolCall(c, o)
    \/ ReadToolInputFails \/ ReadToolCallFails
    \/ \E c \in Calls : ReadProviderApproval(c)
    \/ \E c \in Calls, type \in {"tool-result", "tool-preliminary", "tool-error"} :
          ReadToolResult(c, type)
    \/ \E choiceOk \in BOOLEAN : ReadFinish(choiceOk)
    \/ ReadEof
    \/ \E decision \in {"continue", "retry"} : ReadError(decision)
    \/ ReadCancelled \/ TimePasses \/ DeadlinePasses
    \/ CallModelOk \/ CallModelFails \/ Cancel
    \/ ReportFailure

Next == Step /\ UNCHANGED settings

Spec == Init /\ [][Next]_allVars

(* The runtime polls the reader's select and time passes; the provider is  *)
(* under no obligation to send anything, and may send metadata for ever.   *)
FairSpec ==
    /\ Spec
    /\ WF_allVars(TimePasses /\ UNCHANGED settings)
    /\ WF_allVars((ReadCancelled \/ DeadlinePasses) /\ UNCHANGED settings)

-----------------------------------------------------------------------------
(* Properties.                                                             *)

(* The processor never rejects what the reader sends: no delta or end of a *)
(* part that is not open on the consumer side, nothing before StartStep,   *)
(* across retries, held-back parts and reused provider ids                 *)
(* (update_part and current_step of processor.rs).                         *)
ProcessorAccepts == ~acc.rejected

(* What an abandoned attempt leaves with the consumer: no tool part, ever, *)
(* for a tool call the consumer saw belongs to the attempt that ends the   *)
(* step (Attempt::emit); and no part open while the model is called again, *)
(* every start was closed before the boundary (close_open_parts).          *)
NothingLeftOfAbandonedAttempt ==
    /\ acc.toolsFrom \subseteq {attempt}
    /\ phase = "retrying" => \A k \in Kinds : DOMAIN acc.open[k] = {}

(* A finished step is what the attempt that ended it reports: the content  *)
(* the processor built from events is the attempt's, up to preliminary     *)
(* results and the items added after it (tool errors and approvals of the  *)
(* client side); a call queued for execution was shown to the consumer,    *)
(* and the counters the step loop continues on are those of the events     *)
(* that were delivered (map_tool_call, LoopState::should_continue).        *)
FromModel(i) ==
    \/ i.type \in {"part", "tool-call", "tool-result", "content"}
    \/ i.type = "tool-error" /\ i.kind = "provider"
Reported(content) == Kept(content, {n \in 1..Len(content) : FromModel(content[n])})
FinishedStepIsTheAttempts ==
    phase = "finished" =>
        LET Items(type, kind) == {i \in DOMAIN acc.content :
                 acc.content[i].type = type /\ acc.content[i].kind = kind} IN
        /\ Reported(acc.content) = Reported(st.content)
        /\ \A c \in st.queued : \E i \in Items("tool-call", "client") : acc.content[i].ref = c
        /\ st.clientOutputs = Cardinality(Items("tool-error", "client"))
        /\ st.denied = Cardinality(Items("denied", "client"))

(* The on_error callback learns of the error that ended the step exactly   *)
(* once, whether the reader or the processor calls it, and of no stream    *)
(* error twice (mark_error_handled, take_error_handled).                   *)
CallbackToldOnce ==
    /\ \A i, j \in DOMAIN told : i # j => told[i] # told[j]
    /\ phase = "reported" /\ HasOnError /\ error[1] # "cancelled" =>
          \E i \in DOMAIN told : told[i] = error

(* A provider whose output stops cannot hold the step, whatever else it    *)
(* goes on sending: with both chunk timeouts configured the reader always  *)
(* leaves (record_output_chunk keeps a deadline armed and only output      *)
(* starts it again, attempt.rs:344-348).                                   *)
StalledStreamEnds == (phase = "reading" /\ FirstChunk /\ Chunk) ~> (phase # "reading")

-----------------------------------------------------------------------------
(* Small instances for TLC: two provider ids of which one is the suffixed   *)
(* form of the other, longer for text alone than for both kinds; or one id, *)
(* both chunk timeouts and a callback.                                      *)
MCPlain(kinds, n) ==
    [ids |-> {<<0>>, <<0, 1>>}, kinds |-> kinds, on_error |-> FALSE,
     first_chunk |-> FALSE, chunk |-> FALSE, max_parts |-> n]
MCSettings ==
    {MCPlain({"text"}, 4), MCPlain(Kinds, 3),
     [ids |-> {<<0>>}, kinds |-> Kinds, on_error |-> TRUE,
      first_chunk |-> TRUE, chunk |-> TRUE, max_parts |-> 3]}
MCRetries == {1}
=============================================================================

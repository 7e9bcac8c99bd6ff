--------------------------- MODULE StreamPipeline ---------------------------
(***************************************************************************)
(* The streaming pipeline of stream_text: the producer task (stage.rs) runs *)
(* the step loop and sends events through a bounded channel; on the        *)
(* consumer side the gate and the user's transforms (mod.rs, transforms)   *)
(* feed the processor (processor.rs), which builds each step and hands it  *)
(* back to the producer, and which resolves the completion when the stream *)
(* has ended.  Ready, outcome and completion are one-shot channels.        *)
(*                                                                         *)
(* What happens inside one step is modelled by StreamAttempt and ToolBatch:*)
(* here a step is a StartStep, some content events and a FinishStep.       *)
(***************************************************************************)
EXTENDS Naturals, Sequences

CONSTANTS
    Capacity,       \* EVENT_CHANNEL_CAPACITY
    Window,         \* events a transform may hold back
    MaxSteps,       \* bound: steps after which the stop condition holds
    MaxContent,     \* bound: content events of one step
    Replay,         \* startup events: the results of replayed approvals
    TotalTimeout, StepTimeout,      \* are these timeouts configured?
    MayStop, MayFail, MayTruncate   \* what the transforms may do

ASSUME StreamPipelineAssumption ==
    /\ Capacity \in Nat \ {0} /\ Window \in Nat \ {0}
    /\ MaxSteps \in Nat \ {0} /\ MaxContent \in Nat /\ Replay \in Nat
    /\ {TotalTimeout, StepTimeout, MayStop, MayFail, MayTruncate} \subseteq BOOLEAN

VARIABLES
    producer,       \* where the producer task is
    buffer,         \* startup events held by the Emitter
    content,        \* content events sent in this step
    perror,         \* what ended the producer
    pushed,         \* steps the producer has taken back
    ready, outcome, \* the one-shot channels to the caller and the processor
    chan,           \* the event channel
    stepChan,       \* step results on their way to the producer (capacity 1)
    held,           \* events inside the transforms
    cut,            \* the transformed stream ends: gated or truncated
    stop, failure,  \* TransformContext
    caller,         \* waiting, streaming, failed, ended, dropped
    inStep, built,  \* the processor: accumulator present, steps built
    aborted, aborts,        \* abort event handled; on_abort hook runs
    terminal,       \* terminal event the caller saw
    cancelled, reason,      \* call token and the reason cell
    completion

pvars == <<producer, buffer, content, perror, pushed>>
tvars == <<held, cut, stop, failure>>
cvars == <<caller, inStep, built, aborted, aborts, terminal, completion>>
vars == <<pvars, ready, outcome, chan, stepChan, tvars, cvars, cancelled, reason>>

Terminals == {"finish", "error", "abort"}
Startup == {"start", "content"}
Events == Startup \cup {"start-step", "finish-step"} \cup Terminals
Errors == {"cancelled", "timeout", "model"}
Points == {"starting", "releasing", "begin", "step", "await", "finish", "report",
           "settle", "drop", "gone"}

Init ==
    /\ producer = "starting" /\ content = 0 /\ perror = "none" /\ pushed = 0
    /\ buffer \in {<<"start">> \o [i \in 1..n |-> "content"] : n \in 0..Replay}
    /\ ready = "pending" /\ outcome = "pending" /\ chan = <<>> /\ stepChan = 0
    /\ held = <<>> /\ cut = FALSE /\ stop = FALSE /\ failure = FALSE
    /\ caller = "waiting" /\ inStep = FALSE /\ built = 0
    /\ aborted = FALSE /\ aborts = 0 /\ terminal = "none"
    /\ cancelled = FALSE /\ reason = "none" /\ completion = "pending"

-----------------------------------------------------------------------------
(* The producer task.                                                      *)

Send(e) == Len(chan) < Capacity /\ chan' = Append(chan, e)

\* CallCancellation::error: a recorded timeout, or plain cancellation.
CancelError == IF reason = "none" THEN "cancelled" ELSE reason

ProducerOnly == UNCHANGED <<stepChan, tvars, cvars, cancelled>>

\* The first model request succeeded: the caller is released before the
\* startup events enter the channel.
FirstCallOk ==
    /\ producer = "starting" /\ ~cancelled
    /\ ready' = "ok" /\ producer' = "releasing"
    /\ UNCHANGED <<buffer, content, perror, pushed, outcome, chan, reason>> /\ ProducerOnly

\* It failed: the error goes to the caller, no result exists.
CallerTold(why) ==
    /\ ready' = why /\ producer' = "gone" /\ outcome' = "closed"
    /\ UNCHANGED <<buffer, content, perror, pushed, chan>> /\ ProducerOnly

FirstCallFails ==
    /\ producer = "starting" /\ UNCHANGED reason
    /\ CallerTold("model") \/ (cancelled /\ CallerTold("cancelled"))

Release ==
    /\ producer = "releasing"
    /\ IF buffer = <<>>
       THEN producer' = "step" /\ UNCHANGED <<buffer, chan>>
       ELSE Send(Head(buffer)) /\ buffer' = Tail(buffer) /\ UNCHANGED producer
    /\ UNCHANGED <<content, perror, pushed, ready, outcome, reason>> /\ ProducerOnly

\* The model of a later step is called and its stream established.
BeginStep ==
    /\ producer = "begin" /\ producer' = "step"
    /\ UNCHANGED <<buffer, content, perror, pushed, ready, outcome, chan, reason>>
    /\ ProducerOnly

\* StartStep first, then content.
Emit ==
    /\ producer = "step" /\ content <= MaxContent
    /\ Send(IF content = 0 THEN "start-step" ELSE "content")
    /\ content' = content + 1
    /\ UNCHANGED <<producer, buffer, perror, pushed, ready, outcome, reason>> /\ ProducerOnly

FinishStep_TrySend ==
    /\ producer = "step" /\ content > 0 /\ producer' = "await" /\ content' = 0
    /\ chan' = IF Len(chan) < Capacity THEN Append(chan, "finish-step") ELSE chan
    /\ UNCHANGED <<buffer, perror, pushed, ready, outcome, reason>> /\ ProducerOnly
FinishStep ==
    /\ producer = "step" /\ content > 0
    /\ Send("finish-step") /\ producer' = "await" /\ content' = 0
    /\ UNCHANGED <<buffer, perror, pushed, ready, outcome, reason>> /\ ProducerOnly

\* The processor's step arrives; the loop goes on or stops.
afterStep(n) == IF n < MaxSteps THEN {"begin", "finish"} ELSE {"finish"}

TakeStep ==
    /\ producer = "await" /\ stepChan > 0
    /\ stepChan' = stepChan - 1 /\ pushed' = pushed + 1
    /\ producer' \in afterStep(pushed + 1)
    /\ UNCHANGED <<buffer, content, perror, ready, outcome, chan, reason>>
    /\ UNCHANGED <<tvars, cvars, cancelled>>

Finish ==
    /\ producer = "finish" /\ Send("finish") /\ producer' = "settle"
    /\ UNCHANGED <<buffer, content, perror, pushed, ready, outcome, reason>> /\ ProducerOnly

\* run_loop returned an error after the caller was released.
GiveUp(why) ==
    /\ producer' = "report" /\ perror' = why /\ buffer' = <<>>
    /\ UNCHANGED <<content, pushed, ready, outcome, chan>> /\ ProducerOnly

ModelFails == producer \in {"begin", "step"} /\ GiveUp("model") /\ UNCHANGED reason

ObserveCancel ==
    /\ producer \in {"begin", "step"} /\ cancelled
    /\ GiveUp(CancelError) /\ UNCHANGED reason

\* A timeout drops whatever it covers wherever it waits, a full channel
\* included; before the first call succeeded it is the caller's error.
Expires(scope) ==
    /\ producer \in scope /\ reason' = "timeout"
    /\ IF producer = "starting" THEN CallerTold("timeout") ELSE GiveUp("timeout")

StepTimesOut == StepTimeout /\ Expires({"starting", "releasing", "begin", "step"})

\* The total timeout covers the whole loop and the wait for the processor.
totalScope == {"starting", "releasing", "begin", "step", "await", "finish"}
TotalTimesOut == TotalTimeout /\ Expires(totalScope)

\* report_failure: Abort for plain cancellation, Error for anything else.
Report ==
    /\ producer = "report"
    /\ Send(IF perror = "cancelled" THEN "abort" ELSE "error") /\ producer' = "settle"
    /\ UNCHANGED <<buffer, content, perror, pushed, ready, outcome, reason>> /\ ProducerOnly

\* The outcome is sent before the event channel closes.
Settle ==
    /\ producer = "settle" /\ producer' = "drop"
    /\ outcome' = IF perror = "none" THEN "finished" ELSE perror
    /\ UNCHANGED <<buffer, content, perror, pushed, ready, chan, reason>> /\ ProducerOnly

DropSender ==
    /\ producer = "drop" /\ producer' = "gone"
    /\ UNCHANGED <<buffer, content, perror, pushed, ready, outcome, chan, reason>>
    /\ ProducerOnly

-----------------------------------------------------------------------------
(* The consumer side: every action below happens while the caller polls.   *)

ConsumerOnly == UNCHANGED <<buffer, content, perror, pushed, ready>>

\* start(): the caller gets the result or the error of the first call.
Started ==
    /\ caller = "waiting" /\ ready # "pending"
    /\ caller' = IF ready = "ok" THEN "streaming" ELSE "failed"
    /\ UNCHANGED <<pvars, ready, outcome, chan, stepChan, tvars, inStep, built,
                   aborted, aborts, terminal, completion, cancelled, reason>>

Streaming == caller = "streaming"

\* The gate in front of the transforms: once stopped, the next event ends it.
Pull ==
    /\ Streaming /\ ~cut /\ chan # <<>> /\ Len(held) < Window
    /\ chan' = Tail(chan)
    /\ IF stop THEN cut' = TRUE /\ UNCHANGED held
       ELSE held' = Append(held, Head(chan)) /\ UNCHANGED cut
    /\ UNCHANGED <<pvars, ready, outcome, stepChan, stop, failure, cvars, cancelled, reason>>

\* A transform that has seen an event may stop or fail the call, with or
\* without ending its own output, or simply end its output.
TransformActs(fails, ends) ==
    /\ Streaming /\ ~cut /\ held # <<>>
    /\ stop' = TRUE /\ cancelled' = TRUE
    /\ failure' = (failure \/ fails)
    /\ IF ends THEN cut' = TRUE /\ held' = <<>> ELSE UNCHANGED <<cut, held>>
    /\ UNCHANGED <<pvars, ready, outcome, chan, stepChan, cvars, reason>>

TransformStops == MayStop /\ \E ends \in BOOLEAN : TransformActs(FALSE, ends)
TransformFails == MayFail /\ \E ends \in BOOLEAN : TransformActs(TRUE, ends)

TransformTruncates ==
    /\ MayTruncate /\ Streaming /\ ~cut /\ held # <<>>
    /\ cut' = TRUE /\ held' = <<>>
    /\ UNCHANGED <<pvars, ready, outcome, chan, stepChan, stop, failure, cvars,
                   cancelled, reason>>

\* abort_all, or the processor dropped with its JoinSet.
ProducerAborted ==
    /\ producer' = "gone"
    /\ outcome' = IF outcome = "pending" THEN "closed" ELSE outcome

\* Processor::handle of one transformed event.
Handle(e) ==
    /\ Streaming /\ held # <<>> /\ e = Head(held)
    /\ held' = Tail(held)
    /\ terminal' = IF e \in Terminals THEN e ELSE terminal
    /\ IF e = "finish-step" /\ ~inStep
       THEN /\ completion' = "invalid" /\ caller' = "ended" /\ ProducerAborted
            /\ UNCHANGED <<inStep, built, aborted, aborts, stepChan>>
       ELSE /\ inStep' = (e = "start-step" \/ (e # "finish-step" /\ inStep))
            /\ built' = IF e = "finish-step" THEN built + 1 ELSE built
            /\ stepChan' = IF e = "finish-step" THEN stepChan + 1 ELSE stepChan
            /\ aborted' = (aborted \/ e = "abort")
            /\ aborts' = IF e = "abort" THEN aborts + 1 ELSE aborts
            /\ UNCHANGED <<completion, caller, producer, outcome>>
    /\ ConsumerOnly /\ UNCHANGED <<chan, cut, stop, failure, cancelled, reason>>

HandleEvent == \E e \in Events : Handle(e)

Exhausted_Eof == held = <<>> /\ chan = <<>> /\ producer = "gone"
Exhausted_EarlyClose ==
    held = <<>> /\ (cut \/ (chan = <<>> /\ producer \in {"settle", "drop", "gone"}))
Exhausted == held = <<>> /\ (cut \/ (chan = <<>> /\ producer = "gone"))

\* The outcome finish() reads; a producer still running is aborted.
Outcome == IF outcome \in {"pending", "closed"} THEN "cancelled" ELSE outcome

\* Processor::finish in the order of its checks.
checksToken_Ignored == FALSE
checksToken == cancelled
needsAbort_Always(why) == why = "cancelled"
needsAbort(why) == why = "cancelled" /\ ~aborted

Verdict ==
    IF failure THEN "transform"
    ELSE IF checksToken THEN CancelError
    ELSE IF Outcome \in Errors THEN Outcome
    ELSE IF built = 0 THEN "no_output" ELSE "ok"

EndStream ==
    /\ Streaming /\ Exhausted
    /\ caller' = "ended" /\ ProducerAborted
    /\ completion' = Verdict
    /\ aborts' = IF needsAbort(Verdict) THEN aborts + 1 ELSE aborts
    /\ ConsumerOnly
    /\ UNCHANGED <<chan, stepChan, tvars, inStep, built, aborted, terminal, cancelled, reason>>

\* The last view and the completion are dropped: the producer is aborted.
DropAll_Late ==
    /\ caller \in {"waiting", "streaming", "ended"}
    /\ caller' = "dropped" /\ completion' = "dropped" /\ ProducerAborted
    /\ ConsumerOnly
    /\ UNCHANGED <<chan, stepChan, tvars, inStep, built, aborted, aborts, terminal,
                   cancelled, reason>>
DropAll ==
    /\ caller \in {"waiting", "streaming"}
    /\ caller' = "dropped" /\ completion' = "dropped" /\ ProducerAborted
    /\ ConsumerOnly
    /\ UNCHANGED <<chan, stepChan, tvars, inStep, built, aborted, aborts, terminal,
                   cancelled, reason>>

Cancel ==
    /\ caller \in {"waiting", "streaming"} /\ ~cancelled /\ cancelled' = TRUE
    /\ UNCHANGED <<pvars, ready, outcome, chan, stepChan, tvars, cvars, reason>>

-----------------------------------------------------------------------------
ProducerStep ==
    \/ FirstCallOk \/ FirstCallFails
    \/ Release \/ BeginStep \/ Emit \/ FinishStep \/ TakeStep \/ Finish
    \/ ModelFails \/ ObserveCancel \/ Report \/ Settle \/ DropSender
ConsumerStep == Started \/ Pull \/ HandleEvent \/ EndStream

Next ==
    \/ ProducerStep \/ StepTimesOut \/ TotalTimesOut
    \/ ConsumerStep \/ TransformStops \/ TransformFails \/ TransformTruncates
    \/ DropAll \/ Cancel

Spec == Init /\ [][Next]_vars

(* The runtime runs the producer task and the caller keeps polling.        *)
FairSpec == Spec /\ WF_vars(ProducerStep) /\ WF_vars(ConsumerStep)

-----------------------------------------------------------------------------
(* Properties.                                                             *)

ProducerType ==
    /\ producer \in Points /\ content \in Nat /\ pushed \in Nat
    /\ buffer \in Seq(Startup)
    /\ perror \in {"none"} \cup Errors
    /\ ready \in {"pending", "ok"} \cup Errors
    /\ outcome \in {"pending", "finished", "closed"} \cup Errors
ChannelType ==
    /\ chan \in Seq(Events) /\ Len(chan) <= Capacity
    /\ held \in Seq(Events) /\ Len(held) <= Window
    /\ stepChan \in Nat
TokenType ==
    /\ cut \in BOOLEAN /\ stop \in BOOLEAN /\ failure \in BOOLEAN
    /\ cancelled \in BOOLEAN /\ reason \in {"none", "timeout"}
ConsumerType ==
    /\ inStep \in BOOLEAN /\ aborted \in BOOLEAN /\ built \in Nat /\ aborts \in Nat
    /\ caller \in {"waiting", "streaming", "failed", "ended", "dropped"}
    /\ terminal \in {"none"} \cup Terminals
    /\ completion \in {"pending", "ok", "transform", "invalid", "no_output", "dropped"}
                      \cup Errors
TypeOK == ProducerType /\ ChannelType /\ TokenType /\ ConsumerType

(* The producer never waits for a step that is not on its way: either the  *)
(* step result is in the step channel or its FinishStep is still in front  *)
(* of the processor.  Otherwise producer and processor would wait for each *)
(* other for ever (stage.rs:195, processor.rs:351).                        *)
Carries(s, e) == \E i \in 1..Len(s) : s[i] = e
NoWaitCycle ==
    Streaming /\ producer = "await" /\ ~cut =>
        stepChan > 0 \/ Carries(chan, "finish-step") \/ Carries(held, "finish-step")

(* The step channel has room for one result and the processor never has    *)
(* to wait on it.                                                          *)
StepChannelNeverFull == stepChan <= 1

(* A completion that resolves with a result holds every step the producer  *)
(* ran, the call was not cancelled or stopped, and no failure was seen.    *)
OkIsComplete ==
    completion = "ok" =>
        /\ built = pushed /\ built > 0 /\ perror = "none" /\ outcome = "finished"
        /\ ~cancelled /\ ~stop /\ terminal \in {"none", "finish"}

(* on_abort runs at most once, and exactly once for a call that ends as    *)
(* cancelled, whether the Abort event was delivered or the stream was cut. *)
AbortHookOnce ==
    /\ aborts <= 1
    /\ completion = "cancelled" => aborts = 1
    /\ completion \in {"ok", "model", "timeout", "no_output"} => aborts = 0

(* The event structure the processor relies on survives every cut, stop    *)
(* and timeout: it never meets a FinishStep without a StartStep.           *)
NeverInvalid == completion # "invalid"

(* What the completion says agrees with the terminal event the caller saw: *)
(* the outcome is there when the channel has closed (stage.rs:153).        *)
TerminalAgrees ==
    caller = "ended" /\ ~cancelled =>
        /\ terminal = "finish" => completion = "ok"
        /\ terminal = "error" => completion \in {"model", "timeout"}
        /\ terminal = "abort" => completion = "cancelled"

(* A terminal event is the last event the caller sees.                     *)
TerminalIsLast == [][HandleEvent => terminal = "none"]_vars

(* While the caller polls, the completion resolves.                        *)
CompletionResolves == caller = "streaming" ~> completion # "pending"

(* The pipeline keeps the promise of StreamPromise.                        *)
Promise == INSTANCE StreamPromise WITH
    result <- completion, cancelled <- (cancelled \/ stop)
KeepsPromise == Promise!Spec

=============================================================================

---------------------------- MODULE GenerateLoop ----------------------------
(***************************************************************************)
(* The step loop of generate_text over the life of one conversation.  The  *)
(* application invokes the loop with the messages it has, the loop first   *)
(* replays the approval responses of the trailing tool message, then it    *)
(* asks the model, resolves the approval policy for the calls of the       *)
(* answer, runs the tools it may run, and decides whether to take another  *)
(* step.  A successful invocation leaves its messages with the             *)
(* application; a failed one leaves only the side effects of the tools     *)
(* that ran, and the application still has the messages it started from.   *)
(*                                                                         *)
(* Abstracted: message text, names, inputs and signatures (the history is  *)
(* the application's own, so every signature verifies), the order of       *)
(* parts within a message, usage, hooks and telemetry.  An approval        *)
(* request is identified with its call, and a response says truly whether  *)
(* the provider executes the call.                                         *)
(***************************************************************************)
EXTENDS Naturals, FiniteSets, Sequences

CONSTANTS
    Calls,           \* tool call ids; the model uses each of them once
    StopAfter,       \* the step_count(n) stop condition of the call
    MaxInvocations,  \* bound: how often the application calls the loop
    MaxFailures,     \* bound: how many of the invocations fail
    HostedStatus     \* what the policy may answer for a provider-executed call

Kinds == {"tool", "manual", "invalid", "hosted", "deferred"}
Status == {"none", "approved", "denied", "user"}

ASSUME CallsAssumption == IsFiniteSet(Calls)
ASSUME StopAfterAssumption == StopAfter \in Nat \ {0}
ASSUME BoundAssumption == MaxInvocations \in Nat /\ MaxFailures \in Nat
ASSUME HostedAssumption == HostedStatus \subseteq Status

VARIABLES
    phase,        \* "app" | "replay" | "model" | "resolve"
    kind,         \* what the model called with each id, or "unused"
    status,       \* the policy's answer at the step of the call
    saved,        \* the history the application holds
    draft,        \* that history and the response messages of this invocation
    last,         \* the tool calls of the current step
    arrived,      \* result_ids: provider results in the current answer
    finish,       \* whether the finish reason lets tools execute
    silent,       \* the current answer has no content at all
    pending,      \* pending_deferred
    steps,        \* steps.len()
    runs,         \* how often the executor of each call was started
    invocations, failures

vars == <<phase, kind, status, saved, draft, last, arrived, finish, silent,
          pending, steps, runs, invocations, failures>>

answer == <<last, arrived, finish, silent>>

Decision == [call : Calls, approved : BOOLEAN]

(* What the loop reads of a message list: the approval requests, the tool  *)
(* results in tool messages, and the approval responses of the last        *)
(* message when that is a tool message.                                    *)
History == [requests : SUBSET Calls,
            replies  : [Calls -> Seq({"output", "denied"})],
            tail     : SUBSET Decision]

ClientKinds == {"tool", "manual", "invalid"}
Client(c) == kind[c] \in ClientKinds
Unused == {c \in Calls : kind[c] = "unused"}

Reply(h, outputs, denials) ==
    [c \in Calls |-> h.replies[c]
        \o (IF c \in outputs THEN <<"output">> ELSE <<>>)
        \o (IF c \in denials THEN <<"denied">> ELSE <<>>)]

Count(f, started) == [c \in Calls |-> IF c \in started THEN f[c] + 1 ELSE f[c]]

Init ==
    /\ phase = "app"
    /\ kind = [c \in Calls |-> "unused"]
    /\ status = [c \in Calls |-> "none"]
    /\ saved = [requests |-> {}, replies |-> [c \in Calls |-> <<>>], tail |-> {}]
    /\ draft = saved
    /\ last = {} /\ arrived = {} /\ finish = TRUE /\ silent = FALSE
    /\ pending = {}
    /\ steps = 0
    /\ runs = [c \in Calls |-> 0]
    /\ invocations = 0 /\ failures = 0

-----------------------------------------------------------------------------
(* The application calls again, with decisions for any of the requests it  *)
(* has seen, added to the trailing tool message or in a new last message.  *)
Invoke ==
    /\ phase = "app"
    /\ invocations < MaxInvocations
    /\ \E decisions \in SUBSET {d \in Decision : d.call \in saved.requests},
          keep \in {{}, saved.tail} :
         draft' = [saved EXCEPT !.tail = keep \union decisions]
    /\ invocations' = invocations + 1
    /\ phase' = "replay"
    /\ steps' = 0
    /\ pending' = {}
    /\ UNCHANGED <<kind, status, saved, answer, runs, failures>>

-----------------------------------------------------------------------------
(* Any error ends the invocation; the response messages are lost with it.  *)
Fail ==
    /\ failures < MaxFailures
    /\ failures' = failures + 1
    /\ phase' = "app"
    /\ draft' = saved
    /\ last' = {} /\ arrived' = {} /\ finish' = TRUE /\ silent' = FALSE
    /\ UNCHANGED <<kind, status, saved, pending, steps, invocations>>

(* collect_tool_approvals *)
Conflicting(tail) ==
    \E d, e \in tail : d.call = e.call /\ d.approved # e.approved

Collected_DenialForgotten(approved) ==
    {c \in Calls : /\ [call |-> c, approved |-> approved] \in draft.tail
                   /\ approved => draft.replies[c] = <<>>}

Collected_OutputForgotten(approved) ==
    {c \in Calls : /\ [call |-> c, approved |-> approved] \in draft.tail
                   /\ approved \/ draft.replies[c] = <<>>
                   /\ ~ \E i \in DOMAIN draft.replies[c] :
                          draft.replies[c][i] = "denied"}

Collected_DenialOverruled(approved) ==
    {c \in Calls : /\ [call |-> c, approved |-> approved] \in draft.tail
                   /\ \/ draft.replies[c] = <<>>
                      \/ approved /\ draft.replies[c] = <<"denied">>}

Collected(approved) ==
    {c \in Calls : /\ [call |-> c, approved |-> approved] \in draft.tail
                   /\ draft.replies[c] = <<>>}

(* Approved calls of the client's tools are re-validated and put to the    *)
(* policy again, where only a denial counts; what is left and executable   *)
(* runs.                                                                   *)
ReplayChoice(bad, refused) ==
    /\ bad \subseteq {c \in Collected(TRUE) : kind[c] = "tool"}
    /\ refused \subseteq {c \in Collected(TRUE) : Client(c)} \ bad

ReplayRuns(bad, refused) ==
    {c \in Collected(TRUE) : kind[c] = "tool"} \ (bad \union refused)

(* replay_approvals and replay_tool_message.                               *)
Replay ==
    /\ phase = "replay"
    /\ ~ Conflicting(draft.tail)
    /\ \E bad, refused \in SUBSET Calls :
         /\ ReplayChoice(bad, refused)
         /\ LET started == ReplayRuns(bad, refused)
                outputs == started \union bad
                denials == refused \union Collected(FALSE)
            IN /\ runs' = Count(runs, started)
               /\ draft' = [draft EXCEPT
                      !.replies = Reply(draft, outputs, denials),
                      !.tail = IF outputs \union denials = {} THEN @ ELSE {}]
    /\ phase' = "model"
    /\ UNCHANGED <<kind, status, saved, answer, pending, steps, invocations,
                   failures>>

(* A response that contradicts another, or a tool context that does not    *)
(* validate, ends the invocation before any tool runs.                     *)
ReplayRejected ==
    /\ phase = "replay"
    /\ Conflicting(draft.tail) \/ \E c \in Collected(TRUE) : Client(c)
    /\ Fail
    /\ UNCHANGED runs

(* A replayed tool is cancelled or its task fails: the others are aborted. *)
ReplayAborted ==
    /\ phase = "replay"
    /\ ~ Conflicting(draft.tail)
    /\ \E bad, refused \in SUBSET Calls :
         /\ ReplayChoice(bad, refused)
         /\ \E started \in SUBSET ReplayRuns(bad, refused) \ {{}} :
              runs' = Count(runs, started)
    /\ Fail

-----------------------------------------------------------------------------
(* The model answers: new tool calls, results of provider-executed calls   *)
(* (of this answer, or deferred from an earlier one) and a finish reason.  *)
ModelAnswers ==
    /\ phase = "model"
    /\ \E new \in SUBSET Unused :
       \E k \in [new -> Kinds] :
         /\ kind' = [c \in Calls |-> IF c \in new THEN k[c] ELSE kind[c]]
         /\ last' = new
         /\ arrived' \in SUBSET
              (pending \union {c \in new : k[c] \in {"hosted", "deferred"}})
    /\ finish' \in BOOLEAN
    /\ silent' \in {s \in BOOLEAN : s => last' = {} /\ arrived' = {}}
    /\ phase' = "resolve"
    /\ UNCHANGED <<status, saved, draft, pending, steps, runs, invocations,
                   failures>>

(* The model call fails after its retries, or the tool choice is not met.  *)
ModelFails ==
    /\ phase = "model"
    /\ Fail
    /\ UNCHANGED runs

-----------------------------------------------------------------------------
(* resolve_approvals: an invalid call needs no decision; the policy is     *)
(* asked about every other call, the provider's own included.              *)
Resolutions ==
    {s \in [last -> Status] :
        \A c \in last : /\ kind[c] = "invalid" => s[c] = "none"
                        /\ ~ Client(c) => s[c] \in HostedStatus}

Invalid == {c \in last : kind[c] = "invalid"}

(* The calls execute_tools starts: valid, not blocked, with an executor,   *)
(* and only when the finish reason allows it.                              *)
Executes(s) ==
    IF finish
    THEN {c \in last : kind[c] = "tool" /\ s[c] \in {"none", "approved"}}
    ELSE {}

Denied(s) == {c \in last : s[c] = "denied"}

(* track_deferred *)
Tracked(old) == (old \union {c \in last : kind[c] = "deferred"}) \ arrived

ShouldContinue_Unanswered(outputs, denied, calls, deferred) ==
    calls > 0 \/ deferred > 0

(* LoopState::should_continue *)
ShouldContinue(outputs, denied, calls, deferred) ==
    /\ outputs + denied = calls
    /\ calls > 0 \/ deferred > 0

(* step_count(n): the number of steps equals n                             *)
StopMet(n) == n = StopAfter

Responses(s) == {[call |-> c, approved |-> s[c] = "approved"] :
                    c \in {d \in last : s[d] \in {"approved", "denied"}}}

(* to_response_messages: the assistant message with the calls and the      *)
(* approval requests, and the tool message with responses and outputs.     *)
StepMessages(s) ==
    LET outputs == Invalid \union Executes(s) IN
    [requests |-> draft.requests \union {c \in last : s[c] # "none"},
     replies  |-> Reply(draft, outputs, Denied(s)),
     tail     |-> IF Responses(s) # {} \/ outputs # {} THEN Responses(s)
                  ELSE IF silent THEN draft.tail ELSE {}]

(* The rest of run_step after the model's answer, and the loop's decision. *)
FinishStep ==
    /\ phase = "resolve"
    /\ \E s \in Resolutions :
         /\ status' = [c \in Calls |-> IF c \in last THEN s[c] ELSE status[c]]
         /\ runs' = Count(runs, Executes(s))
         /\ draft' = StepMessages(s)
         /\ pending' = Tracked(pending)
         /\ steps' = steps + 1
         /\ IF /\ ShouldContinue(Cardinality(Invalid \union Executes(s)),
                                 Cardinality(Denied(s)),
                                 Cardinality({c \in last : Client(c)}),
                                 Cardinality(pending'))
               /\ ~ StopMet(steps')
            THEN phase' = "model" /\ UNCHANGED saved
            ELSE phase' = "app" /\ saved' = draft'
    /\ UNCHANGED <<kind, answer, invocations, failures>>

(* A tool of the step is cancelled or its task fails, or the output of the *)
(* final step does not parse.                                              *)
StepFails ==
    /\ phase = "resolve"
    /\ \E s \in Resolutions :
       \E started \in SUBSET Executes(s) :
         runs' = Count(runs, started)
    /\ Fail

Next ==
    \/ Invoke
    \/ Replay \/ ReplayRejected \/ ReplayAborted
    \/ ModelAnswers \/ ModelFails
    \/ FinishStep \/ StepFails

Spec == Init /\ [][Next]_vars

-----------------------------------------------------------------------------
Waiting == {c \in last : Client(c) /\ draft.replies[c] = <<>>}

HostedDenials == {c \in last : ~ Client(c) /\ status[c] = "denied"}

(* LoopState::should_continue adds up the denials of all calls and         *)
(* compares the sum with the number of client calls, so the model is asked *)
(* for another step with exactly as many client calls unanswered as        *)
(* calls of the provider were denied, whichever calls wait (for the user,  *)
(* for an executor, for a finish reason); with no such denial none is      *)
(* unanswered.  A met stop condition holds the loop in any case.           *)
OpenCallsMatchHostedDenials ==
    phase = "model" /\ steps > 0 =>
        /\ steps < StopAfter
        /\ Cardinality(Waiting) = Cardinality(HostedDenials)

(* What docs/01-architecture/07-generation-loop-and-streaming.md:59        *)
(* promises instead: another step only when every call the client has to   *)
(* handle in the last step has its output or its denial.                   *)
AnsweredBeforeNextStep ==
    phase = "model" /\ steps > 0 => Waiting = {}

(* Whatever the steps, the replays and the decisions the application sends *)
(* again, a call the client handles never gets a second result.            *)
OneReply ==
    \A c \in Calls : Client(c) => Len(draft.replies[c]) <= 1

(* A tool runs twice only when an invocation that ran it failed and its    *)
(* messages were lost: repeated, late and changed decisions never start it *)
(* again.  What the policy denied is never run: no later approval of the   *)
(* user, in this invocation or another, starts it.                         *)
RunsAsDecided ==
    \A c \in Calls : runs[c] <= IF status[c] = "denied" THEN 0 ELSE 1 + failures

=============================================================================

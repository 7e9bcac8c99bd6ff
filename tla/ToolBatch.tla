------------------------------ MODULE ToolBatch ------------------------------
(***************************************************************************)
(* The concurrent execution of the tool calls of one step.  A batch keeps  *)
(* at most `limit' tool tasks in a JoinSet and starts the next queued call *)
(* whenever one is joined.  The streaming loop (stage.rs) also forwards    *)
(* preliminary results, which the tasks send through a bounded channel,    *)
(* polling the channel before the JoinSet; the generating loop (tools.rs)  *)
(* collects the outputs in call order.                                     *)
(*                                                                         *)
(* A select is not atomic: while the batch polls one branch after the      *)
(* other, tasks run on other threads.                                      *)
(***************************************************************************)
EXTENDS Naturals, Sequences, FiniteSets

CONSTANTS
    Calls,              \* number of executable calls queued by the step
    Limits,             \* values max_tool_concurrency may have
    Capacity,           \* TOOL_RESULT_CHANNEL_CAPACITY
    MaxPreliminary,     \* bound: preliminary results of one call
    Modes               \* TRUE for stream_text, FALSE for generate_text

ASSUME ToolBatchAssumption ==
    /\ Calls \in Nat \ {0} /\ Limits \subseteq Nat
    /\ Capacity \in Nat \ {0} /\ MaxPreliminary \in Nat /\ Modes \subseteq BOOLEAN

VARIABLES
    limit,      \* max_tool_concurrency
    streaming,  \* does the batch belong to stream_text?
    next,       \* calls 1..next are no longer queued
    task,       \* task of each call: queued, running, offering, ending, done, joined, aborted
    how,        \* how each execution ended
    sent,       \* preliminary results sent by each call
    progress,   \* the progress channel
    sender,     \* does the batch itself still hold a sender?
    pc,         \* where the batch is
    out,        \* what the batch has emitted: <<call, kind>>
    outputs,    \* final outputs counted
    cancelled   \* the step token

config == <<limit, streaming>>
vars == <<config, next, task, how, sent, progress, sender, pc, out, outputs, cancelled>>

Call == 1..Calls
Outcomes == {"result", "error", "cancelled", "panic"}

Init ==
    /\ limit \in Limits /\ streaming \in Modes /\ next = 0
    /\ task = [c \in Call |-> "queued"] /\ how = [c \in Call |-> "none"]
    /\ sent = [c \in Call |-> 0]
    /\ progress = <<>> /\ sender = streaming
    /\ pc = "filling" /\ out = <<>> /\ outputs = 0 /\ cancelled = FALSE

-----------------------------------------------------------------------------
(* The tool tasks: run_tool_call over ToolExecution.                       *)

InPhase(phase) == {c \in Call : task[c] = phase}
\* An execution runs, or waits for room for a preliminary result.  When it
\* has ended, its hooks still run before the task is done.
Executing == InPhase("running") \cup InPhase("offering")
InJoinSet == Executing \cup InPhase("ending") \cup InPhase("done")

Over == pc \in {"returned", "failed"}

\* The execution looks at its cancellation before it polls the tool for the
\* next result; the generating loop passes no channel and drops the result.
Preliminary(c) ==
    /\ streaming /\ task[c] = "running" /\ ~cancelled /\ sent[c] < MaxPreliminary
    /\ task' = [task EXCEPT ![c] = "offering"]
    /\ UNCHANGED <<config, next, how, sent, progress, sender, pc, out, outputs, cancelled>>

\* progress.send: the tool is not polled again before there is room, and its
\* cancellation is not looked at either.
SendProgress_Drops(c) ==
    /\ task[c] = "offering" /\ task' = [task EXCEPT ![c] = "running"]
    /\ sent' = [sent EXCEPT ![c] = @ + 1]
    /\ progress' = IF Len(progress) < Capacity THEN Append(progress, <<c, "preliminary">>)
                                               ELSE progress
    /\ UNCHANGED <<config, next, how, sender, pc, out, outputs, cancelled>>
SendProgress(c) ==
    /\ task[c] = "offering" /\ task' = [task EXCEPT ![c] = "running"]
    /\ Len(progress) < Capacity /\ sent' = [sent EXCEPT ![c] = @ + 1]
    /\ progress' = Append(progress, <<c, "preliminary">>)
    /\ UNCHANGED <<config, next, how, sender, pc, out, outputs, cancelled>>

\* Exactly one Finished: the final value, an error (a timeout or a missing
\* final value included), or cancellation, which is polled first.
EndExecution(c) ==
    /\ task[c] = "running"
    /\ task' = [task EXCEPT ![c] = "ending"]
    /\ \E o \in IF cancelled THEN {"cancelled"} ELSE Outcomes :
         how' = [how EXCEPT ![c] = o]
    /\ UNCHANGED <<config, next, sent, progress, sender, pc, out, outputs, cancelled>>

EndTask(c) ==
    /\ task[c] = "ending" /\ task' = [task EXCEPT ![c] = "done"]
    /\ UNCHANGED <<config, next, how, sent, progress, sender, pc, out, outputs, cancelled>>

firstPoll == IF streaming THEN "progress" ELSE "join"

TaskStep ==
    /\ ~Over
    /\ \E c \in Call : Preliminary(c) \/ SendProgress(c) \/ EndExecution(c) \/ EndTask(c)

Cancel ==
    /\ ~Over /\ ~cancelled /\ cancelled' = TRUE
    /\ UNCHANGED <<config, next, task, how, sent, progress, sender, pc, out, outputs>>

-----------------------------------------------------------------------------
(* The batch.                                                              *)

\* Whatever still runs is aborted with the JoinSet when the batch fails; the
\* outputs it counted are lost with it.
Fails ==
    /\ pc' = "failed"
    /\ task' = [c \in Call |-> IF c \in InJoinSet THEN "aborted" ELSE task[c]]

\* spawn_next starts the next call; its tool context may be invalid, which
\* fails the batch.  With no call left the batch drops its own sender.
SpawnNext_Leaky(nextPc) ==
    /\ IF next < Calls
       THEN next' = next + 1 /\ task' = [task EXCEPT ![next + 1] = "running"] /\ pc' = nextPc
       ELSE pc' = firstPoll /\ UNCHANGED <<next, task>>
    /\ UNCHANGED sender
SpawnNext(nextPc) ==
    \/ /\ next < Calls /\ next' = next + 1
       /\ \/ task' = [task EXCEPT ![next + 1] = "running"] /\ pc' = nextPc
          \/ Fails
       /\ UNCHANGED sender
    \/ next = Calls /\ sender' = FALSE /\ pc' = firstPoll /\ UNCHANGED <<next, task>>

\* for _ in 0..max: spawn_next, until the limit is reached or none is left.
full_OffByOne == next = limit + 1
full == next = limit
Fill ==
    /\ pc = "filling"
    /\ IF full THEN pc' = firstPoll /\ UNCHANGED <<next, task, sender>>
               ELSE SpawnNext("filling")
    /\ UNCHANGED <<config, how, sent, progress, out, outputs, cancelled>>

\* No sender is left: neither the batch nor a running execution has one.
Closed == ~sender /\ Executing = {}

\* emitter.send: waits for room, and fails the batch when nobody reads.
Emits(item) == out' = Append(out, item)

PollProgress ==
    /\ pc = "progress"
    /\ \/ /\ progress # <<>> /\ progress' = Tail(progress)
          /\ \/ Emits(Head(progress)) /\ UNCHANGED <<pc, task>>
             \/ Fails /\ UNCHANGED out
       \/ /\ progress = <<>> /\ pc' = IF Closed THEN "last" ELSE "join"
          /\ UNCHANGED <<progress, task, out>>
    /\ UNCHANGED <<config, next, how, sent, sender, outputs, cancelled>>

\* A joined call's output is emitted, or kept at the index of the call.
Deliver(c) ==
    /\ task' = [task EXCEPT ![c] = "joined"] /\ outputs' = outputs + 1 /\ pc' = "refill"
    /\ IF streaming THEN Emits(<<c, "final">>) ELSE UNCHANGED out

\* Cancellation of one tool, or a panic, ends the whole batch.
fatal_Panic == {"panic"}
fatal == {"cancelled", "panic"}
Join ==
    /\ pc \in {"join", "last"}
    /\ \E c \in InPhase("done") :
         \/ how[c] \notin fatal /\ Deliver(c)
         \/ how[c] \in fatal \cup (IF streaming THEN Outcomes ELSE {})
            /\ Fails /\ UNCHANGED <<out, outputs>>
    /\ UNCHANGED <<config, next, how, sent, progress, sender, cancelled>>

\* The slot of the joined call is free.
Refill ==
    /\ pc = "refill" /\ SpawnNext(firstPoll)
    /\ UNCHANGED <<config, how, sent, progress, out, outputs, cancelled>>

\* Nothing to join: all tasks joined ends the batch once the channel is
\* closed; otherwise wait, and poll the channel first when woken.
Woken == progress # <<>> \/ InPhase("done") # {} \/ (Closed /\ pc = "join")
AllJoined_Closed == InJoinSet = {} /\ pc = "last"
AllJoined == InJoinSet = {} /\ (pc = "last" \/ ~streaming)
\* results.into_iter().flatten(): the outputs there are, in call order.
Flattened(there) ==
    [i \in 1..Cardinality(there) |->
        <<CHOOSE c \in there : Cardinality({d \in there : d <= c}) = i, "final">>]
Wait ==
    /\ pc \in {"join", "last"} /\ InPhase("done") = {}
    /\ IF AllJoined
       THEN /\ pc' = "returned"
            /\ out' = IF streaming THEN out ELSE Flattened(InPhase("joined"))
       ELSE streaming /\ Woken /\ pc' = "progress" /\ UNCHANGED out
    /\ UNCHANGED <<config, next, task, how, sent, progress, sender, outputs, cancelled>>

BatchStep == Fill \/ PollProgress \/ Join \/ Refill \/ Wait

Next == TaskStep \/ BatchStep \/ Cancel

Spec == Init /\ [][Next]_vars

(* The runtime polls the batch and whoever reads its events does, or goes  *)
(* away; every tool ends and its hooks return; and the channel gives room  *)
(* to who waits for it (tokio's semaphore is first come, first served).    *)
FairSpec ==
    /\ Spec /\ WF_vars(BatchStep)
    /\ \A c \in Call : WF_vars(~Over /\ SendProgress(c))
    /\ \A c \in Call : WF_vars(~Over /\ EndExecution(c))
    /\ \A c \in Call : WF_vars(~Over /\ EndTask(c))

-----------------------------------------------------------------------------
(* Properties.                                                             *)

TypeOK ==
    /\ limit \in Limits /\ streaming \in Modes /\ next \in 0..Calls
    /\ task \in [Call ->
          {"queued", "running", "offering", "ending", "done", "joined", "aborted"}]
    /\ how \in [Call -> Outcomes \cup {"none"}]
    /\ sent \in [Call -> 0..MaxPreliminary]
    /\ progress \in Seq(Call \X {"preliminary"}) /\ Len(progress) <= Capacity
    /\ out \in Seq(Call \X {"preliminary", "final"})
    /\ outputs \in Nat /\ sender \in BOOLEAN /\ cancelled \in BOOLEAN
    /\ pc \in {"filling", "progress", "join", "last", "refill", "returned", "failed"}

Count(c, kind) == Cardinality({i \in DOMAIN out : out[i] = <<c, kind>>})

(* "Limits how many tools execute concurrently within a step."             *)
(* (builder.rs:241): slots are only refilled by joining.                   *)
AtMostLimit == Cardinality(InJoinSet) <= limit

(* A batch that returns has run every call and delivered exactly one final *)
(* output of each, the generating loop in call order, and every            *)
(* preliminary result a tool sent, though perhaps after the final output   *)
(* of its call.  With a limit of zero the generating loop is different: it *)
(* returns without having run anything, and no call has an answer.         *)
NothingLost ==
    pc = "returned" =>
      IF limit = 0
      THEN ~streaming /\ InPhase("queued") = Call /\ out = <<>> /\ outputs = 0
      ELSE /\ outputs = Calls
           /\ \A c \in Call : Count(c, "final") = 1
           /\ streaming => \A c \in Call : Count(c, "preliminary") = sent[c]
           /\ ~streaming => out = [c \in Call |-> <<c, "final">>]

(* A cancelled tool never contributes an output, and a batch it belonged   *)
(* to never returns normally.                                              *)
CancellationIsFatal ==
    \A c \in Call : how[c] = "cancelled" => pc # "returned" /\ Count(c, "final") = 0

(* The batch comes to an end when every tool does, except the streaming    *)
(* one with a limit of zero, which waits for ever on the channel whose      *)
(* sender it holds itself, and for which cancelling is no help.            *)
BatchEnds == IF streaming /\ limit = 0 THEN []~Over ELSE <>Over
=============================================================================

# Ferrin, modelled in TLA+

Ferrin is a Rust library for calling language models: it runs the loop of
model call, tool execution and next step, streams it through a pipeline with
back pressure, keeps realtime sessions, translates between its own data model
and the APIs of seven providers, and speaks the Model Context Protocol (MCP) to
tool servers. This directory holds TLA+ modules of the parts of it that are
hard to test because several tasks, retries, orders or invocations meet in
them, the TLC runs that check those modules on small instances, and TLAPS
proofs of what matters most for instances of every size.

Paths below are relative to `crates/` of the repository, those under `docs/` to
its root; `core` stands for `ferrin-core/src`, `mcp` for `ferrin-mcp/src`,
`util` for `ferrin-provider-util/src`, and an adapter is named by its crate
(`ferrin-openai` for `providers/ferrin-openai/src`).

## Inventory

`PROJECT.json` lists the files of every component; this is what each is for,
what it keeps and what makes it correct.

### The core: tasks that run side by side

| Component | State it keeps | Operations | Hard behaviour | What makes it correct |
|---|---|---|---|---|
| Stream attempt: `core/stream_text/pipeline/attempt.rs`, `parts.rs` | open parts and reserved part ids, held-back tool events, counters of outputs and denials, retry counters, the chunk deadline | read a part, map it, hold back or emit, end, fail, retry, time out | a model stream fails half way and the model is asked again within the same step | nothing of an abandoned attempt is visible as a tool call; its parts are closed; counters describe what was delivered |
| Streaming pipeline: `core/stream_text/pipeline/{mod,stage,processor,transforms}.rs` | event channel, startup buffer, step channel of one entry, ready / outcome / completion one-shots, gate, transforms | run steps, send events, hold back, process, hand the step back, settle, time out, cancel, drop | producer and consumer wait for each other; either may be cut at any await | no wait cycle; success means nothing was lost; the completion resolves |
| Event views: `core/stream_text/result/tee.rs` | one queue and one waker per view, the shared upstream | poll, copy, wake, drop | views are polled from different threads, or not at all | every view reads the same events in order; no wake-up is lost |
| Tool batch: `core/stream_text/pipeline/stage.rs`, `core/generate_text/{tools,execute_tool}.rs` | a JoinSet, a slot limit, a bounded channel of preliminary results | start, refill, poll, join, cancel, abort | tools progress between the polls of one `select!` | at most the limit run; a returned batch lost nothing; a cancelled tool never returns an output |
| Step loop and replay of approvals: `core/generate_text/{run,tools,replay}.rs`, `approval/` | messages, pending deferred results, the tools that ran | invoke, replay, ask the model, resolve the policy, run, decide | decisions of the user come late, twice, changed, after a failed invocation | no tool answers twice or runs again unless an invocation failed; a denial is final; the model is asked again only when the calls are answered (it is not quite so: a finding) |
| Realtime session: `core/realtime/` | outbound queue, serialization permit, event channel, the tool turn | read a frame, forward it, start a call, send an output, ask for the follow-up, close | the connection task, tool tasks and the application submit at the same time | one follow-up per response, after all its outputs; a closed session ends |

### MCP

| Component | State it keeps | Operations | Hard behaviour | What makes it correct |
|---|---|---|---|---|
| Client over stdio: `mcp/client/{mod,request}.rs`, `mcp/transport/stdio.rs` | the table of pending ids, the frame queue, the closed flags of client and transport | request, rounds of input, dispatch, read, write, close | registration races with the end of the server and with close; answers come late | no entry leaks; a request gets its own answer; none is left hanging |
| HTTP and SSE transports: `mcp/transport/{http,sse,common}.rs` | session id, last event id, the inbound stream, the shared authorization flow | send, redirect, authorize and retry once, read a stream, reconnect, close | an expiry answers a request of an older session; callers of one flow are dropped | a replacement session is kept, inbound events come in order and once, one flow runs at a time, close leaves nobody waiting (with an exception on SSE) |
| Connect, negotiation, requests, tools and apps: `mcp/client/`, `mcp/tools/`, `mcp/apps/` | protocol version and era, capabilities, cached header bindings | discover, fall back, handshake, list, call, retry, answer the server | a listing clears what a concurrent call reads; a late probe leaves its version behind | requests of one protocol only; a call carries its tool's headers; rounds and retries stop |
| OAuth: `mcp/oauth/` | what the provider stores: client, tokens, verifier, state, pinned server | discover, register, redirect, exchange, refresh | the authorization server moves between any two writes | secrets go only to the server they were issued by |

### Providers

| Component | Operations | Hard behaviour | What makes it correct |
|---|---|---|---|
| Stream adapters of six APIs (Anthropic, Google, OpenAI responses and chat, OpenAI-compatible, interactions) and `util/stream_driver.rs` | start, delta, end, error, finish; the early error check | overlapping, resumed, cut or unannounced pieces; ids that change | parts are opened and closed once; a finished stream says what the whole response would |
| Layers over a stream: `core/middleware/builtin/`, `core/stream_text/transforms/smooth.rs` | hold back, split, rename | text is delayed for a marker that may not come | as above |
| Request building for seven APIs; prompt conversion and settings of the core | convert, prune, merge, download, refuse | each API orders and drops other things | calls are answered once, in order; what is dropped is said, or is on a list |
| Modality models, batch jobs, files | send, poll, collect | limits, empty results, one of several calls failing | results are in the order of the request |
| Live audio and realtime codecs | set up, audio, frames, close; client messages and server events | a socket closed before the answer is complete | what was sent is what was meant; streams end |
| `util/http`, `util/sse.rs`, downloads, schemas | upload, read, decode, redirect, rewrite | chunk boundaries, size limits, redirects | events are those of the body; credentials stay at their origin |

### The other calls of the core

`core/{embed,image,video,speech,transcription,rerank,files,retry,download}.rs` and
`core/batch/` run one provider call with retries and a deadline, or a fan-out
whose results are put back in the order of what was asked; structured output
parses the text of a call while it streams and again when it is complete.

### How they interact

The pipeline runs a step; within it the attempt produces the events and, when
the model has finished, the tool batch adds its own to the same channel. The
non-streaming loop runs the same batch without the channel of preliminary
results. The outcome of the pipeline is read through the views of the tee. A
realtime session runs its tools on its own. An adapter appears to the attempt
as a stream of parts, below layers that rewrite it, and to the other calls as
one request each. An MCP client appears to all of them as one more tool whose
execution is a request; it sees a transport as a queue of frames out and of
events in. Under the HTTP transport lie the handlers of `util/http`.

### Not modelled, and why

- **Event types of a stream, entry points of `generate_text`, step records,
  agent**: types, assembly of options and accessors of results, sequential data
  handling that unit tests reach. The agent keeps no state between calls.
- **Middleware wrapping and registry**: composition and lookup by name. The
  wrappers that keep state over a stream are in `StreamLayers`.
- **Telemetry dispatcher, hooks and the OpenTelemetry exporter**: they observe.
  The error callback and the abort hook, which have to be called once, are in
  `StreamAttempt` and `StreamPipeline`.
- **Tool definitions and sandbox**: tools are the application's code; the
  sandbox is input and output.
- **Approval policies over an engine**: a policy is any answer to any call in
  `GenerateLoop`; how an engine's decision becomes that answer is a pure
  function.
- **Set-up of the provider crates, data model and messages, facade, macros,
  test support**: keys and headers, serialization, re-exports.

Some components are *partly* modelled; `PROJECT.json` says of each what is left
out. The largest such parts: the opening of a realtime socket and its
`close` with the five second limit, the transfer and limits of a download of a
prompt file, the pauses of `smooth_stream`.

## The modules

| Module | Role |
|---|---|
| `StreamAttempt` | `Attempt::read` with the mapping of parts, and the state the event processor reaches on what is sent |
| `StreamPipeline` | producer task, channel, gate, transforms, processor, completion |
| `StreamPromise` | abstract: what a streaming call promises its caller |
| `StreamTee` | the views of one result |
| `EventBroadcast` | abstract: independent readers of one stream |
| `ToolBatch` | the tools of one step, in both loops |
| `GenerateLoop` | the loop over all invocations of one conversation |
| `RealtimeSession` | connection task, handles, tool tasks, turn |
| `McpClient` | requests, dispatcher, reader and writer, close |
| `McpHttp` | the HTTP and the SSE transport with their callers, and the shared authorization flow of `common.rs` |
| `StreamParts` | the parts of a stream, the driver and the early error check, shared by the adapters |
| `AnthropicStream`, `GoogleStream`, `ResponsesStream`, `ChatStream`, `CompatibleStream`, `InteractionsStream` | one adapter each: its machine over the frames of a server, and its mapping of the same response in one piece |
| `StreamLayers` | reasoning and JSON extraction, simulated streaming, smoothing |
| `PartStreams` | composes the adapters and layers: a server, its frames, the machine; its instance for TLC |
| `Conversation` | from the content of a step to the messages of the next, pruning, downloads |
| `AnthropicRequest`, `GoogleRequest`, `ChatPrompt`, `OpenAiRequest` | the body of a request to each API |
| `Requests` | composes them: a conversation, the settings of a call, the request; `MCCalls` runs it beside the other calls |
| `ModelCalls` | embeddings, images, speech, transcription, reranking, video, audio streams: retries, deadlines, collection |
| `ProviderFiles`, `OAuthFlow` | uploads, downloads and batches; one authorization flow |
| `ModalityModels`, `LiveAudio`, `RealtimeCodecs` | what the models of the adapters send and make of the answer |
| `StructuredOutput`, `SchemaRewrites` | output strategies over a growing text; schema transforms |
| `HttpExchange` | one request with its handlers and decoders |
| `McpSession` | connect, negotiation, listings, calls, retries, requests of the server, tools and apps |
| `StreamAttemptProofs`, `StreamPipelineProofs`, `StreamTeeProofs`, `ToolBatchProofs`, `GenerateLoopProofs`, `RealtimeSessionProofs`, `McpClientProofs`, `McpHttpProofs` | theorems |
| `MCRequests`, `MCCalls` | instances for TLC: values of constants a configuration cannot write, and what composes several modules. The other runs check the component's module itself |

`StreamPipeline` implements `StreamPromise` and `StreamTee` implements
`EventBroadcast`, each by an `INSTANCE ... WITH` that is both checked as a
property and, for its safety part, proved. `StreamPipeline` abstracts a step
to a `StartStep`, some content and a `FinishStep`; what one step sends is
`StreamAttempt`'s and `ToolBatch`'s business. The adapters have their reference
in the code itself: the streamed and the whole mapping of one response have to
say the same.

A definition named `x_Variant` before a definition `x` is a plausible mistake in
the code that `x` models. Each property of each passing run has one that
breaks it, so no property holds for lack of anything that could go wrong.

The map of `PROJECT.json` relates definitions to lines. It lists at most 800 of
them: all of the modules of the core and of the MCP transports, elsewhere those
that a mistake is tried on, the initial states, and those that stand for lines
no other listed definition stands for.

### How state and actions correspond to the code

- **StreamAttempt.** `st` is `AttemptState`: `ids`, `open`, `content`,
  `calls`, `queued`, `resultIds`, `clientOutputs`, `denied` have the names of
  its fields. `acc` is the accumulator of `processor.rs`; the channel between
  the two is FIFO and drained in order, so it is applied when an event is sent.
  There is an action per arm of `map_part` and per way `read_attempt` can
  return. Part ids are sequences, and `format!("{id}-{n}")` appends a number:
  this keeps collisions between a provider's own id and a suffixed one. Text is
  left out, but whether a delta is empty is not: an empty one is no output.
  Call ids may repeat, which nothing in the code checks. The chunk deadline
  passes in two stretches, so that a part which does not rearm it leaves it
  nearly over.
- **StreamPipeline.** One action per stretch between two awaits of the
  producer (`run_task`, `run_step`), of the transforms, and of the processor.
  `cut` says that the event channel has no receiver any more, `stop` that a
  transform asked to end, `failure` that it failed. A step or total timeout
  drops the step's future at any await.
- **StreamTee.** One action per critical section of `View::poll_next` and
  `Drop`; wakers are the set of views registered in `WakeViews`, and a task
  woken while it polls is polled again. A third or later view, made by asking
  for `full_stream` again, is a tee over a view; the module has a single tee
  over any set of views.
- **ToolBatch.** `task` follows a tool through spawn, execution, its hooks,
  join or abort; `pc` follows the two loops of `execute_tools` and the biased
  `select!` of the streaming one, whose two polls are separate steps because
  tools run on other threads in between. A tool that finds the progress channel
  full is "offering" until there is room, and the reader of the batch's own
  events may be gone.
- **GenerateLoop.** A message list is reduced to what the code reads of it:
  requests for approval, replies in tool messages, and decisions in the last
  message. `Replay`, `ReplayRejected` and `ReplayAborted` are `replay.rs` with
  `collect.rs`; `ModelAnswers` and `FinishStep` are `run_step`; `Invoke` lets
  the application send any set of decisions, about any call, including ones it
  has sent before. An approval request is identified with its call, which
  signature checking guarantees for a history of the application's own.
- **RealtimeSession.** `conn` is the connection task with the point it is
  suspended at; `worker[c]` the task or application call that answers `c`;
  `permit` the semaphore; `inResponse`, `submitted` and `closed` are `ToolTurn`.
  Cancellation is looked at before and after the permit, a write may fail, and
  the consumer may be gone.
- **McpClient.** One action per lock or await of `McpClient::request`,
  `request_round`, `dispatch`, the stdio reader and writer, and `close`, whose
  flag and cancellation are two steps.
  `slot[i]` is the one-shot channel of id `i`.
- **McpHttp.** A caller is at one await of `send` at a time; the session id,
  the last event id and the flow in flight are the transport's; a request
  remembers the session it was sent under, which is what an expiry compares. A
  server may name any of its sessions in a success, an old one too, and refuse
  with a bare 404 or with one whose body is a JSON-RPC error. On SSE the loss of
  the event stream (`closed`) and `close` (`cancelled`) are two flags.
- **PartStreams.** A response is a sequence of units of the kinds an API has.
  A server turns it into frames in every order, overlap and cut the API allows;
  one step feeds a frame to the adapter's machine. `Whole` is the adapter's
  mapping of the unstreamed response.
- **Requests.** A conversation grows a message at a time; a state holds it and
  the settings, and the operators of an adapter give the request it becomes.
  What an adapter leaves out *silently* is listed in `Silent`, `SilentInside`,
  `Omitted` and `OmittedTool` of `MCRequests` and repeated under Divergences.
- **ModelCalls and the rest of the calls family.** One run steps through one
  call at a time: which call, then its answers, failures, polls, redirects or
  frames. Payloads are named by their kind.

## Runs

| Run | Question | Properties | Instance |
|---|---|---|---|
| `stream_attempt` | Is anything of an abandoned attempt visible, are content and callbacks right, does the processor accept everything, can a provider whose output stops hold the step, whatever else it sends? | `ProcessorAccepts`, `FinishedStepIsTheAttempts`, `NothingLeftOfAbandonedAttempt`, `CallbackToldOnce`, `StalledStreamEnds` | three settings: part ids of which one is the suffixed form of the other, with four parts of text alone and with three of text and reasoning; one id with a callback and both chunk timeouts, three parts. One call id, one automatic retry |
| `stream_pipeline` | Do producer and consumer ever wait for each other, and does the caller get what is promised? | `NoWaitCycle`, `OkIsComplete`, `AbortHookOnce`, `TerminalAgrees`, `KeepsPromise`, `CompletionResolves` | channel of three, two events held back, three steps of up to two content events, every cut |
| `stream_tee` | Is a wake-up lost, does every view see the stream? | `NoLostWakeup`, `KeepsBroadcast` | three views, one of them not eager, two events and the end |
| `tool_batch` | Limit, completeness, cancellation, end of the batch, in both loops | `AtMostLimit`, `NothingLost`, `CancellationIsFatal`, `BatchEnds` | three calls, limits 0, 1, 2 and 4, one preliminary result each, a channel of one, a reader of events that may be gone |
| `generate_loop` | With which calls open does the loop go on, and does a tool run or answer twice? | `OpenCallsMatchHostedDenials`, `RunsAsDecided`, `OneReply` | two calls, three invocations of which one may fail, stop after three steps, hosted calls without a policy, approved, denied, or left to the user |
| `generate_denied` | Does the loop go on only when every call is answered? (no: a finding) | `AnsweredBeforeNextStep` | as above |
| `realtime_session` | One follow-up per response, after it; where it does not come and where a closed session does not end | `OneFollowUpPerResponse`, `FollowUpAfterDone`, `FollowUpComesOrIsLost`, `CloseEnds` | two calls, two responses, with turn detection and without, an outbound queue of one, an event channel of one, one audio input, sockets that fail |
| `realtime_lost` | Does the follow-up come when the server starts responses itself? (no: a finding) | `FollowUpComes` | two calls, two responses, turn detection, an outbound queue with room for all |
| `mcp_client` | Leaks, mixed-up answers, hanging requests | `NoLeak`, `OwnResult`, `NoneLeftHanging` | two requests, one with a round of input, one with a timeout, a server that may end, close at any point |
| `mcp_http` | Is a new session ever thrown away, an event repeated or skipped, a flow run twice, a caller left waiting? | `ReplacementRetained`, `InboundInOrder`, `OneFlow`, `CloseSettles` | an initialize and a notification, one inbound stream, two sessions of which a late answer may name the older, two events, one retry, one redirect; HTTP and SSE |
| `part_streams` | Are the parts of a stream well placed and complete, do they say what the whole response would and where not, are inputs spelled, do early errors fail the request? | `PartsInPlace`, `SaysTheSame`, `InputsAreSpelled`, `EarlyErrorsFail` | two units of every kind for ten machines, overlapping or not, chunks of one, two, three and seven characters, a suffix of six held back |
| `calls` | Are results in order and complete, do secrets stay home, do retries and polls stop, does every conversation become a well-formed request, and what is dropped without a word? | `ResultsInOrder`, `CredentialsStayHome`, `StopsWhenTold`, `RequestsWellFormed`, `OnlyListedIsSilent` | each bound two to four: polls, fetches, hops, stream parts, frames, exchanged messages, depth of a schema, size of a chunk, listings; conversations of up to five messages of every kind, one cache breakpoint, all APIs |

Where the code does other than a document or a comment says, a property of a
passing run states what the code does: the condition under which it differs is
a conjunct, not a missing input, and the difference is a finding of a run of its
own or under Divergences. So `BatchEnds` says that a streaming batch with a
limit of zero *never* ends, `Told` names the content that the streamed and the
whole mapping of a response treat apart, and `LostAsListed` says that exactly
the listed parts of a conversation are lost. The bounds are such that each of
these cases occurs.

### Bounds, and why they are enough

- *StreamAttempt*: an anomaly needs a part of the abandoned attempt, the error
  that abandons it, and a part of the next. With three parts, and four of text
  alone, either attempt has one or two, so a start left open, a held-back tool
  event behind an emitted one, a second error and a reused id all occur. One
  automatic and one callback retry give the three combinations in which the
  error report changes hands. Metadata does not count as a part: a provider
  may send it for ever.
- *StreamPipeline*: the interesting capacities are those below what one step
  sends. A step sends up to four events against a channel of three and a
  window of two, so the producer blocks in every position, and three steps
  allow a step to be under way while the one before is still held back. The
  code's 64 events are covered by the theorems, which hold for every capacity,
  window, number of steps and events.
- *StreamTee*: two events distinguish order and duplication, the third view is
  one that neither polled last nor is eager. The theorems hold for any.
- *ToolBatch*: three calls with limit two give a refill while one runs; limit
  zero, one and a limit above the number of calls are the edges. One
  preliminary result against a channel of one makes a tool block. The theorems
  hold for any.
- *GenerateLoop*: two calls can be in one step or in two; three invocations
  are a request, a decision and its repetition; one failure may come at any
  point of any of them. `HostedStatus` has every answer a policy can give to a
  hosted call. The theorems hold for any.
- *RealtimeSession*: two responses are needed for an output of one to meet the
  turn of the other; two calls for a turn to be partly answered. An outbound
  queue of one, where the code has 64, is full whenever two want to send, so
  that what a full queue does occurs. The run for the finding has room for
  all: the follow-up is lost there without a full queue.
- *McpClient*: two requests suffice for a wrong owner, one round for a stale
  id; `MaxRounds` of the code is an option of the client. The theorems hold for
  any.
- *McpHttp*: an old and a new session, so that a late answer can bring the old
  one back; two events to tell order from repetition; one redirect or retry
  beyond which the code gives up. A request beside the
  initialize would add only its answers by a stream of its own, which the
  initialize has too; the theorems hold for any number of callers.
- *PartStreams*: two units can overlap, follow or repeat each other; chunks of
  one and of several characters cut markers everywhere.
- *Calls*: each loop is bounded by a constant of its own, two to four, so that
  it is entered, repeated and stopped at its limit. Of a conversation five
  messages hold a call, its result, a denial, a file and a follow-up; a second
  cache breakpoint behaves as the first until the limit, which the bound of
  one reaches.

### Fairness

Fairness is assumed of what the runtime or the code's own timers do, and of
others only where this list says so.

- *StreamAttempt*: the reader's `select!` is polled, time passes and the timer
  fires. The provider may stop sending at any point, or send nothing but
  metadata for ever.
- *StreamPipeline*: the producer is a spawned task, which the runtime polls;
  the consumer polls while the caller does. A step of the producer is also what
  the provider and the tools do for it, so `CompletionResolves` assumes that
  they go on sending or end; what a provider does that does not is the subject
  of `StalledStreamEnds`. Timeouts, cancellation and transforms that stop are
  never required to happen.
- *StreamTee*: a poll that has begun ends, and the consumer of an *eager* view
  polls when its task is woken. The third view is under no obligation.
- *ToolBatch*: the batch is polled, a tool that has room for its preliminary
  result sends it, a tool ends, its hooks return; and whoever reads the events
  of the batch goes on reading or goes away. A tool that never ends holds
  its batch, in the code too unless a timeout is configured.
- *RealtimeSession*: every task of the library that can go on does, the
  consumer reads, and a waiter for the permit is not passed over for ever
  (tokio's semaphore is FIFO; hence strong fairness of acquiring). The server
  need not end a response, a tool or the application need not answer a call,
  nobody need close.
- *McpClient*: tasks are polled and the child takes what is written to it. It
  need not answer or end.
- *McpHttp*: the transport's own steps and those of its callers are polled
  (`HttpFairness`, `SseFairness`); neither the server nor the authorization
  server need answer.
- *GenerateLoop*, *PartStreams*, *Calls*: none. `StopsWhenTold` is pure safety:
  a call that was told to stop starts nothing more. That it then ends is not
  checked.

`CHECK_DEADLOCK FALSE` is set everywhere because every component is meant to
stop: a step ends, a call completes, a session closes. That nothing stops
*early* is what the liveness properties say; `GenerateLoop` has none, since
the application may call again or not.

## Proofs

All theorems rest only on the named assumptions of their modules (capacities
and bounds are natural numbers, the channel has room for one event, a part id is
a sequence of numbers, at most five automatic retries) and hold for every value
of the constants.

**StreamAttemptProofs**

With these, every safety property of the `stream_attempt` run is proved. The
reader (`parts.rs`) and the processor (`processor.rs`) keep the same parts with
separate code, and between them stand the events that are held back.

- `ProcessorMirrors`: the inductive invariant `SentInv`. Each of its parts is
  about what the processor *will* have, `Delivered(acc, st.buffer)`. `Mirrors`
  says that the reported content of both is the same, that an open part of the
  attempt and the part the processor knows under the mapped id have the same
  place in it (`Linked`, by rank, since the processor also has items the
  attempt does not), that two provider ids are never mapped to the same id, and
  that queued calls and both counters are those of the delivered events.
  `OpenParts` says that what `send_tracked` keeps is what is open at the
  processor *now*, each id once and reserved; hence `close_open_parts` closes
  everything and is never rejected. `ToolsOf` says that nothing of a tool has
  left the reader while `retries_possible`; this is what a retry throws away.
  Between the boundary of a retry and the first part of the new attempt the
  processor's content is still the old one, so `ReadingInv` has a case of its
  own there. A new part id is really new because `reserve_part_id` finds a free
  suffix: among `Cardinality(ids) + 1` candidates one is not reserved.
- `EventsAccepted` (`ProcessorAccepts`), `NothingLeaks`
  (`NothingLeftOfAbandonedAttempt`) and `StepIsTheAttempts`
  (`FinishedStepIsTheAttempts`) follow from it.
- `ToldOnce` (`CallbackToldOnce`), from `CallInv`: every error told belongs to
  an attempt before the current one while the step is alive, so the next is
  new; the error of a failed step is either marked and told, or neither, which
  is what `report_failure` relies on.

Folding events into the processor, tracking open parts and retaining list
elements are recursive functions over sequences. The module proves by a least
counterexample (`UpTo`) that each is determined by its value on a prefix and one
more element, and the rest reasons about one event at a time.

**StreamPipelineProofs**

- `TypeCorrect`: the type invariant, in four named parts.
- `NoWait`: the producer never waits for a step that is not on its way. It is
  not inductive by itself. `OneStep` says that there is at most one unfinished
  handover in the whole pipeline (one `FinishStep` in the channel, in a
  transform, or one result in the step channel), `Owed` that while the
  producer waits there *is* one, and `Settled` how the error and outcome
  of the producer follow its position. Their conjunction `StepInv` is
  inductive: a `FinishStep` is only sent by a producer that then waits.
- `StepChannelHasRoom`: from `OneStep`, the processor never waits on the step
  channel it shares a task with.
- `SuccessIsComplete`: a completion that is `ok` holds every step. This and the
  next two use `EndInv`, which adds `Ending` (after a terminal event nothing
  follows in channel or transform, and the producer has left its loop) and
  `Blame` (an error or abort on its way has an error behind it; `stop` implies
  a cancelled token; before the caller ended the completion is pending).
- `NothingAfterTheEnd`: the action property that a terminal event is the last.
- `PipelineKeepsPromise`: each step of the pipeline is a step of
  `StreamPromise` or a stutter.

With the following, every safety property of the `stream_pipeline` run is
proved:

- `NeverMisplaced`: `NeverInvalid` for every stream. The invariant `Paired`
  follows the `StartStep` of the step under way from the channel through the
  transforms to the accumulator, and says that no `FinishStep` overtakes it
  (`StartFirst`). It rests on `OneStep`: a step is not closed by the
  `FinishStep` of another.
- `HookRunsOnce` and `ResultAgrees`: `AbortHookOnce` and `TerminalAgrees`, from
  `FateInv`. `Causes` gives a terminal event, wherever it is, its cause in the
  producer and keeps a recorded timeout apart from a plain cancellation;
  `Cuts` says that a stream cut short without a stop has shown no terminal
  event; `Told` that a producer that let go of the channel has told its outcome
  to a caller that has a result.

**StreamTeeProofs**

- `TypeCorrect`, with the part that nothing is queued for a dropped view.
- `NoWakeupIsLost`: `NoLostWakeup` is inductive once one adds `Enrolled`, that a
  view that polls or sleeps has left its waker first. This is the order of
  `tee.rs:53` and `tee.rs:65`; the opposite order would lose it.
- `ViewsReadTheSame`: the tee implements `EventBroadcast` without its fairness.
  The invariant `OrderInv` says that what a view has returned followed by its
  queue is exactly what was pulled (`Numbered`), that an upstream is given up
  only when it has ended and was read (`Supply`), and which views are still
  there (`Present`, `Ending`).

**ToolBatchProofs**

- `TypeCorrect`, with the capacity of the progress channel.
- `LimitIsKept`: `AtMostLimit` needs `Slots`: while the batch fills the
  JoinSet the limit bounds the calls started, afterwards a slot is free only in
  the state that follows a join.
- `FatalNeverReturns`: a batch with a cancelled or panicked tool never returns,
  from `Fates`: how an execution ended decides what may become of its task.
- `ReturnedBatchIsComplete` (`NothingLost`) and `CancellationEndsTheBatch`
  (`CancellationIsFatal`) use the invariant `Ledger`. `Filled` says that after
  its filling a batch has a full JoinSet as long as calls are queued, so it
  cannot run dry before the last of them; `Drained` that a batch sees its
  progress channel closed only when it is empty; `Accounted` that each
  preliminary and each final result is in one place, the channel or the output,
  once. Neither assumes anything of the limits: of a limit of zero
  `NothingLost` says what the code does, that only the generating loop returns
  and that no call has an answer then. It counts results; the order of final
  results is stated of the generating loop, which alone has one.

**GenerateLoopProofs**

- `TypeCorrect`, `RepliesAreSingle` (`OneReply`) and `DecisionsAreKept`
  (`RunsAsDecided`), from `LoopInv`. Neither of the last two is inductive: a failed
  invocation throws its messages away and keeps its runs, so the history that
  was saved is followed beside the draft. `NewCalls` says that a call nobody
  has seen yet is untouched, `Histories` that decisions are about requests and
  that there is one history between invocations, `SingleReplies` that either
  history has one reply to a call at most, `RunsAnswered` that a call that ran
  has a reply but for the runs of failed invocations, `DenialStands` that a
  denied call has not run and is answered or forgotten in either history.
- `StepsWaitForAnswers` (`OpenCallsMatchHostedDenials`), a count: at the next
  step exactly as many client calls are open as provider calls were denied, and
  `StepsTaken` keeps the number of steps below the limit. It assumes nothing of
  the policy. Its corollary `NoDenialNoWait` says when the documented condition
  does hold: where no provider call was denied, no call is open.

**RealtimeSessionProofs**

- `FollowUpsOnce` (`OneFollowUpPerResponse`), with turn detection and without.
  `FramesInOrder` and `FrameHeld` say that calls and ends are on the wire, and
  in the hands of the connection task, in the order of their responses.
  `TurnInOrder` says that the calls of an open turn belong to a response whose
  end is not handled yet, and that a closed turn still lacks an output.
  `FollowUpsPaid` is the count: each follow-up, and the closed turn that owes
  one, is paid for by a response of its own with calls and a handled end.
- `FollowUpsFollow` (`FollowUpAfterDone`, an action property), with turn
  detection and without. Every call of the turn that closes has its output, and
  the first response it has calls of is done. Without detection so are all:
  `OneWait` says that the conversation then waits for one thing at a time (a
  request, a response, its end on the wire or in hand, an output, the task that
  asks), so nobody can close a turn while another response is open. With
  detection the turn may hold calls of a later response that is not done, and
  the property says that only such calls may be the exception.

**McpClientProofs**

- `TypeCorrect`, `NothingLeaks` (`NoLeak`) and `ResultsAreOwn` (`OwnResult`),
  from `ClientInv`. `IdsOwned` says that an id is given to one request at most,
  `SlotsAnswered` that a result in the one-shot channel of an id is what the
  server answered to that id, `Returned` that the result of a request came out
  of the channel of its own last id.

**McpHttpProofs**

- `OneFlowRuns` (`OneFlow`), over both transports: `FlowInv` adds `OneHolder`,
  that the flag of the authenticator is up exactly while one caller holds it.
- `ReplacementsStay` (`ReplacementRetained`) and `EventsInOrder`
  (`InboundInOrder`), from `HttpInv`. A late 404 names the session its request
  was sent under: `AnswersHold` says that it is true, `KnownSessions` that nobody
  knows a session the server has not named, and `NewToAll` that a session on
  its way to the client in an answer is in nobody's hands yet. `OneInbound`
  says that one inbound stream is read at a time, `Cursors` relates what it has
  delivered to the last event id it would resume from, `LeftBehind` and
  `MovedOn` that a session with events that is not the one of the last event
  is never asked for again, unless a late answer names it: such sessions are
  `returned`, and the order is claimed of the others only. `SessionsOrNone`
  keeps servers without sessions apart.
- `TypeCorrect`, for both transports, where the SSE transport needs
  `Announced`: its end is told twice at most.

The two transports are proved apart (`StreamableInv`, `SseInv`) and share
`FlowInv`; `OutUnlessAuth` and `CallOutUnlessAuth` join them to it: a caller is
in the authorization flow only while its task waits for one.

**Only model-checked.** Every liveness property (`CompletionResolves`,
`BatchEnds`, `StalledStreamEnds`, `FollowUpComesOrIsLost`, `CloseEnds`,
`NoneLeftHanging`, `CloseSettles`, and the fairness half of `KeepsBroadcast`):
temporal reasoning about fairness is out of the prover's reach. The properties
of `part_streams` and `calls`: their modules reach `RECURSIVE` operators, about
which nothing can be proved, and they compare what definitions by recursion make
of whole responses, conversations and schemas, where the library's induction
theorems cannot be instantiated and each of some hundred operators would need
an argument of its own.

## Findings

Two runs show the code doing what a document of the repository says it does not.

- `generate_denied`: `should_continue` (`core/generate_text/run.rs:97`) compares
  the number of client outputs plus the denials of the step with the number of
  client calls alone, and the denials include those of calls the provider runs
  itself (`run.rs:560`). One of these makes up for a client call that waits for
  the user or has no executor, and the model is asked again with that call
  open, although `docs/01-architecture/07-generation-loop-and-streaming.md:59`
  has another step follow only when all client calls have output or denial.
  `OpenCallsMatchHostedDenials` in the passing run says exactly how many are
  open.
- `realtime_lost`: a call is forwarded to the consumer
  (`core/realtime/session.rs:405`) before it joins the turn. An output
  submitted in between is dropped when the previous turn completes, and the
  follow-up never comes, although
  `docs/01-architecture/11-other-modalities.md:212` has one sent after all
  outputs and the end of the response. `FollowUpComesOrIsLost` in the passing
  run says that this and a full outbound queue are the only ways to lose it.

### Divergences noted

Found while modelling, without a run of their own. The models follow the code.
Where a property or a definition is named it says what happens, and the case
occurs in its run.

**Core loops**

- Tool batch: a tool may send its last preliminary result and end between the
  two polls of the biased `select!` (`stage.rs:350`); the final result is then
  emitted before the preliminary one, although
  `docs/01-architecture/06-tool-system.md:92` says the last value is final.
- Tool batch: a limit of zero never starts a call. The streaming batch keeps
  its own sender of preliminary results and waits for ever (`stage.rs:344`),
  the generating one returns without having run anything. The builders clamp
  the limit (`core/builder.rs:244`); `PreparedCall::max_tool_concurrency` of the
  agent (`core/agent/tool_loop_agent.rs:185`) does not. `BatchEnds` and
  `NothingLost` state both.
- Stream attempt: `error_reported` survives a retry (`attempt.rs:152`, `539`),
  so telemetry misses the error that ends the step when an earlier one was
  retried and the final one comes through the same path (`stage.rs:387`). The
  callback is not affected: `CallbackToldOnce`.
- Total timeout: `run.rs:287` and `stage.rs:134` time out on a child of the
  call's token, while the step's own tokens are derived from the call's token
  itself (`run.rs:325`, `stage.rs:178`). The timeout drops the step's future
  but cancels no token a tool holds; a tool task that outlives the drop is
  ended by the abort of its JoinSet instead.
- `tee.rs:74` wakes every view after a pull although the waker the upstream
  holds already stands for all of them; it matters for a view that finds its
  queue filled by another's pull, which is why `Wake` is an action of its own.
- Realtime session: the connection task is the only reader of the outbound
  queue and sends to it itself (`session.rs:417`). With the queue full it
  waits for room only it can make, and does not see the session being closed
  (`Wedged` in `CloseEnds` and `FollowUpComesOrIsLost`).
- Realtime session: when the server starts a second response by itself while
  calls of the first are unanswered, its calls join the turn of the first,
  whose end is already recorded, and the follow-up can be asked for before the
  second response is done, against the comment at `realtime/tools.rs:54`
  (`FollowUpAfterDone`).

**MCP**

- Stdio: `close` returns early when the transport is closed already
  (`stdio.rs:365`), which is the case once a server has closed its output. A
  server that does so and lives on is killed only when the transport is
  dropped, where `docs/01-architecture/15-mcp.md:244` has close kill it.
- HTTP: a late response that repeats an old session id replaces the newer one
  (`http.rs:231`), and the last event id is kept across sessions
  (`http.rs:354`), so the inbound stream of the old session starts over
  (`returned` in `InboundInOrder`). A 404 whose body is a JSON-RPC error is
  taken for the answer and does not expire the session (`http.rs:264-271`). The
  inbound GET adopts a session id without asking the era (`http.rs:368` against
  `15-mcp.md:266`); the waiters of a dropped flow are told to redirect.
- SSE: the loss of the event stream marks the transport closed but cancels no
  token (`sse.rs:262-263`), so a POST under way waits as long as the server
  does (`sse.rs:291`), and `close` then returns early without cancelling it
  (`sse.rs:414-416`). `CloseSettles` has the exception. The end of the stream
  and close may both report the end.
- Session: a legacy `initialize` result naming the newer protocol makes the
  client modern without discovery; a direct call during a re-listing carries no
  mirrored headers (`methods.rs:62`), while the tools of a set carry their own;
  `list_all_tools` has no guard against a cursor that repeats; one tool with a
  bad app uri fails the whole set where bad header annotations drop the tool;
  a tool with empty visibility is in neither list of `split_app_tools`, and
  one for apps only is still in the set; a key that looks like an annotation
  inside `default`, `enum` or `const` drops the tool; an explicit output schema
  with a `content` array of its own is converted as MCP content.
- OAuth: the binding checked before an exchange and a refresh
  (`oauth/auth.rs:338`, `15-mcp.md:192`) is that of the last flow that wrote
  one. A code goes to the server of a later flow when the provider keeps no
  state and the callback names no issuer; a refresh token stored without its
  server goes to a newly pinned one when `invalidate_credentials` is left at
  its default, which does nothing. `OAuthCredentialsStay` says that there is no
  other way. A rejected code is sent a second time by the rerun; after the
  server moved, authorization fails until the application clears what is
  stored; a failed read of the resource metadata makes the MCP server its own
  authorization server.

**Stream adapters and layers**

- Anthropic: Finish is sent at `message_stop` and chunks are still handled, so
  an Error can follow it, and a stream cut before has no end of its own
  (`ferrin-spec/src/language_model/stream_part.rs:28`,
  `util/stream_driver.rs:161`, `docs/providers/anthropic.md:72`;
  `EndsAsPromised`). `container_upload` is dropped when streamed
  (`docs/providers/anthropic.md:54`); in JSON mode citations of the dropped text
  become sources (both in `Told`), and input deltas of other tools are dropped
  after the JSON tool; a tool named `json` in `message_start` becomes a call.
- Google: a signature with empty text belongs to the content before it in whole
  and to the text that is open when streamed (`Told`); a repeated document
  source comes twice; code without text is skipped when streamed.
- Responses: an `apply_patch` that is not completed, or was not announced,
  yields no call when streamed (`Told`); a hosted result may come without its
  call when the item was not announced; changed item ids are handled for
  messages and reasoning only; a failed response without an error finishes as
  `error` or `stop`.
- Chat: missing arguments are `{}` in whole and empty when streamed; an empty
  content opens a text part. Compatible: calls without an index are merged; the
  order of reasoning differs. Interactions: thought summaries are joined by a
  newline in whole and concatenated when streamed; events without an id are
  repeated after a resume.
- Layers: an unterminated section is text in whole and reasoning when
  streamed; fences and white space at the ends of a text are stripped in whole,
  and when streamed only within the last twelve characters (`Told` and `Bare`);
  the start index is the shortest where its comment says longest. A part that
  comes while a text is held back overtakes what is held (`OvertakesTheHeld`
  bounds it). `smooth_stream` drops what is pending on cancellation, an Abort
  included (`smooth.rs:222`).

**Requests**

What is lost without a word is on the lists `Silent`, `SilentInside`, `Omitted`
and `OmittedTool`, against `ferrin-spec/src/language_model/mod.rs:54` and
`docs/providers/openai.md:86`; how many results a call gets is in `Due`.

- Nothing sets the approval id that `convert_tool_results.rs:66-75` of the
  responses adapter looks for, so the denial of a hosted call is sent as an
  output besides its approval response, which the comment there says it is not
  (`core` `replay.rs:166`).
- Core: a download is decided by URL alone and the first media type decides
  (`convert.rs:63`); pruning spares calls that trailing messages reference, not
  one referenced only through its approval response (`prune.rs:38`);
  `append_message` loses the options of an earlier empty tool message; a
  `tool_order` that repeats a name sends the tool twice; a forced tool choice
  may name an inactive tool.
- Anthropic: a cache mark on compaction text uses up a breakpoint and is not
  placed; the mark of a message whose last part is reasoning or a hosted call
  is lost; the JSON tool overrides the requested tool choice and forces `any`
  with thinking; only unknown provider tools give `tools: []` with `any`.
- Google: hosted results without a server tool type, approval responses and
  custom result content are dropped silently; before Gemini 3 a result with
  files only gets no function response, so its call is unanswered
  (`convert_prompt.rs:493-510`); a schema with `structuredOutputs` false
  and a tool choice with provider tools only are dropped; Gemma without a user
  message loses the system text.
- Foreign hosted calls are sent as unanswered function calls after a switch of
  provider (Google, chat, compatible).
- Chat and completions: user files and generic reasoning are dropped silently
  by the completion adapters; chat sends `tools: []` when all tools are provider
  tools, and drops `max_output_tokens` beside `max_completion_tokens`.
- Responses: text parts sharing an item id give duplicate references; hosted
  calls are referenced even with `previous_response_id`; unknown provider tools
  and generic reasoning of a model without it are dropped silently
  (`ferrin-spec/src/language_model/mod.rs:54`, `docs/providers/openai.md:86`);
  client calls with item ids are left out with `previous_response_id` although
  the previous response does not have those of the current loop.
- Interactions: results of calls in the linked interaction go with the message
  (`google.md:133` intends it); agent mode drops the tool choice, a missing
  agent its configuration, and generic reasoning is dropped, each silently.

**Other calls**

- One malformed line ends a batch stream of the core although the adapters go
  on; an image call cancelled during the delay after an empty result is
  `NoImageGenerated`; a caller's idempotency key is shared by all start calls of
  several videos; the counter of redirects is a `u8` whose limit may be 255.
- OpenAI images: a mask without files, `input_fidelity` (generation), style and
  moderation (edits) are dropped silently; embeddings ignore the `index` of the
  response; speech options are only validated (`docs/providers/openai.md:76`).
  The compatible image model ignores the shared option keys
  (`options_key.rs:8`). `Unsaid` of `ModalityModels` is the list. Google: speech drops the voice with several speakers,
  video drops a seed or duration of zero and references beside frames; an
  embedding `content` must match the values of each call, so it cannot be used
  when `embed_many` splits.
- Live audio and realtime: Google's mapper is shared by the sessions of a model
  reference; a second `turnComplete` repeats the done events; a transcription
  after it goes to the closed response; cancel, clear, create and truncate are
  not sent to Google; audio that is no base64 becomes empty at Google and an
  error at OpenAI; Google drops turn detection and audio formats and OpenAI the
  output transcription of a session's configuration; an OpenAI transcription socket closed
  before `completed` ends the stream with neither Finish nor Error.
- Structured output: partial and element streams parse the first text part of
  a call while the output is the last step's text (documented,
  `result.rs:230`); the element stream skips invalid elements while the final
  parse fails; elements given before a retry stay given; `min_items` is not
  enforced while streaming.
- Schemas: strict mode also rewrites below `not`, which widens the whole;
  `normalize` strips fields that a branch of `anyOf` needs; an empty object
  loses `required` for Google; `to_openai_strict` is used by no adapter.
- HTTP: the decoder drops the events of a chunk whose last line is too large. A
  connection reset while a body is read is not retried, although
  `transport.rs:253` says resets are, and a body over the limit makes a 503
  final (`MayPass`). The documentation of a stream handler has transport errors
  become items "so the stream keeps going" (`handlers.rs:538`), and it ends with
  the first (`ItemsAreTheBodys`). An error body cut by a timeout makes a 4xx
  retryable.

### Hazards without a place in the list

`PROJECT.json` lists the forty that say most. Others met: a pause of
`smooth_stream` cancelled with events pending (`smooth.rs:222`), decisions
collected from the last message only (`collect.rs:101`), the health of a
realtime socket (`realtime/mod.rs:288`), a child that outlives its output
(`stdio.rs:365`), a second send under one registration (`request.rs:279`), an
abort event behind a full channel (`processor.rs:351`), a view made from a view
(`tee.rs:91`), a late response with an old session (`http.rs:231`, which
`ReplacementRetained` and `InboundInOrder` cover), an answer to an earlier round
of input (`client/request.rs:305`, which `OwnResult` covers), a part id
equal to a suffixed one (`parts.rs:377`, `466`), and a total timeout beside the
step's (`stage.rs:136`).

## Plan

The parts of the plan about modules are done: every component that keeps state
over more than one call has a module, and the checked properties are those of
the runs table.

Every safety property of the concurrent core, of the MCP client and of its
transports is proved. What could still be proved are lemmas about the operators
of the request and stream families that are not recursive.

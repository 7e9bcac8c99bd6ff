------------------------------ MODULE ModelCalls ------------------------------
(***************************************************************************)
(* embed, generate_image, generate_video, rerank, generate_speech and      *)
(* transcribe of ferrin-core: one call of the application is split into    *)
(* provider calls, each with its own retries (retry.rs), run one window at *)
(* a time or all together on tasks, and their results are put back in the  *)
(* order of what was asked.  A video may be an operation that is started,  *)
(* announced by a webhook or polled.                                       *)
(***************************************************************************)
EXTENDS Integers, Sequences, SequencesExt, FiniteSets, Naturals

CONSTANTS
    Calls,                \* what the application may ask for
    MaxPolls              \* bound on the status requests of one operation

Kinds == {"embed", "image", "video", "rerank", "speech", "transcription"}

\* bytes: the size of each value or document; perCall, maxBytes: the limits of
\* a call; parallel: the calls of a window; retries: RetryPolicy::max_retries;
\* supports: what a video model implements; poll, webhook: the caller configured
\* it; keyed: the caller set an idempotency key of its own; attempts:
\* PollConfig::max_attempts, 0 for none; address: the audio is at an address;
\* mixed: the documents are texts and objects; metered: the chunks whose answers
\* report what they used.
VideoFeatures == {"generate", "operations", "webhook"}

ASSUME CallsAssumption ==
    \A c \in Calls : c \in [kind : Kinds, bytes : Seq(Nat), perCall : Nat, maxBytes : Nat,
        parallel : Nat \ {0}, retries : Nat, supports : SUBSET VideoFeatures, poll : BOOLEAN,
        webhook : BOOLEAN, keyed : BOOLEAN, attempts : Nat, address : BOOLEAN, mixed : BOOLEAN,
        metered : SUBSET Nat]

VARIABLES
    ask,                  \* the call under way
    task,                 \* one provider call for each chunk of it
    joined,               \* the chunks whose task was joined, in that order
    outcome,              \* <<>>, then <<the result or the error>>
    cancelled,            \* the caller's token
    tries,                \* history: what the provider was sent, for each chunk
    given                 \* history: each answer with its items, as <<chunk, try, items>>

callVars == <<ask, task, joined, outcome, cancelled, tries, given>>

-----------------------------------------------------------------------------
\* The values 1 .. n as consecutive chunks within the limits of one call; a
\* value too large for any call has one of its own.
split_by_limits(bytes, perCall, maxBytes) ==
    LET Size(chunk) == FoldLeft(LAMBDA n, v : n + bytes[v], 0, chunk)
        Take(chunks, v) ==
            IF chunks # <<>> /\ Len(Last(chunks)) < perCall /\ Size(Last(chunks)) + bytes[v] <= maxBytes
            THEN Front(chunks) \o <<Append(Last(chunks), v)>>
            ELSE Append(chunks, <<v>>)
    IN  FoldLeft(Take, <<>>, [v \in DOMAIN bytes |-> v])

\* n.div_ceil(per_call) calls, the last one for what remains.
counts(n, perCall) ==
    [i \in 1..((n + perCall - 1) \div perCall) |->
        [k \in 1..(IF i * perCall <= n THEN perCall ELSE n - (i - 1) * perCall) |-> (i - 1) * perCall + k]]

\* A call that is refused before anything is sent.
refusal(c) ==
    CASE c.kind \in {"image", "video"} /\ c.bytes = <<>> -> "argument"
      [] c.kind \in {"embed", "image", "video"} /\ c.perCall = 0 -> "argument"
      [] c.kind = "video" /\ c.supports \subseteq {"webhook"} -> "unsupported"
      [] c.kind = "rerank" /\ c.mixed /\ c.bytes # <<>> -> "argument"
      [] OTHER -> "none"

\* Nothing to rank: the ranking is empty and no model is asked.
Unasked(c) == c.kind = "rerank" /\ c.bytes = <<>>

\* An operation that is started and asked for, rather than one long request.
use_operations(c) ==
    c.kind = "video" /\ "operations" \in c.supports /\ (c.poll \/ c.webhook \/ "generate" \notin c.supports)
WithWebhook(c) == use_operations(c) /\ c.webhook /\ "webhook" \in c.supports

ChunksOf(c) ==
    CASE refusal(c) # "none" \/ Unasked(c) -> <<>>
      [] c.kind = "embed" -> split_by_limits(c.bytes, c.perCall, c.maxBytes)
      [] c.kind \in {"image", "video"} -> counts(Len(c.bytes), c.perCall)
      [] OTHER -> <<[v \in DOMAIN c.bytes |-> v]>>

Chunks == ChunksOf(ask)
Ids == DOMAIN Chunks

\* Embeddings run in windows, images and videos all at once.
Width == IF ask.kind = "embed" THEN ask.parallel ELSE Len(Chunks)
Window(i) == (i - 1) \div Width
Joined(i) == \E k \in DOMAIN joined : joined[k] = i
InWindow(i) == \A j \in Ids : Window(j) < Window(i) => Joined(j)
Running(i) == outcome = <<>> /\ InWindow(i) /\ ~Joined(i)

\* at: where the task is; op: the provider operation under retry; errs: the
\* provider errors of that operation; empty: the last one was an empty image
\* result; got: the results; late: the poll deadline has passed.
Fresh(c) == [at |-> "ready",
             op |-> CASE WithWebhook(c) -> "webhook"
                     [] use_operations(c) -> "start"
                     [] c.kind = "transcription" /\ c.address -> "fetch"
                     [] OTHER -> "generate",
             errs |-> 0, empty |-> FALSE, got |-> <<>>, polls |-> 0, late |-> FALSE, error |-> "none"]

CallsInit ==
    /\ ask \in Calls
    /\ task = [i \in Ids |-> Fresh(ask)]
    /\ joined = <<>>
    /\ outcome = <<>>
    /\ cancelled = FALSE
    /\ tries = [i \in Ids |-> <<>>]
    /\ given = {}

become(i, t) == task' = [task EXCEPT ![i] = t]
\* An image call that ended on an empty result is a call without images, and
\* not an error, whatever ended its retries.
failed(t, e) ==
    [t EXCEPT !.at = IF ask.kind = "image" /\ t.empty THEN "done" ELSE "failed", !.error = e]
CallsKept == UNCHANGED <<ask, joined, outcome, cancelled, given>>

-----------------------------------------------------------------------------
(* retry: the loop every provider operation runs in.                       *)

abort_error(t) == IF t.errs = 0 THEN "cancelled" ELSE "aborted"

\* The key under which a started video is billed: minted once, before the
\* retries, unless the caller set one.
Key_PerTry(i, t) == IF t.op = "start" /\ t.errs > 0 THEN "again" ELSE
                    IF t.op # "start" THEN "none" ELSE IF ask.keyed THEN "own" ELSE "minted"
Key(i, t) == IF t.op # "start" THEN "none" ELSE IF ask.keyed THEN "own" ELSE "minted"

\* What comes before the operation, once and without a look at the token: the
\* factory of a webhook, the download of the audio.
Prepares(t) == t.op \in {"webhook", "fetch"}

\* The token is looked at before every attempt.
Begin(i) ==
    LET t == task[i] IN
    /\ Running(i) /\ t.at = "ready"
    /\ IF cancelled /\ ~Prepares(t)
       THEN /\ become(i, failed(t, IF t.op = "status" THEN "cancelled" ELSE abort_error(t)))
            /\ UNCHANGED tries
       ELSE /\ become(i, [t EXCEPT !.at = "calling"])
            /\ tries' = [tries EXCEPT ![i] = IF Prepares(t) THEN @ ELSE
                          Append(@, [op |-> t.op, key |-> Key(i, t), late |-> cancelled])]
    /\ CallsKept

\* A provider error: another attempt when it may be retried and one is left.
erred_AtLimit(t, retryable, empty) ==
    LET n == [t EXCEPT !.errs = @ + 1, !.empty = empty] IN
    IF Prepares(t) \/ n.errs > ask.retries + 1 \/ ~retryable
    THEN failed(n, "provider")
    ELSE [n EXCEPT !.at = "backoff"]
erred(t, retryable, empty) ==
    LET n == [t EXCEPT !.errs = @ + 1, !.empty = empty] IN
    IF Prepares(t) \/ ask.retries = 0 \/ n.errs > ask.retries \/ ~retryable
    THEN failed(n, "provider")
    ELSE [n EXCEPT !.at = "backoff"]

\* A status request is raced with cancellation, which wins.
Awake(t) == t.op = "status" => ~cancelled

ProviderError(i, retryable) ==
    LET t == task[i] IN
    /\ Running(i) /\ t.at = "calling" /\ Awake(t)
    /\ become(i, erred(t, retryable, FALSE))
    /\ CallsKept /\ UNCHANGED tries

\* The provider call noticed the token itself.
CallCancelled(i) ==
    LET t == task[i] IN
    /\ Running(i) /\ t.at = "calling" /\ t.op # "webhook" /\ cancelled /\ Awake(t)
    /\ become(i, failed(t, abort_error(t)))
    /\ CallsKept /\ UNCHANGED tries

BackoffOver(i) ==
    /\ Running(i) /\ task[i].at = "backoff" /\ Awake(task[i])
    /\ become(i, [task[i] EXCEPT !.at = "ready"])
    /\ CallsKept /\ UNCHANGED tries

BackoffCancelled(i) ==
    /\ Running(i) /\ task[i].at = "backoff" /\ cancelled /\ Awake(task[i])
    /\ become(i, failed(task[i], "aborted"))
    /\ CallsKept /\ UNCHANGED tries

-----------------------------------------------------------------------------
(* What the provider gives.  An item names the chunk, the attempt and its  *)
(* place, so that items sort in the order they were asked for.             *)

Item(i, k) == 100 * i + 10 * Len(tries[i]) + k
Items(i, n) == [k \in 1..n |-> Item(i, k)]

\* The answer of one call; embeddings and rankings are told by the value they
\* are of.  A short answer is one the provider left a value out of.
Answers(i) ==
    CASE ask.kind = "embed" -> {Chunks[i], Front(Chunks[i])}
      [] ask.kind = "rerank" -> {<<>>, Chunks[i], Reverse(Chunks[i]), <<Len(Chunks[i]) + 1>>}
      [] ask.kind \in {"speech", "transcription"} -> {<<>>, Chunks[i]}
      [] OTHER -> {Items(i, n) : n \in 0..Len(Chunks[i])}

\* final: the provider said that asking again gives nothing either.  A chunk
\* with too few embeddings is an error after its retries.
Generated(i) ==
    LET t == task[i] IN
    /\ Running(i) /\ t.at = "calling" /\ t.op = "generate"
    /\ \E items \in Answers(i), final \in BOOLEAN :
        /\ final => ask.kind = "image" /\ items = <<>>
        /\ LET kept == [t EXCEPT !.got = Append(@, items)] IN
           become(i, CASE ask.kind = "image" /\ items = <<>> /\ ~final -> erred(kept, TRUE, TRUE)
                       [] ask.kind = "embed" /\ Len(items) # Len(Chunks[i]) -> failed(kept, "count")
                       [] OTHER -> [kept EXCEPT !.at = "done"])
        /\ given' = given \cup {<<i, Len(tries[i]), items>>}
    /\ UNCHANGED <<ask, joined, outcome, cancelled, tries>>

-----------------------------------------------------------------------------
(* VideoCallTask::run_operations                                           *)

\* The top of the poll loop.
polled_NoLimit(t) == IF t.late THEN failed(t, "timeout") ELSE [t EXCEPT !.at = "sleeping"]
polled(t) ==
    CASE t.late -> failed(t, "timeout")
      [] ask.attempts > 0 /\ t.polls >= ask.attempts -> failed(t, "message")
      [] OTHER -> [t EXCEPT !.at = "sleeping"]
asked(t) == [t EXCEPT !.at = "ready", !.op = "status", !.errs = 0, !.polls = @ + 1]

\* The webhook is made, the audio is here.
Prepared(i) ==
    /\ Running(i) /\ task[i].at = "calling" /\ Prepares(task[i])
    /\ become(i, [task[i] EXCEPT !.at = "ready", !.op = IF @ = "webhook" THEN "start" ELSE "generate"])
    /\ CallsKept /\ UNCHANGED tries

Started(i) ==
    /\ Running(i) /\ task[i].at = "calling" /\ task[i].op = "start"
    /\ become(i, IF WithWebhook(ask) THEN [task[i] EXCEPT !.at = "notified"] ELSE polled(task[i]))
    /\ CallsKept /\ UNCHANGED tries

\* The deadline of the operation passes, at any time after it was started.
PollDeadline(i) ==
    LET t == task[i] IN
    /\ Running(i) /\ ~t.late
    /\ \/ t.at \in {"notified", "sleeping"}
       \/ t.op = "status" /\ t.at \in {"ready", "calling", "backoff"}
    /\ become(i, [t EXCEPT !.late = TRUE])
    /\ CallsKept /\ UNCHANGED tries

Notified(i) ==
    LET t == task[i] IN
    /\ Running(i) /\ t.at = "notified"
    /\ \/ cancelled /\ become(i, failed(t, "cancelled"))
       \/ ~cancelled /\ become(i, asked(t))
       \/ ~cancelled /\ become(i, failed(t, "provider"))
       \/ ~cancelled /\ t.late /\ become(i, failed(t, "timeout"))
    /\ CallsKept /\ UNCHANGED tries

SleepOver(i) ==
    LET t == task[i] IN
    /\ Running(i) /\ t.at = "sleeping"
    /\ \/ t.late /\ become(i, failed(t, "timeout"))
       \/ ~t.late /\ t.polls < MaxPolls /\ become(i, asked(t))
       \/ cancelled /\ become(i, failed(t, "cancelled"))
    /\ CallsKept /\ UNCHANGED tries

\* The race around a status request: the token, the request, the deadline.
StatusCut(i) ==
    LET t == task[i] IN
    /\ Running(i) /\ t.op = "status" /\ t.at \in {"ready", "calling", "backoff"}
    /\ \/ cancelled /\ become(i, failed(t, "cancelled"))
       \/ ~cancelled /\ t.late /\ become(i, failed(t, "timeout"))
    /\ CallsKept /\ UNCHANGED tries

StatusGiven(i) ==
    LET t == task[i] IN
    /\ Running(i) /\ t.at = "calling" /\ t.op = "status" /\ Awake(t)
    /\ \/ /\ \E n \in 0..1 : /\ become(i, [t EXCEPT !.at = "done", !.got = <<Items(i, n)>>])
                             /\ given' = given \cup {<<i, Len(tries[i]), Items(i, n)>>}
       \/ /\ become(i, IF WithWebhook(ask) THEN failed(t, "message") ELSE polled(t))
          /\ UNCHANGED given
       \/ /\ become(i, failed(t, "message"))
          /\ UNCHANGED given
    /\ UNCHANGED <<ask, joined, outcome, cancelled, tries>>

-----------------------------------------------------------------------------
(* The call of the application.                                            *)

finish(result) == outcome' = <<result>> /\ UNCHANGED <<ask, task, cancelled, tries, given>>
NoUsage == -1
Fails(e) == [error |-> e, items |-> <<>>, responses |-> 0, tokens |-> NoUsage]
Gives(e, items, responses, tokens) == [error |-> e, items |-> items, responses |-> responses, tokens |-> tokens]

Refuse ==
    /\ outcome = <<>>
    /\ \/ refusal(ask) # "none" /\ finish(Fails(refusal(ask)))
       \/ Unasked(ask) /\ finish(Gives("none", <<>>, 0, NoUsage))
    /\ UNCHANGED joined

\* A task joined with an error ends the call; the others are dropped.
Join(i) ==
    /\ Running(i) /\ task[i].at \in {"done", "failed"}
    /\ joined' = Append(joined, i)
    /\ IF task[i].at = "failed" THEN finish(Fails(task[i].error))
       ELSE UNCHANGED <<ask, task, outcome, cancelled, tries, given>>

Slots_AsJoined == [k \in DOMAIN joined |-> task[joined[k]].got]
Slots == [i \in Ids |-> task[i].got]

\* The answers of the chunks, one after the other; an image chunk may have
\* several, those of before the last one being empty.
Responses == FlattenSeq(Slots)
Collected == FlattenSeq(Responses)

\* Embeddings report what they used when every chunk did.
embed_result ==
    IF Len(Collected) # Len(ask.bytes) THEN Fails("count")
    ELSE Gives("none", Collected, Len(Responses), IF Ids \subseteq ask.metered THEN Len(Responses) ELSE NoUsage)

\* Images add up what was reported, empty answers included.
images_result ==
    LET reported == FlattenSeq([i \in Ids |-> IF i \in ask.metered THEN Slots[i] ELSE <<>>])
        e == IF Collected = <<>> THEN "nothing" ELSE "none"
    IN  Gives(e, Collected, Len(Responses), IF reported = <<>> \/ e # "none" THEN NoUsage ELSE Len(reported))

\* fetch: the videos that came as addresses could be downloaded.
video_result(fetch) ==
    CASE ~fetch /\ Collected # <<>> -> Fails("download")
      [] Collected = <<>> -> Gives("nothing", <<>>, Len(Responses), NoUsage)
      [] OTHER -> Gives("none", Collected, Len(Responses), NoUsage)

\* Each rank is of a document that was given.
rerank_result ==
    IF \A k \in DOMAIN Collected : Collected[k] \in DOMAIN ask.bytes
    THEN Gives("none", Collected, Len(Responses), NoUsage) ELSE Fails("index")

\* Speech and transcription: one answer, and an empty one is an error with it.
single_result ==
    Gives(IF Collected = <<>> THEN "nothing" ELSE "none", Collected, Len(Responses), NoUsage)

Collect ==
    /\ outcome = <<>> /\ refusal(ask) = "none" /\ ~Unasked(ask) /\ \A i \in Ids : Joined(i)
    /\ \/ ask.kind = "embed" /\ finish(embed_result)
       \/ ask.kind = "image" /\ finish(images_result)
       \/ ask.kind = "video" /\ \E fetch \in BOOLEAN : finish(video_result(fetch))
       \/ ask.kind = "rerank" /\ finish(rerank_result)
       \/ ask.kind \in {"speech", "transcription"} /\ finish(single_result)
    /\ UNCHANGED joined

\* The total timeout drops the future with everything under it.
Expire ==
    /\ outcome = <<>> /\ refusal(ask) = "none" /\ ~Unasked(ask)
    /\ finish(Fails("timeout"))
    /\ UNCHANGED joined

CancelCall ==
    /\ ~cancelled /\ outcome = <<>>
    /\ cancelled' = TRUE
    /\ UNCHANGED <<ask, task, joined, outcome, tries, given>>

CallsNext ==
    \/ \E i \in Ids :
        \/ Begin(i)
        \/ \E retryable \in BOOLEAN : ProviderError(i, retryable)
        \/ CallCancelled(i)
        \/ BackoffOver(i)
        \/ BackoffCancelled(i)
        \/ Generated(i)
        \/ Prepared(i)
        \/ Started(i)
        \/ PollDeadline(i)
        \/ Notified(i)
        \/ SleepOver(i)
        \/ StatusCut(i)
        \/ StatusGiven(i)
        \/ Join(i)
    \/ Refuse
    \/ Collect
    \/ Expire
    \/ CancelCall

-----------------------------------------------------------------------------
CallsTypeOK ==
    /\ ask \in Calls
    /\ \A i \in Ids : task[i].errs \in 0..(ask.retries + 1) /\ task[i].polls \in 0..MaxPolls
    /\ cancelled \in BOOLEAN

\* What a call returns is everything the providers gave for it, in the order of
\* what was asked and not of what was answered first: one embedding for each
\* value, the images and videos of the first chunk before those of the second.
\* Every answer is told, the empty ones too, in a result and in the error that
\* there was none; and the usage is that of the answers that reported one, for
\* embeddings of all of them or none.
CallResultInOrder ==
    \A k \in DOMAIN outcome :
        LET r == outcome[k]
            reported == Cardinality({g \in given : g[1] \in ask.metered})
        IN
        /\ r.error = "none" =>
            /\ ToSet(r.items) = UNION {ToSet(g[3]) : g \in given}
            /\ ask.kind = "embed" => r.items = [v \in DOMAIN ask.bytes |-> v]
            /\ ask.kind \in {"image", "video"} => \A a, b \in DOMAIN r.items : a < b => r.items[a] < r.items[b]
        /\ r.error \in {"none", "nothing"} => r.responses = Cardinality(given)
        /\ r.tokens # NoUsage => r.tokens = reported
        /\ ask.kind = "embed" /\ r.tokens # NoUsage => reported = Cardinality(given)

\* Nothing is sent once the call is over or its token is cancelled; no operation
\* is tried more often than the policy says, none is started under two keys,
\* and the status is not asked more often than the caller allowed.
CallStopsWhenTold ==
    /\ \A i \in DOMAIN tries' : tries'[i] # tries[i] => outcome = <<>> /\ ~Last(tries'[i]).late
    /\ \A i \in DOMAIN tries' :
        LET Sent(op) == SelectSeq(tries'[i], LAMBDA s : s.op = op) IN
        /\ \A op \in {"generate", "start"} : Len(Sent(op)) <= ask.retries + 1
        /\ Cardinality({Sent("start")[k].key : k \in DOMAIN Sent("start")}) <= 1
        /\ ask.attempts > 0 => task'[i].polls <= ask.attempts
        /\ Len(Sent("status")) <= task'[i].polls * (ask.retries + 1)

-----------------------------------------------------------------------------
(***************************************************************************)
(* stream_transcribe and stream_speech_translation of ferrin-core: the     *)
(* parts of the provider under one deadline and one token                  *)
(* (modality_stream.rs), and what consume makes of them.                   *)
(***************************************************************************)

CONSTANT MaxStreamParts   \* bound on the parts a provider sends

VARIABLES
    audio,                \* the stream: place, token, deadline, the provider's parts
    heard                 \* the parts the consumer was told

audioVars == <<audio, heard>>

\* What the two streams are of and the parts that matter to what consume makes
\* of them; a Finish has text or not.
AudioKinds == {"transcription", "translation"}
AudioPart == {"audio", "delta", "finish", "empty", "error"}
is_terminal(part) == part \in {"finish", "empty", "error", "cancelled", "timeout"}

AudioInit ==
    /\ audio \in [kind : AudioKinds, timed : BOOLEAN, pc : {"opening"}, cancelled : {FALSE},
                  expired : {FALSE}, sent : {0}]
    /\ heard = <<>>

Tell_NotTerminal(part) ==
    /\ heard' = Append(heard, part)
    /\ audio' = [audio EXCEPT !.pc = IF part \in {"cancelled", "timeout"} THEN "over" ELSE "open"]
Tell(part) ==
    /\ heard' = Append(heard, part)
    /\ audio' = [audio EXCEPT !.pc = IF is_terminal(part) THEN "over" ELSE "open"]

\* StreamDeadline::run, of the opening call and of each part: the token is
\* looked at first, the deadline next and the provider last.
Interrupted == audio.cancelled \/ audio.expired
Reason == IF audio.cancelled THEN "cancelled" ELSE "timeout"

Open ==
    /\ audio.pc = "opening" /\ ~Interrupted
    /\ audio' = [audio EXCEPT !.pc = "open"]
    /\ UNCHANGED heard

\* The call that opens the stream fails, of itself or because it was cut.
OpenFails ==
    /\ audio.pc = "opening"
    /\ audio' = [audio EXCEPT !.pc = "refused", !.cancelled = Interrupted]
    /\ UNCHANGED heard

\* The next part.  The provider may go on after a terminal part.
Part ==
    /\ audio.pc = "open" /\ ~Interrupted /\ Len(heard) < MaxStreamParts
    /\ \E part \in AudioPart : Tell(part)

\* The cut becomes an error part, the last one.
Cut ==
    /\ audio.pc = "open" /\ Interrupted
    /\ Tell(Reason)

\* The provider ends its stream, with or without a Finish.
SourceEnds ==
    /\ audio.pc = "open" /\ ~Interrupted
    /\ audio' = [audio EXCEPT !.pc = "over"]
    /\ UNCHANGED heard

CancelAudio ==
    /\ ~audio.cancelled /\ audio.pc \in {"opening", "open"}
    /\ audio' = [audio EXCEPT !.cancelled = TRUE]
    /\ UNCHANGED heard

AudioExpires ==
    /\ audio.timed /\ ~audio.expired /\ audio.pc \in {"opening", "open"}
    /\ audio' = [audio EXCEPT !.expired = TRUE]
    /\ UNCHANGED heard

AudioNext == Open \/ OpenFails \/ Part \/ Cut \/ SourceEnds \/ CancelAudio \/ AudioExpires

-----------------------------------------------------------------------------
\* consume reads up to the first part that decides.
consume ==
    LET ends == {k \in DOMAIN heard : is_terminal(heard[k])}
        has_audio(k) == \E j \in 1..(k - 1) : heard[j] = "audio"
    IN  IF ends = {} THEN "nothing"
        ELSE LET k == CHOOSE k \in ends : \A j \in ends : k <= j IN
             CASE heard[k] = "finish" -> "result"
               [] heard[k] = "empty" -> IF audio.kind = "translation" /\ has_audio(k) THEN "result" ELSE "nothing"
               [] OTHER -> heard[k]

\* A stream that was cut is never consumed as a result, nor one that failed.
AudioResultInOrder ==
    consume = "result" => heard # <<>> /\ Last(heard) \in {"finish", "empty"}

\* Nothing is told after the part that ends the stream, nor once the token or
\* the deadline is over except the error that says so.
AudioStopsWhenTold ==
    heard' # heard =>
        /\ \A k \in DOMAIN heard : ~is_terminal(heard[k])
        /\ Interrupted => Last(heard') = Reason
=============================================================================

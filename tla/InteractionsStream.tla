-------------------------- MODULE InteractionsStream --------------------------
(* ferrin-google, interactions: the steps of an interaction, streamed, in    *)
(* the background or whole. A step is [k, id, name, v, blocks, x]: its type, *)
(* its id, the name of a tool, its text, arguments or outcome, the blocks of *)
(* model output, each [k, v, notes], and a variant.                          *)
EXTENDS StreamParts, TLC, FiniteSets

CONSTANTS
    InteractionSteps,     \* the steps an interaction may be made of
    MaxSteps              \* how many it has at most

finish_kind(status, function) ==
    CASE status = "requires_action" -> "tool_calls"
      [] status = "completed" -> IF function THEN "tool_calls" ELSE "stop"
      [] status = "incomplete" -> "length"
      [] status = "failed" -> "error"
      [] OTHER -> "other"

Failed(parts) == \E i \in DOMAIN parts : IsError(parts[i])

\* Citations of pages and documents, each once; those of other types are none.
extract(notes) ==
    LET known == SelectSeq(notes, LAMBDA n : n # "other_note")
        first == SelectSeq([i \in DOMAIN known |-> IF known[i] \in {known[j] : j \in 1..(i - 1)} THEN "" ELSE known[i]], LAMBDA n : n # "")
    IN  [i \in DOMAIN first |-> One("source", "", <<first[i]>>)]

\* A file without data or a place is nothing; one that does not decode is an
\* error.
block(b) ==
    CASE b.k = "text" -> <<One("text", "", b.v)>> \o extract(b.notes)
      [] b.k = "image" -> IF b.v = <<>> THEN <<>> ELSE IF b.v = <<"garbled">> THEN <<ErrorPart>> ELSE <<One("file", "", b.v)>>
      [] OTHER -> <<>>

LOCAL Joined(v) == FlattenSeq([i \in DOMAIN v |-> IF i = 1 THEN <<v[i]>> ELSE <<Separator, v[i]>>])

\* A function call needs an id, a name and arguments that are an object.
step(st) ==
    LET blocks == FlattenSeq([i \in DOMAIN st.blocks |-> block(st.blocks[i])])
    IN  CASE st.k = "model_output" -> IF Failed(blocks) THEN <<ErrorPart>> ELSE blocks
          [] st.k = "thought" -> <<One("reasoning", "", Joined(st.v))>>
          [] st.k = "processing_call" -> <<One("custom", "", <<"processing_call">>)>>
          [] st.k = "function_call" ->
                IF st.name = "" \/ st.x = "list" THEN <<ErrorPart>> ELSE <<One("call", st.id, <<CustomName(st.name)>> \o st.v)>>
          [] st.k = "builtin_call" -> <<One("hosted", st.id, <<CustomName(st.name)>> \o st.v)>>
          [] st.k = "builtin_result" -> <<One("result", st.id, <<CustomName(st.name)>>)>> \o extract(st.v)
          [] OTHER -> <<>>

\* convert: the result of a request that is not streamed.
Whole(config, response) ==
    LET all == FlattenSeq([i \in DOMAIN response.steps |-> step(response.steps[i])])
        function == \E i \in DOMAIN all : all[i].k = "call"
    IN  all \o <<Finish(finish_kind(response.status, function))>>

\* A complete part of the content, as parts of a stream.
content_parts(p, id) ==
    CASE p.k \in {"text", "reasoning"} -> <<Start(p.k, id, <<>>), Delta(p.k, id, p.v), End(p.k, id)>>
      [] p.k \in {"call", "hosted"} -> <<Start("input", p.id, <<>>), Delta("input", p.id, Tail(p.v)), End("input", p.id), p>>
      [] OTHER -> <<p>>

-----------------------------------------------------------------------------

\* How the interaction is followed: streamed, resumed in the background, or
\* found complete by the first answer of the background.
Configs == {[mode |-> m] : m \in {"stream", "background", "done"}}

New(config) == [open |-> <<>>, status |-> "", terminal |-> FALSE, function |-> FALSE, emitted_sources |-> {}]

StepId(i) == <<"step", i>>

LOCAL Fails(s) == [s |-> s, parts |-> <<ErrorPart>>]
LOCAL Does(s, parts) == IF Failed(parts) THEN Fails(s) ELSE [s |-> s, parts |-> parts]
LOCAL Emitted(parts, id) == FlattenSeq([n \in DOMAIN parts |-> content_parts(parts[n], id)])

step_start(s, i, st, contents) ==
    LET id == StepId(i)
        opened(text) == [s EXCEPT !.open = i :> [step |-> st, text_open |-> text, arguments |-> <<>>] @@ @, !.function = @ \/ st.k = "function_call"]
        texts == {n \in DOMAIN contents : contents[n].k = "text"}
        said(n) == CASE n \in texts /\ n = 1 -> <<Start("text", id, <<>>), Delta("text", id, contents[n].v)>>
                     [] n \in texts /\ n # 1 ->
                            (IF \E m \in texts : m < n THEN <<>> ELSE <<Start("text", id, <<>>)>>) \o <<Delta("text", id, contents[n].v)>>
                     [] OTHER -> content_parts(contents[n], id)
    IN  CASE i \in DOMAIN s.open -> Fails(s)
          [] i \notin DOMAIN s.open /\ st.k = "thought" ->
                Does(opened(FALSE), <<Start("reasoning", id, <<>>)>> \o [n \in DOMAIN st.v |-> Delta("reasoning", id, <<st.v[n]>>)])
          [] i \notin DOMAIN s.open /\ st.k = "model_output" ->
                Does(opened(texts # {}), IF Failed(contents) THEN contents ELSE FlattenSeq([n \in DOMAIN contents |-> said(n)]))
          [] i \notin DOMAIN s.open /\ st.k = "function_call" -> Does(opened(FALSE), <<Start("input", st.id, <<>>)>>)
          [] OTHER -> Does(opened(FALSE), <<>>)

step_delta(s, c) ==
    LET call == s.open[c.i]
        id == StepId(c.i)
        text == IF call.text_open THEN <<>> ELSE <<Start("text", id, <<>>)>>
        found == SelectSeq(block(c.block), LAMBDA p : p.k # "text")
        is(k, type) == c.k = k /\ call.step.k = type
    IN  CASE c.i \notin DOMAIN s.open -> Fails(s)
          [] c.i \in DOMAIN s.open /\ is("text", "model_output") ->
                Does([s EXCEPT !.open[c.i].text_open = TRUE], text \o <<Delta("text", id, c.v)>>)
          [] c.i \in DOMAIN s.open /\ is("thought_summary", "thought") -> Does(s, <<Delta("reasoning", id, c.v)>>)
          [] c.i \in DOMAIN s.open /\ is("thought_signature", "thought") -> Does(s, <<>>)
          [] c.i \in DOMAIN s.open /\ is("arguments", "function_call") ->
                Does([s EXCEPT !.open[c.i].arguments = @ \o c.v], <<Delta("input", call.step.id, c.v)>>)
          [] c.i \in DOMAIN s.open /\ (is("image", "model_output") \/ is("annotation", "model_output")) -> Does(s, Emitted(found, id))
          [] c.i \in DOMAIN s.open /\ c.k = call.step.k -> Does([s EXCEPT !.open[c.i].step.v = c.v], <<>>)
          [] OTHER -> IF c.k = "annotation" THEN Does(s, <<>>) ELSE Fails(s)

\* The arguments of a function are those of its deltas, which have to parse,
\* or else those it began with.
step_stop(s, i) ==
    LET call == s.open[i]
        id == StepId(i)
        rest == [s EXCEPT !.open = [j \in DOMAIN @ \ {i} |-> @[j]]]
        complete == [call.step EXCEPT !.v = IF call.arguments = <<>> THEN (IF @ = <<>> THEN <<"{", "}">> ELSE @) ELSE call.arguments]
        calls == step(complete)
    IN  CASE i \notin DOMAIN s.open -> Fails(s)
          [] i \in DOMAIN s.open /\ call.step.k = "model_output" -> Does(rest, IF call.text_open THEN <<End("text", id)>> ELSE <<>>)
          [] i \in DOMAIN s.open /\ call.step.k = "thought" -> Does(rest, <<End("reasoning", id)>>)
          [] i \in DOMAIN s.open /\ call.step.k = "function_call" ->
                IF Contains(call.arguments, "garbled") THEN Fails(s) ELSE Does(rest, <<End("input", call.step.id)>> \o calls)
          [] OTHER -> Does(rest, Emitted(step(call.step), id))

completed(s, status) ==
    IF s.open # <<>> THEN Fails(s) ELSE Does([s EXCEPT !.terminal = TRUE, !.status = status], <<>>)

event(s, c) ==
    CASE c.t = "created" -> Does(s, <<One("metadata", "", <<>>)>>)
      [] c.t = "start" -> step_start(s, c.i, c.step, step(c.step))
      [] c.t = "delta" -> step_delta(s, c)
      [] c.t = "stop" -> step_stop(s, c.i)
      [] c.t = "completed" -> completed(s, c.status)
      [] c.t \in {"error", "bad"} -> Fails(s)

\* A source is sent once.
retain(r) ==
    LET s == r.s
        parts == r.parts
        key(n) == parts[n].v[1]
        keep(n) == parts[n].k # "source" \/ (key(n) \notin s.emitted_sources /\ \A m \in 1..(n - 1) : parts[m].k = "source" => key(m) # key(n))
        sources == {key(n) : n \in {n \in DOMAIN parts : parts[n].k = "source"}}
    IN  [s |-> [s EXCEPT !.emitted_sources = @ \cup sources],
         parts |-> FlattenSeq([n \in DOMAIN parts |-> IF keep(n) THEN <<parts[n]>> ELSE <<>>])]

\* A resource that was complete is streamed as its content.
resource(s, c, content) ==
    [s |-> [s EXCEPT !.terminal = TRUE, !.status = c.status, !.function = \E n \in DOMAIN content : content[n].k = "call"],
     parts |-> <<One("metadata", "", <<>>)>> \o FlattenSeq([n \in DOMAIN content |-> content_parts(content[n], StepId(n))])]

handle(s, c) ==
    IF c.t = "resource" THEN resource(s, c, Front(Whole([mode |-> "done"], c))) ELSE retain(event(s, c))

\* A stream without a terminal event was cut.
finish(s) == IF s.terminal THEN <<Finish(finish_kind(s.status, s.function))>> ELSE <<ErrorPart>>

-----------------------------------------------------------------------------

(* The server, as the adapter meets it. Calls of functions may overlap.      *)

LOCAL Frame(i, k, v) == [t |-> "delta", i |-> i, k |-> k, v |-> v, block |-> [k |-> "none", v |-> <<>>, notes |-> <<>>]]

\* A step as it starts, and what follows before it stops: its last block, its
\* summary or its arguments may come in deltas.
Begins(st) ==
    CASE st.x = "at once" -> st
      [] st.x # "at once" /\ st.k = "model_output" -> [st EXCEPT !.blocks = IF @ = <<>> THEN @ ELSE Front(@)]
      [] st.x # "at once" /\ st.k \in {"thought", "function_call"} -> [st EXCEPT !.v = <<>>]
      [] st.x = "late" -> [st EXCEPT !.v = <<>>]
      [] OTHER -> st
Follows(st, i) ==
    LET each(k, v) == [n \in DOMAIN v |-> Frame(i, k, <<v[n]>>)]
        last == Last(st.blocks)
        ofBlock == IF last.k = "text"
                   THEN each("text", last.v) \o (IF last.notes = <<>> THEN <<>>
                            ELSE <<[Frame(i, "annotation", <<>>) EXCEPT !.block = [last EXCEPT !.v = <<>>]]>>)
                   ELSE <<[Frame(i, "image", <<>>) EXCEPT !.block = last]>>
    IN  CASE st.x = "at once" -> <<>>
          [] st.x # "at once" /\ st.k = "model_output" -> IF st.blocks = <<>> THEN <<>> ELSE ofBlock
          [] st.x # "at once" /\ st.k = "thought" -> each("thought_summary", st.v) \o <<Frame(i, "thought_signature", <<>>)>>
          [] st.x # "at once" /\ st.k = "function_call" -> each("arguments", st.v)
          [] st.x = "late" -> <<Frame(i, st.k, st.v)>>
          [] OTHER -> <<>>

Server == [phase |-> "begun", steps |-> <<>>, sent |-> <<>>, status |-> "", events |-> 0, last |-> [t |-> "none"], attempts |-> 0]

LOCAL CallId(i) == <<"call_1", "call_2", "call_3">>[i]
Statuses == {"completed", "failed", "cancelled", "incomplete", "requires_action"}

\* The next step: a result is of the call before it.
NewSteps(steps) ==
    LET n == Len(steps)
        of(st) == IF st.k = "builtin_result" THEN CallId(n) ELSE CallId(n + 1)
        follows(st) == st.k = "builtin_result" => n > 0 /\ steps[n].k = "builtin_call" /\ steps[n].name = st.name
    IN  {st @@ [id |-> of(st)] : st \in {st \in InteractionSteps : follows(st)}}

Streamed(srv) ==
    LET n == Len(srv.steps)
        follow(i) == Follows(srv.steps[i], i)
        open == {i \in 1..n : srv.sent[i] <= Len(follow(i))}
        calls(st) == st.k = "function_call" /\ \A i \in open : srv.steps[i].k = "function_call"
        begun(st) == [srv EXCEPT !.steps = Append(@, st), !.sent = Append(@, 0)]
    IN  CASE srv.phase = "begun" -> {<<[t |-> "created"], [srv EXCEPT !.phase = "open"]>>}
          [] srv.phase = "open" ->
                {<<IF srv.sent[i] < Len(follow(i)) THEN follow(i)[srv.sent[i] + 1] ELSE [t |-> "stop", i |-> i], [srv EXCEPT !.sent[i] = @ + 1]>> : i \in open}
                \cup {<<[t |-> "start", i |-> n + 1, step |-> Begins(st)], begun(st)>> :
                        st \in IF n < MaxSteps THEN {st \in NewSteps(srv.steps) : open = {} \/ calls(st)} ELSE {}}
                \cup IF open = {} THEN {<<[t |-> "completed", status |-> r], [srv EXCEPT !.phase = "over", !.status = r]>> : r \in Statuses} ELSE {}
          [] OTHER -> {}

\* Mutant: the event a new connection begins with is delivered again.
next_event_First(seen, last) == seen[1]

\* Resume: what is delivered of the events a new connection sends, which may
\* begin with the one that came last.
next_event(seen, last) == SelectSeq(seen, LAMBDA e : e.id # last)[1]

\* A connection may be lost before the next event; two are made again.
Attempts == 3
Resumed(srv, sent) ==
    LET new == [id |-> srv.events + 1, frame |-> sent[1]]
        old == [id |-> srv.events, frame |-> srv.last]
        delivered(seen) == IF next_event(seen, srv.events) = new THEN sent ELSE <<srv.last, srv>>
        counted(d, lost) == <<d[1], [d[2] EXCEPT !.events = @ + 1, !.last = d[1], !.attempts = @ + lost]>>
    IN  {counted(sent, 0)}
        \cup IF srv.events > 0 /\ srv.attempts + 1 < Attempts
             THEN {counted(delivered(<<new>>), 1), counted(delivered(<<old, new>>), 1)} ELSE {}

Sends(srv, config) ==
    LET two == {<<a>> : a \in NewSteps(<<>>)} \cup UNION {{<<a, b>> : b \in NewSteps(<<a>>)} : a \in NewSteps(<<>>)}
        complete(steps) == \A i \in DOMAIN steps : ~Failed(step(steps[i]))
    IN  CASE config.mode = "stream" -> Streamed(srv)
          [] config.mode = "background" -> UNION {Resumed(srv, sent) : sent \in Streamed(srv)}
          [] config.mode = "done" /\ srv.phase = "begun" ->
                {<<[t |-> "resource", steps |-> steps, status |-> r], [srv EXCEPT !.phase = "over", !.steps = steps, !.status = r]>> :
                    <<steps, r>> \in {steps \in two : complete(steps)} \X Statuses}
          [] OTHER -> {}

Sent(srv) == [steps |-> srv.steps, status |-> srv.status]
=============================================================================

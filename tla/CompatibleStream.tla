--------------------------- MODULE CompatibleStream ---------------------------
(* ferrin-openai-compatible, chat and completion: the one choice of a        *)
(* completion, streamed and whole. Its text and reasoning take turns, a call *)
(* waits for its name, and ids that are missing are made.                    *)
EXTENDS ChatServer

map_finish_reason(reason) ==
    CASE reason \in {"stop", "length", "content_filter"} -> reason
      [] reason \in {"function_call", "tool_calls"} -> "tool_calls"
      [] OTHER -> "other"

\* What a message is made of: its text, or its typed parts; nothing empty.
convert_content(content, typed) ==
    SelectSeq((IF content = <<>> THEN <<>> ELSE <<[k |-> "text", v |-> content[1]]>>) \o typed,
              LAMBDA p : p.k \in {"text", "reasoning"} /\ p.v # <<>>)

\* ToolCallTracker: the calls and where each is; what waits for the name of a
\* call, by its index; and the indexes of the calls that have had theirs.
Tracker == [calls |-> <<>>, by_id |-> <<>>, by_index |-> <<>>, latest |-> 0, pending |-> <<>>, forwarded |-> {}]

LOCAL Orelse(option, default) == IF option = <<>> THEN default ELSE option[1]
LOCAL At(map, key) == IF key \in DOMAIN map THEN map[key] ELSE 0
LOCAL Given(id) == id # <<>> /\ id # <<"">>
\* A fresh id, the same for a call however it is sent.
LOCAL Made(n) == <<"made_1", "made_2", "made_3">>[n]

position(tr, delta) ==
    CASE Given(delta.id) /\ delta.id[1] \in DOMAIN tr.by_id -> tr.by_id[delta.id[1]]
      [] ~(Given(delta.id) /\ delta.id[1] \in DOMAIN tr.by_id) /\ delta.index # <<>> -> At(tr.by_index, delta.index[1])
      [] OTHER -> tr.latest

process_new(tr, delta) ==
    LET n == Len(tr.calls) + 1
        id == IF Given(delta.id) THEN delta.id[1] ELSE Made(Orelse(delta.index, n))
        arguments == Orelse(delta.args, <<>>)
        call == [id |-> id, name |-> delta.name[1], arguments |-> arguments]
    IN  IF delta.name = <<>> THEN [tr |-> tr, at |-> 0, parts |-> <<ErrorPart>>]
        ELSE [tr |-> [tr EXCEPT !.calls = Append(@, call), !.by_id = id :> n @@ @], at |-> n,
              parts |-> <<Start("input", id, <<>>)>> \o (IF arguments = <<>> THEN <<>> ELSE <<Delta("input", id, arguments)>>)]

process_existing(tr, n, delta) ==
    LET arguments == Orelse(delta.args, <<>>)
    IN  [tr |-> [tr EXCEPT !.calls[n].arguments = @ \o arguments], at |-> n,
         parts |-> IF arguments = <<>> THEN <<>> ELSE <<Delta("input", tr.calls[n].id, arguments)>>]

process_delta(tr, delta) ==
    LET n == position(tr, delta)
        r == IF n = 0 THEN process_new(tr, delta) ELSE process_existing(tr, n, delta)
        named == [r.tr EXCEPT !.latest = r.at, !.by_index = IF delta.index = <<>> THEN @ ELSE delta.index[1] :> r.at @@ @]
    IN  [tr |-> IF r.at = 0 THEN tr ELSE named, parts |-> r.parts]

\* A delta with an index waits for the name of its call, with those before it.
process(tr, delta) ==
    LET i == delta.index[1]
        before == IF i \in DOMAIN tr.pending THEN tr.pending[i] ELSE Call(<<i>>, <<>>, <<>>, <<<<>>>>)
        waiting == [before EXCEPT !.id = IF @ = <<>> THEN delta.id ELSE @, !.args = <<@[1] \o Orelse(delta.args, <<>>)>>]
        rest == [tr EXCEPT !.pending = [j \in DOMAIN @ \ {i} |-> @[j]], !.forwarded = @ \cup {i}]
    IN  CASE delta.index = <<>> -> process_delta(tr, delta)
          [] delta.index # <<>> /\ i \in tr.forwarded -> process_delta(tr, delta)
          [] delta.index # <<>> /\ i \notin tr.forwarded /\ delta.name = <<>> ->
                [tr |-> [tr EXCEPT !.pending = i :> waiting @@ @], parts |-> <<>>]
          [] OTHER -> process_delta(rest, [waiting EXCEPT !.name = delta.name])

\* The calls are over when the stream is; one without a name is an error.
flush(tr) ==
    IF tr.pending # <<>> THEN <<ErrorPart>>
    ELSE FlattenSeq([n \in DOMAIN tr.calls |->
            <<End("input", tr.calls[n].id), One("call", tr.calls[n].id, <<tr.calls[n].name>> \o tr.calls[n].arguments)>>])

-----------------------------------------------------------------------------

Configs == {[api |-> "chat"], [api |-> "completion"]}

\* ChatStreamState, and the state of the older API.
New(config) ==
    [api |-> config.api, reason |-> IF config.api = "chat" THEN <<>> ELSE <<"other">>, received |-> FALSE, first |-> TRUE,
     text_active |-> FALSE, reasoning_active |-> FALSE, calls |-> Tracker]

TextPartId(s) == IF s.api = "chat" THEN "txt-0" ELSE "0"
ReasoningPartId == "reasoning-0"

end_text(s) ==
    [s |-> [s EXCEPT !.text_active = FALSE], parts |-> IF s.text_active THEN <<End("text", TextPartId(s))>> ELSE <<>>]
end_reasoning(s) ==
    [s |-> [s EXCEPT !.reasoning_active = FALSE], parts |-> IF s.reasoning_active THEN <<End("reasoning", ReasoningPartId)>> ELSE <<>>]

reasoning_delta(s, v) ==
    LET opened == IF s.reasoning_active THEN <<>> ELSE <<Start("reasoning", ReasoningPartId, <<>>)>>
    IN  [s |-> [end_text(s).s EXCEPT !.reasoning_active = TRUE],
         parts |-> end_text(s).parts \o opened \o <<Delta("reasoning", ReasoningPartId, v)>>]

text_delta(s, v) ==
    LET opened == IF s.text_active THEN <<>> ELSE <<Start("text", TextPartId(s), <<>>)>>
    IN  [s |-> [end_reasoning(s).s EXCEPT !.text_active = TRUE],
         parts |-> end_reasoning(s).parts \o opened \o <<Delta("text", TextPartId(s), v)>>]

handle_value(s, c) ==
    LET then(acc, step) == [s |-> step.s, parts |-> acc.parts \o step.parts]
        begun == [s |-> [s EXCEPT !.first = FALSE, !.reason = IF c.reason = <<>> THEN @ ELSE <<map_finish_reason(c.reason[1])>>],
                  parts |-> IF s.first THEN <<One("metadata", "", <<>>)>> ELSE <<>>]
        thought == IF c.reasoning = <<>> \/ c.reasoning[1] = <<>> THEN begun ELSE then(begun, reasoning_delta(begun.s, c.reasoning[1]))
        say(acc, p) == then(acc, IF p.k = "text" THEN text_delta(acc.s, p.v) ELSE reasoning_delta(acc.s, p.v))
        said == FoldLeft(say, thought, convert_content(c.content, c.typed))
        quiet == IF c.calls = <<>> THEN said ELSE then(said, end_reasoning(said.s))
        call(acc, delta) == LET r == process(acc.s.calls, delta) IN then(acc, [s |-> [acc.s EXCEPT !.calls = r.tr], parts |-> r.parts])
    IN  FoldLeft(call, quiet, c.calls)

\* The older API opens its text with the first chunk.
handle_completion(s, c) ==
    LET opened == IF s.first THEN <<One("metadata", "", <<>>), Start("text", TextPartId(s), <<>>)>> ELSE <<>>
        text == IF c.content = <<>> \/ c.content[1] = <<>> THEN <<>> ELSE <<Delta("text", TextPartId(s), c.content[1])>>
    IN  [s |-> [s EXCEPT !.first = FALSE, !.text_active = TRUE, !.received = @ \/ c.reason # <<>>,
                         !.reason = IF c.reason = <<>> THEN @ ELSE <<map_finish_reason(c.reason[1])>>],
         parts |-> opened \o text]

handle(s, c) ==
    CASE c.t # "chunk" -> [s |-> [s EXCEPT !.reason = <<"error">>], parts |-> <<ErrorPart>>]
      [] c.t = "chunk" /\ s.api = "chat" -> handle_value(s, c)
      [] c.t = "chunk" /\ s.api = "completion" -> handle_completion(s, c)

\* A stream without a finish reason was cut.
finish(s) ==
    LET quiet == end_reasoning(s)
        silent == end_text(quiet.s)
    IN  IF s.reason = <<>> THEN <<ErrorPart>>
        ELSE quiet.parts \o silent.parts \o flush(s.calls) \o <<Finish(s.reason[1])>>
finish_completion(s) ==
    IF ~s.received THEN <<ErrorPart>> ELSE end_text(s).parts \o <<Finish(s.reason[1])>>

\* What shows that the model has begun to answer.
has_output(c) == c.content # <<>> \/ c.typed # <<>> \/ c.calls # <<>> \/ c.reasoning # <<>>
classify(c) ==
    CASE c.t = "error" -> "Error"
      [] c.t = "chunk" /\ has_output(c) -> "Output"
      [] OTHER -> "Other"
classify_completion(c) ==
    CASE c.t = "error" -> "Error"
      [] c.t = "chunk" /\ c.content # <<>> /\ c.content # <<<<>>>> -> "Output"
      [] OTHER -> "Other"

\* The result of a request that is not streamed; of the older API, the text.
Whole(config, response) ==
    LET content == [n \in DOMAIN convert_content(<<response.text>>, <<>>) |-> One("text", "", response.text)]
        reasoning == IF response.reasoning = <<>> THEN <<>> ELSE <<One("reasoning", "", response.reasoning)>>
        calls == [n \in DOMAIN response.calls |->
                    One("call", IF Given(response.calls[n].id) THEN response.calls[n].id[1] ELSE Made(n),
                        response.calls[n].name \o Orelse(response.calls[n].args, <<>>))]
    IN  content \o (IF config.api = "completion" THEN <<>> ELSE reasoning \o calls)
                \o <<Finish(map_finish_reason(response.reason))>>

-----------------------------------------------------------------------------

\* What this server is made of: only what the API has. A call without an
\* index is told from another by nothing, and is the only one.
Sends(srv, config) ==
    LET calls == \E i \in DOMAIN srv.units : srv.units[i].k = "call"
        chat(u) == u.k # "note" /\ (u.x = "unindexed" => ~calls)
    IN  ServerSends(srv, {u \in ChatUnits : IF config.api = "chat" THEN chat(u) ELSE u.k = "text" /\ u.x = ""})
=============================================================================

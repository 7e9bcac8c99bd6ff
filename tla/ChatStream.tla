------------------------------ MODULE ChatStream ------------------------------
(* ferrin-openai, chat and completion: the one choice of a completion,       *)
(* streamed and whole.                                                       *)
EXTENDS ChatServer

map_chat_finish_reason(reason) ==
    CASE reason \in {"stop", "length", "content_filter"} -> reason
      [] reason \in {"function_call", "tool_calls"} -> "tool_calls"
      [] OTHER -> "other"

\* ToolCallTracker: the calls, and where the one of an id, of an index and
\* the latest are.
Tracker == [calls |-> <<>>, by_id |-> <<>>, by_index |-> <<>>, latest |-> 0]

LOCAL Orelse(option, default) == IF option = <<>> THEN default ELSE option[1]
LOCAL At(map, key) == IF key \in DOMAIN map THEN map[key] ELSE 0
LOCAL Pieces(args) == IF args = <<>> \/ args[1] = <<>> THEN <<>> ELSE args

position(tr, delta) ==
    CASE delta.id # <<>> /\ delta.id # <<"">> -> At(tr.by_id, delta.id[1])
      [] ~(delta.id # <<>> /\ delta.id # <<"">>) /\ delta.index # <<>> -> At(tr.by_index, delta.index[1])
      [] OTHER -> tr.latest

process_new(tr, delta) ==
    LET id == delta.id[1]
        n == Len(tr.calls) + 1
        call == [id |-> id, name |-> delta.name[1], arguments |-> Orelse(delta.args, <<>>)]
    IN  IF delta.id = <<>> \/ delta.name = <<>> THEN [tr |-> tr, at |-> 0, parts |-> <<ErrorPart>>]
        ELSE [tr |-> [tr EXCEPT !.calls = Append(@, call), !.by_id = IF id = "" THEN @ ELSE id :> n @@ @], at |-> n,
              parts |-> <<Start("input", id, <<>>)>> \o [k \in DOMAIN Pieces(delta.args) |-> Delta("input", id, delta.args[k])]]

process_existing(tr, n, delta) ==
    [tr |-> [tr EXCEPT !.calls[n].arguments = @ \o Orelse(delta.args, <<>>)], at |-> n,
     parts |-> [k \in DOMAIN delta.args |-> Delta("input", tr.calls[n].id, delta.args[k])]]

process_delta(tr, delta) ==
    LET n == position(tr, delta)
        r == IF n = 0 THEN process_new(tr, delta) ELSE process_existing(tr, n, delta)
        named == [r.tr EXCEPT !.latest = r.at, !.by_index = IF delta.index = <<>> THEN @ ELSE delta.index[1] :> r.at @@ @]
    IN  [tr |-> IF r.at = 0 THEN tr ELSE named, parts |-> r.parts]

\* The calls are over when the stream is.
flush(tr) ==
    FlattenSeq([n \in DOMAIN tr.calls |->
        <<End("input", tr.calls[n].id), One("call", tr.calls[n].id, <<tr.calls[n].name>> \o tr.calls[n].arguments)>>])

\* Only citations of pages are sources.
url_citations(notes) == SelectSeq([n \in DOMAIN notes |-> One("source", "", <<notes[n]>>)], LAMBDA p : p.v[1] = "page")

-----------------------------------------------------------------------------

Configs == {[api |-> "chat"], [api |-> "completion"]}

\* ChatStreamState, and the state of the older API.
New(config) ==
    [api |-> config.api, reason |-> "other", received |-> FALSE, first |-> TRUE, text_active |-> FALSE, calls |-> Tracker]

TextPartId == "0"

handle_value(s, c) ==
    LET metadata == IF s.first THEN <<One("metadata", "", <<>>)>> ELSE <<>>
        opened == IF c.content # <<>> /\ ~s.text_active THEN <<Start("text", TextPartId, <<>>)>> ELSE <<>>
        text == IF c.content = <<>> THEN <<>> ELSE <<Delta("text", TextPartId, c.content[1])>>
        one(acc, delta) == LET r == process_delta(acc.tr, delta) IN [tr |-> r.tr, parts |-> acc.parts \o r.parts]
        tools == FoldLeft(one, [tr |-> s.calls, parts |-> <<>>], c.calls)
    IN  [s |-> [s EXCEPT !.first = FALSE, !.text_active = @ \/ c.content # <<>>, !.calls = tools.tr,
                         !.received = @ \/ c.reason # <<>>,
                         !.reason = IF c.reason = <<>> THEN @ ELSE map_chat_finish_reason(c.reason[1])],
         parts |-> metadata \o opened \o text \o tools.parts \o url_citations(c.notes)]

\* The older API opens its text with the first chunk.
handle_completion(s, c) ==
    LET opened == IF s.first THEN <<One("metadata", "", <<>>), Start("text", TextPartId, <<>>)>> ELSE <<>>
        text == IF c.content = <<>> \/ c.content[1] = <<>> THEN <<>> ELSE <<Delta("text", TextPartId, c.content[1])>>
    IN  [s |-> [s EXCEPT !.first = FALSE, !.text_active = TRUE, !.received = @ \/ c.reason # <<>>,
                         !.reason = IF c.reason = <<>> THEN @ ELSE map_chat_finish_reason(c.reason[1])],
         parts |-> opened \o text]

handle(s, c) ==
    CASE c.t # "chunk" -> [s |-> [s EXCEPT !.reason = "error"], parts |-> <<ErrorPart>>]
      [] c.t = "chunk" /\ s.api = "chat" -> handle_value(s, c)
      [] c.t = "chunk" /\ s.api = "completion" -> handle_completion(s, c)

\* A stream without a finish reason was cut.
finish(s) ==
    IF ~s.received THEN <<ErrorPart>>
    ELSE (IF s.text_active THEN <<End("text", TextPartId)>> ELSE <<>>) \o flush(s.calls) \o <<Finish(s.reason)>>

\* What shows that the model has begun to answer.
has_output(c) == c.content # <<>> \/ c.calls # <<>> \/ c.notes # <<>>
classify(c) ==
    CASE c.t = "error" -> "Error"
      [] c.t = "chunk" /\ has_output(c) -> "Output"
      [] OTHER -> "Other"
classify_completion(c) ==
    CASE c.t = "error" -> "Error"
      [] c.t = "chunk" /\ c.content # <<>> /\ c.content # <<<<>>>> -> "Output"
      [] OTHER -> "Other"

\* The result of a request that is not streamed: the text, the calls and the
\* sources; of the older API, the text.
Whole(config, response) ==
    LET text == IF response.text = <<>> THEN <<>> ELSE <<One("text", "", response.text)>>
        calls == [n \in DOMAIN response.calls |-> One("call", Orelse(response.calls[n].id, "made"), response.calls[n].name \o response.calls[n].args[1])]
    IN  text \o (IF config.api = "completion" THEN <<>> ELSE calls \o url_citations(response.notes))
             \o <<Finish(map_chat_finish_reason(response.reason))>>

-----------------------------------------------------------------------------

\* What this server is made of: no reasoning, and only what the API has.
Sends(srv, config) ==
    ServerSends(srv, {u \in ChatUnits : IF config.api = "chat" THEN u.k # "reasoning" /\ u.x # "typed" ELSE u.k = "text" /\ u.x = ""})
=============================================================================

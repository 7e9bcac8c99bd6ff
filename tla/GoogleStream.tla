----------------------------- MODULE GoogleStream -----------------------------
(* ferrin-google: the parts of a candidate, streamed and whole.              *)
(* A part is [k, id, name, v, sig] with the signature it may carry; that of  *)
(* a function call has args, a sequence of values at paths, or the values of *)
(* one piece of them (partial) and whether more follow.                      *)
EXTENDS Naturals, Sequences, SequencesExt, StreamParts, TLC

(* The arguments of a function call, streamed as values at paths, and the    *)
(* JSON text they spell. A path is a sequence of segments, keys and indexes; *)
(* a text is a sequence of tokens.                                           *)

LOCAL IsIndex(segment) == segment \in {"[0]", "[1]", "[2]"}
LOCAL KeyToken == [a |-> "a:", b |-> "b:", c |-> "c:"]
LOCAL Quote == <<"''">>
Key(segment) == IF IsIndex(segment) THEN <<>> ELSE <<KeyToken[segment]>>
Bracket(array) == IF array THEN [open |-> <<"[">>, close |-> <<"]">>] ELSE [open |-> <<"{">>, close |-> <<"}">>]

\* The values set so far, each at its path, in the order their paths first came.
NewAccumulator == [args |-> <<>>, text |-> <<>>, stack |-> <<>>, string_open |-> FALSE]

\* One value: [path, v, str, more], more telling that its string goes on.
Json(arg) == IF arg.str THEN Quote \o arg.v \o Quote ELSE arg.v

\* The argument object as JSON text.
RECURSIVE Rendered(_)
Rendered(args) ==
    LET firsts == FoldLeft(LAMBDA seen, a : IF Contains(seen, a.path[1]) THEN seen ELSE Append(seen, a.path[1]), <<>>, args)
        array == IsIndex(firsts[1])
        inner(s) == [i \in DOMAIN SelectSeq(args, LAMBDA a : a.path[1] = s) |->
                       LET a == SelectSeq(args, LAMBDA b : b.path[1] = s)[i] IN [a EXCEPT !.path = Tail(@)]]
        value(s) == IF inner(s)[1].path = <<>> THEN Json(inner(s)[1]) ELSE Rendered(inner(s))
        members == [i \in DOMAIN firsts |-> (IF i = 1 THEN <<>> ELSE <<",">>) \o Key(firsts[i]) \o value(firsts[i])]
    IN  IF args = <<>> THEN <<"{", "}">> ELSE Bracket(array).open \o FlattenSeq(members) \o Bracket(array).close

get_nested(args, path) == \E i \in DOMAIN args : args[i].path = path

set_nested(args, arg) ==
    IF get_nested(args, arg.path)
    THEN [i \in DOMAIN args |-> IF args[i].path = arg.path THEN arg ELSE args[i]]
    ELSE Append(args, arg)

\* Mutant: every container but the root is closed before each value.
common_stack_depth_Root(stack, container) == 1

\* How much of the open containers a path shares, the root included.
common_stack_depth(stack, container) ==
    LET same(n) == \A i \in 1..n : i + 1 \in DOMAIN stack /\ i \in DOMAIN container /\ stack[i + 1].segment = container[i]
    IN  1 + Max({n \in 0..Len(container) : same(n)})

close_down_to(stack, depth) ==
    [stack |-> SubSeq(stack, 1, depth),
     text |-> FlattenSeq([i \in 1..(Len(stack) - depth) |-> Bracket(stack[Len(stack) + 1 - i].array).close])]

LOCAL Comma(stack) == IF Last(stack).count > 0 THEN <<",">> ELSE <<>>
LOCAL Counted(stack) == [stack EXCEPT ![Len(stack)].count = @ + 1]

RECURSIVE open_down_to(_, _)
open_down_to(stack, path) ==
    LET i == Len(stack)
        array == IsIndex(path[i + 1])
        deeper == open_down_to(Append(Counted(stack), [segment |-> path[i], array |-> array, count |-> 0]), path)
    IN  IF i >= Len(path) THEN [stack |-> stack, text |-> <<>>]
        ELSE [stack |-> deeper.stack, text |-> Comma(stack) \o Key(path[i]) \o Bracket(array).open \o deeper.text]

emit_leaf(stack, arg) ==
    Comma(stack) \o Key(Last(arg.path)) \o (IF arg.str /\ arg.more THEN Quote \o arg.v ELSE Json(arg))

\* The text that leads from the last value to a new one, and that value.
LOCAL Entered(acc, arg, text, opened) ==
    [acc |-> [args |-> set_nested(acc.args, arg), stack |-> Counted(opened.stack), string_open |-> arg.str /\ arg.more,
              text |-> acc.text \o text \o opened.text \o emit_leaf(opened.stack, arg)],
     delta |-> text \o opened.text \o emit_leaf(opened.stack, arg)]
LOCAL Led(acc, arg, closed) ==
    Entered(acc, arg, (IF acc.string_open THEN Quote ELSE <<>>) \o (IF acc.stack = <<>> THEN <<"{">> ELSE <<>>) \o closed.text,
            open_down_to(closed.stack, arg.path))
emit_navigation(acc, arg, root) == Led(acc, arg, close_down_to(root, common_stack_depth(root, Front(arg.path))))

\* One value: a string that goes on is appended to the one already there.
process(acc, arg) ==
    LET old == SelectSeq(acc.args, LAMBDA a : a.path = arg.path)[1]
    IN  IF arg.str /\ get_nested(acc.args, arg.path)
        THEN [acc |-> [acc EXCEPT !.args = set_nested(@, [arg EXCEPT !.v = (IF old.str THEN old.v ELSE <<>>) \o @]), !.text = @ \o arg.v], delta |-> arg.v]
        ELSE emit_navigation(acc, arg, IF acc.stack = <<>> THEN <<[segment |-> "", array |-> FALSE, count |-> 0]>> ELSE acc.stack)

\* The final text, and the end of it that has not been emitted.
finalize(acc) ==
    LET final == Rendered(acc.args)
    IN  [json |-> final, closing |-> SubSeq(final, Len(acc.text) + 1, Len(final))]

-----------------------------------------------------------------------------
CONSTANTS
    GoogleUnits,      \* what a response may be made of
    MaxUnits          \* how much of it, at most

map_finish_reason(reason, hasToolCalls) ==
    CASE reason = "STOP" -> IF hasToolCalls THEN "tool_calls" ELSE "stop"
      [] reason = "MAX_TOKENS" -> "length"
      [] reason \in {"SAFETY", "RECITATION"} -> "content_filter"
      [] reason = "MALFORMED_FUNCTION_CALL" -> "error"
      [] OTHER -> "other"

\* The mapper remembers the hosted call a result without an id answers, and
\* counts the ids it made.
Mapper == [last_code |-> "", last_server |-> "", made |-> 0]

Made(m) == <<"made_1", "made_2", "made_3", "made_4", "made_5">>[m.made + 1]
Signature(p) == IF p.sig = "" THEN <<>> ELSE <<p.sig>>

code_execution_call(m, p) ==
    [m |-> [m EXCEPT !.last_code = Made(m), !.made = @ + 1],
     parts |-> <<One("hosted", Made(m), <<CustomName("code_execution")>> \o p.v)>>]

code_execution_result(m, p) ==
    LET id == IF m.last_code = "" THEN Made(m) ELSE m.last_code
    IN  [m |-> [m EXCEPT !.last_code = "", !.made = IF m.last_code = "" THEN @ + 1 ELSE @],
         parts |-> <<One("result", id, <<CustomName("code_execution")>> \o p.v)>>]

server_tool_call(m, p) ==
    [m |-> [m EXCEPT !.last_server = p.id], parts |-> <<One("hosted", p.id, <<p.name>> \o p.v)>>]

server_tool_response(m, p) ==
    [m |-> [m EXCEPT !.last_server = ""],
     parts |-> <<One("result", IF m.last_server = "" THEN p.id ELSE m.last_server, <<p.name>> \o p.v)>>]

\* A file whose data does not decode is an error.
inline_file(p) ==
    IF p.v = <<"garbled">> THEN ErrorPart ELSE One("file", "", <<p.k>> \o p.v)

\* The hosted calls and their results, mapped alike in both modes.
Hosted(m, p) ==
    CASE p.k = "code" -> code_execution_call(m, p)
      [] p.k = "code_result" -> code_execution_result(m, p)
      [] p.k = "server_call" -> server_tool_call(m, p)
      [] p.k = "server_response" -> server_tool_response(m, p)

IsHosted(p) == p.k \in {"code", "code_result", "server_call", "server_response"}
IsFile(p) == p.k \in {"file", "thought_file"}

function_call(p) == One("call", p.id, <<CustomName(p.name)>> \o Rendered(p.args))

\* A signature on its own belongs to the content before it.
attach_signature(content, p) ==
    IF content # <<>> /\ Last(content).k \in {"text", "reasoning"}
    THEN [content EXCEPT ![Len(content)].v = @ \o Signature(p)] ELSE content

\* A stream adds it to the text that is open: calls and hosted parts leave it
\* so, a thought or a file does not.
streamed_signature(content, p) ==
    LET i == SelectLastInSeq(content, LAMBDA c : c.k \in {"text", "reasoning", "file", "error"})
    IN  IF i # 0 /\ content[i].k = "text" THEN [content EXCEPT ![i].v = @ \o Signature(p)] ELSE content

map_part(streamed, acc, p) ==
    LET plus(part) == [acc EXCEPT !.content = Append(@, part)]
        hosted == Hosted(acc.m, p)
    IN  CASE p.k = "signature" -> [acc EXCEPT !.content = IF streamed THEN streamed_signature(@, p) ELSE attach_signature(@, p)]
          [] p.k = "thought" -> plus(One("reasoning", "", p.v \o Signature(p)))
          [] p.k = "text" -> plus(One("text", "", p.v \o Signature(p)))
          [] p.k = "call" -> plus(function_call(p))
          [] IsFile(p) -> plus(inline_file(p))
          [] IsHosted(p) -> [m |-> hosted.m, content |-> acc.content \o hosted.parts]
          [] OTHER -> acc

\* A chunk of the search results is a page, or a document of a store.
sources(grounding) == [i \in DOMAIN grounding |-> One("source", "", <<grounding[i]>>)]
IsUrl(source) == source.v[1] \in {"page_1", "page_2"}

LOCAL Mapped(streamed, response) ==
    LET mapped == FoldLeft(LAMBDA acc, p : map_part(streamed, acc, p), [m |-> Mapper, content |-> <<>>], response.parts)
        calls == \E i \in DOMAIN mapped.content : mapped.content[i].k = "call"
    IN  mapped.content \o sources(response.grounding)
            \o <<Finish(IF response.blocked THEN "content_filter" ELSE map_finish_reason(response.reason, calls))>>

\* A request that is not streamed; and what its stream says, which differs in
\* where a signature on its own belongs.
Whole(config, response) == Mapped(FALSE, response)
Told(config, response) == Mapped(TRUE, response)

-----------------------------------------------------------------------------

Configs == {"none"}

\* GoogleStreamState.
New(config) ==
    [m |-> Mapper, reason |-> "other", received |-> FALSE, has_calls |-> FALSE, metadata |-> FALSE,
     text |-> "", reasoning |-> "", blocks |-> 0, urls |-> {}, active |-> <<>>]

next_block_id(s) == <<"0", "1", "2", "3", "4">>[s.blocks + 1]

end_text(acc) ==
    IF acc.s.text = "" THEN acc
    ELSE [s |-> [acc.s EXCEPT !.text = ""], parts |-> Append(acc.parts, End("text", acc.s.text))]
end_reasoning(acc) ==
    IF acc.s.reasoning = "" THEN acc
    ELSE [s |-> [acc.s EXCEPT !.reasoning = ""], parts |-> Append(acc.parts, End("reasoning", acc.s.reasoning))]

\* Text goes on in its block, or ends the other kind's and starts one.
text_part(acc, p) ==
    LET kind == IF p.k = "thought" THEN "reasoning" ELSE "text"
        ended == IF p.k = "thought" THEN end_text(acc) ELSE end_reasoning(acc)
        id == next_block_id(ended.s)
        ready == IF ended.s[kind] # "" THEN ended
                 ELSE [s |-> [ended.s EXCEPT ![kind] = id, !.blocks = @ + 1], parts |-> Append(ended.parts, Start(kind, id, <<>>))]
        said == [ready EXCEPT !.parts = Append(@, Delta(kind, ready.s[kind], p.v \o Signature(p)))]
    IN  IF p.k # "signature" THEN said
        ELSE IF acc.s.text = "" THEN acc
        ELSE [acc EXCEPT !.parts = Append(@, Delta("text", acc.s.text, Signature(p)))]

content_parts(acc, p) ==
    LET hosted == Hosted(acc.s.m, p)
        ended == end_reasoning(end_text(acc))
    IN  CASE IsHosted(p) -> [s |-> [acc.s EXCEPT !.m = hosted.m], parts |-> acc.parts \o hosted.parts]
          [] p.k \in {"text", "thought", "signature"} -> text_part(acc, p)
          [] IsFile(p) -> [ended EXCEPT !.parts = Append(@, inline_file(p))]
          [] OTHER -> acc

\* The call announced last is complete.
LOCAL Finished(acc, call, final) ==
    LET closing == IF final.closing = <<>> THEN <<>> ELSE <<Delta("input", call.id, final.closing)>>
    IN  [s |-> [acc.s EXCEPT !.active = Front(@), !.has_calls = TRUE],
         parts |-> acc.parts \o closing \o <<End("input", call.id), One("call", call.id, <<call.name>> \o final.json)>>]
finish_active_call(acc) ==
    IF acc.s.active = <<>> THEN acc ELSE Finished(acc, Last(acc.s.active), finalize(Last(acc.s.active).acc))

complete_call(acc, p) ==
    LET call == function_call(p)
        delta == IF p.args = <<>> THEN <<>> ELSE <<Delta("input", p.id, Tail(call.v))>>
    IN  [s |-> [acc.s EXCEPT !.has_calls = TRUE],
         parts |-> acc.parts \o <<Start("input", p.id, <<>>)>> \o delta \o <<End("input", p.id), call>>]

is_streaming_fragment(p) == p.partial # <<>> \/ (p.name # "" /\ p.more)
is_terminal(p) == p.name = "" /\ p.args = <<>> /\ p.partial = <<>> /\ ~p.more
completes_stream(p) == ~p.more /\ \A i \in DOMAIN p.partial : ~p.partial[i].more

\* A call is announced by its name; values that arrive belong to the last one.
announce(acc, p) ==
    IF p.name = "" THEN acc
    ELSE [s |-> [acc.s EXCEPT !.active = Append(@, [id |-> p.id, name |-> CustomName(p.name), acc |-> NewAccumulator])],
          parts |-> Append(acc.parts, Start("input", p.id, <<>>))]
LOCAL Grown(acc, filled) ==
    [s |-> [acc.s EXCEPT !.active[Len(acc.s.active)].acc = filled.acc],
     parts |-> IF filled.delta = <<>> THEN acc.parts ELSE Append(acc.parts, Delta("input", Last(acc.s.active).id, filled.delta))]
LOCAL After(delta, r) == [r EXCEPT !.delta = delta \o @]
accumulate(acc, p) ==
    IF p.partial = <<>> \/ acc.s.active = <<>> THEN acc
    ELSE Grown(acc, FoldLeft(LAMBDA a, arg : After(a.delta, process(a.acc, arg)), [acc |-> Last(acc.s.active).acc, delta |-> <<>>], p.partial))
fragment_part(acc, p) == IF p.partial # <<>> /\ completes_stream(p) THEN finish_active_call(acc) ELSE acc

function_call_part(acc, p) ==
    CASE p.k # "call" -> acc
      [] p.k = "call" /\ is_streaming_fragment(p) -> fragment_part(accumulate(announce(acc, p), p), p)
      [] p.k = "call" /\ is_terminal(p) -> finish_active_call(acc)
      [] OTHER -> IF p.name = "" THEN acc ELSE complete_call(acc, p)

\* The sources of a chunk that have not been sent.
new_sources(s, grounding) ==
    LET one(acc, source) == IF IsUrl(source) /\ source.v[1] \in acc.s.urls THEN acc
                            ELSE [s |-> [acc.s EXCEPT !.urls = @ \cup {source.v[1]}], parts |-> Append(acc.parts, source)]
    IN  FoldLeft(one, [s |-> s, parts |-> <<>>], sources(grounding))

LOCAL Reasoned(said, c) ==
    LET reason == IF c.reason # "" THEN map_finish_reason(c.reason, said.s.has_calls) ELSE "content_filter"
    IN  IF c.reason = "" /\ ~c.blocked THEN said
        ELSE [said EXCEPT !.s.received = TRUE, !.s.reason = reason]
handle_chunk(s, c) ==
    LET metadata == IF s.metadata THEN <<>> ELSE <<One("metadata", "", <<>>)>>
        found == new_sources([s EXCEPT !.metadata = TRUE], c.grounding)
        began == [found EXCEPT !.parts = metadata \o @]
    IN  Reasoned(FoldLeft(function_call_part, FoldLeft(content_parts, began, c.parts), c.parts), c)

handle(s, c) ==
    IF c.t = "bad" THEN [s |-> s, parts |-> <<ErrorPart>>] ELSE handle_chunk(s, c)

\* A stream without a finish reason, or with a call that was not completed, was cut.
finish(s) ==
    IF ~s.received \/ s.active # <<>> THEN <<ErrorPart>>
    ELSE end_reasoning(end_text([s |-> s, parts |-> <<>>])).parts \o <<Finish(s.reason)>>

-----------------------------------------------------------------------------

(* The server, as the adapter meets it: a unit is text, a thought, a file, a *)
(* hosted call or result, a search result or a call, in one or more pieces.  *)
(* A chunk carries one piece, or two.                                        *)

NoPart == [k |-> "none", id |-> "", name |-> "", v |-> <<>>, sig |-> "", args |-> <<>>, partial |-> <<>>, more |-> FALSE]
Part(k, id, v) == [NoPart EXCEPT !.k = k, !.id = id, !.v = v]
Piece(parts, grounding, reason) == [parts |-> parts, grounding |-> grounding, reason |-> reason]

\* The pieces of a string value all but say that it goes on.
Values(args) ==
    FlattenSeq([i \in DOMAIN args |-> [n \in DOMAIN args[i].v |->
        [path |-> args[i].path, str |-> args[i].str, v |-> <<args[i].v[n]>>, more |-> n < Len(args[i].v)]]])

\* A unit in pieces; id is what its call is known by.
Pieces(u, id) ==
    LET spoken(n) == [Part(u.k, id, <<u.v[n]>>) EXCEPT !.sig = IF n = Len(u.v) /\ u.x = "sig" THEN "sig" ELSE ""]
        alone == IF u.x = "alone" THEN <<Piece(<<[Part("signature", id, <<>>) EXCEPT !.sig = "sig"]>>, <<>>, "")>> ELSE <<>>
        call == [Part("call", id, <<>>) EXCEPT !.name = u.name]
        more == [Part("call", "", <<>>) EXCEPT !.more = TRUE]
        fragment(n) == [IF n = 1 /\ u.x = "joined" THEN [call EXCEPT !.more = TRUE] ELSE more
                        EXCEPT !.partial = <<Values(u.args)[n]>>, !.more = ~(u.x = "joined" /\ n = Len(Values(u.args)))]
        each(ps) == [n \in DOMAIN ps |-> Piece(<<ps[n]>>, <<>>, "")]
        pieces == CASE
             u.k \in {"text", "thought"} -> each([n \in DOMAIN u.v |-> spoken(n)])
          [] u.k = "grounding" -> <<Piece(<<>>, u.v, "")>>
          [] u.k = "call" /\ u.x = "" -> each(<<[call EXCEPT !.args = u.args]>>)
          [] u.k = "call" /\ u.x = "stepwise" ->
                each(<<[call EXCEPT !.more = TRUE]>> \o [n \in DOMAIN Values(u.args) |-> fragment(n)] \o <<Part("call", "", <<>>)>>)
          [] u.k = "call" /\ u.x = "joined" -> each([n \in DOMAIN Values(u.args) |-> fragment(n)])
          [] OTHER -> each(<<[Part(u.k, id, u.v) EXCEPT !.name = u.name]>>)
    IN  pieces \o alone

Server == [phase |-> "open", units |-> <<>>, sent |-> 0, reason |-> "", blocked |-> FALSE]

LOCAL UnitId(i) == <<"unit_1", "unit_2", "unit_3", "unit_4">>[i]
LOCAL Urls(srv) ==
    FlattenSeq([i \in DOMAIN srv.units |->
        IF srv.units[i].k = "grounding" THEN SelectSeq(srv.units[i].v, LAMBDA v : v # "document") ELSE <<>>])

\* The units that may follow: what was found is found once.
NewUnits(srv) ==
    {u \in GoogleUnits : u.k = "grounding" => \A i \in DOMAIN srv.units : srv.units[i].k # "grounding"}

\* The next piece: of the unit being sent, of a new one, or the end, which
\* names the pages again.
PieceOf(srv) ==
    LET n == Len(srv.units)
        pieces == Pieces(srv.units[n], UnitId(n))
        first(u) == Pieces(u, UnitId(n + 1))[1]
    IN  IF srv.phase = "over" THEN {}
        ELSE IF n > 0 /\ srv.sent < Len(pieces) THEN {<<pieces[srv.sent + 1], [srv EXCEPT !.sent = @ + 1]>>}
        ELSE {<<first(u), [srv EXCEPT !.units = Append(@, u), !.sent = 1]>> : u \in IF n < MaxUnits THEN NewUnits(srv) ELSE {}}
             \cup {<<Piece(<<>>, Urls(srv), r), [srv EXCEPT !.phase = "over", !.reason = r]>> :
                      r \in {"STOP", "MAX_TOKENS", "SAFETY", "MALFORMED_FUNCTION_CALL", "OTHER"}}

Chunk(piece) == [t |-> "chunk", parts |-> piece.parts, grounding |-> piece.grounding, reason |-> piece.reason, blocked |-> FALSE]

Sends(srv, config) ==
    LET two(p, q) == Piece(p.parts \o q.parts, p.grounding \o q.grounding, q.reason)
        singles == PieceOf(srv)
        doubles == UNION {{<<two(p[1], q[1]), q[2]>> : q \in PieceOf(p[2])} : p \in singles}
    IN  {<<Chunk(p[1]), p[2]>> : p \in singles \cup doubles}
        \cup IF srv = Server THEN {<<[t |-> "chunk", parts |-> <<>>, grounding |-> <<>>, reason |-> "", blocked |-> TRUE],
                                     [srv EXCEPT !.phase = "over", !.blocked = TRUE]>>} ELSE {}

\* The same response when it is not streamed.
Sent(srv) ==
    LET alone(u, id) == IF u.x = "alone" THEN <<[Part("signature", id, <<>>) EXCEPT !.sig = "sig"]>> ELSE <<>>
        whole(u, id) ==
            CASE u.k \in {"text", "thought"} -> <<[Part(u.k, id, u.v) EXCEPT !.sig = IF u.x = "sig" THEN "sig" ELSE ""]>>
              [] u.k = "call" -> <<[Part("call", id, <<>>) EXCEPT !.name = u.name,
                                      !.args = [i \in DOMAIN u.args |-> u.args[i] @@ [more |-> FALSE]]]>>
              [] u.k = "grounding" -> <<>>
              [] OTHER -> <<[Part(u.k, id, u.v) EXCEPT !.name = u.name]>>
    IN  [parts |-> FlattenSeq([i \in DOMAIN srv.units |-> whole(srv.units[i], UnitId(i)) \o alone(srv.units[i], UnitId(i))]),
         grounding |-> FlattenSeq([i \in DOMAIN srv.units |-> IF srv.units[i].k = "grounding" THEN srv.units[i].v ELSE <<>>]),
         reason |-> srv.reason, blocked |-> srv.blocked]
=============================================================================

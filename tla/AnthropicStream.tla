--------------------------- MODULE AnthropicStream ---------------------------
(* ferrin-anthropic: the content of a message, streamed and whole.           *)
(* A block is [k, id, name, v, x, initial]: its type, the id of a call, the  *)
(* name of a tool, its text, thinking or input, what else it carries (a      *)
(* citation, a signature, the outcome of a result) and the input its start   *)
(* already has when it is streamed.                                          *)
EXTENDS StreamParts, TLC

CONSTANTS
    AnthropicBlocks,      \* the blocks a message may be made of
    MaxBlocks             \* how many it has at most

LOCAL Id(i) == <<"0", "1", "2", "3">>[i]

Typed(type, v) == <<"{", type>> \o Tail(v)

\* Injects the type into a code execution input that has code and no type.
programmatic_tool_call(v) ==
    IF Contains(v, "code") /\ ~Contains(v, "programmatic") THEN Typed("programmatic", v) ELSE v

Mapper(config) ==
    [json_tool |-> config.json_tool, from_tool |-> FALSE, docs |-> config.docs,
     mcp |-> <<>>, search |-> <<>>]

\* A citation of a page is a source only when the document is known.
CitationSource(m, cite) ==
    IF cite = "web" \/ (cite = "page" /\ m.docs > 0) THEN <<One("source", "", <<cite>>)>> ELSE <<>>

ResultNames ==
    [web_fetch_result |-> "web_fetch", web_search_result |-> "web_search",
     code_result |-> "code_execution", bash_result |-> "code_execution", advisor_result |-> "advisor"]

\* The name a result is reported under: an MCP or tool search result has that
\* of the call it answers, if the mapper has seen one.
ResultName(m, b) ==
    CASE b.k = "mcp_result" -> IF b.id \in DOMAIN m.mcp THEN m.mcp[b.id] ELSE "mcp"
      [] b.k = "search_result" -> IF b.id \in DOMAIN m.search THEN m.search[b.id] ELSE "tool_search_tool_regex"
      [] OTHER -> CustomName(ResultNames[b.k])

\* The parts of a result block. A fetched page is a document citations may
\* point at, the pages of a search are sources; a fetch or an execution whose
\* content is of no known type is nothing, others are errors then.
map_result_block(m, b) ==
    LET result == One("result", b.id, <<ResultName(m, b), IF b.x = "ok" \/ b.k \in {"mcp_result", "bash_result"} THEN b.x ELSE "error">>)
    IN  [m |-> IF b.k = "web_fetch_result" /\ b.x = "ok" THEN [m EXCEPT !.docs = @ + 1] ELSE m,
         parts |-> IF b.k \in {"web_fetch_result", "code_result"} /\ b.x = "odd" THEN <<>>
                   ELSE IF b.k = "web_search_result" /\ b.x = "ok" THEN <<result, One("source", "", <<"result">>)>>
                   ELSE <<result>>]

IsResult(b) == b.k \in DOMAIN ResultNames \cup {"mcp_result", "search_result"}

mcp_tool_use(m, b) ==
    [m |-> [m EXCEPT !.mcp = b.id :> b.name @@ @], parts |-> <<One("hosted", b.id, <<b.name>> \o b.v)>>]

ServerTools == {"bash_code_execution", "text_editor_code_execution", "code_execution", "web_search",
                "web_fetch", "tool_search_tool_bm25", "tool_search_tool_regex", "advisor"}

provider_name(name) ==
    IF name \in {"bash_code_execution", "text_editor_code_execution"} THEN "code_execution" ELSE name

remember_tool_search(m, b) ==
    IF b.name \in {"tool_search_tool_bm25", "tool_search_tool_regex"}
    THEN [m EXCEPT !.search = b.id :> b.name @@ @] ELSE m

server_tool_use(m, b) ==
    LET input == CASE b.name \in {"bash_code_execution", "text_editor_code_execution"} -> Typed(b.name, b.v)
                   [] b.name = "code_execution" -> programmatic_tool_call(b.v)
                   [] OTHER -> b.v
    IN  [m |-> remember_tool_search(m, b),
         parts |-> IF b.name \notin ServerTools THEN <<>>
                   ELSE <<One("hosted", b.id, <<CustomName(provider_name(b.name))>> \o input)>>]

\* One block of a complete message.
map_block(m, b) ==
    CASE b.k = "text" ->
            [m |-> m, parts |-> IF m.json_tool THEN <<>> ELSE <<One("text", "", b.v)>> \o CitationSource(m, b.x)]
      [] b.k = "thinking" -> [m |-> m, parts |-> <<One("reasoning", "", b.v \o (IF b.x = "" THEN <<>> ELSE <<b.x>>))>>]
      [] b.k = "redacted" -> [m |-> m, parts |-> <<One("reasoning", "", b.v)>>]
      [] b.k = "compaction" -> [m |-> m, parts |-> <<One("text", "", <<"compaction">> \o b.v)>>]
      [] b.k = "container_upload" -> [m |-> m, parts |-> <<One("custom", "", b.v)>>]
      [] b.k = "tool_use" /\ m.json_tool /\ b.name = "json" ->
            [m |-> [m EXCEPT !.from_tool = TRUE], parts |-> <<One("text", "", b.v)>>]
      [] b.k = "tool_use" /\ ~(m.json_tool /\ b.name = "json") ->
            [m |-> m, parts |-> <<One("call", b.id, <<CustomName(b.name)>> \o b.v)>>]
      [] b.k = "server_tool_use" -> server_tool_use(m, b)
      [] b.k = "mcp_tool_use" -> mcp_tool_use(m, b)
      [] IsResult(b) -> map_result_block(m, b)
      [] OTHER -> [m |-> m, parts |-> <<>>]

map_stop_reason(reason, fromTool) ==
    CASE reason \in {"end_turn", "pause_turn", "stop_sequence"} -> "stop"
      [] reason = "refusal" -> "content_filter"
      [] reason = "tool_use" -> IF fromTool THEN "stop" ELSE "tool_calls"
      [] reason = "max_tokens" -> "length"
      [] OTHER -> "other"

LOCAL Mapped(map(_, _), config, response) ==
    LET step(acc, b) == LET r == map(acc.m, b) IN [m |-> r.m, parts |-> acc.parts \o r.parts]
        all == FoldLeft(step, [m |-> Mapper(config), parts |-> <<>>], response.blocks)
    IN  all.parts \o <<Finish(map_stop_reason(response.reason, all.m.from_tool))>>

\* The result of a request that is not streamed.
Whole(config, response) == Mapped(map_block, config, response)

\* Where a stream says something else: it has no part for an upload, and the
\* text that is dropped in JSON mode cites its sources all the same.
streamed_block(m, b) ==
    CASE b.k = "container_upload" -> [m |-> m, parts |-> <<>>]
      [] b.k = "text" /\ m.json_tool -> [m |-> m, parts |-> CitationSource(m, b.x)]
      [] OTHER -> map_block(m, b)
Told(config, response) == Mapped(streamed_block, config, response)

-----------------------------------------------------------------------------

Configs == [json_tool : BOOLEAN, docs : {0, 1}]

New(config) ==
    [mapper |-> Mapper(config), blocks |-> <<>>, reason |-> "other",
     message |-> "", invalid |-> FALSE]

\* What a block keeps between its start and its stop.
ToolBlock(b, kind, type, initial, first) ==
    [k |-> kind, id |-> b.id, name |-> b.name, type |-> type, input |-> initial, first |-> first]
PlainBlock(kind) == [k |-> kind]

message_start(s, c) ==
    LET opened == [s EXCEPT !.message = c.id,
                            !.reason = IF c.reason = "" THEN @ ELSE map_stop_reason(c.reason, s.mapper.from_tool)]
        uses == SelectSeq(c.content, LAMBDA b : b.k = "tool_use")
    IN  CASE s.message = c.id -> [s |-> s, parts |-> <<>>]
          [] s.message \notin {"", c.id} -> [s |-> [s EXCEPT !.invalid = TRUE], parts |-> <<ErrorPart>>]
          [] s.message = "" ->
                [s |-> opened, parts |-> <<One("metadata", "", <<c.id>>)>> \o FlattenSeq([i \in 1..Len(uses) |->
                                            WholeCall(uses[i].id, CustomName(uses[i].name), uses[i].v)])]

\* The start of a block: what it opens and what it keeps for its index.
block_start(s, i, b) ==
    LET keep(block) == [s EXCEPT !.blocks = i :> block @@ @]
        server == [s EXCEPT !.mapper = remember_tool_search(@, b)]
        type == CASE b.name \in {"bash_code_execution", "text_editor_code_execution"} -> b.name
                  [] b.name = "code_execution" -> "programmatic"
                  [] OTHER -> ""
        initial == CASE b.name = "advisor" -> <<"{", "}">>
                     [] b.name \in {"tool_search_tool_bm25", "tool_search_tool_regex"} -> <<>>
                     [] OTHER -> b.initial
        tool(name, first, t, input) == ToolBlock([b EXCEPT !.name = CustomName(name)], "call", t, input, first)
    IN  CASE b.k = "text" /\ s.mapper.json_tool -> [s |-> s, parts |-> <<>>]
          [] b.k = "text" /\ ~s.mapper.json_tool -> [s |-> keep(PlainBlock("text")), parts |-> <<Start("text", Id(i), <<>>)>>]
          [] b.k = "thinking" -> [s |-> keep(PlainBlock("thinking")), parts |-> <<Start("reasoning", Id(i), <<>>)>>]
          [] b.k = "redacted" -> [s |-> keep(PlainBlock("redacted")), parts |-> <<Start("reasoning", Id(i), b.v)>>]
          [] b.k = "compaction" -> [s |-> keep(PlainBlock("text")), parts |-> <<Start("text", Id(i), <<"compaction">>)>>]
          [] b.k = "tool_use" /\ s.mapper.json_tool /\ b.name = "json" ->
                [s |-> [keep(PlainBlock("text")) EXCEPT !.mapper.from_tool = TRUE], parts |-> <<Start("text", Id(i), <<>>)>>]
          [] b.k = "tool_use" /\ ~(s.mapper.json_tool /\ b.name = "json") ->
                [s |-> keep(tool(b.name, b.initial = <<>>, "", b.initial)), parts |-> <<Start("input", b.id, <<>>)>>]
          [] b.k = "server_tool_use" /\ b.name \in ServerTools ->
                [s |-> [server EXCEPT !.blocks =
                           i :> [tool(provider_name(b.name), initial = <<>> \/ b.name = "advisor", type, initial) EXCEPT !.k = "hosted"] @@ @],
                 parts |-> <<Start("input", b.id, <<>>)>>]
          [] b.k = "mcp_tool_use" ->
                LET r == mcp_tool_use(s.mapper, b) IN [s |-> [s EXCEPT !.mapper = r.m], parts |-> r.parts]
          [] IsResult(b) ->
                LET r == map_result_block(s.mapper, b) IN [s |-> [s EXCEPT !.mapper = r.m], parts |-> r.parts]
          [] OTHER -> [s |-> s, parts |-> <<>>]

block_stop(s, i) ==
    LET b == s.blocks[i]
        gone == [s EXCEPT !.blocks = [j \in DOMAIN @ \ {i} |-> @[j]]]
        json == IF b.input = <<>> THEN <<"{", "}">> ELSE b.input
        input == IF b.k = "hosted" /\ b.name = CustomName("code_execution") THEN programmatic_tool_call(json) ELSE json
    IN  CASE i \notin DOMAIN s.blocks -> [s |-> s, parts |-> <<>>]
          [] i \in DOMAIN s.blocks /\ b.k = "text" -> [s |-> gone, parts |-> <<End("text", Id(i))>>]
          [] i \in DOMAIN s.blocks /\ b.k \in {"thinking", "redacted"} -> [s |-> gone, parts |-> <<End("reasoning", Id(i))>>]
          [] i \in DOMAIN s.blocks /\ b.k \in {"call", "hosted"} ->
                [s |-> gone, parts |-> <<End("input", b.id), One(b.k, b.id, <<b.name>> \o input)>>]

\* The first piece of an input whose type the adapter adds starts over with it.
input_delta(b, v) == IF b.first /\ b.type # "" THEN Typed(b.type, v) ELSE v

block_delta(s, i, c) ==
    LET kept == IF i \in DOMAIN s.blocks THEN s.blocks[i].k ELSE "none"
        same(parts) == [s |-> s, parts |-> parts]
        calls == kept \in {"call", "hosted"} /\ ~s.mapper.from_tool
        delta == input_delta(s.blocks[i], c.v)
    IN  CASE c.d = "text" -> same(IF s.mapper.json_tool THEN <<>> ELSE <<Delta("text", Id(i), c.v)>>)
          [] c.d = "compaction" -> same(<<Delta("text", Id(i), c.v)>>)
          [] c.d = "thinking" -> same(<<Delta("reasoning", Id(i), c.v)>>)
          [] c.d = "signature" -> same(IF kept = "thinking" THEN <<Delta("reasoning", Id(i), c.v)>> ELSE <<>>)
          [] c.d = "citation" -> same(CitationSource(s.mapper, c.v[1]))
          [] c.d = "input" /\ (c.v = <<>> \/ ~calls) ->
                same(IF c.v # <<>> /\ s.mapper.from_tool /\ kept = "text" THEN <<Delta("text", Id(i), c.v)>> ELSE <<>>)
          [] c.d = "input" /\ c.v # <<>> /\ calls ->
                [s |-> [s EXCEPT !.blocks[i].input = @ \o delta, !.blocks[i].first = FALSE],
                 parts |-> <<Delta("input", s.blocks[i].id, delta)>>]

\* StreamMachine::handle of the adapter, and its finish, which adds nothing.
handle(s, c) ==
    CASE s.invalid \/ c.t = "ping" -> [s |-> s, parts |-> <<>>]
      [] ~s.invalid /\ c.t = "message_start" -> message_start(s, c)
      [] ~s.invalid /\ c.t = "block_start" -> block_start(s, c.i, c.b)
      [] ~s.invalid /\ c.t = "block_delta" -> block_delta(s, c.i, c)
      [] ~s.invalid /\ c.t = "block_stop" -> block_stop(s, c.i)
      [] ~s.invalid /\ c.t = "message_delta" ->
            [s |-> [s EXCEPT !.reason = map_stop_reason(c.reason, s.mapper.from_tool)], parts |-> <<>>]
      [] ~s.invalid /\ c.t = "message_stop" -> [s |-> [s EXCEPT !.message = ""], parts |-> <<Finish(s.reason)>>]
      [] ~s.invalid /\ c.t \in {"error", "bad"} -> [s |-> s, parts |-> <<ErrorPart>>]

finish(s) == <<>>

classify(c) == IF c.t = "error" THEN "Error" ELSE "Output"
-----------------------------------------------------------------------------

(* The server, as the adapter meets it: a message of blocks sent one after   *)
(* the other, each started, sent in pieces and stopped; pings and a repeated *)
(* message_start in between.                                                 *)

\* The pieces of a block after its start.
LOCAL Piece(d, v) == [d |-> d, v |-> v]
Pieces(b) ==
    LET extra(d) == IF b.x = "" THEN <<>> ELSE <<Piece(d, <<b.x>>)>>
        each(d) == [n \in 1..Len(b.v) |-> Piece(d, <<b.v[n]>>)]
    IN  CASE b.k = "text" -> each("text") \o extra("citation")
          [] b.k = "thinking" -> each("thinking") \o extra("signature")
          [] b.k = "compaction" -> <<Piece("compaction", b.v)>>
          [] b.k \in {"tool_use", "server_tool_use"} /\ b.initial = <<>> /\ b.v # <<"{", "}">> ->
                <<Piece("input", <<>>), Piece("input", SubSeq(b.v, 1, 2)), Piece("input", SubSeq(b.v, 3, Len(b.v)))>>
          [] OTHER -> <<>>

Server == [phase |-> "new", blocks |-> <<>>, sent |-> 0, content |-> 0, reason |-> ""]

\* The calls a result may answer: those of this message, or one of the turn
\* the message continues.
Answered(srv, b) ==
    LET answers(c) == CASE b.k = "mcp_result" -> c.k = "mcp_tool_use"
                        [] b.k = "search_result" -> c.name \in {"tool_search_tool_bm25", "tool_search_tool_regex"}
                        [] b.k = "bash_result" -> c.name = "bash_code_execution"
                        [] OTHER -> c.name = ResultNames[b.k]
    IN  {srv.blocks[i].id : i \in {j \in DOMAIN srv.blocks : answers(srv.blocks[j])}} \cup {"earlier"}

\* A new block: calls get an id of their own. The json tool is only there in
\* its mode; it is the last block, as the request then forbids parallel calls.
NewBlocks(srv, config) ==
    LET id == <<"call_1", "call_2", "call_3", "call_4">>[Len(srv.blocks) + 1]
    IN  UNION { IF IsResult(b) THEN {b @@ [id |-> a] : a \in Answered(srv, b)} ELSE {b @@ [id |-> id]} :
                b \in {b \in AnthropicBlocks : config.json_tool \/ b.name # "json"} }

\* A message_start may bring tool calls of a program that goes on.
Continued == {<<>>, <<[k |-> "tool_use", id |-> "call_0", name |-> "tool", v |-> <<"{", "a", "}">>, x |-> "", initial |-> <<>>]>>}

\* What the server sends next, and its state then. Blocks are numbered from 1.
Sends(srv, config) ==
    LET n == Len(srv.blocks)
        i == n - srv.content
        b == srv.blocks[n]
        jsonGiven == \E j \in DOMAIN srv.blocks : srv.blocks[j].name = "json"
        reasons == {"end_turn", "tool_use", "refusal", "max_tokens"}
    IN  CASE srv.phase = "new" ->
                {<<[t |-> "message_start", id |-> "m1", content |-> content, reason |-> ""],
                   [srv EXCEPT !.phase = "between", !.blocks = content, !.content = Len(content)]>> : content \in Continued}
          [] srv.phase = "between" ->
                {<<[t |-> "block_start", i |-> i + 1, b |-> new], [srv EXCEPT !.phase = "block", !.blocks = Append(@, new), !.sent = 0]>> :
                   new \in IF n < MaxBlocks /\ ~jsonGiven THEN NewBlocks(srv, config) ELSE {}}
                \cup {<<[t |-> "message_delta", reason |-> r], [srv EXCEPT !.phase = "last", !.reason = r]>> : r \in reasons}
                \cup {<<[t |-> "ping"], srv>>}
                \cup {<<[t |-> "message_start", id |-> m, content |-> <<>>, reason |-> ""],
                         [srv EXCEPT !.phase = IF m = "m1" THEN @ ELSE "lost"]>> : m \in {"m1", "m2"}}
          [] srv.phase = "block" /\ srv.sent < Len(Pieces(b)) ->
                {<<[t |-> "block_delta", i |-> i, d |-> Pieces(b)[srv.sent + 1].d, v |-> Pieces(b)[srv.sent + 1].v],
                   [srv EXCEPT !.sent = @ + 1]>>}
          [] srv.phase = "block" /\ srv.sent = Len(Pieces(b)) ->
                {<<[t |-> "block_stop", i |-> i], [srv EXCEPT !.phase = "between", !.sent = 0]>>}
          [] srv.phase = "last" -> {<<[t |-> "message_stop"], [srv EXCEPT !.phase = "over"]>>}
          [] OTHER -> {}

Sent(srv) == [blocks |-> srv.blocks, reason |-> srv.reason]
=============================================================================

----------------------------- MODULE PartStreams -----------------------------
(* One request to a streaming model: the server's frames, the check for an   *)
(* early error, the adapter's machine and the driver that sends its parts.   *)
EXTENDS StreamParts

CONSTANTS
    Providers,                      \* the adapters compared
    AnthropicBlocks, MaxBlocks,     \* what the responses are made of
    GoogleUnits, MaxUnits,
    ResponseItems, MaxItems,
    ChatUnits, MaxChatUnits,
    InteractionSteps, MaxSteps,
    LayerUnits, MaxLayerUnits, DeltaSizes, SuffixBuffer

Anthropic == INSTANCE AnthropicStream
Google == INSTANCE GoogleStream
Responses == INSTANCE ResponsesStream
Chat == INSTANCE ChatStream
Compatible == INSTANCE CompatibleStream
Interactions == INSTANCE InteractionsStream
Layer == INSTANCE StreamLayers

VARIABLES
    provider,   \* the adapter of this behaviour
    config,     \* what its request asked for
    srv,        \* the server, and what it has sent of its response
    fault,      \* what came instead of a frame, "ended" after the end, or "none"
    phase,      \* "checking", "streaming", "failed", "ended"
    accepted,   \* the request was acknowledged: "no", "yes", or "waited" a moment since
    buffer,     \* chunks the check read, to be replayed
    machine,    \* the adapter's state
    open,       \* what the driver has seen opened
    out         \* the parts sent on

vars == <<provider, config, srv, fault, phase, accepted, buffer, machine, open, out>>

Configs(p) ==
    CASE p = "anthropic" -> Anthropic!Configs
      [] p = "google" -> Google!Configs
      [] p = "responses" -> Responses!Configs
      [] p = "chat" -> Chat!Configs
      [] p = "compatible" -> Compatible!Configs
      [] p = "interactions" -> Interactions!Configs
      [] p \in Layer!Layers -> Layer!Configs(p)
Server(p) ==
    CASE p = "anthropic" -> Anthropic!Server
      [] p = "google" -> Google!Server
      [] p = "responses" -> Responses!Server
      [] p = "chat" -> Chat!Server
      [] p = "compatible" -> Compatible!Server
      [] p = "interactions" -> Interactions!Server
      [] p \in Layer!Layers -> Layer!Server
Sends(p, s, c) ==
    CASE p = "anthropic" -> Anthropic!Sends(s, c)
      [] p = "google" -> Google!Sends(s, c)
      [] p = "responses" -> Responses!Sends(s, c)
      [] p = "chat" -> Chat!Sends(s, c)
      [] p = "compatible" -> Compatible!Sends(s, c)
      [] p = "interactions" -> Interactions!Sends(s, c)
      [] p \in Layer!Layers -> Layer!Sends(s, c)
Sent(p, s) ==
    CASE p = "anthropic" -> Anthropic!Sent(s)
      [] p = "google" -> Google!Sent(s)
      [] p = "responses" -> Responses!Sent(s)
      [] p = "chat" -> Chat!Sent(s)
      [] p = "compatible" -> Compatible!Sent(s)
      [] p = "interactions" -> Interactions!Sent(s)
      [] p \in Layer!Layers -> Layer!Sent(s)
Whole(p, c, response) ==
    CASE p = "anthropic" -> Anthropic!Whole(c, response)
      [] p = "google" -> Google!Whole(c, response)
      [] p = "responses" -> Responses!Whole(c, response)
      [] p = "chat" -> Chat!Whole(c, response)
      [] p = "compatible" -> Compatible!Whole(c, response)
      [] p = "interactions" -> Interactions!Whole(c, response)
      [] p \in Layer!Layers -> Layer!Whole(c, response)
\* What a stream says of the same response, where that is something else.
Told(p, c, response) ==
    CASE p = "anthropic" -> Anthropic!Told(c, response)
      [] p = "google" -> Google!Told(c, response)
      [] p = "responses" -> Responses!Told(c, response)
      [] p \in Layer!Layers -> Layer!Told(c, response)
      [] OTHER -> Whole(p, c, response)
NewMachine(p, c) ==
    CASE p = "anthropic" -> Anthropic!New(c)
      [] p = "google" -> Google!New(c)
      [] p = "responses" -> Responses!New(c)
      [] p = "chat" -> Chat!New(c)
      [] p = "compatible" -> Compatible!New(c)
      [] p = "interactions" -> Interactions!New(c)
      [] p \in Layer!Layers -> Layer!New(c)
Handle(p, m, c) ==
    CASE p = "anthropic" -> Anthropic!handle(m, c)
      [] p = "google" -> Google!handle(m, c)
      [] p = "responses" -> Responses!handle(m, c)
      [] p = "chat" -> Chat!handle(m, c)
      [] p = "compatible" -> Compatible!handle(m, c)
      [] p = "interactions" -> Interactions!handle(m, c)
      [] p \in Layer!Layers -> Layer!handle(m, c)
Finishes(p, m) ==
    CASE p = "anthropic" -> Anthropic!finish(m)
      [] p = "google" -> Google!finish(m)
      [] p = "responses" -> Responses!finish(m)
      [] p = "chat" -> Chat!finish(m)
      [] p = "compatible" -> IF m.api = "chat" THEN Compatible!finish(m) ELSE Compatible!finish_completion(m)
      [] p = "interactions" -> Interactions!finish(m)
      [] p \in Layer!Layers -> Layer!finish(m)

\* The adapters that check their first frames, and what a frame says to them.
Checked == {"anthropic", "responses", "chat", "compatible"}
classify(p, c) ==
    CASE p = "anthropic" -> Anthropic!classify(c)
      [] p = "responses" -> Responses!classify(c)
      [] p = "chat" -> IF config.api = "chat" THEN Chat!classify(c) ELSE Chat!classify_completion(c)
      [] p = "compatible" -> IF config.api = "chat" THEN Compatible!classify(c) ELSE Compatible!classify_completion(c)

\* What may arrive in the place of a frame.
Faults(p) ==
    IF p \in Layer!Layers THEN Layer!Errors(srv, config) ELSE
    {[t |-> "bad"]} \cup (IF p = "google" THEN {} ELSE {[t |-> "error"]})
        \cup (IF p = "responses" THEN {[t |-> "failed"]} ELSE {})
        \cup (IF p = "interactions" THEN {[t |-> "stop", i |-> MaxSteps + 1]} ELSE {})

Init ==
    /\ provider \in Providers
    /\ config \in Configs(provider)
    /\ srv = Server(provider)
    /\ fault = "none"
    /\ phase = IF provider \in Checked THEN "checking" ELSE "streaming"
    /\ accepted = "no"
    /\ buffer = <<>>
    /\ machine = NewMachine(provider, config)
    /\ open = NothingOpen
    /\ out = <<>>

\* What may arrive: the next frame of the response, an error frame or one that
\* does not parse. Nothing follows an error.
Arrivals ==
    IF fault # "none" THEN {}
    ELSE {[frame |-> n[1], srv |-> n[2], fault |-> "none"] : n \in Sends(provider, srv, config)}
         \cup {[frame |-> c, srv |-> srv, fault |-> c.t] : c \in Faults(provider)}
Arrives(a) == srv' = a.srv /\ fault' = a.fault

\* The stream may end after any frame: the response is complete, or was cut.
Ended == fault' = IF fault = "none" THEN "ended" ELSE fault

\* fail_on_early_error reads frames until the first output, error or failure.
Check ==
    /\ phase = "checking"
    /\ \E a \in Arrivals :
         LET kind == IF a.frame.t = "bad" THEN "Output" ELSE classify(provider, a.frame) IN
         /\ Arrives(a)
         /\ phase' = CASE kind = "Error" -> "failed" [] kind = "Output" -> "streaming" [] OTHER -> phase
         /\ accepted' = IF kind = "Accepted" THEN "yes" ELSE accepted
         /\ buffer' = IF kind = "Error" THEN buffer ELSE Append(buffer, a.frame)
    /\ UNCHANGED <<provider, config, machine, open, out>>

\* The stream ended, or nothing came within ACCEPTED_GRACE of the acknowledgement.
CheckEnds ==
    /\ phase = "checking"
    /\ phase' = "streaming"
    /\ \/ Ended /\ UNCHANGED accepted
       \/ accepted = "yes" /\ accepted' = "waited" /\ UNCHANGED fault
    /\ UNCHANGED <<provider, config, srv, buffer, machine, open, out>>

\* What the driver does with the parts of one chunk. A layer has no driver: it
\* is over a stream that has one.
Drive(r, next) ==
    LET sent == IF provider \in Layer!Layers THEN [open |-> open, parts |-> r.parts, ended |-> FALSE] ELSE enqueue(open, r.parts) IN
    /\ machine' = r.s
    /\ open' = sent.open
    /\ out' = out \o sent.parts
    /\ phase' = IF sent.ended THEN "ended" ELSE next

\* Chunks the check has read come first, then those of the stream.
Chunks == IF buffer = <<>> THEN Arrivals ELSE {[frame |-> Head(buffer), srv |-> srv, fault |-> fault]}
NextChunk ==
    /\ phase = "streaming"
    /\ \E a \in Chunks : Arrives(a) /\ Drive(Handle(provider, machine, a.frame), phase)
    /\ buffer' = IF buffer = <<>> THEN <<>> ELSE Tail(buffer)
    /\ UNCHANGED <<provider, config, accepted>>

EndOfStream ==
    /\ phase = "streaming" /\ buffer = <<>> /\ Ended
    /\ Drive([s |-> machine, parts |-> Finishes(provider, machine)], "ended")
    /\ UNCHANGED <<provider, config, srv, accepted, buffer>>

Next == Check \/ CheckEnds \/ NextChunk \/ EndOfStream

Spec == Init /\ [][Next]_vars

-----------------------------------------------------------------------------

\* A stream ends with a finish or an error, as the ordering contract of
\* StreamPart has it (stream_part.rs:28), but for two things the Anthropic
\* adapter does: it finishes at message_stop and reads on, so that an error may
\* still follow (against stream_driver.rs:161); and it adds nothing to a stream
\* cut before that. A layer has no end of its own over a stream that was cut.
EndsAsPromised ==
    /\ \A i \in DOMAIN out : out[i].k = "finish" =>
          i = Len(out) \/ (provider = "anthropic" /\ i = Len(out) - 1 /\ IsError(out[i + 1]))
    /\ phase = "ended" =>
          \/ out # <<>> /\ Last(out).k \in {"finish", "error"}
          \/ provider = "anthropic" /\ srv.phase # "over"
          \/ provider \in Layer!Layers /\ ~srv.over

\* Every part that is sent is in its place: the consumers of a stream
\* (processor, accumulators, views) take a part that is not for a broken one.
\* It holds of every response of the server below, wherever it is cut or
\* followed by an error. A layer that holds text back lets a part overtake no
\* more than that, and nothing of a text that has ended.
PartsInPlace ==
    /\ \A i \in DOMAIN out : InPlace(SubSeq(out, 1, i - 1), out[i])
    /\ EndsAsPromised
    /\ provider \in Layer!Layers => Layer!OvertakesTheHeld(config, srv, out)

\* Where content comes one after another. That of the others overlaps, a whole
\* response of a compatible server has its text first, and extract_reasoning
\* puts the reasoning of a whole text before the rest. A layer over a text that
\* is open while a part comes may let it go first.
OneAfterAnother ==
    \/ provider \in {"anthropic", "chat", "simulate"}
    \/ /\ provider \in {"extract_json", "smooth"}
       /\ \A i \in DOMAIN srv.log : srv.log[i].at \in {"start", "one"} =>
             FoldLeft(observe, NothingOpen, SubSeq(srv.log, 1, i - 1)) = NothingOpen

\* A stream that finishes says what the same response says when it is not
\* streamed, by separate code, but for what Told names: an upload or a citation
\* in JSON mode of Anthropic's (docs/providers/anthropic.md:54 has uploads
\* become custom parts), a signature on its own of Google's, a patch that is
\* incomplete or unannounced of OpenAI's, a section without an end under
\* extract_reasoning, and fences and white space under extract_json. It says it
\* in the same order where content comes one after another.
SaysTheSame ==
    LET finished == SelectInSeq(out, LAMBDA p : p.k = "finish")
        said == SubSeq(out, 1, finished)
        told == Told(provider, config, Sent(provider, srv))
        bare(parts) == IF provider \in Layer!Layers THEN Layer!Bare(config, parts) ELSE parts
    IN  finished # 0 => /\ Gist(bare(said)) = Gist(bare(told))
                        /\ OneAfterAnother => Order(bare(said)) = Order(bare(told))

\* The free text of a custom tool is quoted in the call, and the members of
\* the input of a code interpreter come in another order.
RespelledInput(p) == p.v[1] = "custom" \/ (provider = "responses" /\ p.v[1] = "run_code")

\* The pieces of a tool input shown while it is streamed are the input the
\* tool is called with.
InputsAreSpelled ==
    \A i \in DOMAIN out : out[i].k \in {"call", "hosted"} /\ ~RespelledInput(out[i]) => InputSpelled(out, out[i].id)

\* An error frame that comes before any output fails the request, which can
\* then be retried: a stream has the error only after some output, or when the
\* check had waited a moment for it after the request was acknowledged.
\* Metadata is no output, but any frame of Anthropic's is, an empty content of
\* a compatible server's, and an item or the end of a response without parts.
EarlyErrorsFail ==
    LET silent == provider \in {"anthropic", "compatible"} \/ (provider = "responses" /\ (srv.items # <<>> \/ srv.phase = "over"))
    IN  provider \in Checked /\ fault \in {"error", "failed"} /\ out # <<>> /\ accepted # "waited" =>
            \E i \in DOMAIN out : ~IsError(out[i]) /\ (out[i].k = "metadata" => silent)

-----------------------------------------------------------------------------
(* What the responses are made of on an instance for TLC. *)

LOCAL Block(k, name, v, x, initial) == [k |-> k, name |-> name, v |-> v, x |-> x, initial |-> initial]
LOCAL Code == <<"{", "code", "a", "}">>
LOCAL Obj == <<"{", "a", "b", "}">>
LOCAL Empty == <<"{", "}">>

MCAnthropicBlocks ==
    {Block("text", "", <<"a", "b">>, x, <<>>) : x \in {"", "web", "page"}}
    \cup {Block("thinking", "", <<"a">>, x, <<>>) : x \in {"", "sig"}}
    \cup {Block("redacted", "", <<"hidden">>, "", <<>>), Block("compaction", "", <<"c">>, "", <<>>),
          Block("container_upload", "", <<"file">>, "", <<>>), Block("fallback", "", <<>>, "", <<>>)}
    \cup {Block("tool_use", name, Obj, "", i) : name \in {"tool", "json"}, i \in {<<>>}}
    \cup {Block("tool_use", "tool", Empty, "", <<>>), Block("tool_use", "tool", Obj, "", Obj)}
    \cup {Block("server_tool_use", "bash_code_execution", Obj, "", <<>>),
          Block("server_tool_use", "code_execution", Code, "", <<>>),
          Block("server_tool_use", "code_execution", Code, "", Code),
          Block("server_tool_use", "web_search", Obj, "", <<>>),
          Block("server_tool_use", "web_fetch", Obj, "", Obj),
          Block("server_tool_use", "tool_search_tool_bm25", Obj, "", <<>>),
          Block("server_tool_use", "advisor", Empty, "", <<>>),
          Block("server_tool_use", "later_tool", Obj, "", <<>>)}
    \cup {Block("mcp_tool_use", "remote", Obj, "", <<>>)}
    \cup {Block(k, "", <<>>, x, <<>>) : k \in {"mcp_result", "search_result", "web_fetch_result", "web_search_result",
                 "code_result", "bash_result", "advisor_result"}, x \in {"ok", "odd"}}

LOCAL Unit(k, name, v, x) == [k |-> k, name |-> name, v |-> v, x |-> x, args |-> <<>>]
LOCAL Arg(path, v, str) == [path |-> path, v |-> v, str |-> str]
LOCAL Call(args, x) == [Unit("call", "tool", <<>>, x) EXCEPT !.args = args]
LOCAL Nested == <<Arg(<<"a">>, <<"x", "y">>, TRUE), Arg(<<"b", "a", "[0]">>, <<"1">>, FALSE), Arg(<<"b", "a", "[1]">>, <<"z">>, TRUE),
                  Arg(<<"b", "c">>, <<"null">>, FALSE)>>
LOCAL Objects == <<Arg(<<"a", "[0]", "b">>, <<"x", "y">>, TRUE), Arg(<<"a", "[1]", "b">>, <<"2">>, FALSE), Arg(<<"c">>, <<"z">>, TRUE)>>

MCGoogleUnits ==
    {Unit("text", "", <<"a", "b">>, x) : x \in {"", "sig", "alone"}}
    \cup {Unit("thought", "", <<"a">>, x) : x \in {"", "sig", "alone"}}
    \cup {Unit("file", "", <<"bytes">>, ""), Unit("file", "", <<"garbled">>, ""), Unit("thought_file", "", <<"bytes">>, "")}
    \cup {Unit("code", "", <<"code">>, ""), Unit("code", "", <<"code">>, "alone"), Unit("file", "", <<"bytes">>, "alone"), Unit("code_result", "", <<"output">>, ""),
          Unit("server_call", "search", <<"{", "}">>, ""), Unit("server_response", "search", <<"{", "}">>, "")}
    \cup {Unit("grounding", "", v, "") : v \in {<<"page_1">>, <<"page_1", "document">>, <<"page_2">>}}
    \cup {Call(args, x) : args \in {Nested, Objects}, x \in {"", "stepwise", "joined"}}
    \cup {Call(<<>>, x) : x \in {"", "stepwise"}}

LOCAL Item(k, name, v, x) == [k |-> k, name |-> name, v |-> v, x |-> x, uses |-> <<>>]

MCResponseItems ==
    {Item("message", "", <<"a", "b">>, x) : x \in {"url_citation"}}
    \cup {Item("message", "", <<"a">>, "other_note")}
    \cup {Item("reasoning", "", v, "") : v \in {<<>>, <<"a", "b">>}}
    \cup {Item(k, name, <<"{", "}">>, x) : <<k, name>> \in {<<"function_call", "tool">>, <<"custom_tool_call", "custom">>}, x \in {"", "unannounced"}}
    \cup {Item("computer_call", "computer", <<"{", "}">>, "")}
    \cup {[Item("function_call", "parallel", Empty, "") EXCEPT !.uses = <<"tool", u>>] : u \in {"tool", "other"}}
    \cup {Item("code_interpreter_call", "", <<"{", "code", "x", "container", "}">>, x) : x \in {"", "unannounced"}}
    \cup {Item(k, "", <<>>, "") : k \in {"web_search_call", "file_search_call", "image_generation_call", "compaction", "later_item"}}
    \cup {Item("apply_patch_call", "apply_patch", <<"{", "path", "diff", "}}">>, x) : x \in {"", "streamed", "at once", "incomplete", "unannounced"}}
    \cup {Item("apply_patch_call", "apply_patch", <<"{", "delete", "}}">>, "delete_file")}
    \cup {Item("mcp_call", "mcp.remote", Obj, x) : x \in {"", "approval_0"}}
    \cup {Item("mcp_approval_request", "mcp.remote", Obj, ""), Item("shell_call", "shell", Obj, "")}
    \cup {Item(k, "", Obj, "") : k \in {"program", "program_output", "shell_call_output", "tool_search_output"}}
    \cup {Item("tool_search_call", "", Obj, x) : x \in {"server", "client"}}
LOCAL Spoken(k, v, x) == [k |-> k, v |-> v, x |-> x]

MCChatUnits ==
    {Spoken(k, v, x) : k \in {"text", "reasoning"}, v \in {<<"a", "b">>}, x \in {"", "typed"}}
    \cup {Spoken("call", <<"{", "a", "}">>, x) : x \in {"", "whole", "repeated", "empty id", "late name", "anonymous", "unindexed"}}
    \cup {Spoken("note", <<"page", "other_note">>, "")}

LOCAL Step(k, name, v, x) == [k |-> k, name |-> name, v |-> v, x |-> x, blocks |-> <<>>]
LOCAL Output(blocks, x) == [Step("model_output", "", <<>>, x) EXCEPT !.blocks = blocks]
LOCAL Text(notes) == [k |-> "text", v |-> <<"a", "b">>, notes |-> notes]
LOCAL Image(v) == [k |-> "image", v |-> v, notes |-> <<>>]

MCInteractionSteps ==
    {Output(blocks, x) : blocks \in {<<Text(<<>>)>>, <<Text(<<"page_1">>), Text(<<"page_1", "page_1", "other_note">>)>>,
                                    <<Text(<<"document">>), Image(<<"bytes">>)>>, <<Image(<<"garbled">>)>>, <<Image(<<>>)>>},
                         x \in {"", "at once"}}
    \cup {Step("thought", "", v, x) : v \in {<<>>, <<"a", "b">>}, x \in {"", "at once"}}
    \cup {Step("function_call", "tool", Empty, x) : x \in {"", "at once", "list"}}
    \cup {Step("function_call", "", Empty, ""), Step("function_call", "tool", <<"{", "garbled">>, "")}
    \cup {Step("builtin_call", name, Obj, x) : name \in {"code_execution", "google_search"}, x \in {"", "late"}}
    \cup {Step("builtin_result", name, <<"page_1", "page_2">>, "") : name \in {"code_execution", "google_search"}}
    \cup {Step("processing_call", "", <<>>, ""), Step("later_step", "", <<>>, "")}

LOCAL Plain(v) == [k |-> "text", v |-> v]
LOCAL Tagged(v) == <<"<", "t", ">">> \o v \o <<"<", "/", "t", ">">>
LOCAL Fenced(v) == <<"tick", "tick", "tick", "json", "nl">> \o v \o <<"nl", "tick", "tick", "tick">>
LOCAL Called == [k |-> "call", v |-> <<"tool", "{", "}">>]

MCLayerUnits ==
    [extract_reasoning |->
        {Plain(v) : v \in {Tagged(<<"a">>), Tagged(<<>>) \o <<"b">>, <<"a">> \o Tagged(<<"b">>) \o Tagged(<<"c">>) \o <<"d">>,
                          Tagged(<<"a", "<", "t", ">">>) \o <<"<", "/">>, <<"a", "<", "<", "b", "<">>, <<>>,
                          <<"a", "<", "/", "t", ">", "b">>, <<"a", "<", "t", ">", "b", "<", "/">>}}
        \cup {[k |-> "reasoning", v |-> <<"r">>], Called},
     extract_json |->
        {Plain(v) : v \in {Fenced(<<"{", "a", "b", "c", "d", "e", "f", "}">>), Fenced(<<"{", "}">>) \o <<"nl">>, <<"{", "a", "}">>, <<"tick", "a">>,
                          <<"tick", "tick", "tick", "nl", "{", "}", "tick", "tick", "tick">>, <<"tick", "tick", "tick", "json", "{", "}", "tick", "tick", "tick">>,
                          <<"a", "tick", "tick", "tick", "nl", "b", "c", "d">>, <<"tick", "tick">>, <<>>,
                          <<" ", "{", "a", "}">>, <<"tick", "tick", "tick", "x", "nl", "{", "}", "nl", "tick", "tick", "tick">>,
                          Fenced(<<"{", "}">>) \o <<" ", " ", " ", " ", " ">>}}
        \cup {Called},
     smooth |->
        {[k |-> k, v |-> v] : k \in {"text", "reasoning"},
                              v \in {<<" ", "a", " ", " ", "b">>, <<"a", "nl", "nl", "b">>, <<" ">>, <<>>}}
        \cup {Called},
     simulate |->
        {[k |-> k, v |-> <<"a">>] : k \in {"text", "reasoning", "call", "hosted", "result", "file", "source", "custom", "approval"}}
        \cup {Plain(<<>>)}]
=============================================================================

-------------------------------- MODULE Requests --------------------------------
(* A conversation with one kind of model: the application speaks, the model  *)
(* replies, tools answer, the application decides about the calls that need  *)
(* its approval and prunes the history; before every call of the model the   *)
(* history is made into the provider's own request.                          *)
EXTENDS Conversation

CONSTANTS Kinds,            \* the kinds of model talked to
          MaxMessages,      \* messages of a conversation
          MaxBreakpoints    \* Anthropic's cache breakpoints of one request

Anthropic == INSTANCE AnthropicRequest
Google == INSTANCE GoogleRequest
Chat == INSTANCE ChatPrompt
OpenAi == INSTANCE OpenAiRequest

-----------------------------------------------------------------------------
(* The settings and tools of one step: what the call was configured with,    *)
(* what prepare_step puts over it, and the tools that are left to offer. A   *)
(* setting is the name of a value; the values of one setting are its group.  *)

Levels == {"reasoning_none", "reasoning_minimal", "reasoning_low", "reasoning_high", "reasoning_xhigh"}
Group(a) == CASE a \in Levels -> "reasoning"
              [] a \in {"max_8", "max_100"} -> "max_output_tokens"
              [] a \in {"temperature", "high_temperature"} -> "temperature"
              [] a \in {"json", "schema"} -> "response_format"
              [] a \in {"effort_none", "effort_low", "effort_max"} -> "effort"
              [] a \in {"thinking_enabled", "thinking_adaptive", "thinking_disabled"} -> "thinking"
              [] a \in {"flex", "priority"} -> "service_tier"
              [] OTHER -> a
OneEach(asked) == \A a, b \in asked : Group(a) = Group(b) => a = b

merge(settings, over) == {a \in settings : \A b \in over : Group(a) # Group(b)} \cup over

\* A tool: a function or one of the provider's, by id, and what it is called here.
Tool(t, id, name, o) == [t |-> t, id |-> id, name |-> name, o |-> o]

filter_active(tools, active) == SelectSeq(tools, LAMBDA t : t.name \in active)
\* The tools of the order come first, in that order.
ordered(tools, order) ==
    LET listed(n) == SelectSeq(tools, LAMBDA t : t.name = n)
    IN  FlattenSeq([i \in DOMAIN order |-> listed(order[i])]) \o SelectSeq(tools, LAMBDA t : t.name \notin ToSet(order))

\* No tools, no choice among them.
prepare_tools(tools, active, order, choice) ==
    LET left == ordered(filter_active(tools, active), order)
    IN  [tools |-> left, choice |-> IF left = <<>> THEN "" ELSE choice]

-----------------------------------------------------------------------------
VARIABLES kind,         \* the kind of model
          messages,     \* the history
          turn,         \* messages so far, those pruned as well
          phase,        \* whose turn it is: "user", "model", "decide"; "asked": the call of the model is made
          call          \* what the call asks for beside the history
vars == <<kind, messages, turn, phase, call>>

GoogleModel == [google2 |-> "gemini2", google3 |-> "gemini3", gemma |-> "gemma",
                interactions |-> "gemini3", interactions_linked |-> "gemini3"]
ResponsesKinds == {"responses", "responses_own", "responses_previous", "responses_conversation"}
\* The tools of the provider that requests to the Responses API declare.
Declared == {"shell", "apply_patch", "programmatic_tool_calling"}
Settings(k) == [store |-> k # "responses_own", conversation |-> k = "responses_conversation",
                previous |-> k = "responses_previous", tools |-> Declared, mode |-> "developer"]

\* Which urls a model fetches itself.
supported_urls(media, src) ==
    CASE kind \in DOMAIN GoogleModel -> Google!Supported(media, src, GoogleModel[kind])
      [] kind = "chat" -> media \in Image
      [] kind \in ResponsesKinds \cup {"anthropic"} -> media \in Image \cup {"application/pdf"}
      [] OTHER -> FALSE

-----------------------------------------------------------------------------

\* What the application may say: the parts of a message, named by its number;
\* only the first one has more than a text, and only simple replies follow it then.
Simple == Len(messages[1].content) = 1
UserFile(n, src, media, is) == File("file", <<n, "file">>, src, media, is, {})
Said(n) ==
    LET text == Text(<<n, "text">>, {})
    IN  IF n > 1 THEN {<<text>>} ELSE
        {<<text>>, <<[text EXCEPT !.o = {"cache"}], Text(<<n, "">>, {}), Text(<<n, "more">>, {"cache"})>>}
        \cup {<<text, UserFile(n, f[1], f[2], f[3])>> :
              f \in {<<"url", "image/png", "image/png">>, <<"url", "application/pdf", "application/pdf">>,
                     <<"url", "text/plain", "text/plain">>, <<"own_url", "image/png", "image/png">>, <<"url", "image/png", "gone">>,
                     <<"bytes", "image/*", "image/png">>, <<"bytes", "image/*", "other">>, <<"base64", "application/pdf", "application/pdf">>,
                     <<"bytes", "text/plain", "text/plain">>, <<"bytes", "audio/wav", "audio/wav">>, <<"bytes", "audio/flac", "audio/flac">>,
                     <<"data_url", "image/*", "image/png">>, <<"path", "video/mp4", "video/mp4">>, <<"text", "text/plain", "text/plain">>,
                     <<"reference", "image/png", "here">>, <<"reference", "image/png", "elsewhere">>, <<"bad_base64", "image/png", "image/png">>}}
        \cup {<<File("image", <<n, "file">>, "url", "", "image/png", {}), text>>,
              <<File("file", <<n, "file">>, "url", "application/pdf", "application/pdf", {}), File("file", <<n, "file">>, "url", "image/png", "application/pdf", {})>>}

\* The options a part of the model's own provider comes with.
Own == CASE kind = "anthropic" -> {"signature"}
         [] kind \in DOMAIN GoogleModel -> {"signature"}
         [] kind \in ResponsesKinds -> {"item"}
         [] OTHER -> {}
Client(n, name, valid, o) == Call(<<n, name>>, name, FALSE, "", valid, valid, o)
Answer(n, name, out, parts) == Result(<<n, name>>, name, FALSE, out, "", parts, {})
Returned(n) == <<Text(<<n, "returned">>, {}), File("file", <<n, "image">>, "bytes", "image/*", "image/png", {}),
                 File("file", <<n, "page">>, "url", "text/plain", "text/plain", {}), Custom(<<n, "other">>, {})>>
Hosted(n, name, x, v, o) == Call(<<n, x>>, name, TRUE, v, TRUE, TRUE, o)
HostedResult(n, name, x, out, v, o) == Result(<<n, x>>, name, TRUE, out, v, <<>>, o)

\* The hosted calls of a provider; Anthropic's and their results are named by the blocks they came in.
HostedReplies(n) ==
    LET pair(name, x, in, out, v, o) == <<Hosted(n, name, x, in, o), HostedResult(n, name, x, out, v, o)>>
    IN  CASE kind = "anthropic" ->
                {pair("run_code", "bash_code_execution", "bash_code_execution", "json", "bash_code_execution_result", {}),
                 pair("run_code", "text_editor_code_execution", "text_editor_code_execution", "json", "text_editor_code_execution_result", {}),
                 pair("run_code", "code_execution", "programmatic-tool-call", "json", "code_execution_result", {}),
                 pair("web_search", "web_search", "", "json", "array", {}),
                 pair("web_fetch", "web_fetch", "", "error_json", "web_fetch_tool_result_error", {}),
                 pair("advisor", "advisor", "", "json", "advisor_redacted_result", {}),
                 pair("tool_search_tool_bm25", "tool_search_tool_bm25", "", "json", "array", {}),
                 pair("echo", "mcp", "", "error_json", "", {"mcp"}),
                 pair("elsewhere", "elsewhere", "", "json", "", {})}
           [] kind \in {"interactions", "interactions_linked"} -> {pair("search", "search", "", "json", "", {"step"})}
           [] kind \in DOMAIN GoogleModel ->
                {pair("run_code", "run_code", "", "json", "", {"code_execution"}), pair("search", "search", "", "json", "", {"server"}),
                 pair("elsewhere", "elsewhere", "", "json", "", {})}
           [] kind \in ResponsesKinds ->
                {pair("web_search", "web_search", "", "json", "", {}),
                 <<Hosted(n, "mcp.echo", "mcp.echo", "", {}), HostedResult(n, "mcp.echo", "mcp.echo", "json", "", {"item"})>>,
                 pair("shell", "shell", "action", "json", "", {"item"}),
                 pair("programmatic_tool_calling", "program", "program", "json", "", {"item"})}
           [] OTHER -> {pair("elsewhere", "elsewhere", "", "json", "", {})}

\* What one step of the model and the tools it calls may leave, results in the
\* order in which the tools ended.
Replied(n) ==
    LET text == Text(<<n, "reply">>, Own)
        reasoning == Reasoning(<<n, "reasoning">>, IF kind \in ResponsesKinds THEN {"joint", "encrypted"} ELSE Own)
        second == Reasoning(<<n, "second">>, IF kind \in ResponsesKinds THEN {"joint", "encrypted"} ELSE IF kind = "anthropic" THEN {"redacted"} ELSE {})
        foreign == Reasoning(<<n, "foreign">>, {})
        look == Client(n, "look", TRUE, Own)
        read == Client(n, "read", TRUE, IF kind \in DOMAIN GoogleModel THEN {} ELSE Own)
        run == Client(n, "shell", TRUE, Own)
        shell == [run EXCEPT !.v = "action"]
        hosted == Hosted(n, "mcp.echo", "mcp.echo", "", {})
        children == <<Client(n, "child0", TRUE, {"parallel"}), Client(n, "child1", TRUE, {"parallel"}),
                      [Answer(n, "child1", "json", <<>>) EXCEPT !.o = {"parallel"}], [Answer(n, "child0", "json", <<>>) EXCEPT !.o = {"parallel"}]>>
    IN  IF ~Simple THEN {<<text>>} ELSE
        {<<text>>, <<reasoning, text>>, <<foreign, text>>, <<Text(<<n, "">>, {}), text, [t |-> "source", x |-> <<n, "source">>, o |-> {}]>>,
         <<reasoning, look, second, read, Answer(n, "read", "text", <<>>), Answer(n, "look", "content", Returned(n))>>,
         <<look, text, Answer(n, "look", "error_text", <<>>)>>,
         <<look, Answer(n, "look", "content", <<Returned(n)[2]>>)>>,
         <<Client(n, "look", FALSE, {}), Answer(n, "look", "error_text", <<>>), text>>,
         <<text, look, Request(<<n, "approval">>, look.x)>>,
         <<look, read, Request(<<n, "approval">>, look.x), Answer(n, "read", "json", <<>>)>>,
         <<look, read, Request(<<n, "approval">>, look.x), Answer(n, "read", "json", <<>>),
           Response(<<n, "approval">>, look.x, "look", FALSE, FALSE)>>,
         <<File("file", <<n, "drawn">>, "bytes", "image/png", "image/png", {}), Custom(<<n, "custom">>, {})>>,
         <<File("reasoning_file", <<n, "drawn">>, "bytes", "image/png", "image/png", Own), text>>}
        \cup {<<text>> \o pair : pair \in HostedReplies(n)}
        \cup (IF kind = "anthropic" THEN {<<Text(<<n, "summary">>, {"compaction"}), text>>} ELSE {})
        \cup (IF kind \in ResponsesKinds
                THEN {children, <<hosted, Request(<<n, "approval">>, hosted.x)>>,
                      <<Custom(<<n, "summary">>, {"compaction", "item"}), text>>,
                      <<shell, [Answer(n, "shell", "json", <<>>) EXCEPT !.v = "output"]>>,
                      <<shell, Request(<<n, "approval">>, shell.x)>>} ELSE {})
        \cup (IF kind = "interactions_linked"
                THEN {<<[text EXCEPT !.o = {"previous"}]>>, <<[look EXCEPT !.o = {"previous"}], Answer(n, "look", "json", <<>>)>>} ELSE {})

-----------------------------------------------------------------------------

Init == /\ kind \in Kinds
        /\ messages = <<>> /\ turn = 0 /\ phase = "user"
        /\ call = [model |-> "", asked |-> {}, tools |-> <<>>, choice |-> "", allowed |-> <<>>]

Grown(more) == /\ turn' = turn + 1 /\ turn' <= MaxMessages
               /\ messages' = messages \o more
               /\ UNCHANGED <<kind, call>>

UserSays == /\ phase = "user" /\ phase' = "model"
            /\ \E content \in Said(turn + 1) : Grown(<<Message("user", content, {})>>)
\* The application may put messages of the system into the history.
SystemSays == /\ phase = "user" /\ messages # <<>>
              /\ Grown(<<Plain("system", <<turn + 1, "rule">>)>>) /\ phase' = "user"

\* A step that ends with calls goes on with the next step, unless one waits for a decision.
Pending(content) == {p \in Range1(content) : p.t = "request" /\ \A q \in Range1(content) : q.t = "response" => q.x # p.x}
ModelReplies ==
    /\ phase = "model"
    /\ \E content \in Replied(turn + 1) :
          /\ Grown(to_response_messages(content))
          /\ phase' = CASE Pending(content) # {} -> "decide"
                        [] \E p \in Range1(content) : p.t = "call" /\ ~p.hosted -> "model"
                        [] OTHER -> "user"

\* The application's decision, and what the next call makes of it before the model is asked.
Undecided == LET all == Range1(Parts(messages))
             IN  {r \in all : r.t = "request" /\ \A s \in all : s.t = "response" => s.x # r.x}
Decided(granted) ==
    LET r == CHOOSE r \in Undecided : TRUE
        waiting == CHOOSE c \in Range1(Parts(messages)) : c.t = "call" /\ c.x = r.call
        response == Response(r.x, waiting.x, waiting.name, granted, waiting.hosted)
        outputs == CASE ~granted -> <<Result(waiting.x, waiting.name, FALSE, "denied", "", <<>>, waiting.o)>>
                     [] waiting.hosted -> <<>>
                     [] OTHER -> <<Result(waiting.x, waiting.name, FALSE, "json", IF waiting.v = "action" THEN "output" ELSE "", <<>>, waiting.o)>>
    IN  <<Message("tool", <<response>>, {})>> \o replay_tool_message(outputs)
Decides(granted) == /\ phase = "decide" /\ Undecided # {}
                    /\ Grown(Decided(granted)) /\ phase' = "model"

Prunes(reasoning, rules, remove) ==
    /\ phase = "model" /\ messages # <<>> /\ turn = MaxMessages - 1
    /\ turn' = turn + 1
    /\ messages' = prune(messages, reasoning, rules, remove)
    /\ UNCHANGED <<kind, phase, call>>

Rules == {<<>>, <<PruneRule(-1, {})>>, <<PruneRule(1, {})>>, <<PruneRule(2, {"look"})>>, <<PruneRule(0, {"read"})>>}
-----------------------------------------------------------------------------

\* What a call may ask for: every provider's settings, and its own options.
Common == Levels \cup {"temperature", "high_temperature", "top_p", "top_k", "max_8", "max_100", "presence_penalty", "frequency_penalty",
                       "seed", "stop", "json", "schema"}
Options == CASE kind = "anthropic" ->
                    {"effort_low", "effort_max", "thinking_enabled", "thinking_adaptive", "thinking_disabled", "budget", "json_tool",
                     "output_format", "no_parallel", "parallel", "small_task_budget", "fallbacks", "mcp", "skills", "edits", "compact",
                     "task_budget", "fast", "binding", "user"}
             [] kind \in {"interactions", "interactions_linked"} ->
                    {"thinking_level", "thinking_summaries", "agent", "store", "background", "service_tier", "image_format", "image",
                     "instruction", "agent_config", "environment", "zero_timeout", "bad_option"}
             [] kind \in DOMAIN GoogleModel ->
                    {"safety", "user", "image", "thinking_level", "thinking_budget", "retrieval", "image_vertex", "stream_arguments",
                     "request_type", "no_schema", "bad_option"}
             [] kind = "chat" -> {"effort_none", "effort_low", "logprobs", "logit_bias", "flex", "priority", "max_completion", "force_reasoning",
                                  "user", "bad_option"}
             [] kind = "compatible" -> {"effort_low", "user", "unknown", "bad_option"}
             [] kind = "completion" -> {"logprobs", "logit_bias", "echo", "user", "bad_option"}
             [] OTHER -> {"effort_none", "effort_low", "summary", "mode_pro", "reasoning_context", "effort_update", "context_management",
                          "truncation_auto", "compaction_trigger", "conversation", "previous", "store_false", "cache_retention", "no_sources",
                          "flex", "priority", "logprobs", "force_reasoning", "user", "verbosity", "bad_option"}
Models == CASE kind = "anthropic" -> DOMAIN Anthropic!Models
            [] kind = "gemma" -> {"gemma"}
            [] kind = "google3" -> {m \in DOMAIN Google!Models : Google!Models[m].gemini = 3}
            [] kind = "google2" -> {m \in DOMAIN Google!Models : Google!Models[m].gemini \in 1..2}
            [] kind \in {"chat", "responses"} -> DOMAIN OpenAi!Models
            [] kind = "compatible" -> {"plain", "structured"}
            [] OTHER -> {"any"}

\* Tools, and the allow list of the Responses API.
Toolsets ==
    LET look(o) == Tool("function", "look", "look", o)
        read(o) == Tool("function", "read", "read", o)
        own(id) == Tool("provider", id, id, {})
        named(id, name) == Tool("provider", id, name, {})
    IN  {<<look({})>>, <<look({}), read({"strict"})>>, <<own("ghost")>>, <<look({}), own("ghost")>>}
        \cup CASE kind = "anthropic" ->
                      {<<look({"callers"}), own("code_execution_20250825")>>, <<own("web_search_20260209"), own("bash_20250124")>>,
                       <<own("advisor_20260301"), look({"examples", "strict"}), own("tool_search_bm25_20251119")>>}
               [] kind \in {"interactions", "interactions_linked"} ->
                      {<<look({}), own("google_search")>>, <<own("retrieval"), own("mcp_server")>>}
               [] kind \in DOMAIN GoogleModel ->
                      {<<own("google_search")>>, <<look({}), own("google_search")>>, <<own("file_search"), read({"strict"})>>,
                       <<own("vertex_rag_store"), own("google_maps"), own("code_execution")>>}
               [] kind \in ResponsesKinds ->
                      {<<look({"async"}), own("tool_search")>>, <<look({"namespace", "described"}), read({"namespace", "described"})>>,
                       <<look({"namespace", "described"}), read({"namespace"})>>, <<named("web_search", "look"), own("code_interpreter")>>,
                       <<named("web_search", "finder"), Tool("function", "web_search", "web_search", {})>>,
                       <<named("mcp", "one"), named("mcp", "two"), look({"deferred"})>>, <<own("custom"), own("shell"), own("apply_patch")>>}
               [] OTHER -> {}
ToolChoices(tools) == {"", "auto", "none", "required"} \cup {t.name : t \in ToSet(tools)}
Allowed == IF kind \in ResponsesKinds
             THEN {<<>>} \cup {<<names>> : names \in {{}, {"look"}, {"web_search"}, {"mcp"}, {"tool_search"}, {"ghost", "read"}, {"custom", "one"}}}
             ELSE {<<>>}

\* The first question, asked with settings and no tools, or with tools and few settings.
Asks == /\ phase = "model" /\ turn = 1 /\ Simple /\ phase' = "asked"
        /\ kind \notin ResponsesKinds \ {"responses"} /\ kind # "interactions_linked"
        /\ \E model \in Models :
              \/ \E one, two \in Common \cup Options, over \in {{}, {"temperature"}, {"reasoning_none"}, {"reasoning_high"}, {"max_8"}} :
                    /\ OneEach({one, two})
                    /\ call' = [call EXCEPT !.model = model, !.asked = merge({one, two}, over)]
              \/ \E tools \in Toolsets, one \in {"schema", "agent", "no_parallel", "thinking_enabled", "seed"} \cap (Common \cup Options),
                    inactive \in {"", "ghost", "look"}, allowed \in Allowed :
                    \E choice \in ToolChoices(tools) :
                       LET left == prepare_tools(tools, {t.name : t \in ToSet(tools)} \ {inactive}, <<"read">>, choice)
                       IN  call' = [model |-> model, asked |-> {one}, tools |-> left.tools, choice |-> left.choice, allowed |-> allowed]
        /\ UNCHANGED <<kind, messages, turn>>

Next == \/ UserSays
        \/ Asks
        \/ SystemSays
        \/ ModelReplies
        \/ \E granted \in BOOLEAN : Decides(granted)
        \/ \E reasoning \in {"none", "all", "before_last"}, rules \in Rules, remove \in BOOLEAN : Prunes(reasoning, rules, remove)
Spec == Init /\ [][Next]_vars
=============================================================================

------------------------------- MODULE MCRequests -------------------------------
EXTENDS Requests

System == <<Plain("system", <<0, "system">>)>>
Prompt == convert_to_prompt(System, messages, [f \in Range1(Targets(messages)) |-> supported_urls(f.media, f.src)])

Wire(prompt) ==
    CASE kind = "anthropic" -> Anthropic!convert_prompt(prompt, Anthropic!Start, TRUE)
      [] kind \in {"interactions", "interactions_linked"} -> Google!convert(prompt, kind = "interactions_linked", TRUE)
      [] kind \in DOMAIN GoogleModel -> Google!convert_prompt(prompt, GoogleModel[kind])
      [] kind = "chat" -> Chat!chat_prompt(prompt, "developer")
      [] kind = "compatible" -> Chat!compatible_prompt(prompt)
      [] kind = "completion" -> Chat!completion_prompt(prompt)
      [] kind \in ResponsesKinds -> OpenAi!convert_prompt(prompt, Settings(kind))

CallParts == {p \in Range1(Parts(messages)) : p.t = "call"}
Clients == {p.x : p \in {c \in CallParts : ~c.hosted}}
HostedOnes == {p.x : p \in {c \in CallParts : c.hosted}}
\* What a request says, in order: the part x, as a call, a result or something
\* else, in a message of role.
Sort(t) == CASE t \in {"tool_use", "functionCall", "function", "function_call"} -> "call"
             [] t \in {"tool_result", "functionResponse", "function_call_output", "provider_output", "function_result"} -> "result"
             [] t \in {"server_tool_use", "mcp_tool_use", "executableCode", "toolCall", "hosted_call", "program"} -> "hosted call"
             [] t \in {"codeExecutionResult", "toolResponse", "hosted_result", "hosted_output", "mcp_tool_result", "web_search_tool_result",
                       "bash_code_execution_tool_result", "text_editor_code_execution_tool_result", "code_execution_tool_result",
                       "web_fetch_tool_result", "tool_search_tool_result", "advisor_tool_result"} -> "hosted result"
             [] OTHER -> "other"
Atom(sort, x, role) == [sort |-> sort, x |-> x, role |-> role]
Flow(w) ==
    LET inner(e, role) == <<Atom(Sort(e.t), e.x, role)>>
                          \o [i \in DOMAIN e.content |-> Atom("inner", e.content[i].x, role)]
        \* Before Gemini 3 the files of a result are beside it.
        answers(m) == \E e \in Range1(m.content) : e.t = "functionResponse"
        entry(m) == FlattenSeq([i \in DOMAIN m.content |->
                        IF answers(m) /\ m.content[i].t # "functionResponse" THEN <<Atom("inner", m.content[i].x, m.role)>>
                        ELSE inner(m.content[i], m.role)])
        sorted(p) == IF p.t \notin {"call", "result"} THEN "other" ELSE IF p.hosted THEN "hosted " \o p.t ELSE p.t
        \* A reference stands for the parts that the server keeps as that item.
        refers(id) == LET p == SelectSeq(Parts(messages), LAMBDA q : q.o \cap {"item", "joint"} # {} /\ OpenAi!ItemId(q) = id
                                                               /\ (q.t = "result" => q.hosted))
                      IN  [i \in DOMAIN p |-> Atom(sorted(p[i]), p[i].x, "")]
        item(i) == IF i.t = "item_reference" THEN <<Atom("reference", i.id, "")>> \o refers(i.id)
                   ELSE IF i.t \in {"user", "reasoning"} THEN [k \in DOMAIN i.parts |-> Atom("other", i.parts[k], i.t)]
                   ELSE LET own == IF i.t \in {"function_call", "function_call_output"} /\ i.id[2] = "parallel" THEN Len(i.parts) ELSE 1
                                    sort == IF i.t \in Declared THEN IF i.id \in Clients THEN "call" ELSE "hosted call" ELSE Sort(i.t)
                        IN  [k \in DOMAIN i.parts |-> Atom(IF k <= own THEN sort ELSE "inner", i.parts[k], "")]
        step(s) == IF s.t \in {"function_call", "hosted_call", "hosted_result", "processing"} THEN <<Atom(Sort(s.t), s.id, "")>>
                   ELSE LET answer == s.content[1].t = "function_result"
                            sort(t) == IF answer /\ Sort(t) # "result" THEN "inner" ELSE Sort(t)
                        IN  [i \in DOMAIN s.content |-> Atom(sort(s.content[i].t), s.content[i].x, IF s.t = "user_input" THEN "user" ELSE "")]
    IN  CASE kind \in {"interactions", "interactions_linked"} -> FlattenSeq([i \in DOMAIN w.steps |-> step(w.steps[i])])
          [] kind \in ResponsesKinds -> FlattenSeq([i \in DOMAIN w.wire |-> item(w.wire[i])])
          [] OTHER -> FlattenSeq([i \in DOMAIN w.wire |-> entry(w.wire[i])])

\* What the server has of the conversation already, or a text of the request says.
Known(w) == CASE kind = "responses_conversation" -> {p.x : p \in {q \in Range1(Parts(messages)) : OpenAi!HasItem(q) \/ "parallel" \in q.o
                                                                             \/ (q.t = "result" /\ q.hosted)}}
              [] kind = "responses_previous" ->
                    {p.x : p \in {q \in Range1(Parts(messages)) : OpenAi!HasItem(q) /\ (q.t = "reasoning" \/ (q.t = "call" /\ q.name \in Declared))}}
              [] kind \in {"interactions", "interactions_linked"} -> w.known \cup w.said \cup Range1(w.system)
              [] OTHER -> {}

\* How many results answer a call in the request: one, and none for a call that a
\* server runs itself. So calls of another provider's server that an adapter sends
\* as its own model's have none; Google has before Gemini 3 a response for each
\* text of a content, so none for files alone; and a denied call of the server is
\* answered by an output too, for which the Responses API has no call, although
\* convert_tool_results.rs:75 says that the approval response has answered it.
Denied == {p.x : p \in {q \in Range1(Parts(messages)) : q.t = "result" /\ q.out = "denied"}}
Due(x) ==
    IF x \in HostedOnes THEN (IF kind \in ResponsesKinds /\ x \in Denied THEN 1 ELSE 0)
    ELSE LET all == SelectSeq(Parts(messages), LAMBDA p : p.t = "result" /\ p.x = x)
         IN  IF kind \in {"google2", "gemma"} /\ all[1].out = "content"
               THEN Len(SelectSeq(all[1].parts, LAMBDA q : q.t = "text")) ELSE 1

\* The results that are due follow each call, before the user speaks, and there
\* is no other result of a call the server does not know.
Answered(f, w) ==
    LET results(x) == {j \in DOMAIN f : f[j].sort = "result" /\ f[j].x = x}
        calls(x) == {i \in DOMAIN f : f[i].sort = "call" /\ f[i].x = x}
    IN  /\ \A x \in {f[i].x : i \in {j \in DOMAIN f : f[j].sort = "call"}} :
              /\ Cardinality(results(x)) = Due(x)
              /\ \A i \in calls(x), j \in results(x) :
                    i < j /\ \A k \in i..j : f[k].role = "user" => f[k].sort # "other"
        /\ \A x \in {f[j].x : j \in {k \in DOMAIN f : f[k].sort = "result"}} \ Known(w) :
              IF x \in HostedOnes THEN Cardinality(results(x)) = Due(x) ELSE calls(x) # {}

\* Results of one step that were all run at once come in the order of their calls.
InOrder ==
    \A i \in DOMAIN messages : i > 1 /\ messages[i].role = "tool" /\ messages[i - 1].role = "assistant" =>
        LET at(x) == SelectInSeq(messages[i - 1].content, LAMBDA p : p.t = "call" /\ p.x = x)
            c == messages[i].content
        IN  \A j \in DOMAIN c : \A k \in 1..(j - 1) : at(About(c[k])) <= at(About(c[j]))

\* Anthropic: roles alternate, breakpoints are few, thinking stays before the
\* calls it led to with nothing said after them, and what a hosted tool did
\* goes back in the blocks it came in.
AnthropicTakes(w) ==
    LET blocks == FlattenSeq([i \in DOMAIN w.wire |-> w.wire[i].content])
        thoughts(s, x, is(_)) == Len(SelectSeq(SubSeq(s, 1, SelectInSeq(s, LAMBDA b : is(b) /\ b.x = x)), LAMBDA b : b.t \in {"thinking", "redacted_thinking"}))
        said == SelectSeq(Parts(messages), LAMBDA p : p.t # "reasoning" \/ p.o # {})
        before(x) == Len(SelectSeq(SubSeq(said, 1, SelectInSeq(said, LAMBDA p : p.t = "call" /\ p.x = x)), LAMBDA p : p.t = "reasoning"))
    IN  /\ \A i \in DOMAIN w.wire : i > 1 => w.wire[i].role # w.wire[i - 1].role
        /\ Len(SelectSeq(blocks, LAMBDA b : b.cache)) <= MaxBreakpoints
        /\ \A i \in DOMAIN w.wire : w.wire[i].role = "assistant" =>
              LET s == w.wire[i].content
              IN  \A j, k \in DOMAIN s : j < k /\ s[j].t = "tool_use" /\ s[k].t # "tool_use" =>
                      \E l \in (j + 1)..k : s[l].t \in {"thinking", "redacted_thinking"}
        /\ \A i \in DOMAIN blocks : blocks[i].t = "tool_use" =>
              thoughts(blocks, blocks[i].x, LAMBDA b : b.t = "tool_use") = before(blocks[i].x)
        /\ \A i \in DOMAIN blocks : blocks[i].t = "server_tool_use" => blocks[i].v = Says(blocks[i].x)
        /\ \A b \in Range1(blocks) : Sort(b.t) = "hosted result" =>
              b.t = (IF Says(b.x) = "mcp" THEN "mcp" ELSE IF Says(b.x) = "tool_search_tool_bm25" THEN "tool_search" ELSE Says(b.x))
                    \o (IF Says(b.x) = "mcp" THEN "_tool_result" ELSE "_tool_result")

\* The Responses API: an item of reasoning is there once.
ResponsesTake(w) ==
    \A i, j \in DOMAIN w.wire : w.wire[i].t \in {"item_reference", "reasoning"} /\ w.wire[i].id = w.wire[j].id
                                /\ w.wire[j].t = w.wire[i].t /\ w.wire[i].id[2] = "joint" => i = j

\* Gemini 3 checks the first call of a message: it is signed or asks not to be.
GoogleTakes(w) ==
    kind = "google3" => \A i \in DOMAIN w.wire :
        LET calls == SelectSeq(w.wire[i].content, LAMBDA b : b.t = "functionCall")
        IN  calls # <<>> => calls[1].signature # ""

\* What an adapter may refuse: a file, a rule of the system after the beginning
\* (Google), anything but text (the completions API), a denied shell call (the Responses API).
Refusable == \/ \E p \in Range1(Parts(messages)) : p.t \in {"file", "image"}
             \/ kind \in {"google2", "google3", "gemma"} /\ \E m \in Range1(messages) : m.role = "system"
             \/ kind = "completion"
             \/ \E p \in Range1(Parts(messages)) : p.t = "result" /\ p.name = "shell" /\ p.out = "denied"

-----------------------------------------------------------------------------

\* The request that the settings and tools of a call make.
Body ==
    LET anthropic == Anthropic!Models
        google == Google!Models
        openai == OpenAi!Models
        m == call.model
    IN  CASE kind = "anthropic" -> Anthropic!prepare_request(call.asked, anthropic[m], call.tools, call.choice)
          [] kind = "interactions" -> Google!interactions_request(call.asked, call.tools, call.choice)
          [] kind \in DOMAIN GoogleModel -> Google!prepare_request(call.asked, google[m], call.tools, call.choice)
          [] kind = "chat" -> OpenAi!chat_request(call.asked, openai[m], call.tools, call.choice)
          [] kind = "compatible" -> OpenAi!compatible_request(call.asked, m = "structured", call.tools, call.choice)
          [] kind = "completion" -> OpenAi!completion_request(call.asked, call.tools, call.choice)
          [] OTHER -> OpenAi!prepare_request(call.asked, openai[m], call.tools, call.choice, call.allowed)
Offered(b) == IF kind = "anthropic" THEN {t.id : t \in ToSet(b.tools)} ELSE b.tools
Sampling == {"temperature", "high_temperature", "top_p"}

\* What the APIs refuse a request for: sampling settings beside thinking or on
\* a model that reasons, two of Anthropic's at once, more tokens than the model
\* has, functions mixed with tools of the provider before Gemini 3, a choice
\* among functions of which there are none, a tool allowed that is not sent,
\* two values of one setting.
BodyTaken(b) ==
    b.ok =>
    /\ OneEach(b.body)
    /\ CASE kind = "anthropic" ->
              LET c == Anthropic!Models[call.model]
                  thinks == b.thinking.kind \in {"enabled", "adaptive"}
              IN  /\ thinks \/ c.rejects => b.body \cap (Sampling \cup {"top_k"}) = {}
                  /\ c.claude => Cardinality(b.body \cap Sampling) <= 1
                  /\ c.known => b.max <= c.max
                  /\ b.thinking.budget < c.max => b.thinking.budget < b.max
                  /\ b.thinking.kind = "disabled" /\ c.together => b.thinking.effort \notin {"xhigh", "max"}
                  /\ b.choice \in {"any", "tool"} => b.tools # <<>> \/ \A t \in ToSet(call.tools) : t.id \in b.warned
         [] kind \in {"google2", "google3", "gemma"} ->
              LET functions == {t.id : t \in {u \in ToSet(call.tools) : u.t = "function"}}
              IN  /\ b.tools \cap functions # {} /\ b.tools \ functions # {} => Google!Models[call.model].gemini = 3
                  /\ b.mode # "" => b.tools \cap functions # {}
         [] kind = "interactions" -> "agent" \in call.asked => b.body \cap Google!GenerationSettings = {} /\ b.mode = ""
         [] kind = "chat" ->
              LET c == OpenAi!Models[call.model]
              IN  /\ c.reasons /\ ~(c.plain /\ b.effort = "none") => b.body \cap (Sampling \cup {"logprobs"}) = {}
                  /\ c.reasons => b.body \cap {"frequency_penalty", "presence_penalty", "logit_bias"} = {}
                  /\ c.preview => b.body \cap {"temperature", "high_temperature"} = {}
                  /\ c.reasons /\ "max_completion" \in b.body => b.body \cap {"max_8", "max_100"} = {}
         [] kind = "responses" ->
              LET c == OpenAi!Models[call.model]
              IN  /\ c.reasons /\ ~(c.plain /\ b.effort = "none") => b.body \cap Sampling = {}
                  /\ ~c.reasons /\ "force_reasoning" \notin call.asked => b.body \cap Levels = {} /\ ~b.detailed
                  /\ "effort_update" \in b.body => c.six /\ b.body \cap {"mode_pro", "context_management", "truncation_auto"} = {}
                  /\ b.ok /\ b.choice = "allowed_tools" =>
                        \A e \in b.entries : e \in b.warned \/ \E t \in ToSet(call.tools) : e \in {t.id, t.name} /\ "deferred" \notin t.o
                  /\ "logprobs" \in b.include => "logprobs" \in b.body
                  /\ {"store_false", "reasoning_context"} \subseteq b.body => "encrypted_content" \in b.include
         [] OTHER -> TRUE

\* What a call asks for that needs no word of its own: options that steer how the
\* rest is sent, and a setting that another one of the call stands in for.
Steers == {"json_tool", "output_format", "budget", "parallel", "no_schema", "no_sources", "force_reasoning"}
Reasons == Levels \cup {"effort_none", "effort_low", "effort_max", "thinking_enabled", "thinking_adaptive", "thinking_disabled"}
Implied(a, b) ==
    \/ a \in Steers
    \/ a = "no_parallel" /\ Offered(b) = {}
    \/ a \in Reasons /\ b.body \cap (Reasons \cup {"thinking", "effort", "thinking_level", "thinking_budget"}) # {}
    \/ kind \in {"google2", "google3", "gemma"} /\ a = "schema" /\ "no_schema" \in call.asked
    \/ kind = "chat" /\ a \in {"max_8", "max_100"} /\ "max_completion" \in b.body
\* What is lost without a warning, although unsupported options are to produce one
\* (ferrin-spec/src/language_model/mod.rs:54), for models that do not reason of
\* the Responses API by docs/providers/openai.md:86 as well.
Omitted(a) ==
    \/ a \in Levels /\ (kind \in {"completion", "interactions"} \/ (kind = "responses" /\ ~OpenAi!Models[call.model].reasons))
    \/ kind = "interactions" /\ a = "agent_config"
OmittedTool(t) == (kind = "anthropic" /\ call.choice = "none") \/ (kind = "responses" /\ t.id = "ghost")

Dropped(b) ==
    IF ~b.ok THEN {}
    ELSE {a \in call.asked : a \notin b.body \cup b.warned /\ ~Implied(a, b) /\ ~Omitted(a)}
         \cup {t.id : t \in {u \in ToSet(call.tools) : u.id \notin Offered(b) \cup b.warned /\ ~OmittedTool(u)}}

-----------------------------------------------------------------------------

WireTaken(w) ==
    /\ w.ok \/ Refusable
    /\ w.ok => Answered(Flow(w), w)
    /\ kind = "anthropic" /\ w.ok => AnthropicTakes(w)
    /\ kind \in ResponsesKinds /\ w.ok => ResponsesTake(w)
    /\ kind \in {"google2", "google3", "gemma"} /\ w.ok => GoogleTakes(w)
PromptTaken(p) ==
    /\ p.ok \/ p.why \in {"download", "file"}
    /\ p.ok => WireTaken(Wire(p.prompt))

\* Whenever the model is asked, the library takes the history it built and what
\* it makes of it is a conversation that the provider takes, except as Due says.
RequestsWellFormed ==
    /\ phase = "model" /\ standardize(messages, TRUE) => InOrder /\ PromptTaken(Prompt)
    /\ phase = "asked" => BodyTaken(Body)

\* The parts that an adapter leaves out without a warning. No API has a word for
\* the first three; the rest is content that is lost, although the adapters are
\* to warn of what they do not support (ferrin-spec/src/language_model/mod.rs:54).
Silent(q) ==
    \/ q.t \in {"request", "source"} \/ (q.t = "response" /\ (~q.hosted \/ kind \notin ResponsesKinds))
    \/ q.t = "call" /\ q.hosted /\ kind \in ResponsesKinds /\ q.o = {}
       /\ ~ \E p \in Range1(Parts(messages)) : p.t = "result" /\ p.hosted /\ p.x = q.x
    \/ q.t = "text" /\ Says(q.x) = ""
    \/ kind = "completion" /\ q.t \in {"file", "image", "reasoning", "reasoning_file", "custom"}
    \/ kind = "chat" /\ q.t = "reasoning"
    \/ kind \in {"chat", "compatible", "google2", "gemma"} /\ q.t = "result" /\ q.hosted /\ q.o = {}
    \/ kind \in {"google2", "gemma"} /\ q.t = "result" /\ q.out = "content" /\ \A p \in Range1(q.parts) : p.t # "text"
SilentInside(q) == q.t = "custom" /\ kind \in {"google2", "google3", "gemma"}

LostAsListed(w) ==
    LET f == Flow(w)
        warned == IF kind = "anthropic" THEN w.s.warned ELSE w.warned
        sort(q) == CASE q.t = "call" -> {"call", "hosted call"} [] q.t = "result" -> {"result", "hosted result"} [] OTHER -> {"other", "inner"}
        sent(q) == /\ q.t # "request"    \* only its response goes to a server
                   /\ \/ q.x \in warned \cup Known(w)
                      \/ \E i \in DOMAIN f : f[i].x = q.x /\ (f[i].sort \in sort(q) \/ f[i].sort = "reference")
        inner(q) == IF q.t = "result" /\ ~q.hosted /\ q.out = "content" /\ kind # "completion" THEN Range1(q.parts) ELSE {}
        all == Range1(Parts(messages))
    IN  w.ok => /\ {q \in all : ~sent(q)} = {q \in all : Silent(q)}
                /\ \A q \in all : {r \in inner(q) : ~sent(r)} = {r \in inner(q) : SilentInside(r)}

\* A part of the history is in the request, or the server has it, or a warning
\* names it, or the request fails, and exactly the parts that Silent names are
\* lost without a word. So it is with what a call asks for: at most what Omitted
\* and OmittedTool name goes without one. These lists are what the code does and
\* the documents quoted there do not allow.
OnlyListedIsSilent ==
    /\ phase = "model" /\ standardize(messages, TRUE) => LET p == Prompt IN p.ok => LostAsListed(Wire(p.prompt))
    /\ phase = "asked" => Dropped(Body) = {}
=============================================================================

---------------------------- MODULE OpenAiRequest ----------------------------
(* A request to OpenAI's Responses API, its prompt as input items; and the   *)
(* settings and tools of a call as the body of a request to that API, to     *)
(* Chat Completions and Completions and to a server that is compatible.      *)
EXTENDS Conversation

(* The prompt as items, which can refer to items the server keeps. Options   *)
(* of a part: "item" (the server has an item of its own for it), "joint" (one *)
(* item for several parts of a message), "encrypted" reasoning, calls of a   *)
(* "program", and "parallel" for the two children of one call. c says how    *)
(* the request is made: whether responses are stored, continues a            *)
(* conversation or a previous response, the provider's tools it declares and *)
(* how it sends the system's messages.                                       *)

\* An item: its type, its id or that of its call, and the parts it is made of.
Item(t, id, parts) == [t |-> t, id |-> id, parts |-> parts]
HasItem(p) == p.o \cap {"item", "joint"} # {}
ItemId(p) == IF "joint" \in p.o THEN <<p.x[1], "joint">> ELSE p.x
Reference(id) == Item("item_reference", id, <<>>)
Push(a, item) == [a EXCEPT !.wire = Append(@, item)]
Warn(a, x) == [a EXCEPT !.warned = @ \cup {x}]
Fail(a) == [a EXCEPT !.ok = FALSE]
Linked(c) == c.conversation \/ c.previous
IsUrl(f) == f.d \in {"url", "own_url"}

\* Text of a file is the id of one of the provider's files, marked by its prefix.
convert_user_file(f) ==
    LET t == IF f.media \in Image THEN "input_image" ELSE "input_file"
    IN  CASE f.d = "reference" -> IF f.is = "elsewhere" THEN <<>> ELSE <<Item(t, f.x, <<f.x>>)>>
          [] f.d = "text" -> IF "file_id" \in f.o THEN <<Item(t, f.x, <<f.x>>)>> ELSE <<>>
          [] f.media \in Image \/ IsUrl(f) \/ f.media = "application/pdf" -> <<Item(t, f.x, <<f.x>>)>>
          [] OTHER -> <<>>

\* A user's message is one item; the items of its parts are in parts.
user_message(a, m) ==
    LET good(p) == p.t = "text" \/ convert_user_file(p) # <<>>
    IN  IF \A p \in Range1(m.content) : good(p)
          THEN Push(a, Item("user", <<>>, [i \in DOMAIN m.content |-> m.content[i].x]))
          ELSE Fail(a)

-----------------------------------------------------------------------------

\* The tools that the server runs or stores calls of.
Advanced == {"programmatic_tool_calling", "tool_search", "shell", "local_shell"}
ProviderDefined == {"local_shell", "shell", "apply_patch", "computer", "custom"}

\* Calls of a declared tool go back as the item they came as.
advanced_call(a, p, c) ==
    CASE Linked(c) /\ c.store /\ HasItem(p) -> a
      [] c.store /\ HasItem(p) -> Push(a, Reference(ItemId(p)))
      [] p.name = "programmatic_tool_calling" /\ p.v # "program" -> Fail(a)
      [] p.name \in {"shell", "local_shell"} /\ p.v # "action" -> Fail(a)
      [] OTHER -> Push(a, Item(IF p.name = "programmatic_tool_calling" THEN "program" ELSE p.name, p.x, <<p.x>>))

convert_assistant_tool_call(a, p, c) ==
    CASE p.name \in c.tools \cap Advanced -> advanced_call(a, p, c)
      [] p.hosted -> IF c.store /\ HasItem(p) THEN Push(a, Reference(ItemId(p))) ELSE a
      [] c.conversation /\ HasItem(p) -> a
      [] p.name \in c.tools \cap ProviderDefined ->
            CASE HasItem(p) /\ c.store -> IF c.previous THEN a ELSE Push(a, Reference(ItemId(p)))
              [] p.name \in {"apply_patch", "custom"} -> Push(a, Item(p.name, p.x, <<p.x>>))
              [] OTHER -> Warn(a, p.x)
      [] OTHER -> Push(a, Item("function_call", p.x, <<p.x>>))

\* Results of hosted tools are with the server; those of declared tools that
\* it does not keep are sent, and no others.
assistant_result(a, p, c) ==
    LET id == IF HasItem(p) THEN ItemId(p) ELSE p.x
        kept == p.name \in c.tools \cap {"programmatic_tool_calling", "tool_search"}
        sent == kept \/ p.name \in c.tools \cap {"shell"}
    IN  CASE p.out = "denied" \/ (p.out = "json" /\ p.v = "execution-denied") \/ c.conversation -> a
          [] kept /\ c.store -> IF c.previous THEN a ELSE Push(a, Reference(id))
          [] sent -> IF p.out = "json" THEN Push(a, Item("hosted_output", p.x, <<p.x>>)) ELSE Fail(a)
          [] c.store -> Push(a, Reference(id))
          [] OTHER -> Warn(a, p.x)

\* Mutant: the parts of one item each refer to it.
convert_reasoning_Each(a, p, c) ==
    CASE HasItem(p) /\ Linked(c) -> a
      [] HasItem(p) /\ c.store -> Push(a, Reference(ItemId(p)))
      [] HasItem(p) \/ "encrypted" \in p.o -> Push(a, Item("reasoning", ItemId(p), <<p.x>>))
      [] OTHER -> Warn(a, p.x)

\* The parts of one item of reasoning are one item again, or one reference.
convert_reasoning(a, p, c) ==
    LET n == SelectInSeq(a.wire, LAMBDA i : i.t = "reasoning" /\ i.id = ItemId(p))
    IN  CASE HasItem(p) /\ Linked(c) -> a
          [] HasItem(p) /\ c.store ->
                IF \E i \in a.seen : i = ItemId(p) THEN a ELSE [Push(a, Reference(ItemId(p))) EXCEPT !.seen = @ \cup {ItemId(p)}]
          [] HasItem(p) /\ n > a.from -> [a EXCEPT !.wire[n].parts = Append(@, p.x)]
          [] HasItem(p) \/ "encrypted" \in p.o -> Push(a, Item("reasoning", ItemId(p), <<p.x>>))
          [] OTHER -> Warn(a, p.x)

assistant_text(a, p, c) ==
    CASE c.conversation /\ HasItem(p) -> a
      [] c.store /\ HasItem(p) -> Push(a, Reference(ItemId(p)))
      [] OTHER -> Push(a, Item("assistant", p.x, <<p.x>>))

convert_assistant_message(a, m, c) ==
    LET part(b, p) ==
            CASE p.t = "text" -> assistant_text(b, p, c)
              [] p.t = "call" -> convert_assistant_tool_call(b, p, c)
              [] p.t = "result" -> assistant_result(b, p, c)
              [] p.t = "reasoning" -> convert_reasoning(b, p, c)
              [] p.t = "custom" -> IF "compaction" \in p.o THEN Push(b, Item("compaction", p.x, <<p.x>>)) ELSE Warn(b, p.x)
              [] OTHER -> Warn(b, p.x)
    IN  FoldLeft(part, [a EXCEPT !.seen = {}, !.from = Len(a.wire)], m.content)

-----------------------------------------------------------------------------

\* The content of a result: texts, and files that are bytes or a url.
convert_output(a, p) ==
    LET good(q) == q.t = "text" \/ (q.t = "file" /\ (q.d = "bytes" \/ IsUrl(q)))
        typed(q) == q.t # "file" \/ q.d # "bytes" \/ Full(q.media) \/ q.is \in Image
        refused == {q.x : q \in {r \in Range1(p.parts) : ~good(r)}}
        taken == SelectSeq(p.parts, good)
    IN  [s |-> [a EXCEPT !.ok = @ /\ \A q \in Range1(p.parts) : typed(q), !.warned = @ \cup refused],
         parts |-> <<p.x>> \o [i \in DOMAIN taken |-> taken[i].x]]

\* The item a result becomes, by the tool it is of.
result_output(a, p, c) ==
    LET json == p.out = "json"
        own == p.name \in c.tools
        out == convert_output(a, p)
        custom == own /\ p.name = "custom"
    IN  CASE own /\ p.name \in {"apply_patch", "computer", "tool_search"} /\ json -> Push(a, Item("provider_output", p.x, <<p.x>>))
          [] own /\ p.name = "local_shell" ->
                IF (p.out \in {"json", "error_json"} /\ p.v # "output") \/ p.out = "content" THEN Fail(a)
                ELSE Push(a, Item("provider_output", p.x, <<p.x>>))
          [] own /\ p.name = "shell" ->
                IF p.out \in {"json", "error_json"} /\ p.v = "output" THEN Push(a, Item("provider_output", p.x, <<p.x>>)) ELSE Fail(a)
          [] p.out = "denied" /\ "program" \in p.o -> Fail(a)
          [] OTHER -> Push(out.s, Item(IF custom THEN "custom_output" ELSE "function_call_output", p.x, out.parts))

convert_tool_result_Denied(a, p, c) == IF p.out = "denied" THEN a ELSE result_output(a, p, c)

\* A denied result that its own options say was sent as a decision is left out.
convert_tool_result(a, p, c) == IF p.out = "denied" /\ p.v = "approval_id" THEN a ELSE result_output(a, p, c)

\* Decisions about calls of remote tools refer to the request they answer.
convert_tool_message(a, m, c) ==
    LET part(b, p) ==
            CASE p.t = "response" /\ p.x \in b.seen -> b
              [] p.t = "response" ->
                    LET referred == IF c.store /\ ~Linked(c) THEN Push(b, Reference(p.x)) ELSE b
                    IN  [Push(referred, Item("mcp_approval_response", p.x, <<p.x>>)) EXCEPT !.seen = @ \cup {p.x}]
              [] p.t = "result" -> convert_tool_result(b, p, c)
    IN  FoldLeft(part, [a EXCEPT !.seen = {}], m.content)

\* Children of one parallel call: two, with one wrapper.
Children == <<"child0", "child1">>
Wrapper(p) == <<p.x[1], "parallel">>

\* A server that knows the conversation knows the wrapper and not the children:
\* a group that is complete is one call and one result again.
regroup(a, prompt, c) ==
    LET results == SelectSeq(Parts(SelectSeq(prompt, LAMBDA m : m.role = "tool")), LAMBDA p : p.t = "result" /\ "parallel" \in p.o)
        outputs == {i.id : i \in {j \in Range1(a.wire) : j.t = "function_call_output"}}
        whole(w) == /\ SelectSeq(results, LAMBDA p : Wrapper(p) = w) # <<>>
                    /\ \A k \in DOMAIN Children : LET own == SelectSeq(results, LAMBDA p : p.x = <<w[1], Children[k]>>)
                                                  IN  Len(own) = 1 /\ own[1].x \in outputs
        of(i) == <<i.id[1], "parallel">>
        joined(i) == /\ i.t \in {"function_call", "function_call_output"}
                     /\ \E k \in DOMAIN Children : i.id = <<i.id[1], Children[k]>>
                     /\ whole(of(i))
        first(n) == \A k \in 1..(n - 1) : ~(a.wire[k].t = a.wire[n].t /\ joined(a.wire[k]) /\ of(a.wire[k]) = of(a.wire[n]))
        parts(n) == FlattenSeq([k \in DOMAIN a.wire |->
                        IF a.wire[k].t = a.wire[n].t /\ joined(a.wire[k]) /\ of(a.wire[k]) = of(a.wire[n]) THEN a.wire[k].parts ELSE <<>>])
        item(n) == LET i == a.wire[n]
                   IN  CASE ~joined(i) -> <<i>>
                         [] i.t = "function_call" /\ c.conversation -> <<>>
                         [] first(n) -> <<Item(i.t, of(i), parts(n))>>
                         [] OTHER -> <<>>
    IN  IF Linked(c) THEN [a EXCEPT !.wire = FlattenSeq([n \in DOMAIN a.wire |-> item(n)])] ELSE a

\* A program cannot be told that a call of its own was denied.
validate_program_denials(prompt) ==
    LET called == {p.x : p \in {q \in Range1(Parts(prompt)) : q.t = "call" /\ "program" \in q.o}}
        denied == UNION {{p.x : p \in {q \in Range1(m.content) : q.t = "result" /\ q.out = "denied"}} :
                         m \in {n \in Range1(prompt) : n.role = "tool"}}
    IN  called \cap denied = {}

convert_prompt(prompt, c) ==
    LET step(a, m) ==
            CASE m.role = "system" /\ c.mode = "remove" -> Warn(a, m.content[1].x)
              [] m.role = "system" -> Push(a, Item(c.mode, <<>>, <<m.content[1].x>>))
              [] m.role = "user" -> user_message(a, m)
              [] m.role = "assistant" -> convert_assistant_message(a, m, c)
              [] m.role = "tool" -> convert_tool_message(a, m, c)
        end == FoldLeft(step, [ok |-> TRUE, warned |-> {}, wire |-> <<>>, seen |-> {}, from |-> 0], prompt)
    IN  IF validate_program_denials(prompt) THEN regroup(end, prompt, c) ELSE Fail(end)

-----------------------------------------------------------------------------
(* The body: asked is the set of what the call asks for by name.             *)

Capabilities(reasons, flex, priority, six, plain) ==
    [reasons |-> reasons, flex |-> flex, priority |-> priority, six |-> six, plain |-> plain, preview |-> FALSE]
\* One model of each line of the table; plain: sampling is accepted without reasoning.
Models == [gpt_4 |-> Capabilities(FALSE, FALSE, TRUE, FALSE, FALSE), gpt_5 |-> Capabilities(TRUE, TRUE, TRUE, FALSE, FALSE),
           gpt_5_nano |-> Capabilities(TRUE, TRUE, FALSE, FALSE, FALSE), gpt_5_chat |-> Capabilities(FALSE, FALSE, FALSE, FALSE, FALSE),
           gpt_5_1 |-> Capabilities(TRUE, TRUE, TRUE, FALSE, TRUE), gpt_6 |-> Capabilities(TRUE, TRUE, TRUE, TRUE, FALSE),
           o1 |-> Capabilities(TRUE, FALSE, FALSE, FALSE, FALSE), o3 |-> Capabilities(TRUE, TRUE, TRUE, FALSE, FALSE),
           search_preview |-> [Capabilities(FALSE, FALSE, TRUE, FALSE, FALSE) EXCEPT !.preview = TRUE]]

Effort == [reasoning_none |-> "none", reasoning_minimal |-> "minimal", reasoning_low |-> "low", reasoning_high |-> "high",
           reasoning_xhigh |-> "xhigh"]
\* The effort of the provider's option goes before the level that every
\* provider knows; one the model does not accept is left out.
effort(asked, c) ==
    LET levels == asked \cap DOMAIN Effort
        wanted == CASE "effort_none" \in asked -> "none" [] "effort_low" \in asked -> "low"
                    [] levels # {} -> Effort[CHOOSE l \in levels : TRUE] [] OTHER -> ""
        refused == c.six /\ wanted \notin {"", "low", "high", "xhigh"}
        named == levels \cup (asked \cap {"effort_none", "effort_low"})
    IN  [value |-> IF refused THEN "" ELSE wanted, warned |-> IF refused THEN named ELSE {}]
reasons(asked, c) == c.reasons \/ "force_reasoning" \in asked
\* Whether temperature and top_p may be sent.
sampling_allowed(asked, c) == ~reasons(asked, c) \/ (effort(asked, c).value = "none" /\ c.plain)
Heat == {"temperature", "high_temperature", "top_p"}
refused_tier(asked, c) == (IF c.flex THEN {} ELSE asked \cap {"flex"}) \cup (IF c.priority THEN {} ELSE asked \cap {"priority"})
levels_sent(asked, value) == IF value = "" THEN {} ELSE asked \cap (DOMAIN Effort \cup {"effort_none", "effort_low"})

\* Chat Completions, the compatible server's as well: functions only.
convert_functions(tools, choice) ==
    LET functions == SelectSeq(tools, LAMBDA t : t.t = "function")
    IN  [tools |-> {t.id : t \in ToSet(functions)}, choice |-> IF tools = <<>> THEN "" ELSE choice,
         warned |-> {t.id : t \in ToSet(tools) \ ToSet(functions)}]

-----------------------------------------------------------------------------

\* What of a call steers sampling and cannot be sent to the model.
Refused(asked, c) == (IF sampling_allowed(asked, c) THEN {} ELSE asked \cap Heat)
                     \cup (IF c.preview THEN asked \cap {"temperature", "high_temperature"} ELSE {})

chat_request(asked, c, tools, choice) ==
    LET converted == convert_functions(tools, choice)
        cannot == Refused(asked, c) \cup refused_tier(asked, c)
                  \cup (IF reasons(asked, c) THEN asked \cap {"frequency_penalty", "presence_penalty", "logit_bias"} ELSE {})
                  \* An allowed logprobs still loses the number of its alternatives.
                  \cup (IF reasons(asked, c) THEN asked \cap {"logprobs"} ELSE {})
        wanted == effort(asked, c)
        replaced == IF reasons(asked, c) /\ "max_completion" \in asked THEN asked \cap {"max_8", "max_100"} ELSE {}
        plain == Heat \cup {"frequency_penalty", "presence_penalty", "logit_bias", "logprobs", "seed", "stop", "json", "schema", "flex",
                            "priority", "max_completion", "max_8", "max_100", "user"}
    IN  [ok |-> "bad_option" \notin asked, tools |-> converted.tools, choice |-> converted.choice,
         effort |-> wanted.value, system |-> IF reasons(asked, c) THEN "developer" ELSE "system",
         body |-> ((asked \cap plain) \ (cannot \cup replaced)) \cup levels_sent(asked, wanted.value)
                  \cup (IF sampling_allowed(asked, c) THEN asked \cap {"logprobs"} ELSE {}),
         warned |-> cannot \cup wanted.warned \cup (asked \cap {"top_k"}) \cup converted.warned]

\* structured: whether the server is said to take a schema.
compatible_request(asked, structured, tools, choice) ==
    LET converted == convert_functions(tools, choice)
        wanted == effort(asked, Models.gpt_4)
        plain == Heat \cup {"frequency_penalty", "presence_penalty", "seed", "stop", "json", "max_8", "max_100", "user", "unknown"}
    IN  [ok |-> "bad_option" \notin asked, tools |-> converted.tools, choice |-> converted.choice, effort |-> wanted.value,
         body |-> (asked \cap plain) \cup levels_sent(asked, wanted.value) \cup (IF structured THEN asked \cap {"schema"} ELSE {}),
         warned |-> (asked \cap {"top_k"}) \cup converted.warned \cup (IF structured THEN {} ELSE asked \cap {"schema"})]

\* The completions API knows neither tools nor formats.
completion_request(asked, tools, choice) ==
    [ok |-> "bad_option" \notin asked, tools |-> {}, choice |-> "", effort |-> "",
     body |-> asked \cap (Heat \cup {"frequency_penalty", "presence_penalty", "seed", "stop", "max_8", "max_100", "logprobs", "logit_bias",
                                     "echo", "user"}),
     warned |-> (asked \cap {"top_k", "json", "schema"}) \cup {t.id : t \in ToSet(tools)} \cup (IF choice = "" THEN {} ELSE {"choice"})]

-----------------------------------------------------------------------------

ResponsesTools == {"web_search", "code_interpreter", "shell", "apply_patch", "local_shell", "tool_search", "mcp", "custom",
                   "programmatic_tool_calling", "file_search", "image_generation", "computer"}
\* A tool of the provider the choice names by its type; another is taken for a function.
ByType == ResponsesTools \ {"shell", "local_shell", "tool_search", "custom"}

convert_tool_choice(choice, tools) ==
    CASE choice \in {"", "auto", "none", "required"} -> choice
      [] choice \in ByType -> "type"
      [] \E t \in ToSet(tools) : t.t = "provider" /\ t.id = "custom" /\ choice = "custom" -> "custom"
      [] OTHER -> "function"

\* Functions of one namespace are grouped at the place of its first; a
\* namespace has one description ("described": that of the first one only).
convert_tools(tools, choice, c) ==
    LET sent == SelectSeq(tools, LAMBDA t : t.t = "function" \/ t.id \in ResponsesTools)
        spaced == {t \in ToSet(sent) : "namespace" \in t.o}
        conflict == \E t, u \in spaced : "described" \in t.o /\ "described" \notin u.o
        late == IF c.six THEN {} ELSE {t.id : t \in {u \in ToSet(sent) : "async" \in u.o}}
    IN  [ok |-> ~conflict, tools |-> {t.id : t \in ToSet(sent)}, waits |-> {t.id : t \in {u \in ToSet(sent) : "async" \in u.o}} \ late,
         groups |-> (IF spaced = {} THEN 0 ELSE 1) + Len(SelectSeq(sent, LAMBDA t : "namespace" \notin t.o)),
         choice |-> IF tools = <<>> THEN "" ELSE convert_tool_choice(choice, tools), warned |-> late]

\* The tools the model is allowed, by name; names: what the provider calls them
\* (a tool of the provider with a name of its own goes by both).
Provided(t) == IF t.t = "provider" /\ t.id # "custom" THEN t.id ELSE t.name
allowed_tools(names, tools) ==
    LET known == {t \in ToSet(tools) : t.t = "function" \/ t.id \in ResponsesTools}
        refused(t) == (t.t = "function" /\ t.o \cap {"namespace", "deferred"} # {}) \/ (t.t = "provider" /\ t.id = "tool_search")
        entry(t) == IF t.t = "provider" /\ t.id \notin {"custom", "mcp"} THEN t.id ELSE t.name
        direct(n) == {t \in known : t.name = n}
        alias(n) == {t \in known : t.name # n /\ Provided(t) = n}
        what(n) == IF direct(n) # {} THEN {CHOOSE t \in direct(n) : TRUE} ELSE alias(n)
        ambiguous(n) == Cardinality({IF refused(t) THEN "" ELSE entry(t) : t \in what(n)}) > 1
        sent(n) == CASE what(n) = {} -> {n}
                     [] ambiguous(n) -> {}
                     [] OTHER -> {entry(t) : t \in {u \in what(n) : ~refused(u)}}
        entries == UNION {sent(n) : n \in names}
    IN  [ok |-> names # {} /\ entries # {}, entries |-> entries,
         warned |-> {n \in names : what(n) = {} \/ ambiguous(n) \/ (\E t \in what(n) : refused(t)) \/ (direct(n) # {} /\ alias(n) # {})}]

\* allowed: the allow list, <<>> or <<names>>.
prepare_request(asked, c, tools, choice, allowed) ==
    LET converted == convert_tools(tools, choice, c)
        listed == IF allowed = <<>> \/ tools = <<>> THEN [ok |-> TRUE, entries |-> {}, warned |-> {}] ELSE allowed_tools(allowed[1], tools)
        wanted == effort(asked, c)
        updates == c.six /\ asked \cap {"mode_pro", "context_management", "truncation_auto"} = {}
        update == IF updates THEN asked \cap {"effort_update"} ELSE {}
        nologs == IF c.six /\ ~sampling_allowed(asked, c) THEN asked \cap {"logprobs"} ELSE {}
        own == asked \cap {"effort_none", "effort_low", "summary", "mode_pro", "reasoning_context"}
        reasoning == IF reasons(asked, c) THEN levels_sent(asked, wanted.value) \cup (own \ {"effort_none", "effort_low"}) ELSE {}
        retention == IF c.six THEN asked \cap {"cache_retention"} ELSE {}
        cannot == Refused(asked, [c EXCEPT !.preview = FALSE]) \cup refused_tier(asked, c) \cup nologs \cup retention
        plain == Heat \cup {"json", "schema", "flex", "priority", "max_8", "max_100", "logprobs", "cache_retention", "conversation", "previous",
                            "store_false", "context_management", "truncation_auto", "compaction_trigger", "user", "verbosity"}
        has(id) == \E t \in ToSet(tools) : t.id = id
    IN  [ok |-> "bad_option" \notin asked /\ converted.ok /\ listed.ok,
         tools |-> converted.tools, waits |-> converted.waits, groups |-> converted.groups, entries |-> listed.entries,
         choice |-> IF allowed = <<>> \/ tools = <<>> THEN converted.choice ELSE "allowed_tools",
         effort |-> wanted.value, system |-> IF reasons(asked, c) THEN "developer" ELSE "system",
         \* The summary of reasoning that nobody asked for.
         detailed |-> reasons(asked, c) /\ "summary" \notin asked /\ wanted.value \notin {"", "none"},
         include |-> ((asked \cap {"logprobs"}) \ nologs) \cup (IF has("web_search") /\ "no_sources" \notin asked THEN {"sources"} ELSE {})
                     \cup (IF has("code_interpreter") THEN {"outputs"} ELSE {})
                     \cup (IF "store_false" \in asked /\ reasons(asked, c) THEN {"encrypted_content"} ELSE {}),
         body |-> ((asked \cap plain) \ cannot) \cup reasoning \cup update,
         warned |-> cannot \cup wanted.warned \cup converted.warned \cup listed.warned
                    \cup (asked \cap {"top_k", "seed", "presence_penalty", "frequency_penalty", "stop"})
                    \cup ((asked \cap {"effort_update"}) \ update)
                    \cup (IF reasons(asked, c) THEN {} ELSE own)
                    \cup (IF {"conversation", "previous"} \subseteq asked THEN {"conversation"} ELSE {})]
=============================================================================

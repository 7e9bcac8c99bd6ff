--------------------------- MODULE AnthropicRequest ---------------------------
(* A request to Anthropic's API: the prompt as its messages, groups of one   *)
(* role, in each the blocks of its parts, and the settings and tools of the  *)
(* call as its body.                                                         *)
EXTENDS Conversation

(* The prompt. Options: "cache" asks for a cache breakpoint, "signature" and *)
(* "redacted" are of reasoning, "compaction" of text, "mcp" of calls and     *)
(* results of remote tools, "container" of files.                            *)

CONSTANT MaxBreakpoints     \* cache breakpoints of one request

\* A block of a message: its type, the part it stands for and a detail.
Block(t, x, v) == [t |-> t, x |-> x, v |-> v, cache |-> FALSE, content |-> <<>>]

\* The conversion so far: what it warned about and the breakpoints it met.
Start == [warned |-> {}, points |-> 0]
warn(s, x) == [s EXCEPT !.warned = @ \cup {x}]

\* Mutant: the limit is checked before the breakpoint is counted.
get_Late(s, o, x, can) ==
    CASE "cache" \notin o -> [s |-> s, v |-> FALSE]
      [] ~can -> [s |-> s, v |-> FALSE]
      [] s.points > MaxBreakpoints -> [s |-> [s EXCEPT !.points = @ + 1], v |-> FALSE]
      [] OTHER -> [s |-> [s EXCEPT !.points = @ + 1], v |-> TRUE]

\* One breakpoint, unless there are too many or it may not be there.
get(s, o, x, can) ==
    CASE "cache" \notin o -> [s |-> s, v |-> FALSE]
      [] ~can -> [s |-> warn(s, x), v |-> FALSE]
      [] s.points >= MaxBreakpoints -> [s |-> [warn(s, x) EXCEPT !.points = @ + 1], v |-> FALSE]
      [] OTHER -> [s |-> [s EXCEPT !.points = @ + 1], v |-> TRUE]

\* That of a part, or of its message if the part is its last.
cache_control(s, o, messageOptions, last, x, can) ==
    LET own == get(s, o, x, can)
    IN  IF own.v \/ ~last THEN own ELSE get(own.s, messageOptions, x, can)

\* A block added to the blocks of a group, with a breakpoint or none.
Put(g, c, block) == [g EXCEPT !.s = c.s, !.blocks = Append(@, [block EXCEPT !.cache = c.v])]
Add(g, block) == [g EXCEPT !.blocks = Append(@, block)]
Warned(g, x) == [g EXCEPT !.s = warn(@, x)]

-----------------------------------------------------------------------------

\* A file as an image, a document or an upload; <<>> if its type is not
\* supported, or a reference is to a file of another provider.
convert_file(f) ==
    LET image == f.media \in Image
    IN  CASE f.d = "reference" /\ f.is = "elsewhere" -> <<>>
          [] f.d = "reference" /\ "container" \in f.o -> <<Block("container_upload", f.x, "file")>>
          [] f.d = "reference" -> <<Block(IF image THEN "image" ELSE "document", f.x, "file")>>
          [] f.d = "text" -> <<Block("document", f.x, "text")>>
          [] image -> <<Block("image", f.x, IF f.d \in {"url", "own_url"} THEN "url" ELSE "base64")>>
          [] f.media = "application/pdf" -> <<Block("document", f.x, IF f.d \in {"url", "own_url"} THEN "url" ELSE "base64")>>
          [] f.media = "text/plain" -> <<Block("document", f.x, IF f.d \in {"url", "own_url"} THEN "url" ELSE "text")>>
          [] OTHER -> <<>>

Inner(f) == f.media \in Image \cup {"application/pdf", "text/plain"} \/ f.d \in {"reference", "text"}
tool_result_content_parts(s, parts) ==
    LET block(p) == CASE p.t = "text" -> <<Block("text", p.x, "")>>
                      [] p.t = "file" -> IF Inner(p) THEN convert_file(p) ELSE <<>>
                      [] p.t = "custom" -> IF "tool_name" \in p.o THEN <<Block("tool_reference", p.x, "")>> ELSE <<>>
    IN  [s |-> FoldLeft(LAMBDA a, p : IF block(p) = <<>> THEN warn(a, p.x) ELSE a, s, parts),
         ok |-> \A p \in Range1(parts) : p.t = "file" /\ Inner(p) => convert_file(p) # <<>>,
         blocks |-> FlattenSeq([i \in DOMAIN parts |-> block(parts[i])])]

convert_tool_result(g, p, messageOptions, last) ==
    LET c == cache_control(g.s, p.o, messageOptions, last, p.x, TRUE)
        content == tool_result_content_parts(c.s, p.parts)
        error == p.out \in {"error_text", "error_json", "denied"}
    IN  Put([g EXCEPT !.ok = @ /\ content.ok], [c EXCEPT !.s = content.s],
            [Block("tool_result", p.x, IF error THEN "error" ELSE "") EXCEPT
             !.content = IF p.out = "content" THEN content.blocks ELSE <<>>])

\* A user's files are supported or the request fails.
user_part(g, m, i) ==
    LET p == m.content[i]
        last == i = Len(m.content)
    IN  CASE p.t = "text" -> Put(g, cache_control(g.s, p.o, m.o, last, p.x, TRUE), Block("text", p.x, ""))
          [] p.t = "file" ->
                LET c == cache_control(g.s, p.o, m.o, last, p.x, TRUE)
                    block == convert_file(p)
                IN  IF block = <<>> THEN [g EXCEPT !.ok = FALSE] ELSE Put(g, c, block[1])
          [] p.t = "result" -> convert_tool_result(g, p, m.o, last)
          [] p.t = "response" -> Warned(g, p.x)

-----------------------------------------------------------------------------

\* The name the provider knows a tool by.
to_provider_tool_name(name) == IF name = "run_code" THEN "code_execution" ELSE name
SearchTools == {"tool_search_tool_regex", "tool_search_tool_bm25"}

provider_tool_use(p) ==
    LET name == to_provider_tool_name(p.name)
    IN  CASE "mcp" \in p.o -> <<Block("mcp_tool_use", p.x, p.name)>>
          [] name = "code_execution" ->
                <<Block("server_tool_use", p.x,
                        IF p.v \in {"bash_code_execution", "text_editor_code_execution"} THEN p.v ELSE "code_execution")>>
          [] name \in {"web_fetch", "web_search", "advisor"} \cup SearchTools -> <<Block("server_tool_use", p.x, name)>>
          [] OTHER -> <<>>

\* The block of a result is told by the tool and by the type of its value.
provider_tool_result(p) ==
    LET name == to_provider_tool_name(p.name)
        code == CASE p.v \in {"bash_code_execution_result", "bash_code_execution_tool_result_error"} -> "bash_code_execution_tool_result"
                  [] p.v = "text_editor_code_execution_result" -> "text_editor_code_execution_tool_result"
                  [] OTHER -> "code_execution_tool_result"
    IN  CASE "mcp" \in p.o -> <<Block("mcp_tool_result", p.x, IF p.out \in {"error_json", "error_text"} THEN "error" ELSE "")>>
          [] name = "code_execution" -> <<Block(code, p.x, p.v)>>
          [] name = "web_fetch" -> <<Block("web_fetch_tool_result", p.x,
                IF p.v = "web_fetch_tool_result_error" THEN p.v ELSE "web_fetch_result")>>
          [] name = "web_search" -> <<Block("web_search_tool_result", p.x,
                IF p.v = "array" THEN "array" ELSE "web_search_tool_result_error")>>
          [] name \in SearchTools -> <<Block("tool_search_tool_result", p.x,
                IF p.v = "array" THEN "tool_search_tool_search_result" ELSE "tool_search_tool_result_error")>>
          [] name = "advisor" -> <<Block("advisor_tool_result", p.x,
                IF p.v \in {"advisor_result", "advisor_redacted_result"} THEN p.v ELSE "advisor_tool_result_error")>>
          [] OTHER -> <<>>
OrWarned(g, x, block) == IF block = <<>> THEN Warned(g, x) ELSE Add(g, block[1])

\* Reasoning goes back with the signature it came with, or not at all.
reasoning_part(g, p, send) ==
    LET c == get(g.s, p.o, p.x, FALSE)
    IN  CASE ~send -> Warned(g, p.x)
          [] "signature" \in p.o -> Put(g, c, Block("thinking", p.x, ""))
          [] "redacted" \in p.o -> Put(g, c, Block("redacted_thinking", p.x, ""))
          [] OTHER -> Warned([g EXCEPT !.s = c.s], p.x)

\* The very last text is sent without the white space at its end.
assistant_part(g, m, i, lastMessage, send) ==
    LET p == m.content[i]
        last == i = Len(m.content)
        trimmed == IF last /\ lastMessage THEN "trimmed" ELSE ""
        c(can) == cache_control(g.s, p.o, m.o, last, p.x, can)
    IN  CASE p.t = "text" /\ "compaction" \in p.o -> Add([g EXCEPT !.s = c(TRUE).s], Block("compaction", p.x, trimmed))
          [] p.t = "text" -> Put(g, c(TRUE), Block("text", p.x, trimmed))
          [] p.t = "reasoning" -> reasoning_part(g, p, send)
          [] p.t = "call" /\ p.hosted -> OrWarned(g, p.x, provider_tool_use(p))
          [] p.t = "call" -> Put(g, c(TRUE), Block("tool_use", p.x, p.name))
          [] p.t = "result" -> OrWarned(g, p.x, provider_tool_result(p))
          [] p.t \in {"file", "reasoning_file", "custom"} -> Warned(g, p.x)

\* Mutant: tool uses move behind all other blocks, thinking included.
move_tool_use_blocks_to_end_All(blocks) ==
    SelectSeq(blocks, LAMBDA b : b.t # "tool_use") \o SelectSeq(blocks, LAMBDA b : b.t = "tool_use")

\* Between two blocks of thinking, tool uses come last.
move_tool_use_blocks_to_end(blocks) ==
    LET thinking(b) == b.t \in {"thinking", "redacted_thinking"}
        step(s, b) == CASE thinking(b) -> [out |-> s.out \o s.other \o s.tools \o <<b>>, other |-> <<>>, tools |-> <<>>]
                        [] b.t = "tool_use" -> [s EXCEPT !.tools = Append(@, b)]
                        [] OTHER -> [s EXCEPT !.other = Append(@, b)]
        end == FoldLeft(step, [out |-> <<>>, other |-> <<>>, tools |-> <<>>], blocks)
    IN  end.out \o end.other \o end.tools

-----------------------------------------------------------------------------

\* The prompt with the messages that follow each other in one role together.
Role(m) == IF m.role = "tool" THEN "user" ELSE m.role
group_by_role(prompt) ==
    FoldLeft(LAMBDA groups, m :
                IF groups # <<>> /\ Last(groups).role = Role(m)
                  THEN [groups EXCEPT ![Len(groups)].messages = Append(@, m)]
                  ELSE Append(groups, [role |-> Role(m), messages |-> <<m>>]),
             <<>>, prompt)

\* Every part of the messages of a group, in order: the message, the place of
\* the part in it, and whether the message is the group's last.
InTurn(messages) ==
    FlattenSeq([k \in DOMAIN messages |->
                    [i \in DOMAIN messages[k].content |-> [m |-> messages[k], i |-> i, last |-> k = Len(messages)]]])

\* The system's messages at the beginning are the system of the request, what
\* only later ones can say is ignored with a warning.
system_blocks(g, messages) ==
    LET step(a, e) == Put(a, get(a.s, e.m.o, e.m.content[e.i].x, TRUE), Block("text", e.m.content[e.i].x, ""))
    IN  FoldLeft(step, g, InTurn(messages))
top_level_system(g, messages) ==
    LET late == {m \in Range1(messages) : m.o \cap {"tool_changes", "clear_at", "effort"} # {}}
    IN  system_blocks([g EXCEPT !.s.warned = @ \cup {m.content[1].x : m \in late}], messages)

convert_prompt(prompt, s0, send) ==
    LET groups == group_by_role(prompt)
        empty(r) == [s |-> r.s, ok |-> r.ok, blocks |-> <<>>]
        group(r, n) ==
            LET g == groups[n]
                done == CASE g.role = "system" /\ n = 1 -> top_level_system(empty(r), g.messages)
                          [] g.role = "system" -> system_blocks(empty(r), g.messages)
                          [] g.role = "user" -> FoldLeft(LAMBDA a, e : user_part(a, e.m, e.i), empty(r), InTurn(g.messages))
                          [] g.role = "assistant" ->
                                LET step(a, e) == assistant_part(a, e.m, e.i, e.last /\ n = Len(groups), send)
                                    all == FoldLeft(step, empty(r), InTurn(g.messages))
                                IN  [all EXCEPT !.blocks = move_tool_use_blocks_to_end(@)]
            IN  [s |-> done.s, ok |-> done.ok, wire |-> Append(r.wire, [role |-> g.role, content |-> done.blocks])]
    IN  FoldLeft(group, [s |-> s0, ok |-> TRUE, wire |-> <<>>], [n \in DOMAIN groups |-> n])

-----------------------------------------------------------------------------
(* The body: asked is the set of what the call asks for by name, c what is   *)
(* known of the model. Tokens are counted in thousands.                      *)

Capabilities(max, structured, adaptive, rejects, xhigh, together, known, claude) ==
    [max |-> max, structured |-> structured, adaptive |-> adaptive, rejects |-> rejects, xhigh |-> xhigh,
     together |-> together, known |-> known, claude |-> claude]
\* One model of each line of the table of models.
Models == [claude_opus_5   |-> Capabilities(128, TRUE, TRUE, TRUE, TRUE, TRUE, TRUE, TRUE),
           claude_opus_4_8 |-> Capabilities(128, TRUE, TRUE, TRUE, TRUE, FALSE, TRUE, TRUE),
           claude_opus_4_6 |-> Capabilities(128, TRUE, TRUE, FALSE, FALSE, FALSE, TRUE, TRUE),
           claude_haiku_4_5 |-> Capabilities(64, TRUE, FALSE, FALSE, FALSE, FALSE, TRUE, TRUE),
           claude_opus_4   |-> Capabilities(32, FALSE, FALSE, FALSE, FALSE, FALSE, TRUE, TRUE),
           claude_2        |-> Capabilities(4, FALSE, FALSE, FALSE, FALSE, FALSE, FALSE, TRUE),
           claude_next     |-> Capabilities(128, TRUE, TRUE, TRUE, TRUE, TRUE, FALSE, TRUE),
           other           |-> Capabilities(4, FALSE, FALSE, FALSE, FALSE, FALSE, FALSE, FALSE)]

ProviderTools == {"code_execution_20250825", "computer_20251124", "text_editor_20250728", "bash_20250124", "memory_20250818",
                  "web_fetch_20250910", "web_search_20260209", "tool_search_bm25_20251119", "advisor_20260301"}
BetaOf(id) == CASE id \in {"computer_20251124", "code_execution_20250825", "memory_20250818", "web_fetch_20250910", "advisor_20260301"} -> {id}
                [] id = "bash_20250124" -> {"computer_20250124"}
                [] id = "web_search_20260209" -> {"web_tools"}
                [] OTHER -> {}

\* structured, strict: what of a function's schema the request may promise;
\* alone: whether calls may not run in parallel.
prepare_tools(tools, choice, structured, strict, alone) ==
    LET sent == SelectSeq(tools, LAMBDA t : t.t = "function" \/ t.id \in ProviderTools)
        loose == {t.id : t \in {u \in ToSet(tools) : u.t = "function" /\ "strict" \in u.o /\ ~strict}}
        unknown == {t.id : t \in ToSet(tools) \ ToSet(sent)}
        betas(t) == IF t.t = "provider" THEN BetaOf(t.id)
                    ELSE (IF structured THEN {"structured_outputs"} ELSE {})
                         \cup (IF t.o \cap {"callers", "examples"} # {} THEN {"advanced_tool_use"} ELSE {})
        kind == CASE tools = <<>> \/ choice = "none" \/ (choice = "" /\ ~alone) -> ""
                  [] choice \in {"", "auto"} -> "auto"
                  [] choice = "required" -> "any"
                  [] OTHER -> "tool"
    IN  [tools |-> IF choice = "none" THEN <<>> ELSE sent, choice |-> kind, alone |-> kind # "" /\ alone,
         warned |-> loose \cup unknown, betas |-> UNION {betas(t) : t \in ToSet(sent)}]

-----------------------------------------------------------------------------

Sampling == {"temperature", "high_temperature", "top_p", "top_k"}
Level == [reasoning_minimal |-> 2, reasoning_low |-> 10, reasoning_high |-> 60, reasoning_xhigh |-> 90]

\* What the level of reasoning asked for makes of thinking: its kind, effort and budget.
resolve_reasoning(level, c) ==
    LET budget == (c.max * Level[level]) \div 100
    IN  CASE level = "reasoning_none" -> [kind |-> "disabled", effort |-> "", budget |-> 0]
          [] c.adaptive -> [kind |-> "adaptive", budget |-> 0,
                            effort |-> CASE level = "reasoning_xhigh" -> IF c.xhigh THEN "xhigh" ELSE "max"
                                         [] level = "reasoning_high" -> "high"
                                         [] OTHER -> "low"]
          [] OTHER -> [kind |-> "enabled", effort |-> "", budget |-> IF budget < 1 THEN 1 ELSE budget]

\* Thinking as the options of the provider set it, else as the level does.
Thinking(asked, c) ==
    LET levels == asked \cap (DOMAIN Level \cup {"reasoning_none"})
        custom == levels # {} /\ asked \cap {"effort_low", "effort_max"} = {}
        resolved == resolve_reasoning(CHOOSE l \in levels : TRUE, c)
        own == CASE "thinking_enabled" \in asked -> "enabled" [] "thinking_adaptive" \in asked -> "adaptive"
                 [] "thinking_disabled" \in asked -> "disabled" [] OTHER -> ""
        kind == IF own # "" \/ ~custom THEN own ELSE resolved.kind
        effort == CASE "effort_max" \in asked -> "max" [] "effort_low" \in asked -> "low"
                    [] custom /\ kind # "disabled" -> resolved.effort [] OTHER -> ""
        lowered == c.together /\ kind = "disabled" /\ effort \in {"xhigh", "max"}
    IN  [kind |-> kind, effort |-> IF lowered THEN "high" ELSE effort, lowered |-> lowered,
         \* A budget that is not given is the least one, with a warning.
         budget |-> CASE kind # "enabled" -> 0 [] own = "" -> resolved.budget
                      [] "budget" \in asked -> 16 [] OTHER -> 1]

\* Mutant: only a temperature is taken back when the model thinks.
Settled_Kept(asked, c, thinking) ==
    LET kept == IF c.rejects THEN {} ELSE asked \cap Sampling
    IN  IF thinking THEN kept \ {"temperature", "high_temperature"} ELSE kept

\* What is left of the settings that steer sampling.
Settled(asked, c, thinking) ==
    LET kept == IF c.rejects THEN {} ELSE asked \cap Sampling
        heated == kept \cap {"temperature", "high_temperature"} # {}
    IN  CASE thinking -> {}
          [] (c.known \/ c.claude) /\ heated -> kept \ {"top_p"}
          [] OTHER -> kept

MaxTokens(asked, c, budget) ==
    LET own == CASE "max_8" \in asked -> 8 [] "max_100" \in asked -> 100 [] OTHER -> c.max
    IN  IF c.known /\ own + budget > c.max THEN c.max ELSE own + budget

validate_options(asked) == "small_task_budget" \notin asked

\* The betas that options need.
OptionBetas(asked) ==
    LET needs == [fallbacks |-> {"fallback"}, mcp |-> {"mcp_client"}, skills |-> {"code_execution", "skills", "files_api"},
                  edits |-> {"context_management"}, compact |-> {"context_management", "compact"},
                  task_budget |-> {"task_budgets"}, fast |-> {"fast_mode"}, binding |-> {"binding"}]
    IN  UNION {needs[a] : a \in asked \cap DOMAIN needs}

prepare_request(asked, c, tools, choice) ==
    LET thinking == Thinking(asked, c)
        thinks == thinking.kind \in {"enabled", "adaptive"}
        sampling == Settled(asked, c, thinks)
        native == (c.structured /\ "json_tool" \notin asked) \/ "output_format" \in asked
        jsonTool == "schema" \in asked /\ ~native
        own == [t |-> "function", id |-> "json", name |-> "json", o |-> {}]
        prepared == IF jsonTool THEN prepare_tools(Append(tools, own), "required", FALSE, c.structured, TRUE)
                    ELSE prepare_tools(tools, choice, c.structured, c.structured, "no_parallel" \in asked)
        plain == {"stop", "fallbacks", "mcp", "edits", "compact", "task_budget", "fast", "user", "skills", "binding"}
        maxAsked == asked \cap {"max_8", "max_100"}
        max == MaxTokens(asked, c, thinking.budget)
        cut == maxAsked # {} /\ max < (IF "max_8" \in asked THEN 8 ELSE 100) + thinking.budget
    IN  [ok |-> validate_options(asked),
         max |-> max, thinking |-> thinking, betas |-> OptionBetas(asked) \cup prepared.betas,
         body |-> sampling \cup (asked \cap plain) \cup maxAsked
                  \cup (IF "schema" \in asked THEN {"schema"} ELSE {})
                  \cup (IF thinking.kind # "" THEN {"thinking"} ELSE {}) \cup (IF thinking.effort # "" THEN {"effort"} ELSE {})
                  \cup (IF prepared.alone THEN {"no_parallel"} ELSE {}),
         json |-> jsonTool, tools |-> prepared.tools, choice |-> prepared.choice,
         warned |-> (asked \cap {"presence_penalty", "frequency_penalty", "seed", "json"})
                    \cup ((asked \cap Sampling) \ sampling) \cup (asked \cap {"high_temperature"})
                    \cup (IF jsonTool /\ "parallel" \in asked THEN {"parallel"} ELSE {})
                    \cup (IF thinking.lowered THEN {"effort_max"} ELSE {})
                    \cup (IF cut THEN maxAsked ELSE {})
                    \cup (IF "skills" \in asked /\ ~\E t \in ToSet(tools) : t.id = "code_execution_20250825" THEN {"skills"} ELSE {})
                    \cup prepared.warned]
=============================================================================

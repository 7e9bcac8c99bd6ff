---------------------------- MODULE GoogleRequest ----------------------------
(* A request to the Gemini API or to Google's Interactions API: the prompt   *)
(* as contents or as steps, and the settings and tools of the call as the    *)
(* body.                                                                     *)
EXTENDS Conversation

(* The prompt as contents. Options: "signature" is the thought signature of  *)
(* a part, "thought" marks a file, "code_execution" and "server" the calls   *)
(* and results of tools that run at the provider.                            *)

\* A part of a content: its type, the part of the prompt it stands for, and
\* its signature, "" for none and "skip" for the one that asks for no check.
Wire(t, x, signature) == [t |-> t, x |-> x, signature |-> signature, content |-> <<>>]
Signature(p) == IF "signature" \in p.o THEN "own" ELSE ""
warn(g, x) == [g EXCEPT !.warned = @ \cup {x}]

push_content(g, role, parts) ==
    IF parts = <<>> THEN g ELSE [g EXCEPT !.contents = Append(@, [role |-> role, content |-> parts])]
append_to_model(g, part) ==
    LET n == Len(g.contents)
    IN  IF n > 0 /\ g.contents[n].role = "model" THEN [g EXCEPT !.contents[n].content = Append(@, part)]
        ELSE push_content(g, "model", <<part>>)

\* What a file is sent as; <<>> if it cannot be: a url in a message of the
\* model, a reference of another provider, a type without a subtype that the
\* bytes do not tell.
file_part(f, assistant) ==
    CASE f.d \in {"url", "own_url"} -> IF assistant \/ ~Full(f.media) THEN <<>> ELSE <<Wire("fileData", f.x, "")>>
      [] f.d = "reference" -> IF ~Full(f.media) \/ f.is = "elsewhere" THEN <<>> ELSE <<Wire("fileData", f.x, "")>>
      [] f.d = "bytes" -> IF Full(f.media) \/ f.is \in Image THEN <<Wire("inlineData", f.x, "")>> ELSE <<>>
      [] f.d = "text" -> <<Wire("inlineData", f.x, "")>>

user_message(g, m) ==
    LET part(p) == IF p.t = "text" THEN <<Wire("text", p.x, "")>> ELSE file_part(p, FALSE)
        ok == \A p \in Range1(m.content) : part(p) # <<>>
    IN  push_content([g EXCEPT !.ok = @ /\ ok], "user", FlattenSeq([i \in DOMAIN m.content |-> part(m.content[i])]))

-----------------------------------------------------------------------------

\* Gemini 3 checks the signature of the first call of a message: one that has
\* none is sent with a request to skip that, and a warning.
call_part(a, p, gemini3) ==
    LET signature == CASE "signature" \in p.o -> "own" [] gemini3 /\ ~a.signed -> "skip" [] OTHER -> ""
    IN  [a EXCEPT !.signed = @ \/ signature = "own",
                  !.warned = IF signature = "skip" THEN @ \cup {p.x} ELSE @,
                  !.parts = Append(@, Wire("functionCall", p.x, signature))]

\* Results of tools that ran elsewhere are left out of the model's message.
assistant_message(g, m, gemini3) ==
    LET add(a, part) == [a EXCEPT !.parts = Append(@, part)]
        file(a, p) == LET part == file_part(p, TRUE)
                      IN  IF part = <<>> THEN [a EXCEPT !.ok = FALSE] ELSE add(a, [part[1] EXCEPT !.signature = Signature(p)])
        step(a, p) ==
            CASE p.t = "text" -> IF Says(p.x) = "" THEN a ELSE add(a, Wire("text", p.x, Signature(p)))
              [] p.t = "reasoning" -> add(a, Wire("thought", p.x, Signature(p)))
              [] p.t \in {"file", "reasoning_file"} -> file(a, p)
              [] p.t = "custom" -> [a EXCEPT !.warned = @ \cup {p.x}]
              [] p.t = "call" /\ "code_execution" \in p.o -> add(a, Wire("executableCode", p.x, Signature(p)))
              [] p.t = "call" /\ "server" \in p.o -> add(a, Wire("toolCall", p.x, Signature(p)))
              [] p.t = "call" -> call_part(a, p, gemini3)
              [] p.t = "result" /\ "code_execution" \in p.o -> add(a, Wire("codeExecutionResult", p.x, Signature(p)))
              [] p.t = "result" /\ "server" \in p.o -> add(a, Wire("toolResponse", p.x, ""))
              [] OTHER -> a
        end == FoldLeft(step, [ok |-> TRUE, warned |-> {}, signed |-> FALSE, parts |-> <<>>], m.content)
    IN  push_content([g EXCEPT !.ok = @ /\ end.ok, !.warned = @ \cup end.warned], "model", end.parts)

-----------------------------------------------------------------------------

ResultFile(f) == f.d \in {"bytes", "text"}

\* Mutant: a file of a result whose type is not known to the last is left out.
function_result_Lenient(a, p, gemini3) ==
    LET texts == SelectSeq(p.parts, LAMBDA q : q.t = "text")
        response(x) == Wire("functionResponse", x, "")
    IN  [a EXCEPT !.parts = @ \o (IF gemini3 \/ p.out # "content" THEN <<[response(p.x) EXCEPT !.content = texts]>>
                                 ELSE [i \in DOMAIN texts |-> [response(p.x) EXCEPT !.content = <<texts[i]>>]])]

\* The result of a call: one response, to Gemini 3 with the files in it; before,
\* one response for each text, and each file with a text after it.
function_result(a, p, gemini3) ==
    LET content == p.out = "content"
        texts == SelectSeq(p.parts, LAMBDA q : q.t = "text")
        files == SelectSeq(p.parts, LAMBDA q : q.t = "file" /\ ResultFile(q))
        ignored == {q.x : q \in {r \in Range1(p.parts) : r.t = "file" /\ ~ResultFile(r)}}
        typed == \A f \in Range1(files) : f.d = "text" \/ Full(f.media) \/ f.is \in Image
        response(parts) == [Wire("functionResponse", p.x, "") EXCEPT !.content = parts]
        inner(q) == Wire(IF q.t = "text" THEN "text" ELSE "inlineData", q.x, "")
        parts == CASE ~content -> <<response(<<>>)>>
                   [] gemini3 -> <<response([i \in 1..(Len(texts) + Len(files)) |-> inner((texts \o files)[i])])>>
                   [] OTHER -> [i \in DOMAIN texts |-> response(<<inner(texts[i])>>)]
                               \o FlattenSeq([i \in DOMAIN files |-> <<inner(files[i]), Wire("text", p.x, "")>>])
    IN  [a EXCEPT !.parts = @ \o parts, !.ok = @ /\ (content => typed),
                  !.warned = IF content THEN @ \cup ignored ELSE @]

tool_message(g, m, gemini3) ==
    LET step(a, p) ==
            CASE p.t = "response" -> a
              [] "code_execution" \in p.o -> [a EXCEPT !.g = append_to_model(@, Wire("codeExecutionResult", p.x, Signature(p)))]
              [] "server" \in p.o -> [a EXCEPT !.g = append_to_model(@, Wire("toolResponse", p.x, ""))]
              [] OTHER -> function_result(a, p, gemini3)
        end == FoldLeft(step, [g |-> g, ok |-> TRUE, warned |-> {}, parts |-> <<>>], m.content)
    IN  push_content([end.g EXCEPT !.ok = @ /\ end.ok, !.warned = @ \cup end.warned], "user", end.parts)

\* Gemma takes no system: its text goes before the first text of the user.
prepend_system_text(contents, system) ==
    LET n == SelectInSeq(contents, LAMBDA c : c.role = "user")
        text == [i \in DOMAIN system |-> Wire("text", system[i], "")]
    IN  IF n = 0 THEN contents ELSE [contents EXCEPT ![n].content = text \o @]

\* model: "gemini2", "gemini3" or "gemma".
convert_prompt(prompt, model) ==
    LET gemini3 == model = "gemini3"
        step(g, m) ==
            CASE m.role = "system" -> [g EXCEPT !.ok = @ /\ g.leading, !.system = Append(@, m.content[1].x)]
              [] m.role = "user" -> user_message([g EXCEPT !.leading = FALSE], m)
              [] m.role = "assistant" -> assistant_message([g EXCEPT !.leading = FALSE], m, gemini3)
              [] m.role = "tool" -> tool_message([g EXCEPT !.leading = FALSE], m, gemini3)
        end == FoldLeft(step, [ok |-> TRUE, leading |-> TRUE, system |-> <<>>, warned |-> {}, contents |-> <<>>], prompt)
        instruction == [role |-> "system", content |-> [i \in DOMAIN end.system |-> Wire("text", end.system[i], "")]]
    IN  [ok |-> end.ok, warned |-> end.warned,
         wire |-> CASE end.system = <<>> -> end.contents
                    [] model = "gemma" -> prepend_system_text(end.contents, end.system)
                    [] OTHER -> <<instruction>> \o end.contents]

\* The files the model fetches itself: those of the provider, whatever they
\* are, and for a Gemini model any of a type it knows.
Supported(media, src, model) == src = "own_url" \/ (model \in {"gemini2", "gemini3"} /\ media \in {"image/png", "application/pdf", "text/plain"})

-----------------------------------------------------------------------------
(* The prompt as the steps of the Interactions API, which can continue a     *)
(* previous interaction. Options: "previous" marks parts of the one that the *)
(* request continues, "step" calls and results of tools that ran at the      *)
(* provider, "signature" signed parts, "processing" custom parts that have a *)
(* step of their own.                                                        *)

\* A step of a type, the call it is about, and its blocks: type and part.
Step(t, id, blocks) == [t |-> t, id |-> id, content |-> blocks]
Piece(t, x) == [t |-> t, x |-> x]

\* A file's block; <<>> if the request fails for it.
file(f) ==
    CASE f.d = "text" -> <<Piece("text", f.x)>>
      [] f.media \in {"", "font/woff"} -> <<>>
      [] f.d = "reference" /\ f.is = "elsewhere" -> <<>>
      [] OTHER -> <<Piece("file", f.x)>>

\* The result of a call: of its content texts and images, the rest is warned about.
tool_result(a, p) ==
    LET taken == SelectSeq(p.parts, LAMBDA q : q.t = "text" \/ (q.t = "file" /\ q.media \in {"image/png", "image/*"}))
        bad == \E q \in Range1(taken) : q.t = "file" /\ file(q) = <<>>
        refused == {q.x : q \in Range1(p.parts) \ Range1(taken)}
    IN  [s |-> [a EXCEPT !.ok = @ /\ ~bad, !.warned = @ \cup refused],
         blocks |-> <<Piece("function_result", p.x)>> \o [i \in DOMAIN taken |-> Piece(taken[i].t, taken[i].x)]]

flush(a) == IF a.pending = <<>> THEN a
            ELSE [a EXCEPT !.steps = Append(@, Step("model_output", <<>>, a.pending)), !.pending = <<>>]
Push(a, step) == [flush(a) EXCEPT !.steps = Append(@, step)]
Warn(a, x) == [a EXCEPT !.warned = @ \cup {x}]

\* Adjacent texts of the user are one.
merge_text(blocks) ==
    LET merge(s, b) == IF b.t = "text" /\ s # <<>> /\ Last(s).t = "text" THEN s ELSE Append(s, b)
    IN  FoldLeft(merge, <<>>, blocks)
interactions_user_message(a, m) ==
    LET blocks(p) == IF p.t = "text" THEN <<Piece("text", p.x)>> ELSE file(p)
        all == FlattenSeq([i \in DOMAIN m.content |-> blocks(m.content[i])])
        good == \A p \in Range1(m.content) : blocks(p) # <<>>
    IN  IF all = <<>> THEN [a EXCEPT !.ok = @ /\ good]
        ELSE [a EXCEPT !.ok = @ /\ good, !.said = @ \cup {all[i].x : i \in DOMAIN all},
                       !.steps = Append(@, Step("user_input", <<>>, merge_text(all)))]

\* Of a message of the interaction that the request continues nothing is sent.
interactions_assistant_message(a, m, linked) ==
    LET known == linked /\ ("previous" \in m.o \/ \E p \in Range1(m.content) : "previous" \in p.o)
        part(b, p) ==
            CASE p.t = "text" -> [b EXCEPT !.pending = Append(@, Piece("text", p.x))]
              [] p.t = "file" -> [b EXCEPT !.pending = @ \o file(p), !.ok = @ /\ file(p) # <<>>]
              [] p.t = "reasoning" -> Push(b, Step("thought", <<>>, <<Piece("summary", p.x)>>))
              [] p.t = "call" -> Push(b, Step(IF "step" \in p.o THEN "hosted_call" ELSE "function_call", p.x, <<>>))
              [] p.t = "result" -> LET r == tool_result(b, p)
                                   IN  IF "step" \in p.o THEN Push(r.s, Step("hosted_result", p.x, <<>>))
                                       ELSE Push(r.s, Step("user_input", <<>>, r.blocks))
              [] p.t = "custom" /\ "processing" \in p.o -> Push(b, Step("processing", p.x, <<>>))
              [] OTHER -> Warn(b, p.x)
        calls == {p.x : p \in {q \in Range1(m.content) : q.t = "call"}}
    IN  IF known THEN [a EXCEPT !.dropped = @ \cup calls, !.known = @ \cup {p.x : p \in Range1(m.content)}]
        ELSE flush(FoldLeft(part, a, m.content))

\* Results go in one message, but for those whose call was left out.
interactions_tool_message(a, m) ==
    LET part(b, p) ==
            CASE p.t # "result" -> [b EXCEPT !.a = Warn(@, p.x)]
              [] p.x \in a.dropped -> b
              [] OTHER -> LET r == tool_result(b.a, p) IN [a |-> r.s, blocks |-> b.blocks \o r.blocks]
        end == FoldLeft(part, [a |-> a, blocks |-> <<>>], m.content)
    IN  IF end.blocks = <<>> THEN end.a
        ELSE [end.a EXCEPT !.steps = Append(@, Step("user_input", <<>>, end.blocks))]

\* previous: whether the request names a previous interaction; store: whether
\* it is to be stored, without which all of the history is sent.
convert(prompt, previous, store) ==
    LET step(a, m) ==
            CASE m.role = "system" -> [a EXCEPT !.system = Append(@, m.content[1].x)]
              [] m.role = "user" -> interactions_user_message(a, m)
              [] m.role = "assistant" -> interactions_assistant_message(a, m, previous /\ store)
              [] m.role = "tool" -> interactions_tool_message(a, m)
    IN  FoldLeft(step, [ok |-> TRUE, warned |-> {}, steps |-> <<>>, pending |-> <<>>, system |-> <<>>,
                        dropped |-> {}, known |-> {}, said |-> {}], prompt)

-----------------------------------------------------------------------------
(* The body: asked is the set of what the call asks for by name.             *)

\* gemini: 0 for another family, else 1, 2 or 3; five: a model of 2.5; pro: one with the larger budget;
\* least: the least level of thinking a model of Gemini 3 accepts.
Capabilities(gemini, five, pro, least) == [gemini |-> gemini, five |-> five, pro |-> pro, least |-> least]
Models == [gemini_1_5 |-> Capabilities(1, FALSE, FALSE, ""), gemini_2_0 |-> Capabilities(2, FALSE, FALSE, ""),
           gemini_2_5_pro |-> Capabilities(2, TRUE, TRUE, ""), gemini_2_5_flash |-> Capabilities(2, TRUE, FALSE, ""),
           gemini_3 |-> Capabilities(3, FALSE, FALSE, "minimal"), gemini_flash_latest |-> Capabilities(3, FALSE, FALSE, "low"),
           gemini_3_pro_image |-> Capabilities(3, FALSE, TRUE, "none"), gemma |-> Capabilities(0, FALSE, FALSE, "")]

provider_tool(id, c) ==
    CASE id \in {"google_search", "enterprise_web_search", "url_context", "code_execution"} -> c.gemini >= 2
      [] id = "file_search" -> c.five \/ c.gemini = 3
      [] OTHER -> id \in {"google_maps", "vertex_rag_store"}

\* Functions and the provider's tools are mixed for Gemini 3 only; before, the
\* functions are left out. mode: how the model is to choose a function.
prepare_tools(tools, choice, c) ==
    LET functions == SelectSeq(tools, LAMBDA t : t.t = "function")
        own == SelectSeq(tools, LAMBDA t : t.t = "provider" /\ provider_tool(t.id, c))
        refused == {t.id : t \in ToSet(tools) \ (ToSet(functions) \cup ToSet(own))}
        mixed == functions # <<>> /\ own # <<>>
        strict == \E t \in ToSet(functions) : "strict" \in t.o
        ids(s) == {t.id : t \in ToSet(s)}
        asked == CASE choice = "none" -> "NONE" [] choice \in {"required", "tool"} -> "ANY" [] OTHER -> ""
        mode == CASE functions = <<>> \/ (mixed /\ c.gemini < 3) -> ""
                  [] asked # "" -> asked
                  [] mixed \/ strict -> "VALIDATED"
                  [] choice = "auto" -> "AUTO"
                  [] OTHER -> ""
    IN  [tools |-> ids(own) \cup (IF mixed /\ c.gemini < 3 THEN {} ELSE ids(functions)), mode |-> mode,
         warned |-> refused \cup (IF mixed /\ c.gemini < 3 THEN ids(functions) ELSE {})
                    \cup ({"vertex_rag_store"} \cap ids(tools))]

-----------------------------------------------------------------------------

Level == [reasoning_minimal |-> 2, reasoning_low |-> 10, reasoning_high |-> 60, reasoning_xhigh |-> 90]

\* The level of reasoning asked for as a level (Gemini 3) or as a budget of thousands of tokens.
resolve_thinking(level, c) ==
    LET most == IF c.pro THEN 32 ELSE 24
        share == (65 * Level[level]) \div 100
    IN  IF c.gemini = 3 /\ c.least # "none"
          THEN [level |-> CASE level \in {"reasoning_none", "reasoning_minimal"} -> c.least
                            [] level = "reasoning_low" -> "low" [] OTHER -> "high", budget |-> <<>>]
          ELSE [level |-> "", budget |-> <<CASE level = "reasoning_none" -> 0 [] share > most -> most [] OTHER -> share>>]
\* The options of the provider go before what the level makes of them, one by one.
Thinking(asked, c) ==
    LET levels == asked \cap (DOMAIN Level \cup {"reasoning_none"})
        resolved == IF levels = {} THEN [level |-> "", budget |-> <<>>] ELSE resolve_thinking(CHOOSE l \in levels : TRUE, c)
    IN  [level |-> IF "thinking_level" \in asked THEN "own" ELSE resolved.level,
         budget |-> IF "thinking_budget" \in asked THEN <<8>> ELSE resolved.budget]

prepare_request(asked, c, tools, choice) ==
    LET thinking == Thinking(asked, c)
        prepared == prepare_tools(tools, choice, c)
        penalties == asked \cap {"frequency_penalty", "presence_penalty"}
        vertex == asked \cap {"image_vertex", "stream_arguments", "request_type"}
    IN  [ok |-> "bad_option" \notin asked,
         thinking |-> thinking, tools |-> prepared.tools, mode |-> prepared.mode,
         body |-> (asked \cap {"max_8", "max_100", "temperature", "high_temperature", "top_k", "top_p", "stop", "seed", "safety", "user",
                               "image", "thinking_level", "thinking_budget", "retrieval"})
                  \cup (IF c.five THEN {} ELSE penalties)
                  \cup (CASE asked \cap {"json", "schema"} = {} -> {}
                          [] "schema" \in asked /\ "no_schema" \notin asked -> {"schema"}
                          [] OTHER -> {"json"})
                  \cup (IF thinking.level # "" \/ thinking.budget # <<>> THEN {"thinking"} ELSE {}),
         warned |-> (IF c.five THEN penalties ELSE {}) \cup vertex \cup prepared.warned]

-----------------------------------------------------------------------------

GenerationSettings == {"temperature", "high_temperature", "top_p", "top_k", "seed", "stop", "max_8", "max_100",
                       "thinking_level", "thinking_summaries"}
InteractionTools == {"google_search", "url_context", "code_execution", "file_search", "google_maps", "computer_use", "mcp_server", "retrieval"}

\* An agent takes none of the settings of a model, and only an agent an environment.
interactions_request(asked, tools, choice) ==
    LET agent == "agent" \in asked
        sent == SelectSeq(tools, LAMBDA t : t.t = "function" \/ t.id \in InteractionTools)
        function == \E t \in ToSet(sent) : t.t = "function"
        formats == asked \cap {"json", "schema"}
        penalties == asked \cap {"frequency_penalty", "presence_penalty"}
        images == asked \cap {"image", "image_format"}
    IN  [ok |-> asked \cap {"bad_option", "zero_timeout"} = {},
         tools |-> {t.id : t \in ToSet(sent)}, mode |-> IF function /\ ~agent THEN choice ELSE "",
         body |-> (asked \cap {"agent", "store", "background", "service_tier", "image_format"})
                  \cup (IF agent THEN asked \cap {"agent_config", "environment"}
                        ELSE (asked \cap GenerationSettings) \cup formats
                             \cup (IF "image_format" \in asked THEN {} ELSE images)),
         warned |-> penalties \cup {t.id : t \in ToSet(tools) \ ToSet(sent)}
                    \cup (IF agent THEN formats \cup (asked \cap GenerationSettings)
                          ELSE asked \cap {"environment"}) \cup (asked \cap {"image"})
                    \* The prompt has a message of the system of its own.
                    \cup (asked \cap {"instruction"})]
=============================================================================

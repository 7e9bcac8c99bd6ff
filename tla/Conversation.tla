----------------------------- MODULE Conversation -----------------------------
(* The messages of a conversation: how a step's content becomes messages,    *)
(* how messages become the prompt of a provider, and how they are pruned.    *)
(* A part is a record of its type t, what it says or is called by, x, and    *)
(* its provider options o, a set of names. A prompt is a sequence of         *)
(* messages [role, content, o].                                              *)
EXTENDS Naturals, Sequences, SequencesExt, FiniteSets

Text(x, o) == [t |-> "text", x |-> x, o |-> o]
Reasoning(x, o) == [t |-> "reasoning", x |-> x, o |-> o]
Custom(x, o) == [t |-> "custom", x |-> x, o |-> o]
\* A file: where its data are, src; the media type it is declared with, "" for
\* none; and what its bytes are.
File(t, x, src, media, is, o) == [t |-> t, x |-> x, src |-> src, media |-> media, is |-> is, o |-> o]
\* A call; v is the type its input names, object and valid are what its input is.
Call(x, name, hosted, v, object, valid, o) ==
    [t |-> "call", x |-> x, name |-> name, hosted |-> hosted, v |-> v, object |-> object, valid |-> valid, o |-> o]
\* A result of a call; out is the kind of its output, v the type its value
\* names, parts its content.
Result(x, name, hosted, out, v, parts, o) ==
    [t |-> "result", x |-> x, name |-> name, hosted |-> hosted, out |-> out, v |-> v, parts |-> parts, o |-> o]
Request(x, call) == [t |-> "request", x |-> x, call |-> call, o |-> {}]
Response(x, call, name, ok, hosted) ==
    [t |-> "response", x |-> x, call |-> call, name |-> name, ok |-> ok, hosted |-> hosted, o |-> {}]

Message(role, content, o) == [role |-> role, content |-> content, plain |-> FALSE, o |-> o]
\* A message that is one text, not a list of parts.
Plain(role, x) == [role |-> role, content |-> <<Text(x, {})>>, plain |-> TRUE, o |-> {}]

\* A name with the number of the message it is in; the text it stands for.
Says(x) == x[2]
Image == {"image/png", "image/*", "image"}
Full(media) == media \notin {"", "image/*", "image", "audio", "text"}

Range1(s) == {s[i] : i \in DOMAIN s}
Parts(messages) == FlattenSeq([i \in DOMAIN messages |-> messages[i].content])

-----------------------------------------------------------------------------

\* A denied call is answered along with the decision.
Denial(p) == Result(p.call, p.name, FALSE, "denied", "", <<>>, p.o)

\* The parts of a step's content that the tool message holds, each with the call it is about.
ToolParts(content) ==
    LET part(p) == CASE p.t = "response" -> <<p>> \o (IF p.ok THEN <<>> ELSE <<Denial(p)>>)
                     [] p.t = "result" /\ ~p.hosted -> <<p>>
                     [] OTHER -> <<>>
    IN  FlattenSeq([i \in DOMAIN content |-> part(content[i])])
About(p) == IF p.t = "response" THEN p.call ELSE p.x

\* Mutant: results stay in the order in which the tools ended.
to_response_messages_Unsorted(content) ==
    LET assistant == SelectSeq(content, LAMBDA p : IF p.t = "text" THEN Says(p.x) # "" ELSE p.t \notin {"source", "response", "result"} \/ (p.t = "result" /\ p.hosted))
        tool == ToolParts(content)
    IN  (IF assistant = <<>> THEN <<>> ELSE <<Message("assistant", assistant, {})>>)
        \o (IF tool = <<>> THEN <<>> ELSE <<Message("tool", tool, {})>>)

\* The assistant message of a step, and the tool message with the decisions
\* and the results of the application's tools, in the order of their calls.
to_response_messages(content) ==
    LET mine(p) == CASE p.t = "text" -> Says(p.x) # "" [] p.t = "source" -> FALSE [] p.t = "response" -> FALSE
                     [] p.t = "result" -> p.hosted [] OTHER -> TRUE
        sound(p) == IF p.t = "call" THEN [p EXCEPT !.object = @ \/ ~p.valid] ELSE p
        assistant == LET kept == SelectSeq(content, mine) IN [i \in DOMAIN kept |-> sound(kept[i])]
        calls == SelectSeq(content, LAMBDA p : p.t = "call")
        position(p) == LET n == SelectInSeq(calls, LAMBDA c : c.x = About(p)) IN IF n = 0 THEN Len(calls) + 1 ELSE n
        parts == ToolParts(content)
        tool == FlattenSeq([n \in 1..(Len(calls) + 1) |-> SelectSeq(parts, LAMBDA p : position(p) = n)])
    IN  (IF assistant = <<>> THEN <<>> ELSE <<Message("assistant", assistant, {})>>)
        \o (IF tool = <<>> THEN <<>> ELSE <<Message("tool", tool, {})>>)

\* What the outputs of decided calls add to the history.
replay_tool_message(outputs) == IF outputs = <<>> THEN <<>> ELSE <<Message("tool", outputs, {})>>

-----------------------------------------------------------------------------

Failed(why) == [ok |-> FALSE, why |-> why, prompt |-> <<>>]

\* The first request for a url decides whether the model fetches it itself.
\* Files whose url the model does not fetch are downloaded, once each.
Targets(messages) ==
    LET all == Parts(messages)
        inner(p) == CASE p.t = "result" -> SelectSeq(p.parts, LAMBDA q : q.t = "file")
                      [] p.t \in {"file", "image"} -> <<[p EXCEPT !.media = IF @ = "" THEN "image/*" ELSE @]>>
                      [] OTHER -> <<>>
        from(m) == IF m.plain \/ m.role = "system" THEN <<>>
                   ELSE FlattenSeq([i \in DOMAIN m.content |->
                            IF (m.role = "user") = (m.content[i].t = "result") THEN <<>> ELSE inner(m.content[i])])
    IN  SelectSeq(FlattenSeq([i \in DOMAIN messages |-> from(messages[i])]), LAMBDA f : f.src \in {"url", "own_url"})

\* supported: for each file, whether the model fetches its url itself.
download_files(messages, supported) ==
    LET targets == Targets(messages)
        first(x) == targets[SelectInSeq(targets, LAMBDA f : f.x = x)]
    IN  {x \in {targets[i].x : i \in DOMAIN targets} : ~supported[first(x)]}
Gone(messages, downloaded) == \E f \in Range1(Targets(messages)) : f.x \in downloaded /\ f.is = "gone"

\* Where the data of a file are once its source is resolved, and its type if the source tells it.
Resolved(f, downloaded) ==
    CASE f.src \in {"bytes", "base64", "path"} -> [d |-> "bytes", media |-> ""]
      [] f.src = "data_url" -> [d |-> "bytes", media |-> f.is]
      [] f.src \in {"url", "own_url"} /\ f.x \in downloaded -> [d |-> "bytes", media |-> f.is]
      [] OTHER -> [d |-> f.src, media |-> ""]
Detected(d, media, is) == IF d = "bytes" /\ is \in Image THEN is ELSE media
Orelse(media, other) == IF media = "" THEN other ELSE media
resolved_media_type(f, r) ==
    IF f.src \in {"url", "own_url"} /\ Full(f.media) THEN f.media ELSE Orelse(r.media, f.media)

FilePart(t, f, d, media) == [t |-> t, x |-> f.x, d |-> d, media |-> media, is |-> f.is, o |-> f.o]
convert_user_part(p, downloaded) ==
    IF p.t = "text" THEN p
    ELSE LET r == Resolved(p, downloaded)
         IN  FilePart("file", p, r.d, Orelse(Detected(r.d, resolved_media_type(p, r), p.is), "image/*"))
convert_user(m, downloaded) ==
    LET kept == IF m.plain THEN m.content ELSE SelectSeq(m.content, LAMBDA p : p.t # "text" \/ Says(p.x) # "")
    IN  Message("user", [i \in DOMAIN kept |-> convert_user_part(kept[i], downloaded)], m.o)

convert_result(p, downloaded) ==
    LET file(f) == LET r == Resolved(f, downloaded)
                       fetched == f.src \in {"url", "own_url"} /\ f.x \in downloaded
                       media == IF f.src = "data_url" \/ (fetched /\ ~Full(f.media)) THEN Orelse(r.media, f.media) ELSE f.media
                   IN  FilePart("file", f, r.d, Detected(r.d, media, f.is))
    IN  [p EXCEPT !.parts = [i \in DOMAIN @ |-> IF @[i].t = "file" THEN file(@[i]) ELSE @[i]]]

\* Files of a message of the model are not downloaded: bytes stay bytes, a url a url.
file_data(f) ==
    LET r == Resolved(f, {}) IN FilePart(f.t, f, r.d, Orelse(r.media, f.media))
convert_assistant_part(p, downloaded) ==
    CASE p.t = "text" /\ Says(p.x) = "" /\ p.o = {} -> <<>>
      [] p.t \in {"file", "reasoning_file"} -> <<file_data(p)>>
      [] p.t = "result" -> <<convert_result(p, downloaded)>>
      [] p.t = "request" -> <<>>
      [] OTHER -> <<p>>
convert_assistant(m, downloaded) ==
    Message("assistant", IF m.plain THEN m.content
                         ELSE FlattenSeq([i \in DOMAIN m.content |-> convert_assistant_part(m.content[i], downloaded)]), m.o)

\* Decisions about the application's own calls are not the model's business.
convert_tool(m, downloaded) ==
    LET part(p) == CASE p.t = "result" -> <<convert_result(p, downloaded)>>
                     [] p.t = "response" /\ p.hosted -> <<p>>
                     [] OTHER -> <<>>
    IN  Message("tool", FlattenSeq([i \in DOMAIN m.content |-> part(m.content[i])]), m.o)

\* Messages of tools that follow each other are one, the earlier one's options
\* now those of its last part.
append_message(prompt, m) ==
    IF m.role = "tool" /\ prompt # <<>> /\ Last(prompt).role = "tool"
      THEN LET old == Last(prompt)
               n == Len(old.content)
               moved == IF n = 0 THEN <<>> ELSE [old.content EXCEPT ![n] = [@ EXCEPT !.o = @ \cup old.o]]
           IN  [prompt EXCEPT ![Len(prompt)] = Message("tool", moved \o m.content, m.o)]
      ELSE Append(prompt, m)

\* Every call the application runs is answered before the user speaks again,
\* unless the user has decided about it.
validate_tool_results(prompt, messages) ==
    LET all == Range1(Parts(messages))
        exempt == {r.call : r \in {q \in all : q.t = "request" /\ \E s \in all : s.t = "response" /\ s.x = q.x}}
        calls(m) == {p.x : p \in {q \in Range1(m.content) : q.t = "call" /\ ~q.hosted}}
        results(m) == {p.x : p \in {q \in Range1(m.content) : q.t = "result"}}
        next(s, m) == CASE m.role = "assistant" -> [s EXCEPT !.pending = @ \cup calls(m)]
                        [] m.role = "tool" -> [s EXCEPT !.pending = @ \ results(m)]
                        [] OTHER -> [pending |-> s.pending \ exempt, ok |-> s.ok /\ s.pending \ exempt = {}]
        end == FoldLeft(next, [pending |-> {}, ok |-> TRUE], prompt)
    IN  end.ok /\ end.pending \ exempt = {}

Bad(f) == f.src \in {"bad_base64", "bad_data_url"}
ValidFiles(messages) ==
    \A i \in DOMAIN messages : \A p \in Range1(messages[i].content) :
        /\ p.t \in {"file", "image", "reasoning_file"} => ~Bad(p) /\ (messages[i].role = "assistant" => p.src # "path")
        /\ p.t = "reasoning_file" => p.src \notin {"reference", "text"}
        /\ p.t = "result" => \A j \in DOMAIN p.parts : p.parts[j].t = "file" => ~Bad(p.parts[j])

convert_to_prompt(system, messages, supported) ==
    LET downloaded == download_files(messages, supported)
        converted(m) == CASE m.role = "system" -> Message("system", m.content, m.o)
                          [] m.role = "user" -> convert_user(m, downloaded)
                          [] m.role = "assistant" -> convert_assistant(m, downloaded)
                          [] m.role = "tool" -> convert_tool(m, downloaded)
        prompt == FoldLeft(append_message, system, [i \in DOMAIN messages |-> converted(messages[i])])
    IN  CASE Gone(messages, downloaded) -> Failed("download")
          [] ~ValidFiles(messages) -> Failed("file")
          [] ~validate_tool_results(prompt, messages) -> Failed("unanswered")
          [] OTHER -> [ok |-> TRUE, why |-> "",
                       prompt |-> SelectSeq(prompt, LAMBDA m : m.role # "tool" \/ m.content # <<>>)]

\* What the builder accepts: messages, none of the system unless they are allowed.
standardize(messages, allow_system) ==
    messages # <<>> /\ (allow_system \/ \A i \in DOMAIN messages : messages[i].role # "system")

-----------------------------------------------------------------------------

\* reasoning: "none", "all" or "before_last"; rules: each a scope, the number
\* of trailing messages it spares or -1 for none, and the tools it prunes, {}
\* for every tool; remove: whether messages left empty go.
PruneRule(spares, tools) == [spares |-> spares, tools |-> tools]

prune_reasoning(messages, reasoning) ==
    LET keep(i) == reasoning = "none" \/ (reasoning = "before_last" /\ i = Len(messages))
    IN  [i \in DOMAIN messages |->
            IF keep(i) \/ messages[i].role # "assistant" \/ messages[i].plain THEN messages[i]
            ELSE [messages[i] EXCEPT !.content = SelectSeq(@, LAMBDA p : p.t # "reasoning")]]

CallRefs(m) == IF m.role \in {"assistant", "tool"} /\ ~m.plain
               THEN {p \in Range1(m.content) : p.t \in {"call", "result"}} ELSE {}
ApprovalRefs(m) == IF m.role \in {"assistant", "tool"} /\ ~m.plain
                   THEN {p \in Range1(m.content) : p.t \in {"request", "response"}} ELSE {}

\* Mutant: a call of which a spared message holds the result is not spared.
prune_tool_calls_OwnOnly(messages, rule) ==
    LET n == Len(messages)
        from == CASE rule.spares < 0 -> n [] rule.spares = 0 -> 0 [] OTHER -> IF rule.spares > n THEN 0 ELSE n - rule.spares
        keeps(p) == p.t \notin {"call", "result", "request", "response"}
    IN  [i \in DOMAIN messages |-> IF i > from \/ messages[i].plain THEN messages[i]
                                   ELSE [messages[i] EXCEPT !.content = SelectSeq(@, keeps)]]

prune_tool_calls(messages, rule) ==
    LET n == Len(messages)
        from == CASE rule.spares < 0 -> n [] rule.spares = 0 -> 0 [] OTHER -> IF rule.spares > n THEN 0 ELSE n - rule.spares
        tail == (from + 1)..n
        keptCalls == UNION {{p.x : p \in CallRefs(messages[i])} : i \in tail}
        keptApprovals == UNION {{p.x : p \in ApprovalRefs(messages[i])} : i \in tail}
        calls == UNION {CallRefs(messages[i]) : i \in DOMAIN messages}
        requests == {p \in UNION {ApprovalRefs(messages[i]) : i \in DOMAIN messages} : p.t = "request"}
        names(p) == IF p.t \in {"call", "result"} THEN {p.name}
                    ELSE {c.name : c \in {d \in calls : \E r \in requests : r.x = p.x /\ r.call = d.x}}
        rule_keeps(p) == rule.tools # {} /\ names(p) # {} /\ names(p) \cap rule.tools = {}
        keeps(p) == CASE p.t \in {"call", "result"} -> p.x \in keptCalls \/ rule_keeps(p)
                      [] p.t \in {"request", "response"} -> p.x \in keptApprovals \/ rule_keeps(p)
                      [] OTHER -> TRUE
    IN  [i \in DOMAIN messages |-> IF i > from \/ messages[i].plain THEN messages[i]
                                   ELSE [messages[i] EXCEPT !.content = SelectSeq(@, keeps)]]

prune(messages, reasoning, rules, remove) ==
    LET pruned == FoldLeft(prune_tool_calls, prune_reasoning(messages, reasoning), rules)
        empty(m) == m.content = <<>> \/ (m.plain /\ Says(m.content[1].x) = "")
    IN  IF remove THEN SelectSeq(pruned, LAMBDA m : ~empty(m)) ELSE pruned
=============================================================================

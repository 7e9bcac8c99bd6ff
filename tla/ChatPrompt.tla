------------------------------ MODULE ChatPrompt ------------------------------
(* The prompt as the messages of a Chat Completions API: that of OpenAI,     *)
(* those that are compatible with it, and as the one text of the older       *)
(* Completions API.                                                          *)
EXTENDS Conversation

Item(t, x) == [t |-> t, x |-> x, content |-> <<>>]
Entry(role, content) == [role |-> role, content |-> content]
Push(a, entry) == [a EXCEPT !.wire = Append(@, entry)]
Empty == [ok |-> TRUE, warned |-> {}, wire |-> <<>>]
Failure == [Empty EXCEPT !.ok = FALSE]

\* Bytes of a type without a subtype tell it themselves or are refused.
TypeKnown(f) == Full(f.media) \/ f.is \in Image
Audio == {"audio/wav", "audio/mpeg", "audio/flac", "audio"}
AudioTaken == {"audio/wav", "audio/mpeg"}
IsUrl(f) == f.d \in {"url", "own_url"}

\* A user's file; <<>> for one that the request fails for.
chat_file(f) ==
    CASE f.d = "reference" -> IF f.is = "elsewhere" THEN <<>> ELSE <<Item("file", f.x)>>
      [] f.d = "text" -> <<>>
      [] IsUrl(f) -> IF f.media \in Image THEN <<Item("image_url", f.x)>> ELSE <<>>
      [] f.media \in Image -> IF TypeKnown(f) THEN <<Item("image_url", f.x)>> ELSE <<>>
      [] f.media \in Audio -> IF f.media \in AudioTaken THEN <<Item("input_audio", f.x)>> ELSE <<>>
      [] OTHER -> IF f.media = "application/pdf" THEN <<Item("file", f.x)>> ELSE <<>>

\* The same for a compatible API, which reads text files but no references.
compatible_file(f) ==
    CASE f.d \in {"reference", "text"} -> <<>>
      [] f.media \in Image -> IF IsUrl(f) \/ TypeKnown(f) THEN <<Item("image_url", f.x)>> ELSE <<>>
      [] f.media = "video/mp4" -> <<Item("video_url", f.x)>>
      [] f.media \in Audio -> IF ~IsUrl(f) /\ f.media \in AudioTaken THEN <<Item("input_audio", f.x)>> ELSE <<>>
      [] f.media \in {"text/plain", "text"} -> <<Item("text", f.x)>>
      [] OTHER -> IF ~IsUrl(f) /\ f.media = "application/pdf" THEN <<Item("file", f.x)>> ELSE <<>>

user_message(a, m, compatible) ==
    LET part(p) == CASE p.t = "text" -> <<Item("text", p.x)>>
                     [] compatible -> compatible_file(p)
                     [] OTHER -> chat_file(p)
        ok == \A p \in Range1(m.content) : part(p) # <<>>
    IN  Push([a EXCEPT !.ok = @ /\ ok], Entry("user", FlattenSeq([i \in DOMAIN m.content |-> part(m.content[i])])))

\* Mutant: a message is the texts before its first call and the calls.
assistant_message_Cut(a, m, reasoned) ==
    LET n == SelectInSeq(m.content, LAMBDA p : p.t = "call")
        head == IF n = 0 THEN m.content ELSE SubSeq(m.content, 1, n - 1)
        items(s, t, as) == LET kept == SelectSeq(s, LAMBDA p : p.t = t) IN [i \in DOMAIN kept |-> Item(as, kept[i].x)]
    IN  Push(a, Entry("assistant", items(head, "text", "text")
                                   \o (IF reasoned THEN items(m.content, "reasoning", "reasoning") ELSE <<>>)
                                   \o items(m.content, "call", "function")))

\* The texts of a message, its reasoning where the API takes it, and its calls,
\* those of hosted tools among them. Results of hosted tools are left out, and
\* so is reasoning where the API does not take it.
assistant_message(a, m, reasoned) ==
    LET items(t, as) == LET kept == SelectSeq(m.content, LAMBDA p : p.t = t) IN [i \in DOMAIN kept |-> Item(as, kept[i].x)]
        refused == {p.x : p \in {q \in Range1(m.content) : q.t \notin {"text", "call", "reasoning", "result"}}}
    IN  Push([a EXCEPT !.warned = @ \cup refused],
             Entry("assistant", items("text", "text") \o (IF reasoned THEN items("reasoning", "reasoning") ELSE <<>>)
                                \o items("call", "function")))

\* A message for each result; OpenAI takes only the texts of its content.
tool_message(a, m, textOnly) ==
    LET result(b, p) ==
            IF p.t = "response" THEN b
            ELSE LET taken == IF textOnly THEN SelectSeq(p.parts, LAMBDA q : q.t = "text") ELSE p.parts
                     inner == [i \in DOMAIN taken |-> Item(taken[i].t, taken[i].x)]
                 IN  Push([b EXCEPT !.warned = @ \cup {q.x : q \in Range1(p.parts) \ Range1(taken)}],
                          Entry("tool", <<[Item("tool_result", p.x) EXCEPT !.content = inner]>>))
    IN  FoldLeft(result, a, m.content)

\* mode: "system", "developer" or "remove".
chat_prompt(prompt, mode) ==
    LET step(a, m) ==
            CASE m.role = "system" /\ mode = "remove" -> [a EXCEPT !.warned = @ \cup {m.content[1].x}]
              [] m.role = "system" -> Push(a, Entry(mode, <<Item("text", m.content[1].x)>>))
              [] m.role = "user" -> user_message(a, m, FALSE)
              [] m.role = "assistant" -> assistant_message(a, m, FALSE)
              [] m.role = "tool" -> tool_message(a, m, TRUE)
    IN  FoldLeft(step, Empty, prompt)

compatible_prompt(prompt) ==
    LET step(a, m) ==
            CASE m.role = "system" -> Push(a, Entry("system", <<Item("text", m.content[1].x)>>))
              [] m.role = "user" -> user_message(a, m, TRUE)
              [] m.role = "assistant" -> assistant_message(a, m, TRUE)
              [] m.role = "tool" -> tool_message(a, m, FALSE)
    IN  FoldLeft(step, Empty, prompt)

\* One text: the system's first message, then each message's own texts; only
\* the texts of the prompt are sent, calls and messages of tools are refused.
completion_prompt(prompt) ==
    LET texts(m) == LET kept == SelectSeq(m.content, LAMBDA p : p.t = "text") IN [i \in DOMAIN kept |-> Item("text", kept[i].x)]
        refused(i) == \/ prompt[i].role = "system" /\ i > 1
                      \/ prompt[i].role = "tool"
                      \/ prompt[i].role = "assistant" /\ \E p \in Range1(prompt[i].content) : p.t = "call"
        entries == [i \in DOMAIN prompt |-> Entry(prompt[i].role, texts(prompt[i]))]
    IN  IF \E i \in DOMAIN prompt : refused(i) THEN Failure
        ELSE [ok |-> TRUE, warned |-> {}, wire |-> Append(entries, Entry("assistant", <<>>))]
=============================================================================

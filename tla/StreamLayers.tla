---------------------------- MODULE StreamLayers ----------------------------
(* ferrin-core: the layers that rewrite the text of a response, streamed and *)
(* whole: extract_reasoning, extract_json and simulate_streaming of the      *)
(* middleware, and smooth_stream of the transforms. Texts are sequences of   *)
(* characters; the tag is <t>, and "nl" is a line break and the separator.   *)
EXTENDS StreamParts, FiniteSetsExt, TLC

CONSTANTS
    LayerUnits,       \* by layer: what its source is made of, each [k, v]
    MaxLayerUnits,    \* how many a source has at most
    DeltaSizes,       \* how many characters a delta may have
    SuffixBuffer      \* the characters extract_json holds back

Layers == {"extract_reasoning", "extract_json", "smooth", "simulate"}
OpeningTag == <<"<", "t", ">">>
ClosingTag == <<"<", "/", "t", ">">>
LOCAL White == {Separator, " "}

LOCAL From(s, i) == SubSeq(s, i, Len(s))
LOCAL Least(S) == IF S = {} THEN 0 ELSE Min(S)
LOCAL find(text, needle) == Least({i \in DOMAIN text : IsPrefix(needle, From(text, i))})
LOCAL Trimmed(s) ==
    LET said == {i \in DOMAIN s : s[i] \notin White} IN IF said = {} THEN <<>> ELSE SubSeq(s, Min(said), Max(said))
LOCAL TrimStart(s) == LET said == {i \in DOMAIN s : s[i] \notin White} IN IF said = {} THEN <<>> ELSE From(s, Min(said))
LOCAL TrimEnd(s) == LET said == {i \in DOMAIN s : s[i] \notin White} IN IF said = {} THEN <<>> ELSE SubSeq(s, 1, Max(said))

-----------------------------------------------------------------------------
(* extract_reasoning                                                         *)

LOCAL Joined(a, b) == a \o (IF a = <<>> \/ b = <<>> THEN <<>> ELSE <<Separator>>) \o b

\* The sections between tags, joined, and what remains, of a whole text.
RECURSIVE sections(_)
sections(text) ==
    LET start == find(text, OpeningTag)
        inner == From(text, start + Len(OpeningTag))
        end == find(inner, ClosingTag)
        rest == sections(From(inner, end + Len(ClosingTag)))
    IN  IF start = 0 \/ end = 0 THEN [n |-> 0, reasoning |-> <<>>, text |-> text]
        ELSE [n |-> rest.n + 1,
              reasoning |-> SubSeq(inner, 1, end - 1) \o (IF rest.n = 0 THEN <<>> ELSE <<Separator>> \o rest.reasoning),
              text |-> Joined(SubSeq(text, 1, start - 1), rest.text)]

apply(config, p) ==
    LET found == sections((IF config.inside THEN OpeningTag ELSE <<>>) \o p.v)
    IN  IF p.k # "text" \/ found.n = 0 THEN <<p>>
        ELSE <<One("reasoning", "", found.reasoning), One("text", "", found.text)>>

\* An extraction is of one text; r counts the reasonings of the stream.
Extraction(id, inside) ==
    [id |-> id, first_reasoning |-> TRUE, first_text |-> TRUE, after_switch |-> FALSE, reasoning |-> inside,
     buffer |-> <<>>, reasoning_id |-> "", delayed |-> FALSE, started |-> FALSE]

ReasoningId(r) == <<"reasoning-0", "reasoning-1", "reasoning-2", "reasoning-3", "reasoning-4", "reasoning-5", "reasoning-6">>[r + 1]

start_text(acc) ==
    IF acc.x.delayed
    THEN [acc EXCEPT !.x.delayed = FALSE, !.x.started = TRUE, !.out = Append(@, Start("text", acc.x.id, <<>>))]
    ELSE acc

start_reasoning(acc) ==
    IF acc.x.reasoning_id # "" THEN acc
    ELSE [acc EXCEPT !.x.reasoning_id = ReasoningId(acc.r), !.r = @ + 1, !.out = Append(@, Start("reasoning", ReasoningId(acc.r), <<>>))]

\* A section that is empty or not terminated has a start and an end as well.
end_reasoning(acc) ==
    LET begun == start_reasoning(acc)
    IN  [begun EXCEPT !.x.reasoning_id = "", !.out = Append(@, End("reasoning", begun.x.reasoning_id))]

publish(acc, text) ==
    LET reasoning == acc.x.reasoning
        continuing == IF reasoning THEN ~acc.x.first_reasoning ELSE ~acc.x.first_text
        said == (IF acc.x.after_switch /\ continuing THEN <<Separator>> ELSE <<>>) \o text
        begun == IF reasoning THEN start_reasoning(acc) ELSE start_text(acc)
        after == [begun EXCEPT !.x.after_switch = FALSE, !.x.first_reasoning = @ /\ ~reasoning, !.x.first_text = @ /\ reasoning]
    IN  IF text = <<>> THEN acc
        ELSE [after EXCEPT !.out = Append(@, IF reasoning THEN Delta("reasoning", begun.x.reasoning_id, said)
                                             ELSE Delta("text", acc.x.id, said))]

\* Where the tag is, or the end of the text that may be the start of one.
potential_start_index(text, needle) ==
    LET at == find(text, needle)
        tails == {i \in DOMAIN text : IsPrefix(From(text, i), needle)}
    IN  IF at # 0 THEN at ELSE IF tails = {} THEN 0 ELSE Max(tails)

\* process_delta: text before a tag is published, a tag switches, and the
\* start of one is kept for the next delta.
RECURSIVE extracted(_)
extracted(acc) ==
    LET tag == IF acc.x.reasoning THEN ClosingTag ELSE OpeningTag
        buffer == acc.x.buffer
        start == potential_start_index(buffer, tag)
        before == publish(acc, IF start = 0 THEN buffer ELSE SubSeq(buffer, 1, start - 1))
        left(b) == IF acc.x.reasoning THEN end_reasoning(b) ELSE b
        whole == start + Len(tag) - 1 <= Len(buffer)
    IN  IF start # 0 /\ whole
        THEN extracted([left(before) EXCEPT !.x.buffer = From(buffer, start + Len(tag)), !.x.reasoning = ~@, !.x.after_switch = TRUE])
        ELSE [before EXCEPT !.x.buffer = IF start = 0 THEN <<>> ELSE From(buffer, start)]

extraction_finish(acc) ==
    LET left(rest) == IF rest.x.reasoning THEN end_reasoning(rest) ELSE rest
    IN  start_text(left([publish(acc, acc.x.buffer) EXCEPT !.x.buffer = <<>>]))

\* The source has one text open at a time.
LOCAL Emptied(s, id, acc) ==
    [s |-> [s EXCEPT !.texts = <<>>, !.r = acc.r], parts |-> acc.out \o (IF acc.x.started THEN <<End("text", id)>> ELSE <<>>)]
finish_all(s) ==
    LET id == CHOOSE id \in DOMAIN s.texts : TRUE
    IN  IF s.texts = <<>> THEN [s |-> s, parts |-> <<>>]
        ELSE Emptied(s, id, extraction_finish([x |-> s.texts[id], r |-> s.r, out |-> <<>>]))

reasoning_process(s, p) ==
    LET known == p.id \in DOMAIN s.texts
        x == IF known THEN s.texts[p.id] ELSE Extraction(p.id, s.inside)
        gone == [id \in DOMAIN s.texts \ {p.id} |-> s.texts[id]]
        keep(acc) == [s |-> [s EXCEPT !.texts = p.id :> acc.x @@ @, !.r = acc.r], parts |-> acc.out]
        ended == extraction_finish([x |-> x, r |-> s.r, out |-> <<>>])
        all == finish_all(s)
    IN  CASE p.k = "text" /\ p.at = "start" -> keep([x |-> [x EXCEPT !.delayed = TRUE], r |-> s.r, out |-> <<>>])
          [] p.k = "text" /\ p.at = "delta" -> keep(extracted([x |-> [x EXCEPT !.buffer = @ \o p.v], r |-> s.r, out |-> <<>>]))
          [] p.k = "text" /\ p.at = "end" ->
                [s |-> [s EXCEPT !.texts = gone, !.r = IF known THEN ended.r ELSE @], parts |-> (IF known THEN ended.out ELSE <<>>) \o <<p>>]
          [] p.k = "finish" -> [all EXCEPT !.parts = Append(@, p)]
          [] OTHER -> [s |-> s, parts |-> <<p>>]

-----------------------------------------------------------------------------
(* extract_json                                                              *)

LOCAL Fence == <<"tick", "tick", "tick">>
LOCAL Tick == <<"tick">>
LOCAL AfterLanguage(s) == IF IsPrefix(<<"json">>, s) THEN Tail(s) ELSE s

strip_fence_prefix(s) == IF IsPrefix(Fence, s) THEN TrimStart(AfterLanguage(From(s, 4))) ELSE s

strip_fence_suffix(s) ==
    LET trimmed == TrimEnd(s)
        rest == SubSeq(trimmed, 1, Len(trimmed) - 3)
    IN  IF ~IsSuffix(Fence, trimmed) THEN s ELSE IF IsSuffix(<<"nl">>, rest) THEN Front(rest) ELSE rest

strip_json_fences(s) == Trimmed(strip_fence_suffix(strip_fence_prefix(s)))

\* The length of a complete opening fence line, or none.
fence_prefix_len(s) ==
    LET rest == AfterLanguage(From(s, 4))
        white == SubSeq(rest, 1, Len(rest) - Len(TrimStart(rest)))
        breaks == {i \in DOMAIN white : white[i] = "nl"}
    IN  IF breaks = {} THEN 0 ELSE Len(s) - Len(rest) + Max(breaks)

\* What a text becomes under a transform of the application's own.
LOCAL Custom(s) == SelectSeq(s, LAMBDA c : c # "tick")

json_process(s, p) ==
    LET block == s.blocks[p.id]
        buffer == block.buffer \o p.v
        fenced == IsPrefix(Fence, buffer)
        begins == \/ buffer # <<>> /\ buffer[1] # "tick"
                  \/ fenced /\ Contains(buffer, "nl")
                  \/ ~fenced /\ Len(buffer) >= 3
        stripped == IF fenced /\ block.phase = "prefix" THEN From(buffer, fence_prefix_len(buffer) + 1) ELSE buffer
        streaming == block.phase = "streaming" \/ begins
        split == Len(stripped) - SuffixBuffer
        start == IF block.phase = "prefix" /\ begins THEN <<Start("text", p.id, <<>>)>> ELSE <<>>
        rest == CASE block.phase = "buffering" -> Custom(block.buffer)
                  [] block.phase = "prefix" -> strip_json_fences(block.buffer)
                  [] block.phase = "streaming" -> TrimEnd(strip_fence_suffix(block.buffer))
        keep(b) == [s EXCEPT !.blocks = p.id :> b @@ @]
        gone == [s EXCEPT !.blocks = [id \in DOMAIN @ \ {p.id} |-> @[id]]]
    IN  CASE p.k = "text" /\ p.at = "start" ->
                [s |-> keep([phase |-> IF s.custom THEN "buffering" ELSE "prefix", buffer |-> <<>>]), parts |-> <<>>]
          [] p.k = "text" /\ p.at = "delta" /\ p.id \in DOMAIN s.blocks ->
                IF block.phase = "buffering" \/ ~streaming THEN [s |-> keep([block EXCEPT !.buffer = buffer]), parts |-> <<>>]
                ELSE IF split > 0
                THEN [s |-> keep([phase |-> "streaming", buffer |-> From(stripped, split + 1)]),
                      parts |-> start \o <<Delta("text", p.id, SubSeq(stripped, 1, split))>>]
                ELSE [s |-> keep([phase |-> "streaming", buffer |-> stripped]), parts |-> start]
          [] p.k = "text" /\ p.at = "end" /\ p.id \in DOMAIN s.blocks ->
                [s |-> gone,
                 parts |-> (IF block.phase = "streaming" THEN <<>> ELSE <<Start("text", p.id, <<>>)>>)
                           \o (IF rest = <<>> THEN <<>> ELSE <<Delta("text", p.id, rest)>>) \o <<p>>]
          [] OTHER -> [s |-> s, parts |-> <<p>>]

-----------------------------------------------------------------------------
(* smooth_stream, whose pauses are left out                                  *)

\* The end of the first word and the white space after it, or of the lines.
word_chunk(s) ==
    LET word == Least({i \in DOMAIN s : s[i] \notin White})
        space == Least({i \in DOMAIN s : i > word /\ s[i] \in White})
        next == Least({i \in DOMAIN s : i > space /\ s[i] \notin White})
    IN  IF word = 0 \/ space = 0 THEN 0 ELSE IF next = 0 THEN Len(s) ELSE next - 1
line_chunk(s) ==
    LET start == Least({i \in DOMAIN s : s[i] = "nl"})
        next == Least({i \in DOMAIN s : i > start /\ s[i] # "nl"})
    IN  IF start = 0 THEN 0 ELSE IF next = 0 THEN Len(s) ELSE next - 1
detect(chunking, s) == IF chunking = "word" THEN word_chunk(s) ELSE line_chunk(s)

\* What is left in the buffer belongs to the part that came last.
flush(s) == IF s.buffer = <<>> THEN [s |-> s, parts |-> <<>>]
            ELSE [s |-> [s EXCEPT !.buffer = <<>>], parts |-> <<Delta(s.current[1], s.current[2], s.buffer)>>]

RECURSIVE chunks(_)
chunks(acc) ==
    LET n == detect(acc.s.chunking, acc.s.buffer)
    IN  IF n = 0 THEN acc
        ELSE chunks([s |-> [acc.s EXCEPT !.buffer = From(@, n + 1)],
                     parts |-> Append(acc.parts, Delta(acc.s.current[1], acc.s.current[2], SubSeq(acc.s.buffer, 1, n)))])

\* Mutant: what stands alone passes the text that is held.
smooth_NotFlushed(s, p) ==
    LET flushed == flush(s)
        ready == IF s.current = <<p.k, p.id>> THEN [s |-> s, parts |-> <<>>] ELSE flushed
    IN  IF p.at = "delta" THEN chunks([ready EXCEPT !.s.buffer = @ \o p.v, !.s.current = <<p.k, p.id>>])
        ELSE IF p.at = "one" THEN [s |-> s, parts |-> <<p>>]
        ELSE [flushed EXCEPT !.parts = Append(@, p)]

smooth(s, p) ==
    LET flushed == flush(s)
        same == s.current = <<p.k, p.id>>
        ready == IF same THEN [s |-> s, parts |-> <<>>] ELSE flushed
    IN  IF p.at = "delta" /\ p.k \in {"text", "reasoning"}
        THEN chunks([ready EXCEPT !.s.buffer = @ \o p.v, !.s.current = <<p.k, p.id>>])
        ELSE [flushed EXCEPT !.parts = Append(@, p)]

-----------------------------------------------------------------------------
(* simulate_streaming                                                        *)

LOCAL PartId(n) == <<"0", "1", "2", "3">>[n + 1]
simulate_parts(content) ==
    LET one(acc, p) ==
            CASE p.k = "text" /\ p.v = <<>> -> acc
              [] p.k \in {"text", "reasoning"} /\ ~(p.k = "text" /\ p.v = <<>>) ->
                    [n |-> acc.n + 1,
                     parts |-> acc.parts \o <<Start(p.k, PartId(acc.n), <<>>), Delta(p.k, PartId(acc.n), p.v), End(p.k, PartId(acc.n))>>]
              [] OTHER -> [acc EXCEPT !.parts = Append(@, p)]
    IN  FoldLeft(one, [n |-> 0, parts |-> <<One("metadata", "", <<>>)>>], content).parts

-----------------------------------------------------------------------------

Configs(layer) ==
    CASE layer = "extract_reasoning" -> [layer : {layer}, size : DeltaSizes, inside : BOOLEAN]
      [] layer = "extract_json" -> [layer : {layer}, size : DeltaSizes, custom : BOOLEAN]
      [] layer = "smooth" -> [layer : {layer}, size : DeltaSizes, chunking : {"word", "line"}]
      [] layer = "simulate" -> [layer : {layer}, size : {1}]

New(config) ==
    CASE config.layer = "extract_reasoning" -> [layer |-> config.layer, texts |-> <<>>, r |-> 0, inside |-> config.inside]
      [] config.layer = "extract_json" ->
            [layer |-> config.layer, blocks |-> <<>>, custom |-> config.custom]
      [] config.layer = "smooth" -> [layer |-> config.layer, buffer |-> <<>>, current |-> <<>>, chunking |-> config.chunking]
      [] config.layer = "simulate" -> [layer |-> config.layer]

\* A part of the source, as the layer passes it on.
process(s, p) ==
    CASE s.layer = "extract_reasoning" -> reasoning_process(s, p)
      [] s.layer = "extract_json" -> json_process(s, p)
      [] s.layer = "smooth" -> smooth(s, p)

handle(s, c) ==
    LET after(parts, r) == [r EXCEPT !.parts = parts \o @]
        one(acc, p) == after(acc.parts, process(acc.s, p))
    IN  IF c.t = "result" THEN [s |-> s, parts |-> simulate_parts(c.parts)]
        ELSE FoldLeft(one, [s |-> s, parts |-> <<>>], c.parts)

\* The end of the source.
finish(s) ==
    CASE s.layer = "extract_reasoning" -> finish_all(s).parts
      [] s.layer = "smooth" -> flush(s).parts
      [] OTHER -> <<>>

\* The layer over a response that is not streamed.
LOCAL Content(u, i) == IF u.k \in {"text", "reasoning"} THEN One(u.k, "", u.v) ELSE One(u.k, PartId(i), u.v)
LOCAL Rewritten(rewrite(_, _), config, response) ==
    FlattenSeq([i \in DOMAIN response |-> rewrite(config, Content(response[i], i))]) \o <<Finish("stop")>>

run_transform(config, p) ==
    CASE config.layer = "extract_reasoning" -> apply(config, p)
      [] config.layer = "extract_json" /\ p.k = "text" -> <<[p EXCEPT !.v = IF config.custom THEN Custom(@) ELSE strip_json_fences(@)]>>
      [] OTHER -> <<p>>
Whole(config, response) == Rewritten(run_transform, config, response)

-----------------------------------------------------------------------------
(* Where a stream says something else than the whole.                        *)

\* A section that is not terminated is a reasoning of a stream, and text of a
\* whole response.
LOCAL Terminated(config, p) ==
    LET inside == IF config.inside THEN OpeningTag ELSE <<>>
    IN  IF p.k = "text" /\ find(sections(inside \o p.v).text, OpeningTag) # 0 THEN [p EXCEPT !.v = @ \o ClosingTag] ELSE p

\* A fence that does not say json, on a line of its own, stays in a stream,
\* and the closing one is looked for in the characters held back alone.
LOCAL AsHeld(v) ==
    LET line == IsPrefix(Fence, v) /\ Contains(v, "nl")
        body == IF line THEN From(v, fence_prefix_len(v) + 1) ELSE v
        split == IF Len(body) > SuffixBuffer THEN Len(body) - SuffixBuffer ELSE 0
        waits == ~line /\ (v = <<>> \/ IsPrefix(Fence, v) \/ (Len(v) < 3 /\ v[1] = "tick"))
    IN  IF waits THEN strip_json_fences(v) ELSE SubSeq(body, 1, split) \o strip_fence_suffix(From(body, split + 1))

streamed_transform(config, p) ==
    CASE config.layer = "extract_reasoning" -> apply(config, Terminated(config, p))
      [] config.layer = "extract_json" /\ p.k = "text" /\ ~config.custom -> <<[p EXCEPT !.v = AsHeld(@)]>>
      [] OTHER -> run_transform(config, p)
Told(config, response) == Rewritten(streamed_transform, config, response)

\* White space at the ends of a text, which a whole one loses, may stay in the
\* stream of extract_json.
Bare(config, parts) ==
    IF config.layer # "extract_json" THEN parts
    ELSE [i \in DOMAIN parts |-> IF parts[i].k = "text" THEN [parts[i] EXCEPT !.v = SelectSeq(@, LAMBDA c : c \notin White)] ELSE parts[i]]

-----------------------------------------------------------------------------

(* The source: the stream of a provider, whose parts are in their place. A   *)
(* call may come, and a reasoning be under way, while a text is.             *)

Server == [units |-> <<>>, sent |-> <<>>, log |-> <<>>, over |-> FALSE]

LOCAL Streamed(k) == k \in {"text", "reasoning"}

\* The parts of a unit: its start, deltas of the given size and its end.
Pieces(u, id, size) ==
    LET n == (Len(u.v) + size - 1) \div size
        delta(i) == Delta(u.k, id, SubSeq(u.v, (i - 1) * size + 1, IF i = n THEN Len(u.v) ELSE i * size))
    IN  IF Streamed(u.k) THEN <<Start(u.k, id, <<>>)>> \o [i \in 1..n |-> delta(i)] \o <<End(u.k, id)>> ELSE <<One(u.k, id, u.v)>>

LOCAL UnderWay(srv, config) == {i \in DOMAIN srv.units : srv.sent[i] < Len(Pieces(srv.units[i], PartId(i), config.size))}

Sends(srv, config) ==
    LET n == Len(srv.units)
        open == UnderWay(srv, config)
        pieces(u, i) == Pieces(u, PartId(i), config.size)
        step(p, next) == <<[t |-> "parts", parts |-> <<p>>], [next EXCEPT !.log = Append(@, p)]>>
        sequences == UNION {[1..m -> LayerUnits[config.layer]] : m \in 0..MaxLayerUnits}
        beside(u) == open = {} \/ ~Streamed(u.k) \/ (config.layer # "extract_reasoning" /\ \A i \in open : srv.units[i].k # u.k)
    IN  IF srv.over THEN {}
        ELSE IF config.layer = "simulate"
        THEN {<<[t |-> "result", parts |-> [i \in DOMAIN us |-> Content(us[i], i)] \o <<Finish("stop")>>],
                [srv EXCEPT !.units = us, !.over = TRUE]>> : us \in sequences}
        ELSE {step(pieces(srv.units[i], i)[srv.sent[i] + 1], [srv EXCEPT !.sent[i] = @ + 1]) : i \in open}
             \cup {step(pieces(u, n + 1)[1], [srv EXCEPT !.units = Append(@, u), !.sent = Append(@, 1)]) :
                     u \in IF n < MaxLayerUnits THEN {u \in LayerUnits[config.layer] : beside(u)} ELSE {}}
             \cup (IF open = {} THEN {step(Finish("stop"), [srv EXCEPT !.over = TRUE])} ELSE {})

\* An error closes what is open first.
Errors(srv, config) ==
    LET ends(k) == LET i == SetToSeq({i \in UnderWay(srv, config) : srv.units[i].k = k}) IN [n \in DOMAIN i |-> End(k, PartId(i[n]))]
    IN  IF config.layer = "simulate" \/ srv.over THEN {}
        ELSE {[t |-> "error", parts |-> ends("reasoning") \o ends("text") \o <<ErrorPart>>]}

Sent(srv) == srv.units

-----------------------------------------------------------------------------

LOCAL Characters(parts, from) ==
    FoldLeft(LAMBDA n, p : n + IF Streamed(p.k) THEN Len(p.v) ELSE 0, 0, From(parts, from))

\* How many characters of a text a layer may hold back: none once it has
\* ended, or while another part passes smooth_stream; what may be the start of
\* a tag; what may be a closing fence; all of it, when the application rewrites
\* it or while its opening fence has no end.
Held(config, u) ==
    CASE config.layer = "extract_reasoning" -> Len(ClosingTag) - 1
      [] config.layer = "extract_json" ->
            IF config.custom \/ (IsPrefix(Fence, u.v) /\ ~Contains(u.v, "nl")) THEN Len(u.v) ELSE SuffixBuffer
      [] OTHER -> 0

\* A part that stands alone overtakes what the layer may hold of a text that
\* is open then, and nothing else of what came before it.
OvertakesTheHeld(config, srv, out) ==
    \A j \in DOMAIN srv.log, k \in DOMAIN out :
        LET open == {u \in DOMAIN srv.units : srv.units[u].k = "text"
                        /\ Contains(FoldLeft(observe, NothingOpen, SubSeq(srv.log, 1, j)).text, PartId(u))}
        IN  srv.log[j].at = "one" /\ out[k] = srv.log[j]
                => Characters(out, k) <= Characters(srv.log, j) + (IF open = {} THEN 0 ELSE Held(config, srv.units[CHOOSE u \in open : TRUE]))
=============================================================================

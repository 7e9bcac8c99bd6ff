--------------------------- MODULE ResponsesStream ---------------------------
(* ferrin-openai, responses: the items of a response, streamed and whole.    *)
(* An item is [k, id, call, name, v, x, uses]: its type, its id and that of  *)
(* its call, the name of a tool, its text, input or outcome, a variant       *)
(* (a citation, who executes, an approval) and the calls of a parallel one.  *)
EXTENDS StreamParts, TLC

CONSTANTS
    ResponseItems,        \* the items a response may be made of
    MaxItems              \* how many it has at most

functions == {"tool"}     \* the functions the request declared

map_finish_reason(reason, hasFunctionCall) ==
    CASE reason = "max_output_tokens" -> "length"
      [] reason = "content_filter" -> "content_filter"
      [] reason = "" -> IF hasFunctionCall THEN "tool_calls" ELSE "stop"
      [] OTHER -> IF hasFunctionCall THEN "tool_calls" ELSE "other"

\* An annotation of an unknown type is no source.
annotation_source(note) ==
    IF note \in {"url_citation", "file_citation", "container_file_citation", "file_path"} THEN <<One("source", "", <<note>>)>> ELSE <<>>

\* A wrapper of calls to declared functions is those calls, unless it is a
\* declared function itself or any of its calls is not of one.
expands(it) ==
    it.name = "parallel" /\ "parallel" \notin functions /\ it.uses # <<>> /\ \A i \in DOMAIN it.uses : it.uses[i] \in functions
LOCAL ChildId == <<"_0", "_1", "_2">>
expand(it) == [i \in DOMAIN it.uses |-> One("call", it.call \o ChildId[i], <<it.uses[i], "{", "}">>)]

\* OutputMapper: the ids made for earlier approvals, and what it has met.
Mapper(config) ==
    [function |-> FALSE, hosted_shell |-> config.hosted_shell, approvals |-> config.approvals,
     searches |-> <<>>]

LOCAL Calls(m, id, name, v) == [m |-> [m EXCEPT !.function = TRUE], parts |-> <<One("call", id, <<CustomName(name)>> \o v)>>]
LOCAL Hosts(m, id, name, v) == [m |-> m, parts |-> <<One("hosted", id, <<CustomName(name)>> \o v)>>]
LOCAL Results(m, id, name, v) == [m |-> m, parts |-> <<One("result", id, <<CustomName(name)>> \o v)>>]
LOCAL Both(a, b) == [m |-> b.m, parts |-> a.parts \o b.parts]
Empty == <<"{", "}">>
Quoted(v) == <<"''">> \o v \o <<"''">>

\* Programs and searches: whose output is by the call, or by the hosted
\* search that has waited longest.
advanced_item(m, it) ==
    LET hosted == it.k = "tool_search_call" /\ it.x = "server"
        search == IF it.call # "" THEN it.call ELSE IF m.searches # <<>> THEN Head(m.searches) ELSE it.id
        id == IF it.call # "" THEN it.call ELSE it.id
        rest == IF it.call # "" \/ m.searches = <<>> THEN m.searches ELSE Tail(m.searches)
    IN  CASE it.k = "program" -> Hosts(m, id, "programmatic_tool_calling", it.v)
          [] it.k = "program_output" -> Results(m, id, "programmatic_tool_calling", it.v)
          [] it.k = "tool_search_call" ->
                IF hosted THEN Hosts([m EXCEPT !.searches = Append(@, id)], id, "tool_search", it.v)
                ELSE Calls(m, id, "tool_search", it.v)
          [] it.k = "tool_search_output" -> Results([m EXCEPT !.searches = rest], search, "tool_search", it.v)
          [] it.k = "shell_call_output" -> Results(m, id, "shell", it.v)

Advanced == {"program", "program_output", "tool_search_call", "tool_search_output", "shell_call_output"}

mcp_call(m, it) ==
    LET id == IF it.x \in DOMAIN m.approvals THEN m.approvals[it.x] ELSE it.id
    IN  Both(Hosts(m, id, it.name, it.v), Results(m, id, it.name, <<"output">>))

\* A request for approval is a call under an id of its own, a fresh one.
MadeId == [item_1 |-> "made_1", item_2 |-> "made_2", item_3 |-> "made_3"]
mcp_approval_request(m, it) ==
    [m |-> m, parts |-> <<One("hosted", MadeId[it.id], <<it.name>> \o it.v), One("approval", MadeId[it.id], <<it.id>>)>>]

\* The hosted tools whose item is both the call and its result.
Answering == {"web_search_call", "file_search_call", "image_generation_call", "code_interpreter_call"}
HostedName == [web_search_call |-> "web_search", file_search_call |-> "file_search",
               image_generation_call |-> "image_generation", code_interpreter_call |-> "code_interpreter"]
HostedInput(it) == IF it.k = "code_interpreter_call" THEN it.v ELSE Empty

\* A completed item.
map_item(m, it) ==
    CASE it.k = "reasoning" -> [m |-> m, parts |-> <<One("reasoning", "", it.v)>>]
      [] it.k = "message" -> [m |-> m, parts |-> <<One("text", "", it.v)>> \o annotation_source(it.x)]
      [] it.k = "function_call" ->
            IF expands(it) THEN [m |-> [m EXCEPT !.function = TRUE], parts |-> expand(it)]
            ELSE Calls(m, it.call, it.name, it.v)
      [] it.k = "custom_tool_call" -> Calls(m, it.call, it.name, Quoted(it.v))
      [] it.k \in {"apply_patch_call", "local_shell_call", "computer_call"} -> Calls(m, it.call, it.name, it.v)
      [] it.k = "shell_call" -> IF m.hosted_shell THEN Hosts(m, it.call, "shell", it.v) ELSE Calls(m, it.call, "shell", it.v)
      [] it.k \in Answering ->
            Both(Hosts(m, it.id, HostedName[it.k], HostedInput(it)), Results(m, it.id, HostedName[it.k], <<"output">>))
      [] it.k = "mcp_call" -> mcp_call(m, it)
      [] it.k = "mcp_approval_request" -> mcp_approval_request(m, it)
      [] it.k \in Advanced -> advanced_item(m, it)
      [] it.k = "compaction" -> [m |-> m, parts |-> <<One("custom", "", <<"compaction">>)>>]
      [] OTHER -> [m |-> m, parts |-> <<>>]

LOCAL Mapped(map(_, _), config, response) ==
    LET one(acc, it) == LET r == map(acc.m, it) IN [m |-> r.m, parts |-> acc.parts \o r.parts]
        all == FoldLeft(one, [m |-> Mapper(config), parts |-> <<>>], response.items)
    IN  all.parts \o <<Finish(map_finish_reason(response.reason, all.m.function))>>

\* The result of a request that is not streamed.
Whole(config, response) == Mapped(map_item, config, response)

\* Where a stream says something else: a patch that is incomplete, or was not
\* announced, is not a call.
Called(it) == it.k = "apply_patch_call" => it.x \notin {"incomplete", "unannounced"}
streamed_item(m, it) == IF Called(it) THEN map_item(m, it) ELSE [m |-> m, parts |-> <<>>]
Told(config, response) == Mapped(streamed_item, config, response)

-----------------------------------------------------------------------------

\* What the request may have asked: whether the server stores the response,
\* whether its shell is hosted, the approvals of earlier turns; and whether
\* the server gives a message or a reasoning another id in later events.
Configs ==
    {[store |-> a, hosted_shell |-> b, approvals |-> "approval_0" :> "call_0", rotates |-> c] :
       <<a, b, c>> \in {<<TRUE, FALSE, FALSE>>, <<FALSE, TRUE, TRUE>>}}

\* ResponsesStreamState.
New(config) ==
    [m |-> Mapper(config), store |-> config.store, reason |-> "other", terminal |-> FALSE,
     ongoing |-> <<>>, active_ids |-> <<>>, reasoning |-> <<>>, streamed_approvals |-> <<>>]

resolve_item_id(s, id, i) == IF i \in DOMAIN s.active_ids THEN s.active_ids[i] ELSE id
SummaryId(id, n) == <<id, n>>

LOCAL Keep(s, i, call) == [s EXCEPT !.ongoing = i :> call @@ @]
Ongoing(id) == [id |-> id, container |-> "", patch |-> "none"]
LOCAL Drop(s, i) == [s EXCEPT !.ongoing = [j \in DOMAIN @ \ {i} |-> @[j]]]
LOCAL Same(s, parts) == [s |-> s, parts |-> parts]

\* The text before the diff of a patch, and before the code of a container.
PatchHead(it) == SubSeq(it.v, 1, 2)
CodeHead(it) == <<"{", "container", "code">>

item_added(s, it, i) ==
    LET opened(id) == <<Start("input", id, <<>>)>>
        started(id) == [s |-> Keep(s, i, Ongoing(id)), parts |-> opened(id)]
        named == [s EXCEPT !.active_ids = i :> it.id @@ @]
        patch(has) == Keep(s, i, [Ongoing(it.call) EXCEPT !.patch = has])
    IN  CASE it.k = "function_call" ->
                IF it.name = "parallel" /\ "parallel" \notin functions THEN Same(s, <<>>) ELSE started(it.call)
          [] it.k \in {"custom_tool_call", "computer_call"} -> started(it.call)
          [] it.k = "web_search_call" ->
                [s |-> Keep(s, i, Ongoing(it.id)),
                 parts |-> opened(it.id) \o <<End("input", it.id), One("hosted", it.id, <<"web_search">> \o Empty)>>]
          [] it.k = "code_interpreter_call" ->
                [s |-> Keep(s, i, [Ongoing(it.id) EXCEPT !.container = "container"]),
                 parts |-> opened(it.id) \o <<Delta("input", it.id, CodeHead(it))>>]
          [] it.k \in {"file_search_call", "image_generation_call"} ->
                Same(s, <<One("hosted", it.id, <<HostedName[it.k]>> \o Empty)>>)
          [] it.k = "apply_patch_call" /\ it.x = "delete_file" ->
                [s |-> patch("ended"), parts |-> opened(it.call) \o <<Delta("input", it.call, it.v), End("input", it.call)>>]
          [] it.k = "apply_patch_call" /\ it.x # "delete_file" ->
                [s |-> patch("empty"), parts |-> opened(it.call) \o <<Delta("input", it.call, PatchHead(it))>>]
          [] it.k = "message" -> [s |-> named, parts |-> <<Start("text", it.id, <<>>)>>]
          [] it.k = "reasoning" ->
                [s |-> [named EXCEPT !.reasoning = it.id :> (0 :> "active") @@ @],
                 parts |-> <<Start("reasoning", SummaryId(it.id, 0), <<>>)>>]
          [] OTHER -> Same(s, <<>>)

\* The end of a patch whose diff was not said to be done.
close_patch(s, it, i) ==
    LET call == s.ongoing[i]
        diff == IF call.patch = "empty" THEN <<Delta("input", call.id, <<it.v[3]>>)>> ELSE <<>>
    IN  IF call.patch \in {"empty", "diff"} /\ it.x # "delete_file"
        THEN diff \o <<Delta("input", call.id, <<"}}">>), End("input", call.id)>> ELSE <<>>

\* mapped: what the item is when it is not streamed.
item_done(s, it, i, mapped) ==
    LET id == resolve_item_id(s, it.id, i)
        known == i \in DOMAIN s.ongoing
        done(parts) == [s |-> [Drop(s, i) EXCEPT !.m = mapped.m], parts |-> parts]
        opened == IF known THEN <<>> ELSE <<Start("input", it.call, <<>>)>>
        whole(p) == IF p.k \in {"call", "hosted"}
                    THEN <<Start("input", p.id, <<>>), Delta("input", p.id, Tail(p.v)), End("input", p.id), p>> ELSE <<>>
        forgotten == [s EXCEPT !.active_ids = [j \in DOMAIN @ \ {i} |-> @[j]]]
        open == {n \in DOMAIN s.reasoning[id] : s.reasoning[id][n] # "concluded"}
        ends == [n \in 1..Cardinality(open) |-> End("reasoning", SummaryId(id, SetToSortSeq(open, <)[n]))]
        aliased(p) == IF it.x \in DOMAIN s.streamed_approvals THEN [p EXCEPT !.id = s.streamed_approvals[it.x]] ELSE p
    IN  CASE it.k = "message" -> [s |-> forgotten, parts |-> <<End("text", id)>>]
          [] it.k = "function_call" /\ expands(it) ->
                [s |-> [s EXCEPT !.m = mapped.m], parts |-> FlattenSeq([n \in DOMAIN mapped.parts |-> whole(mapped.parts[n])])]
          [] it.k = "function_call" /\ ~expands(it) ->
                done(opened \o (IF known THEN <<>> ELSE <<Delta("input", it.call, it.v)>>) \o <<End("input", it.call)>> \o mapped.parts)
          [] it.k = "custom_tool_call" -> done(opened \o <<End("input", it.call)>> \o mapped.parts)
          [] it.k = "computer_call" -> done(opened \o <<Delta("input", it.call, it.v), End("input", it.call)>> \o mapped.parts)
          [] it.k \in {"web_search_call", "file_search_call", "image_generation_call"} -> done(<<mapped.parts[2]>>)
          [] it.k = "code_interpreter_call" -> done(IF known THEN <<mapped.parts[2]>> ELSE mapped.parts)
          [] it.k = "mcp_call" -> done([n \in DOMAIN mapped.parts |-> aliased(mapped.parts[n])])
          [] it.k = "mcp_approval_request" ->
                [s |-> [Drop(s, i) EXCEPT !.m = mapped.m, !.streamed_approvals = it.id :> mapped.parts[1].id @@ @],
                 parts |-> mapped.parts]
          [] it.k = "apply_patch_call" ->
                [s |-> [Drop(s, i) EXCEPT !.m = IF known /\ it.x # "incomplete" THEN mapped.m ELSE @],
                 parts |-> IF ~known THEN <<>> ELSE close_patch(s, it, i) \o (IF it.x = "incomplete" THEN <<>> ELSE mapped.parts)]
          [] it.k \in {"local_shell_call", "shell_call", "program", "tool_search_call"} ->
                done(FlattenSeq([n \in DOMAIN mapped.parts |-> whole(mapped.parts[n])]))
          [] it.k \in {"shell_call_output", "program_output", "tool_search_output", "compaction"} ->
                [s |-> [s EXCEPT !.m = mapped.m], parts |-> mapped.parts]
          [] it.k = "reasoning" ->
                IF id \in DOMAIN s.reasoning
                THEN [s |-> [forgotten EXCEPT !.reasoning = [r \in DOMAIN @ \ {id} |-> @[r]]], parts |-> ends]
                ELSE Same(forgotten, <<>>)
          [] OTHER -> Same(s, <<>>)

\* A new summary concludes those that could be, in their order.
summary_added(s, id, n) ==
    LET can == {k \in DOMAIN s.reasoning[id] : s.reasoning[id][k] = "can conclude"}
        ends == [k \in 1..Cardinality(can) |-> End("reasoning", SummaryId(id, SetToSortSeq(can, <)[k]))]
        states == [k \in DOMAIN s.reasoning[id] \cup {n} |->
                     IF k = n THEN "active" ELSE IF k \in can THEN "concluded" ELSE s.reasoning[id][k]]
    IN  IF n = 0 \/ id \notin DOMAIN s.reasoning THEN Same(s, <<>>)
        ELSE [s |-> [s EXCEPT !.reasoning[id] = states], parts |-> ends \o <<Start("reasoning", SummaryId(id, n), <<>>)>>]

\* A stored response needs no encrypted content at its end: it ends at once.
summary_done(s, id, n) ==
    IF id \notin DOMAIN s.reasoning THEN Same(s, <<>>)
    ELSE [s |-> [s EXCEPT !.reasoning[id] = n :> (IF s.store THEN "concluded" ELSE "can conclude") @@ @],
          parts |-> IF s.store THEN <<End("reasoning", SummaryId(id, n))>> ELSE <<>>]

diff_delta(s, c) ==
    IF c.i \in DOMAIN s.ongoing /\ s.ongoing[c.i].patch # "none"
    THEN [s |-> [s EXCEPT !.ongoing[c.i].patch = IF @ = "ended" THEN @ ELSE "diff"], parts |-> <<Delta("input", s.ongoing[c.i].id, c.v)>>]
    ELSE Same(s, <<>>)

diff_done(s, c) ==
    LET call == s.ongoing[c.i]
        diff == IF call.patch = "empty" THEN <<Delta("input", call.id, c.v)>> ELSE <<>>
    IN  IF c.i \in DOMAIN s.ongoing /\ s.ongoing[c.i].patch \in {"empty", "diff"}
        THEN [s |-> [s EXCEPT !.ongoing[c.i].patch = "ended"],
              parts |-> diff \o <<Delta("input", call.id, <<"}}">>), End("input", call.id)>>]
        ELSE Same(s, <<>>)

code_done(s, c) ==
    LET id == s.ongoing[c.i].id
    IN  IF c.i \notin DOMAIN s.ongoing THEN Same(s, <<>>)
        ELSE Same(s, <<Delta("input", id, <<"}">>), End("input", id),
                       One("hosted", id, <<CustomName("code_interpreter"), "{", "code">> \o c.v \o <<s.ongoing[c.i].container, "}">>)>>)

handle(s, c) ==
    CASE c.t = "added" -> item_added(s, c.item, c.i)
      [] c.t = "done" -> item_done(s, c.item, c.i, map_item(s.m, c.item))
      [] c.t \in {"arguments", "code"} ->
            Same(s, IF c.i \in DOMAIN s.ongoing THEN <<Delta("input", s.ongoing[c.i].id, c.v)>> ELSE <<>>)
      [] c.t = "diff" -> diff_delta(s, c)
      [] c.t = "diff done" -> diff_done(s, c)
      [] c.t = "partial image" -> Same(s, <<One("partial", c.id, <<"image_generation">>)>>)
      [] c.t = "code done" -> code_done(s, c)
      [] c.t = "created" -> Same(s, <<One("metadata", "", <<>>)>>)
      [] c.t = "text" -> Same(s, <<Delta("text", resolve_item_id(s, c.id, c.i), c.v)>>)
      [] c.t = "summary added" -> summary_added(s, resolve_item_id(s, c.id, c.i), c.n)
      [] c.t = "summary" -> Same(s, <<Delta("reasoning", SummaryId(resolve_item_id(s, c.id, c.i), c.n), c.v)>>)
      [] c.t = "summary done" -> summary_done(s, resolve_item_id(s, c.id, c.i), c.n)
      [] c.t = "annotation" -> Same(s, annotation_source(c.v[1]))
      [] c.t = "completed" -> Same([s EXCEPT !.terminal = TRUE, !.reason = map_finish_reason(c.reason, s.m.function)], <<>>)
      [] c.t \in {"failed", "error", "bad"} -> Same([s EXCEPT !.terminal = (c.t = "failed")], <<ErrorPart>>)
      [] OTHER -> Same(s, <<>>)

\* A stream without a terminal response was cut.
finish(s) == IF s.terminal THEN <<Finish(s.reason)>> ELSE <<ErrorPart>>

\* Mutant: a response that has failed counts as output.
classify_FailedIsOutput(c) ==
    CASE c.t = "error" -> "Error"
      [] c.t = "in progress" -> "Accepted"
      [] c.t \in {"created", "queued"} -> "Other"
      [] OTHER -> "Output"

classify(c) ==
    CASE c.t \in {"error", "failed"} -> "Error"
      [] c.t = "in progress" -> "Accepted"
      [] c.t \in {"created", "queued"} -> "Other"
      [] OTHER -> "Output"

-----------------------------------------------------------------------------

(* The server, as the adapter meets it: two items, not two texts, may be under way. *)

LOCAL Frame(t, i, id, v) == [t |-> t, i |-> i, id |-> id, n |-> 0, v |-> v]

\* The frames of an item between its start and its end.
Pieces(it, i, id) ==
    LET each(t, v) == [n \in DOMAIN v |-> Frame(t, i, id, <<v[n]>>)]
        summary(n) == <<[Frame("summary added", i, id, <<>>) EXCEPT !.n = n - 1], [Frame("summary", i, id, <<it.v[n]>>) EXCEPT !.n = n - 1],
                        [Frame("summary done", i, id, <<>>) EXCEPT !.n = n - 1]>>
        noted == IF it.x = "" THEN <<>> ELSE <<Frame("annotation", i, id, <<it.x>>)>>
        code == SubSeq(it.v, 3, Len(it.v) - 2)
    IN  CASE it.k = "message" -> each("text", it.v) \o noted
          [] it.k = "reasoning" -> FlattenSeq([n \in DOMAIN it.v |-> summary(n)])
          [] it.k \in {"function_call", "custom_tool_call"} -> each("arguments", it.v)
          [] it.k = "code_interpreter_call" -> each("code", code) \o <<Frame("code done", i, id, code)>>
          [] it.k = "image_generation_call" -> <<Frame("partial image", i, id, <<>>)>>
          [] it.k = "apply_patch_call" /\ it.x = "streamed" -> <<Frame("diff", i, id, <<it.v[3]>>), Frame("diff done", i, id, <<it.v[3]>>)>>
          [] it.k = "apply_patch_call" /\ it.x = "at once" -> <<Frame("diff done", i, id, <<it.v[3]>>)>>
          [] OTHER -> <<>>

\* Some servers do not announce a call.
Announced(it) == it.x # "unannounced"

Server == [phase |-> "created", items |-> <<>>, sent |-> <<>>, reason |-> ""]

LOCAL Ids == <<"item_1", "item_2", "item_3">>
LOCAL CallIds == <<"call_1", "call_2", "call_3">>

Outputs == {"program_output", "shell_call_output", "tool_search_output"}

\* An item, with its ids. An output is of a call of this response, by its id
\* or by none, or of one of an earlier turn; what was approved then runs once.
NewItems(srv) ==
    LET n == Len(srv.items) + 1
        origin(it) == CASE it.k = "program_output" -> "program" [] it.k = "shell_call_output" -> "shell_call" [] OTHER -> "tool_search_call"
        earlier(it) == {srv.items[j].call : j \in {j \in DOMAIN srv.items : srv.items[j].k = origin(it)}}
    IN  UNION { {it @@ [id |-> Ids[n], call |-> call] :
                    call \in IF it.k \notin Outputs THEN {CallIds[n]}
                             ELSE earlier(it) \cup {"call_earlier"} \cup IF it.k = "tool_search_output" /\ earlier(it) # {} THEN {""} ELSE {}} :
                it \in {it \in ResponseItems : it.x = "approval_0" => \A j \in DOMAIN srv.items : srv.items[j].x # "approval_0"} }

Sends(srv, config) ==
    LET n == Len(srv.items)
        id(i) == IF config.rotates /\ srv.items[i].k \in {"message", "reasoning"} THEN "rotated" ELSE Ids[i]
        pieces(i) == Pieces(srv.items[i], i, id(i))
        over == \A i \in 1..n : srv.sent[i] > Len(pieces(i))
        begun(it) == [srv EXCEPT !.items = Append(@, it), !.sent = Append(@, IF Announced(it) THEN 0 ELSE Len(Pieces(it, n + 1, "")))]
        underWay == {i \in 1..n : srv.sent[i] <= Len(pieces(i))}
        ready(it) == /\ Cardinality(underWay) < (IF it.k \in Outputs THEN 1 ELSE 2)
                     /\ it.k \in {"message", "reasoning"} => \A i \in underWay : srv.items[i].k # it.k
    IN  CASE srv.phase = "created" ->
                {<<[t |-> "created"], [srv EXCEPT !.phase = "progress"]>>}
          [] srv.phase = "progress" /\ config.rotates -> {<<[t |-> "queued"], [srv EXCEPT !.phase = "queued"]>>}
          [] srv.phase \in {"progress", "queued"} -> {<<[t |-> "in progress"], [srv EXCEPT !.phase = "open"]>>}
          [] srv.phase = "open" ->
                {<<IF Announced(it) THEN [t |-> "added", i |-> n + 1, item |-> it]
                   ELSE [t |-> "done", i |-> n + 1, item |-> it], IF Announced(it) THEN begun(it) ELSE [begun(it) EXCEPT !.sent[n + 1] = @ + 1]>> :
                   it \in IF n < MaxItems THEN {it \in NewItems(srv) : ready(it)} ELSE {}}
                \cup {<<IF srv.sent[i] < Len(pieces(i)) THEN pieces(i)[srv.sent[i] + 1]
                        ELSE [t |-> "done", i |-> i, item |-> [srv.items[i] EXCEPT !.id = id(i)]], [srv EXCEPT !.sent[i] = @ + 1]>> :
                        i \in underWay}
                \cup (IF over THEN {<<[t |-> "completed", reason |-> r], [srv EXCEPT !.phase = "over", !.reason = r]>> :
                                      r \in {"", "max_output_tokens", "content_filter"}} ELSE {})
          [] OTHER -> {}

Sent(srv) == [items |-> srv.items, reason |-> srv.reason]
=============================================================================

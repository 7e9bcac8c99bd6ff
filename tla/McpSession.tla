------------------------------ MODULE McpSession ------------------------------
(***************************************************************************)
(* A session of an MCP client (client/mod.rs, request.rs, methods.rs,      *)
(* server_requests.rs, tools.rs): the negotiation of the protocol, the     *)
(* requests of its era with their input rounds, a listing of the tools     *)
(* next to a call of one, and the requests of the server; and what the     *)
(* client makes of a server's tools (tools.rs, apps.rs,                    *)
(* transport/headers.rs): the arguments a schema mirrors into headers, the *)
(* tools of a set and what the model reads of a result.  Text is a         *)
(* sequence of symbols.  Which answer belongs to which request, and the    *)
(* end of the transport, are McpClient.                                    *)
(***************************************************************************)
EXTENDS Naturals, Sequences, SequencesExt, FiniteSets, FiniteSetsExt

Has(opt) == opt # <<>>
Failed(why) == [t |-> "error", why |-> why]

-----------------------------------------------------------------------------
(* Annotated schemas and headers. A node: its annotation if any, its type and *)
(* its children, each under a property's name or at another keyword.          *)

Binding(name, path, type) == [name |-> name, path |-> path, type |-> type]
Visitor == [bindings |-> <<>>, names |-> {}, error |-> ""]

\* Mutant: names that differ in their case are taken for different headers.
annotation_Case(v, node, path, reachable) ==
    LET header == node.header[1]
    IN  CASE ~reachable \/ path = <<>> -> [v EXCEPT !.error = "unreachable"]
          [] reachable /\ path # <<>> /\ ~header.token -> [v EXCEPT !.error = "token"]
          [] reachable /\ path # <<>> /\ header.token /\ node.type \notin {"boolean", "integer", "string"} -> [v EXCEPT !.error = "type"]
          [] OTHER -> [v EXCEPT !.bindings = Append(@, Binding(header, path, node.type))]
annotation(v, node, path, reachable) ==
    LET header == node.header[1]
    IN  CASE ~reachable \/ path = <<>> -> [v EXCEPT !.error = "unreachable"]
          [] reachable /\ path # <<>> /\ ~header.token -> [v EXCEPT !.error = "token"]
          [] reachable /\ path # <<>> /\ header.token /\ header.lower \in v.names -> [v EXCEPT !.error = "repeated"]
          [] reachable /\ path # <<>> /\ header.token /\ header.lower \notin v.names
             /\ node.type \notin {"boolean", "integer", "string"} -> [v EXCEPT !.error = "type"]
          [] OTHER -> [v EXCEPT !.names = @ \cup {header.lower}, !.bindings = Append(@, Binding(header, path, node.type))]

RECURSIVE visit(_, _, _, _)
visit(v, node, path, reachable) ==
    LET here == IF Has(node.header) THEN annotation(v, node, path, reachable) ELSE v
    IN  IF v.error # "" \/ here.error # "" THEN here
        ELSE FoldLeft(LAMBDA w, kid : visit(w, kid.node, path \o kid.at, reachable /\ Has(kid.at)), here, node.kids)
header_bindings(schema) == visit(Visitor, schema, <<>>, TRUE)

value_at(value, path) ==
    FoldLeft(LAMBDA found, segment :
        IF found = <<>> THEN <<>>
        ELSE LET k == SelectInSeq(found[1].keys, LAMBDA x : x = segment)
             IN  IF k = 0 THEN <<>> ELSE <<found[1].items[k]>>, <<value>>, path)

Opening == "=?base64?"
Closing == "?="
Marked(text) == text # <<>> /\ Head(text) = Opening /\ Last(text) = Closing
Base64(text) == <<Opening>> \o text \o <<Closing>>
\* Mutant: a text that looks like an encoded one is sent as it is.
encode_header_value_Looks(text) ==
    IF "unicode" \notin ToSet(text) /\ (text = <<>> \/ (Head(text) # " " /\ Last(text) # " ")) THEN text ELSE Base64(text)
encode_header_value(text) ==
    IF "unicode" \notin ToSet(text) /\ (text = <<>> \/ (Head(text) # " " /\ Last(text) # " ")) /\ ~Marked(text) THEN text ELSE Base64(text)

\* The arguments a call leaves out or sends as null have no header.
Bound(bindings, arguments) ==
    SelectSeq(bindings, LAMBDA b : LET v == value_at(arguments, b.path) IN Has(v) /\ v[1].t # "null")
Typed(type, value) == IF type = "integer" THEN value.t \in {"integer", "whole"} ELSE value.t = type
tool_headers(bindings, arguments) ==
    LET bound == Bound(bindings, arguments)
        value(i) == value_at(arguments, bound[i].path)[1]
    IN  IF \E i \in DOMAIN bound : ~Typed(bound[i].type, value(i)) THEN Failed("type")
        ELSE [t |-> "headers", headers |-> [i \in DOMAIN bound |-> [name |-> bound[i].name.lower, text |-> encode_header_value(value(i).text)]]]

\* A header replaces the one of the same name.
insert(headers, more) ==
    SelectSeq(headers, LAMBDA h : \A i \in DOMAIN more : more[i].name # h.name) \o more

-----------------------------------------------------------------------------
(* Apps: the user interface a tool names, and who may call the tool.         *)

app_tool_meta(tool) ==
    LET ui == tool.ui
        resource == IF Has(ui) /\ ui[1].uri \notin {"absent", "null"} THEN ui[1].uri ELSE tool.legacy
    IN  CASE resource \notin {"absent", "ui"} -> Failed("uri")
          [] resource \in {"absent", "ui"} /\ ~Has(ui) /\ resource = "absent" -> [t |-> "none"]
          [] OTHER -> [t |-> "app", uri |-> resource = "ui", visibility |-> IF Has(ui) THEN ui[1].visibility ELSE <<>>]

is_model_visible(meta) == meta.visibility = <<>> \/ "model" \in meta.visibility[1]
is_app_visible(meta) == Has(meta.visibility) /\ "app" \in meta.visibility[1]
split_app_tools(tools) ==
    IF \E i \in DOMAIN tools : app_tool_meta(tools[i]).t = "error" THEN Failed("uri")
    ELSE [t |-> "split",
          model |-> SelectSeq(tools, LAMBDA x : LET m == app_tool_meta(x) IN m.t = "none" \/ is_model_visible(m)),
          app |-> SelectSeq(tools, LAMBDA x : LET m == app_tool_meta(x) IN m.t = "app" /\ is_app_visible(m))]

\* The document of an app among the contents of a resource.
app_resource_from_read_result(contents) ==
    LET found == SelectSeq(contents, LAMBDA c : c.own)
    IN  CASE found = <<>> -> Failed("missing")
          [] Has(found) /\ ~found[1].app -> Failed("mime")
          [] Has(found) /\ found[1].app /\ found[1].text = <<>> /\ found[1].blob # "base64" ->
                Failed(IF found[1].blob = "none" THEN "empty" ELSE "base64")
          [] OTHER -> [t |-> "resource", html |-> IF Has(found[1].text) THEN "text" ELSE "blob"]

-----------------------------------------------------------------------------
(* The tools of a set.                                                       *)

First(opts) == LET given == SelectSeq(opts, Has) IN IF given = <<>> THEN <<>> ELSE given[1]
build_tool(tool, schemas, bindings) ==
    LET app == app_tool_meta(tool)
    IN  [of |-> tool.name, dynamic |-> schemas = <<>>, strict |-> schemas # <<>>, checked |-> Has(schemas) /\ schemas[1],
         title |-> First(<<tool.title, tool.annotated>>), app |-> app.t = "app" /\ app.uri, bindings |-> bindings]

\* explicit: the names with schemas of the caller's, and whether each has one of
\* the output; dropped: the tools the error hook was told of.
tools_from_definitions(definitions, options, bind) ==
    FoldLeft(LAMBDA set, tool :
        LET listed == {n \in DOMAIN options.names : options.names[n] = tool.name}
            schemas == IF options.explicit THEN IF listed = {} THEN <<>> ELSE <<options.outputs[Min(listed)]>> ELSE <<>>
            found == IF bind THEN header_bindings(tool.schema) ELSE Visitor
        IN  CASE set.error # "" \/ (options.explicit /\ listed = {}) -> set
              [] set.error = "" /\ (options.explicit => listed # {}) /\ found.error # "" -> [set EXCEPT !.dropped = @ \cup {tool.name}]
              [] set.error = "" /\ (options.explicit => listed # {}) /\ found.error = "" ->
                    IF app_tool_meta(tool).t = "error" THEN [set EXCEPT !.error = "uri"]
                    ELSE IF \E i \in DOMAIN set.tools : set.tools[i].of = tool.name THEN [set EXCEPT !.error = "duplicate"]
                    ELSE [set EXCEPT !.tools = Append(@, build_tool(tool, schemas, found.bindings))],
        [tools |-> <<>>, dropped |-> {}, error |-> ""], definitions)

-----------------------------------------------------------------------------
(* Results. A result: whether it is an error, its structured content and its *)
(* items; text is valid or invalid for the output schema, or no JSON.         *)

structured_output(result) ==
    LET texts == SelectSeq(result.content, LAMBDA c : c.type = "text" /\ c.data # "absent")
        candidate == IF Has(result.structured) /\ result.structured[1] # "null" THEN result.structured
                     ELSE IF texts = <<>> THEN <<>> ELSE <<texts[1].data>>
    IN  IF candidate = <<"valid">> THEN [t |-> "value", of |-> "valid"] ELSE Failed("output")

\* Mutant: an error is checked against the output schema like any result.
run_Error(result, checked) == IF checked THEN structured_output(result) ELSE [t |-> "whole", result |-> result]
run(result, checked) == IF checked /\ ~result.error THEN structured_output(result) ELSE [t |-> "whole", result |-> result]
to_tool_error(error) == IF error \in {"cancelled", "timeout"} THEN Failed(error) ELSE Failed("message")

mcp_to_model_output(output) ==
    IF output.t = "value" THEN <<[t |-> "json", data |-> output.of]>>
    ELSE [i \in DOMAIN output.result.content |->
            LET item == output.result.content[i]
            IN  CASE item.type = "text" -> [t |-> "text", data |-> item.data]
                  [] item.type = "image" /\ item.data = "full" -> [t |-> "file", data |-> "full"]
                  [] OTHER -> [t |-> "json", data |-> item.data]]

-----------------------------------------------------------------------------
CONSTANTS
    McpServers,           \* how the client is configured and what the server has
    MaxListings           \* bound on the listings of its tools

VARIABLES mcp

LATEST == "2026-07-28"
LATEST_LEGACY == "2025-11-25"
Supported == {LATEST, LATEST_LEGACY, "2025-06-18"}
\* A result of another kind than complete or input_required, or of none.
ResultTypes == {"complete", "input_required", "other", "absent"}
Failures == {"modern", "jsonrpc", "retryable", "permanent", "timeout", "cancelled"}

Request == [pc |-> "idle", method |-> "none", meta |-> <<>>, headers |-> <<>>, modern |-> FALSE, round |-> 0,
            state |-> <<>>, attempt |-> 0, outcome |-> ""]
Message(method, version, meta) ==
    [method |-> method, version |-> version, meta |-> meta, headers |-> <<>>, round |-> 0, state |-> <<>>]
Silence == Message("none", <<>>, <<>>)

McpInit ==
    \E s \in McpServers :
        mcp = [server |-> s, phase |-> "start",
               version |-> <<>>, carried |-> <<>>,       \* the negotiated version and the transport's
               capable |-> {},                           \* the families of methods it declared, once it has
               known |-> FALSE,
               bindings |-> <<>>,                        \* the headers of the tools, by name
               own |-> Request, list |-> Request, call |-> Request,
               page |-> 0, gathered |-> <<>>, listings |-> 0,
               set |-> [tools |-> <<>>, dropped |-> {}, error |-> ""],
               tool |-> <<>>, sought |-> <<>>, told |-> <<>>, result |-> <<>>, document |-> <<>>,
               asked |-> [pc |-> "none", method |-> "none", answer |-> 0],
               wire |-> Silence]                         \* the message just sent

-----------------------------------------------------------------------------
(* Requests.                                                               *)

era_is_modern(m) == m.version = <<LATEST>>
required_capability(method) ==
    CASE method \in {"tools/list", "tools/call"} -> {"tools"}
      [] method = "resources/read" -> {"resources"}
      [] OTHER -> {}
assert_capability(m, method) == m.known => required_capability(method) \subseteq m.capable
inject_meta(m) == IF era_is_modern(m) THEN m.version ELSE <<>>

exchange(m, a) ==
    [m EXCEPT ![a].pc = "sent",
              !.wire = [Message(m[a].method, m.carried, m[a].meta) EXCEPT !.headers = m[a].headers, !.round = m[a].round, !.state = m[a].state]]
Over(m, a, outcome) == [m EXCEPT ![a].pc = "over", ![a].outcome = outcome]
\* An attempt begins with the parameters as they were given.
request(m, a, method, headers, attempt) ==
    LET begun == [m EXCEPT !.wire = Silence, ![a] = [Request EXCEPT !.method = method, !.headers = headers, !.attempt = attempt,
                                                  !.meta = inject_meta(m), !.modern = era_is_modern(m)]]
    IN  IF m.phase = "closed" THEN Over(begun, a, "closed")
        ELSE IF assert_capability(m, method) THEN exchange(begun, a) ELSE Over(begun, a, "capability")

\* Input is asked for at most max_input_rounds times, and never of a legacy server.
request_rounds(m, a, type) ==
    CASE type = "input_required" /\ m.server.rounds = 0 -> Over(m, a, "protocol")
      [] (type # "input_required" \/ m.server.rounds > 0) /\ ~m[a].modern -> Over(m, a, "ok")
      [] m[a].modern /\ type = "complete" -> Over(m, a, "ok")
      [] m[a].modern /\ type \in {"other", "absent"} -> Over(m, a, "protocol")
      [] m[a].modern /\ type = "input_required" /\ m.server.rounds > 0 ->
            IF m[a].round = m.server.rounds THEN Over(m, a, "protocol") ELSE [m EXCEPT ![a].pc = "input"]

\* Mutant: the state of an earlier round stays when the server sends none.
answered_input_State(m, a, state) ==
    exchange([m EXCEPT ![a].round = @ + 1, ![a].state = IF state = <<>> THEN @ ELSE state], a)
answered_input(m, a, state) == exchange([m EXCEPT ![a].round = @ + 1, ![a].state = state], a)

Answer(a) ==
    /\ mcp[a].pc = "sent"
    /\ \/ \E type \in ResultTypes : mcp' = [request_rounds(mcp, a, type) EXCEPT !.wire = Silence]
       \/ \E f \in Failures :
            /\ f = "cancelled" => a = "call"
            /\ mcp' = [Over(mcp, a, f) EXCEPT !.wire = Silence]

\* The handler's answers, or its failure; without a handler only a server that
\* asks nothing, and hands a state over, is answered.
answer_input_requests(a) ==
    /\ mcp[a].pc = "input"
    /\ \/ \E state \in {<<>>, <<mcp[a].round>>} :
            /\ state # <<>> \/ mcp.server.handler
            /\ mcp' = [answered_input(mcp, a, state) EXCEPT !.sought = IF a = "call" THEN state ELSE @]
       \/ \E f \in {"elicitation", "timeout"} : mcp' = [Over(mcp, a, f) EXCEPT !.wire = Silence]

-----------------------------------------------------------------------------
(* Connecting.                                                             *)

Connecting == mcp.phase \notin {"ready", "failed", "closed"}
Capabilities == {{}, {"tools", "resources"}}
\* The transport of a client that did not connect is closed.
fail(m) == [m EXCEPT !.phase = "failed", !.own = Request, !.wire = Silence,
                     !.asked.pc = IF @ = "handling" THEN "dropped" ELSE @]
set_negotiated(m, version, capable) ==
    [m EXCEPT !.version = <<version>>, !.carried = <<version>>, !.capable = capable, !.known = TRUE]

discover(m) == request([m EXCEPT !.version = <<LATEST>>, !.carried = <<LATEST>>, !.phase = "discover"], "own", "server/discover", <<>>, 0)
initialize_legacy(m) == request([m EXCEPT !.phase = "initialize"], "own", "initialize", <<>>, 0)
connect ==
    /\ mcp.phase = "start"
    /\ mcp' = IF mcp.server.probe /\ mcp.server.transport # "sse" THEN discover(mcp) ELSE initialize_legacy(mcp)

Ended(a) == mcp[a].pc = "over"
\* Mutant: the transport keeps the version of the probe.
fall_back_Carried(m) == initialize_legacy([m EXCEPT !.version = <<>>])
fall_back(m) == initialize_legacy([m EXCEPT !.version = <<>>, !.carried = <<>>])
Discovered ==
    /\ mcp.phase = "discover" /\ Ended("own")
    /\ \/ /\ mcp.own.outcome = "ok"
          /\ \E capable \in Capabilities :
                mcp' = [set_negotiated(mcp, LATEST, capable) EXCEPT !.phase = "ready", !.own = Request, !.wire = Silence]
       \/ /\ mcp.own.outcome = "modern"
          /\ mcp' = fail(mcp)
       \/ /\ mcp.own.outcome # "modern"        \* also a result without this version, or none that can be read
          /\ mcp' = fall_back(mcp)

Initialized ==
    /\ mcp.phase = "initialize" /\ Ended("own")
    /\ \/ /\ mcp.own.outcome = "ok"
          /\ \E version \in Supported, capable \in Capabilities :
                LET m == set_negotiated(mcp, version, capable)
                IN  mcp' = [m EXCEPT !.phase = "notify", !.own = Request,
                                     !.wire = Message("notifications/initialized", m.carried, <<>>)]
       \/ mcp' = fail(mcp)                     \* it failed, or its result cannot be read or names another version
Notified == /\ mcp.phase = "notify"
            /\ mcp' \in {[mcp EXCEPT !.phase = "ready", !.wire = Silence], fail(mcp)}
initialization_timeout == Connecting /\ mcp' = fail(mcp)

close ==
    /\ mcp.phase = "ready"
    /\ mcp' = [mcp EXCEPT !.phase = "closed", !.wire = Silence,
                          !.list = IF @.pc \in {"sent", "input"} THEN [@ EXCEPT !.pc = "over", !.outcome = "closed"] ELSE @,
                          !.call = IF @.pc \in {"sent", "input"} THEN [@ EXCEPT !.pc = "over", !.outcome = "closed"] ELSE @,
                          !.asked.pc = IF @ = "handling" THEN "dropped" ELSE @]

-----------------------------------------------------------------------------
(* Requests of the server.                                                 *)

METHOD_NOT_FOUND == -32601
INVALID_PARAMS == -32602
INTERNAL_ERROR == -32603
elicit(handler, params) ==
    CASE ~handler -> {METHOD_NOT_FOUND}
      [] handler /\ params = "invalid" -> {INVALID_PARAMS}
      [] handler /\ params = "valid" -> {0, INTERNAL_ERROR}

Ask ==
    /\ mcp.server.asks
    /\ mcp.phase \notin {"start", "failed", "closed"}
    /\ mcp.asked.pc = "none"
    /\ \E method \in {"ping", "elicitation/create", "sampling/createMessage"} :
        mcp' = [mcp EXCEPT !.asked = [pc |-> "handling", method |-> method, answer |-> 0], !.wire = Silence]
handle_server_request ==
    /\ mcp.asked.pc = "handling"
    /\ \E params \in {"valid", "invalid"} :
       \E answer \in CASE mcp.asked.method = "ping" -> {0}
                       [] mcp.asked.method = "elicitation/create" -> elicit(mcp.server.handler, params)
                       [] OTHER -> {METHOD_NOT_FOUND} :
        mcp' = [mcp EXCEPT !.asked.pc = "answered", !.asked.answer = answer,
                           !.wire = Message("response", mcp.carried, <<>>)]

-----------------------------------------------------------------------------
(* The tools.                                                              *)

binds(m) == era_is_modern(m) /\ m.server.transport = "http"
Names(bindings) == {bindings[i].of : i \in DOMAIN bindings}
bindings_of(m, name) == LET found == SelectSeq(m.bindings, LAMBDA b : b.of = name) IN IF found = <<>> THEN <<>> ELSE found[1].bindings

list_tools ==
    /\ mcp.phase = "ready" /\ mcp.list.pc = "idle" /\ mcp.listings < MaxListings
    /\ mcp' = request([mcp EXCEPT !.page = 1, !.gathered = <<>>, !.listings = @ + 1], "list", "tools/list", <<>>, 0)

Page == LET pages == mcp.server.pages[mcp.listings] IN [tools |-> pages[mcp.page], last |-> mcp.page = Len(pages)]
Cached(bindings, tools) ==
    FoldLeft(LAMBDA kept, t : Append(SelectSeq(kept, LAMBDA b : b.of # t.name),
                                     [of |-> t.name, bindings |-> header_bindings(t.schema).bindings]), bindings, tools)
Listed ==
    /\ mcp.list.pc = "over"
    /\ IF mcp.list.outcome # "ok" THEN mcp' = [mcp EXCEPT !.list = Request, !.wire = Silence]
       ELSE LET kept == IF binds(mcp) THEN SelectSeq(Page.tools, LAMBDA t : header_bindings(t.schema).error = "") ELSE Page.tools
                held == IF mcp.page = 1 THEN <<>> ELSE mcp.bindings
                m == [mcp EXCEPT !.gathered = @ \o kept, !.bindings = IF binds(mcp) THEN Cached(held, kept) ELSE @]
            IN  mcp' = IF Page.last
                       THEN [m EXCEPT !.list = Request, !.wire = Silence,
                                      !.set = tools_from_definitions(m.gathered, m.server.options, binds(m))]
                       ELSE request([m EXCEPT !.page = @ + 1], "list", "tools/list", <<>>, 0)

\* A call of the client itself has no tool of the set.
\* Mutant: a tool of the set relies on the headers the client remembers.
own_headers_Cached(tool, arguments) == [t |-> "headers", headers |-> <<>>]
own_headers(tool, arguments) == IF tool = <<>> THEN [t |-> "headers", headers |-> <<>>] ELSE tool_headers(tool[1].bindings, arguments)

call_tool(tool, name) ==
    /\ mcp.phase = "ready" /\ mcp.call.pc = "idle" /\ mcp.told = <<>>
    /\ LET arguments == mcp.server.arguments
           given == own_headers(tool, arguments)
           more == tool_headers(bindings_of(mcp, name), arguments)
           m == [mcp EXCEPT !.tool = tool]
       IN  mcp' = IF given.t = "error" \/ more.t = "error" THEN [m EXCEPT !.told = <<Failed("message")>>, !.wire = Silence]
                  ELSE request(m, "call", "tools/call", insert(given.headers, more.headers), 0)
execute == \E i \in DOMAIN mcp.set.tools : call_tool(<<mcp.set.tools[i]>>, mcp.set.tools[i].of)
call_tool_directly == \E name \in mcp.server.directly : call_tool(<<>>, name)

read_app_resource ==
    /\ mcp.phase = "ready" /\ mcp.call.pc = "idle" /\ mcp.document = <<>> /\ mcp.server.resources # {}
    /\ mcp' = request(mcp, "call", "resources/read", <<>>, 0)

is_retryable_tool_call(outcome) == outcome = "retryable"
Called ==
    /\ mcp.call.pc = "over" /\ mcp.call.method = "tools/call"
    /\ \/ /\ mcp.call.outcome = "ok"
          /\ \E result \in mcp.server.results :
                mcp' = [mcp EXCEPT !.call = Request, !.wire = Silence, !.result = <<result>>, !.sought = <<>>,
                                   !.told = <<run(result, Has(mcp.tool) /\ mcp.tool[1].checked)>>]
       \/ /\ mcp.call.outcome # "ok"
          /\ mcp' = IF is_retryable_tool_call(mcp.call.outcome) /\ mcp.call.attempt < mcp.server.retries
                    THEN request([mcp EXCEPT !.sought = <<>>], "call", "tools/call", mcp.call.headers, mcp.call.attempt + 1)
                    ELSE [mcp EXCEPT !.call = Request, !.wire = Silence, !.sought = <<>>,
                                     !.told = <<to_tool_error(mcp.call.outcome)>>]

Read ==
    /\ mcp.call.pc = "over" /\ mcp.call.method = "resources/read"
    /\ \/ /\ mcp.call.outcome = "ok"
          /\ \E contents \in mcp.server.resources :
                mcp' = [mcp EXCEPT !.call = Request, !.wire = Silence, !.sought = <<>>,
                                   !.document = <<[contents |-> contents, read |-> app_resource_from_read_result(contents)]>>]
       \/ /\ mcp.call.outcome # "ok"
          /\ mcp' = [mcp EXCEPT !.call = Request, !.wire = Silence, !.sought = <<>>]

McpNext ==
    \/ connect \/ Discovered \/ Initialized \/ Notified \/ initialization_timeout \/ close
    \/ \E a \in {"own", "list", "call"} : Answer(a) \/ answer_input_requests(a)
    \/ Ask \/ handle_server_request
    \/ list_tools \/ Listed \/ execute \/ call_tool_directly \/ Called \/ read_app_resource \/ Read

-----------------------------------------------------------------------------
(* What is promised.                                                       *)

\* Every message is of the protocol that was negotiated: the probe alone speaks
\* for the latest version, initialize names none, and afterwards the header,
\* the metadata and the era say the same.
MessagesFitTheEra ==
    LET w == mcp.wire
    IN  /\ w.method = "server/discover" => w.version = <<LATEST>> /\ w.meta = <<LATEST>>
        /\ w.method = "initialize" => w.version = <<>> /\ w.meta = <<>>
        /\ w.method \in {"tools/list", "tools/call"} =>
             /\ w.version = mcp.version /\ mcp.version # <<>>
             /\ w.meta = IF w.version = <<LATEST>> THEN w.version ELSE <<>>
        /\ mcp.phase = "ready" => mcp.known /\ mcp.carried = mcp.version /\ Has(mcp.version)
        /\ mcp.phase \in {"failed", "closed"} => mcp.wire = Silence

\* A round answers the latest question: it hands back the state of that question
\* and no other, and a new attempt hands back none.
RoundsAnswerTheLatest ==
    mcp.wire.method = "tools/call" =>
        /\ mcp.wire.state = mcp.sought
        /\ mcp.wire.round <= mcp.server.rounds
        /\ mcp.wire.round = 0 => mcp.sought = <<>>

\* The annotated properties of a schema: those reached through properties alone.
RECURSIVE Annotated(_, _, _)
Annotated(node, path, plain) ==
    (IF Has(node.header) THEN {[name |-> node.header[1], path |-> path, type |-> node.type, plain |-> plain]} ELSE {})
    \cup UNION {Annotated(node.kids[i].node, path \o node.kids[i].at, plain /\ Has(node.kids[i].at)) : i \in DOMAIN node.kids}
Mirrored(schema) ==
    LET found == Annotated(schema, <<>>, TRUE)
    IN  [valid |-> /\ \A x \in found : x.plain /\ Has(x.path) /\ x.name.token /\ x.type \in {"boolean", "integer", "string"}
                   /\ \A x, y \in found : x.name.lower = y.name.lower => x = y,
         of |-> {Binding(x.name, x.path, x.type) : x \in found}]
Definitions(name) ==
    {d \in UNION {ToSet(page) : page \in UNION {ToSet(listing) : listing \in ToSet(mcp.server.pages)}} : d.name = name}
Decoded(text) == IF Marked(text) THEN SubSeq(text, 2, Len(text) - 1) ELSE text

\* A call through a tool carries in its headers the arguments that the tool's
\* schema mirrors, also while the client lists its tools anew: a later definition
\* may only take the place of a header, not remove it.
HeadersMirrorArguments ==
    mcp.wire.method = "tools/call" /\ Has(mcp.tool) =>
        \A i \in DOMAIN mcp.tool[1].bindings :
            LET b == mcp.tool[1].bindings[i]
                given(path) == LET v == value_at(mcp.server.arguments, path) IN IF Has(v) /\ v[1].t # "null" THEN {v[1].text} ELSE {}
                listed == UNION {Mirrored(d.schema).of : d \in Definitions(mcp.tool[1].of)}
                paths == {x.path : x \in {y \in listed : y.name.lower = b.name.lower}}
            IN  given(b.path) # {} =>
                    \E j \in DOMAIN mcp.wire.headers :
                        /\ mcp.wire.headers[j].name = b.name.lower
                        /\ Decoded(mcp.wire.headers[j].text) \in UNION {given(path) : path \in paths}

\* A set holds each tool once, with the headers its definition mirrors; what is
\* left out was not asked for or has a definition that may not be called.
SetIsTheListing ==
    LET definitions == mcp.gathered IN
    mcp.list.pc = "idle" /\ mcp.set.error = "" =>
        /\ \A i, j \in DOMAIN mcp.set.tools : mcp.set.tools[i].of = mcp.set.tools[j].of => i = j
        /\ binds(mcp) => \A i \in DOMAIN mcp.set.tools : \E d \in Definitions(mcp.set.tools[i].of) :
            /\ Mirrored(d.schema).valid /\ ToSet(mcp.set.tools[i].bindings) = Mirrored(d.schema).of
        /\ split_app_tools(definitions).t = "split" =>
             LET split == split_app_tools(definitions)
             IN  ToSet(split.model) \cup ToSet(split.app) = {d \in ToSet(definitions) : d.ui = <<>> \/ d.ui[1].visibility # <<{}>>}

\* The model reads every item of a result in its place; an error is given as the
\* server sent it.
ResultIsTold ==
    /\ Has(mcp.told) /\ Has(mcp.result) =>
         /\ mcp.result[1].error => mcp.told[1] = [t |-> "whole", result |-> mcp.result[1]]
         /\ mcp.told[1].t = "whole" =>
              LET parts == mcp_to_model_output(mcp.told[1])
              IN  /\ Len(parts) = Len(mcp.result[1].content)
                  /\ \A i \in DOMAIN parts : parts[i].data = mcp.result[1].content[i].data
    /\ Has(mcp.told) /\ mcp.told[1].t = "value" => mcp.result[1].structured # <<"invalid">>

\* The document of an app is the one that was asked for, and an app's.
DocumentIsTheApps ==
    Has(mcp.document) /\ mcp.document[1].read.t = "resource" =>
        \E i \in DOMAIN mcp.document[1].contents :
            LET c == mcp.document[1].contents[i]
            IN  /\ c.own /\ c.app /\ \A j \in 1..(i - 1) : ~mcp.document[1].contents[j].own
                /\ mcp.document[1].read.html = IF Has(c.text) THEN "text" ELSE "blob"

\* Each request of the server has one answer, a result only where the client can
\* give one.
ServerIsAnswered ==
    LET a == mcp.asked
    IN  a.pc = "answered" =>
          /\ a.method = "ping" => a.answer = 0
          /\ a.method = "sampling/createMessage" => a.answer = METHOD_NOT_FOUND
          /\ a.method = "elicitation/create" => (a.answer = METHOD_NOT_FOUND <=> ~mcp.server.handler)

McpResultInOrder == MessagesFitTheEra /\ RoundsAnswerTheLatest /\ HeadersMirrorArguments /\ SetIsTheListing /\ ResultIsTold /\ DocumentIsTheApps /\ ServerIsAnswered

\* Nothing is sent once the client is closed or failed to connect.
McpStopsWhenTold == mcp.phase \in {"failed", "closed"} => mcp'.wire = Silence
=============================================================================

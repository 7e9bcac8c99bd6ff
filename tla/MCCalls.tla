------------------------------- MODULE MCCalls -------------------------------
(* What is no model stream, one kind of it in each behaviour: a modality    *)
(* call, an audio stream, a batch, a file, the downloads of a prompt, the   *)
(* OAuth flows of an MCP connection; a request of a modality model, a live  *)
(* audio stream and a realtime model at its provider; a structured output,  *)
(* a schema, an HTTP exchange, a session of an MCP client, a conversation   *)
(* and the requests made of it.                                             *)
EXTENDS ModelCalls, ProviderFiles, OAuthFlow, ModalityModels, TLC

VARIABLES
    kind,                 \* which of them this behaviour is of
    live, line, yielded,  \* a live stream over a web socket
    rt, opened, spoken, carried, happened,  \* a realtime session and its model
    reply, partial, gained,                 \* a structured output
    rewriting,                              \* a schema for a provider
    http,                                   \* an HTTP exchange
    mcp,                                    \* a session of an MCP client
    talker, history, spokenTurns, stage, asking \* a conversation with a model, its next call

CONSTANTS LiveCalls, MaxFrames, RealtimeCalls, MaxExchanged, OutputCalls, MaxDepth, SchemaJobs, Values, Exchanges, MaxChunk, McpServers, MaxListings,
          Talkers, MaxMessages, MaxBreakpoints
Live == INSTANCE LiveAudio
Codec == INSTANCE RealtimeCodecs
Structured == INSTANCE StructuredOutput
Schemas == INSTANCE SchemaRewrites
Http == INSTANCE HttpExchange
Mcp == INSTANCE McpSession
Dialog == INSTANCE MCRequests WITH Kinds <- Talkers, kind <- talker, messages <- history, turn <- spokenTurns, phase <- stage, call <- asking
liveVars == <<live, line, yielded>>
rtVars == <<rt, opened, spoken, carried, happened>>
outputVars == <<reply, partial, gained>>
requestVars == <<talker, history, spokenTurns, stage, asking>>

vars == <<kind, callVars, audioVars, batchVars, fileVars, downloadVars, oauthVars, modalVars, liveVars, rtVars, outputVars, rewriting, http, mcp, requestVars>>

-----------------------------------------------------------------------------
(* What the application asks for.                                          *)

Embedding == [kind |-> "embed", bytes |-> <<1>>, perCall |-> 2, maxBytes |-> 4, parallel |-> 2,
              retries |-> 1, supports |-> {"generate"}, poll |-> FALSE, webhook |-> FALSE, keyed |-> FALSE,
              attempts |-> 0, address |-> FALSE, mixed |-> FALSE, metered |-> {1, 2, 3}]
Video == [Embedding EXCEPT !.kind = "video", !.perCall = 1, !.poll = TRUE,
                           !.supports = {"generate", "operations", "webhook"}]
MCCalls ==
    {[Embedding EXCEPT !.bytes = b, !.parallel = n] : b \in {<<1, 1, 1>>, <<3, 2, 1>>, <<5, 1, 1>>}, n \in 1..2}
    \cup {[Embedding EXCEPT !.bytes = <<1, 1, 1>>, !.metered = {2}], [Embedding EXCEPT !.perCall = 0]}
    \cup {[Embedding EXCEPT !.kind = "image", !.bytes = b, !.retries = n, !.metered = {2}] :
            b \in {<<>>, <<1>>, <<1, 1, 1>>}, n \in 0..1}
    \cup {[Embedding EXCEPT !.kind = k, !.bytes = <<1, 1>>, !.address = a] :
            k \in {"rerank", "speech", "transcription"}, a \in BOOLEAN}
    \cup {[Embedding EXCEPT !.kind = "rerank", !.bytes = b, !.mixed = TRUE] : b \in {<<>>, <<1>>}}
    \cup {[Video EXCEPT !.webhook = w, !.keyed = y, !.attempts = a, !.retries = n] :
            w, y \in BOOLEAN, a \in 0..1, n \in 0..1}
    \cup {[Video EXCEPT !.webhook = w, !.poll = p, !.supports = f] : w, p \in BOOLEAN,
            f \in {{}, {"generate"}, {"operations"}, {"operations", "webhook"}}}
    \cup {[Video EXCEPT !.bytes = <<1, 1>>, !.supports = {o}, !.attempts = 1] : o \in {"generate", "operations"}}

Asked(id) == [id |-> id, image |-> FALSE, model |-> "m1", tool |-> "none", quirk |-> "none"]
Two == <<Asked("r1"), Asked("r2")>>
MCBatches ==
    {[provider |-> p, requests |-> rs, large |-> p = "google", url |-> "own"] :
        p \in {"google", "openai", "anthropic"},
        rs \in {Two, <<Asked("r1"), Asked("r1")>>, <<>>,
                [Two EXCEPT ![2].model = "m2"], [Two EXCEPT ![1].tool = "t1", ![2].tool = "t2"],
                [Two EXCEPT ![1].quirk = "beta"], [Two EXCEPT ![1].image = TRUE]}}
    \cup {[provider |-> "anthropic", requests |-> <<Asked("r1")>>, large |-> FALSE, url |-> u] : u \in Urls}

Resumable == [kind |-> "resumable", zero |-> FALSE, url |-> "own", samples |-> <<>>]
MCFileJobs ==
    {[Resumable EXCEPT !.url = u] : u \in Origins}
    \cup {[Resumable EXCEPT !.zero = TRUE], [Resumable EXCEPT !.kind = "form"]}
    \cup {[Resumable EXCEPT !.kind = "video", !.samples = s] :
            s \in {<<>>, <<"own", "invalid", "foreign">>, <<"invalid">>, <<"foreign", "own">>}}

At2(place, supported) == [place |-> place, supported |-> supported]
MCPrompts ==
    {[files |-> fs, parallel |-> n, headers |-> {"public"}] : n \in 1..2,
        fs \in {<<>>, <<At2("public", FALSE), At2("public", TRUE), At2("trusted", FALSE)>>,
                <<At2("private", FALSE), At2("credentialed", FALSE)>>}}
    \cup {[files |-> <<At2(p, FALSE)>>, parallel |-> 1, headers |-> {"authorization", "other", "public"}] : p \in Places}

\* Each setting alone and all of them.
Chosen(settings) == {{}, settings} \cup {{x} : x \in settings}
Provider(of, at, model) == [of |-> of, at |-> at, model |-> model, settings |-> {}, inputs |-> <<>>, mask |-> <<>>,
                            n |-> 1, options |-> {}, content |-> <<>>, format |-> "", first |-> <<>>, last |-> <<>>, image |-> <<>>]
Set(base, settings) == {[base EXCEPT !.settings = s] : s \in Chosen(settings)}
Over(base, inputs) == {[base EXCEPT !.inputs = i] : i \in inputs}
With(bases, options) == {[b EXCEPT !.options = o] : b \in bases, o \in options}
Pictures == {<<>>, <<"bytes">>, <<"bytes", "bytes">>, <<"bytes", "url">>}
MCModal ==
    LET common == {"size", "aspect_ratio", "seed"} \cup ImageOptions
    IN  UNION {Set(b, common \cup {"style", "moderation", "input_fidelity"}) :
                b \in UNION {Over(Provider("image", "openai", m), Pictures) : m \in {"gpt-image-1", "dall-e-3"}}}
        \cup With(UNION {Set(b, common \cup {"shared"}) : b \in Over(Provider("image", "compatible", "m"), Pictures)}, {{}, {"named"}})
        \cup With(UNION {Set(b, {"size", "aspect_ratio", "seed"}) : b \in Over(Provider("image", "google", "gemini-image"), Pictures)},
                  {{}, {"search"}, {"bad_search"}, {"bad_image_config"}})
        \cup {[Provider("image", "google", "gemini-image") EXCEPT !.n = 2], Provider("image", "google", "imagen")}
        \cup {[Provider("image", at, "gpt-image-1") EXCEPT !.inputs = <<"bytes">>, !.mask = <<d>>] :
                at \in {"openai", "google", "compatible"}, d \in {"bytes", "url"}}
        \cup UNION {Set(b, {"dimensions", "user"}) : b \in Over(Provider("embedding", "openai", "m"), {<<"a">>, <<"a", "b", "c">>, <<"a", "b", "c", "d">>})}
        \cup {[Provider("embedding", "compatible", "m") EXCEPT !.inputs = i, !.options = o, !.settings = IF o = {} THEN {} ELSE {"dimensions"}] :
                i \in {<<"a">>, <<"a", "b", "c">>}, o \in SUBSET ToSet(option_keys)}
        \cup {[Provider("embedding", "google", "m") EXCEPT !.inputs = i, !.content = c, !.options = o, !.settings = {"dimensions", "task"}] :
                i \in {<<"a">>, <<"empty", "b">>, <<"a", "b", "c">>},
                c \in {<<>>, <<"none">>, <<"part", "none">>, <<"bad", "part">>}, o \in {{}, {"bad_task"}}}
        \cup UNION {Set(b, {"top_k", "return_documents", "truncation"}) : b \in Over(Provider("rerank", "voyage", "m"), {<<>>, <<"text", "text">>, <<"object">>})}
        \cup UNION {Set([Provider("speech", at, "m") EXCEPT !.format = f, !.options = o], {"speed", "instructions", "language", "voice"}) :
                at \in {"openai", "google"}, f \in {"", "mp3", "wav", "pcm", "ogg"}, o \in {{}, {"bad_speed"}, {"speakers"}, {"bad_speakers"}}}
        \cup UNION {Set(b, {"language", "prompt", "include", "temperature", "timestamp_granularities", "response_format",
                            "chunking_strategy", "streaming"}) :
                b \in UNION {Over(Provider("transcription", "openai", m), {<<"bytes">>}) :
                    m \in {"whisper-1", "gpt-4o-transcribe", "gpt-4o-transcribe-diarize", "gpt-realtime-whisper"}}}
        \cup With(UNION {Set([Provider("transcription", "google", m) EXCEPT !.inputs = <<"bytes">>],
                            {"language_codes", "custom_vocabulary", "mode", "diarization", "word_timestamp"}) : m \in {"gemini", "gemini-live"}},
                  {{}, {"bad_mode"}})
        \cup UNION {Set([Provider("video", "google", "veo") EXCEPT !.image = i, !.first = f, !.inputs = r],
                        {"fps", "generate_audio", "poll_interval", "reference_images", "zero_seed", "zero_duration", "aspect_ratio",
                         "resolution", "negative_prompt"}) :
                i \in {<<>>, <<"bytes">>}, f \in {<<>>, <<"url">>, <<"gcs">>}, r \in {<<>>, <<"bytes", "reference">>}}

LiveCall == [of |-> "transcription", at |-> "openai", place |-> "public", format |-> "pcm", target |-> TRUE, live |-> TRUE,
             settings |-> {}, chunks |-> <<1, 1>>, raw |-> FALSE, bearer |-> TRUE, headers |-> {"authorization", "other"}]
OfGoogle == [LiveCall EXCEPT !.at = "google", !.chunks = <<0, 2>>, !.headers = {"x-goog-api-key", "host", "other"}]
MCLive ==
    {[c EXCEPT !.of = o, !.raw = r] : c \in {LiveCall, OfGoogle}, o \in {"transcription", "translation"}, r \in BOOLEAN}
    \cup {[LiveCall EXCEPT !.chunks = <<>>, !.bearer = FALSE,
            !.settings = {"language", "delay", "streaming_include", "include", "prompt", "temperature", "response_format"}],
          [OfGoogle EXCEPT !.chunks = <<>>, !.settings = {"language_codes", "diarization", "mode"}],
          [OfGoogle EXCEPT !.settings = {"bad_mode", "mode"}], [OfGoogle EXCEPT !.place = "private"], [OfGoogle EXCEPT !.live = FALSE]}
    \cup {[c EXCEPT !.of = "translation", !.chunks = <<>>, !.target = t, !.format = f,
            !.settings = {"source_language", "output_audio_format"}] :
            c \in {LiveCall, OfGoogle}, t \in BOOLEAN, f \in {"pcm16", "pcm24"}}

Named(n, k) == [name |-> n, kind |-> k, schema |-> TRUE]
Talk == [at |-> "openai", settings |-> {}, rate |-> <<>>, tools |-> <<>>, given |-> FALSE]
Settings == {"instructions", "modalities", "voice", "input_format", "output_format", "input_transcription",
             "output_transcription", "turn_detection", "options"}
MCRealtime ==
    {[Talk EXCEPT !.at = p, !.given = g, !.rate = r] : p \in {"openai", "google"}, g \in BOOLEAN, r \in {<<>>, <<8000>>}}
    \cup {[Talk EXCEPT !.at = p, !.settings = s, !.tools = t] : p \in {"openai", "google"}, s \in {{}, Settings},
            t \in {<<Named("a", "function"), Named("h", "hosted"), Named("b", "dynamic")>>,
                   <<[Named("a", "function") EXCEPT !.schema = FALSE]>>}}

\* Values and their texts, with and without spaces.
Atom(t, s) == [t |-> t, s |-> s, items |-> <<>>, keys |-> <<>>]
Num(s) == Atom("num", s)
Str(s) == Atom("str", s)
True == Atom("lit", <<"t", "r", "u", "e">>)
List(items) == [Atom("arr", <<>>) EXCEPT !.items = items]
Object(keys, items) == [Atom("obj", <<>>) EXCEPT !.items = items, !.keys = keys]
Escape == [c \in {"\\n", "\\\"", "scalar", "pair"} |->
             CASE c = "\\n" -> <<"\\", "n">> [] c = "\\\"" -> <<"\\", "\"">>
               [] c = "scalar" -> <<"\\", "u", "0", "0", "3", "1">>
               [] OTHER -> <<"\\", "u", "D", "8", "3", "D", "\\", "u", "D", "E", "0", "0">>]
Quoted(s) == <<"\"">> \o FlattenSeq([i \in DOMAIN s |-> IF s[i] \in DOMAIN Escape THEN Escape[s[i]] ELSE <<s[i]>>]) \o <<"\"">>
RECURSIVE Spelled(_, _)
Spelled(v, gap) ==
    LET members == [i \in DOMAIN v.items |-> (IF i = 1 THEN gap ELSE <<",">> \o gap)
                      \o (IF v.t = "obj" THEN Quoted(v.keys[i]) \o <<":">> \o gap ELSE <<>>) \o Spelled(v.items[i], gap)]
        open == IF v.t = "obj" THEN "{" ELSE "["
        close == IF v.t = "obj" THEN "}" ELSE "]"
    IN  CASE v.t = "str" -> Quoted(v.s)
          [] v.t \in {"num", "lit"} -> v.s
          [] OTHER -> <<open>> \o FlattenSeq(members) \o gap \o <<close>>
Doc(v) == [v |-> <<v>>, text |-> Spelled(v, <<>>)]
Spaced(v) == [v |-> <<v>>, text |-> Spelled(v, <<" ">>)]
Words == [v |-> <<>>, text |-> <<"x", "1">>]
One(doc) == <<[id |-> "0", step |-> 1, doc |-> doc]>>
Plain == [kind |-> "text", schema |-> [type |-> "any", property |-> <<>>], min |-> <<>>, max |-> <<>>, options |-> {}]
Written(k, strategy, attempts) == [asked |-> [strategy EXCEPT !.kind = k], attempts |-> attempts, finish |-> "stop", view |-> FALSE]

KeyA == <<"a">>
Escaped == Str(<<"x", "\\n", "pair", "\\\"", "scalar">>)
Mixed == Object(<<KeyA, <<"\\\"", "b">>, <<"c">>>>,
                <<List(<<Num(<<"-", "1", ".", "8">>), True, Num(<<"1", "E", "-", "3">>), List(<<>>)>>), Escaped, Object(<<>>, <<>>)>>)
InElements(items) == Object(<<<<"elements">>>>, <<List(items)>>)
Thing(n) == Object(<<KeyA>>, <<Num(<<n, "8">>)>>)
InResult(s) == Object(<<<<"result">>>>, <<Str(s)>>)
NeedsA == [type |-> "obj", property |-> <<KeyA>>]
Numbers == [Plain EXCEPT !.schema = [type |-> "num", property |-> <<>>]]
Things == [Plain EXCEPT !.schema = NeedsA]
Choice == [Plain EXCEPT !.options = {<<"b", "l", "u">>, <<"b", "l", "a">>, <<"g", "o">>, <<"g", "o", "n">>}]
SomeThings == InElements(<<Thing("1"), Num(<<"8">>), Thing("3"), Thing("8")>>)
MCOutputs ==
    {Written(k, Plain, <<One(d)>>) : k \in {"none", "text"}, d \in {Words, Doc(InResult(<<"x">>))}}
    \cup {Written("json", Plain, <<One(d)>>) : d \in {Doc(Mixed), Spaced(Mixed), Doc(Escaped), Doc(True), Words,
            Doc(Num(<<"-", "1", ".", "3">>)), Doc(List(<<True, Num(<<"-", "8">>), Str(<<>>)>>)),
            Doc(Object(<<<<"__proto__">>>>, <<True>>)), Doc(List(<<List(<<List(<<List(<<>>)>>)>>)>>))}}
    \cup {Written("object", Things, <<One(d)>>) : d \in {Spaced(Mixed), Doc(Thing("1")), Doc(Object(<<<<"b">>>>, <<True>>))}}
    \cup {[Written("array", [s EXCEPT !.max = m, !.min = <<1>>], <<One(d)>>) EXCEPT !.view = m = <<>>] :
            s \in {Things, Numbers}, m \in {<<>>, <<0>>, <<2>>},
            d \in {Doc(SomeThings), Spaced(InElements(<<Num(<<"1", "8">>), Num(<<"3">>)>>)), Doc(InElements(<<>>)), Doc(Thing("1"))}}
    \cup {Written("array", Things, <<One(Doc(SomeThings)), One(d)>>) : d \in {Doc(InElements(<<Thing("8"), Thing("3"), Thing("1")>>)), Doc(InElements(<<>>))}}
    \cup {[Written("choice", Choice, <<One(Doc(InResult(s)))>>) EXCEPT !.finish = f] :
            s \in Choice.options \cup {<<"b", "l">>, <<"x">>}, f \in {"stop", "length", "tool-calls"}}
    \cup {Written("object", Things, <<<<[id |-> "0", step |-> 1, doc |-> d], [id |-> id, step |-> 2, doc |-> Doc(Thing("3"))]>>>>) :
            id \in {"0", "1"}, d \in {Words, Doc(Thing("1"))}}

\* Schemas and values that tell them apart.
Blank == [kind |-> "schema", tag |-> "", types |-> <<>>, list |-> FALSE, required |-> <<>>, additional |-> "absent",
          enum |-> <<>>, nullable |-> FALSE, default |-> <<>>, ref |-> <<>>, id |-> <<>>, kids |-> <<>>]
Leaf(tag, t) == [Blank EXCEPT !.tag = tag, !.types = <<t>>]
In(at, s) == [at |-> at, s |-> s]
Sub(n, kids) == [n EXCEPT !.kids = kids]
Obj(tag, need, kids) == [Leaf(tag, "object") EXCEPT !.required = <<need>>, !.kids = kids]
A == <<"properties", "a">>
B == <<"properties", "b">>
D == <<"$defs", "D">>
Refer(tag, of, at) == [Blank EXCEPT !.tag = tag, !.ref = <<[of |-> of, at |-> at]>>]
Job(how, s) == [how |-> how, s |-> s, cyclic |-> FALSE]
AnyOf(tag, ss) == [Blank EXCEPT !.tag = tag, !.kids = [i \in DOMAIN ss |-> In(<<"anyOf", ToString(i - 1)>>, ss[i])]]
Enum(t, es) == [Leaf("enum", t) EXCEPT !.enum = <<es>>]
Null == [t |-> "null", s |-> "null", keys |-> <<>>, items |-> <<>>]
Whole(s) == [Null EXCEPT !.t = "integer", !.s = s]
Say(s) == [Null EXCEPT !.t = "string", !.s = s]
Holds(keys, items) == [Null EXCEPT !.t = "object", !.s = "{}", !.keys = keys, !.items = items]
Some(items) == [Null EXCEPT !.t = "array", !.s = "[]", !.items = items]
MCValues ==
    LET atoms == {Null, Whole("1"), Whole("2"), Say("x"), Say("y"), Some(<<>>), Some(<<Whole("1"), Say("x")>>)}
        flat == {Holds(<<>>, <<>>)} \cup {Holds(<<k>>, <<v>>) : k \in {"a", "b"}, v \in atoms}
                \cup {Holds(<<"a", "b">>, <<v, w>>) : v, w \in atoms}
    IN  atoms \cup flat \cup {Holds(<<"a">>, <<v>>) : v \in flat} \cup {Holds(<<"a", "b">>, <<v, Whole("1")>>) : v \in flat}
Inner == Obj("inner", {}, <<In(A, Leaf("deep", "integer")), In(B, Refer("self", "", <<"properties", "a", "properties", "a">>))>>)
Own == [Obj("own", {"a"}, <<In(A, Leaf("deep", "integer")), In(B, Refer("same", "", A))>>) EXCEPT !.id = <<"r">>]
Referring ==
    {Obj("root", {"b"}, <<In(A, Leaf("a", "integer")), In(B, Refer("b", "", A))>>),
     Obj("root", {}, <<In(A, Inner), In(B, Refer("b", "", A \o A))>>),
     Obj("root", {}, <<In(A, Own), In(B, Refer("b", "r", A))>>),
     Obj("root", {"b"}, <<In(A, Own), In(B, Refer("b", "x", A))>>),
     Obj("root", {"a"}, <<In(A, Refer("a", "", D)), In(B, Refer("b", "", D \o A)),
                          In(D, Obj("D", {}, <<In(A, Leaf("da", "integer")), In(<<"propertyNames">>, Leaf("pn", "string"))>>))>>),
     Obj("root", {}, <<In(A, Refer("a", "", <<>>)), In(B, Sub(Leaf("list", "array"), <<In(<<"items">>, Refer("i", "", B))>>))>>),
     Sub(Blank, <<In(<<"propertyNames">>, Leaf("pn", "string")), In(A, AnyOf("any", <<Inner, Refer("r", "", A \o <<"anyOf", "0">> \o A)>>))>>),
     Obj("map", {}, <<In(A, Obj("inner", {}, <<In(<<"additionalProperties">>, Leaf("any", "integer"))>>))>>)}
Nullable == [Blank EXCEPT !.types = <<"string", "null">>, !.list = TRUE]
OpenApiSchemas ==
    {Obj("root", {"a"}, <<In(A, Refer("a", "", D)), In(B, [Refer("b", "", D) EXCEPT !.types = <<"object">>, !.required = <<{"b"}>>]),
                          In(D, Obj("D", {}, <<In(A, Leaf("da", "integer"))>>))>>),
     Nullable, [Nullable EXCEPT !.types = <<"null">>], [Nullable EXCEPT !.enum = <<<<Say("x"), Null>>>>],
     Enum("integer", <<Whole("1")>>), Enum("string", <<Say("x"), Whole("1")>>), Enum("boolean", <<Whole("1")>>), Enum("null", <<Null>>),
     [Blank EXCEPT !.enum = <<<<Null, Whole("1")>>>>],
     AnyOf("any", <<Leaf("n", "null"), Nullable>>), AnyOf("any", <<Leaf("n", "null"), Leaf("i", "integer")>>),
     AnyOf("any", <<Leaf("n", "null"), Leaf("i", "integer"), Obj("o", {"b"}, <<In(B, Leaf("i", "integer"))>>)>>),
     [AnyOf("any", <<Leaf("n", "null"), Obj("o", {"b"}, <<In(B, Leaf("i", "integer"))>>)>>) EXCEPT !.types = <<"object">>, !.required = <<{"a"}>>],
     AnyOf("any", <<Leaf("i", "integer"), Refer("r", "", <<"anyOf", "0">>)>>),
     Sub(Leaf("tuple", "array"), <<In(<<"items", "0">>, Leaf("i", "integer")), In(<<"items", "1">>, Obj("o", {}, <<>>))>>),
     Sub(Leaf("list", "array"), <<In(<<"items">>, Obj("o", {}, <<>>))>>),
     Obj("empty", {}, <<>>), Obj("map", {}, <<In(<<"additionalProperties">>, Leaf("i", "integer"))>>),
     Obj("no", {}, <<In(A, [Blank EXCEPT !.kind = "false"]), In(B, [Blank EXCEPT !.kind = "true"])>>),
     Obj("kinds", {}, <<In(A, [Blank EXCEPT !.kind = "null"]), In(B, Blank), In(<<"allOf", "0">>, Obj("o", {"b"}, <<In(B, Leaf("i", "integer"))>>)),
                        In(<<"oneOf", "0">>, Leaf("o", "object")), In(<<"oneOf", "1">>, Leaf("o", "object"))>>)}
Cyclic == {Obj("root", {}, <<In(A, Refer("a", "", D)), In(D, Obj("D", {}, <<In(A, Refer("da", "", D))>>))>>)}
Default(s, v) == [s EXCEPT !.default = <<v>>]
ParsedSchemas ==
    LET a(t) == Obj("a", {"a"}, <<In(A, Leaf("i", t))>>)
        b == Obj("b", {}, <<In(B, Default(Leaf("i", "integer"), Whole("1")))>>)
    IN  {a("integer"), b, AnyOf("any", <<a("integer"), a("string")>>), AnyOf("any", <<b, Leaf("s", "string"), Leaf("l", "array")>>),
         Sub(Blank, <<In(<<"allOf", "0">>, a("integer")), In(<<"allOf", "1">>, b)>>),
         Obj("map", {}, <<In(<<"additionalProperties">>, b)>>), [a("object") EXCEPT !.additional = "true"],
         Obj("deep", {}, <<In(A, Refer("r", "", D)), In(D, b), In(<<"additionalProperties">>, Leaf("i", "integer"))>>),
         Sub(Leaf("tuple", "array"), <<In(<<"items", "0">>, Leaf("i", "integer")), In(<<"items", "1">>, Leaf("s", "string"))>>),
         Sub(Leaf("list", "array"), <<In(<<"items">>, Blank)>>)}
MCSchemas ==
    {Job(how, s) : how \in {"strict", "closed", "names", "wrapped"}, s \in Referring}
    \cup {Job("closed", Leaf("n", "null"))} \cup {Job("openapi", s) : s \in OpenApiSchemas}
    \cup {[Job("openapi", s) EXCEPT !.cyclic = TRUE] : s \in Cyclic} \cup {Job("parse", s) : s \in ParsedSchemas}

\* Bodies of requests and of responses.
OneExchange == [how |-> "get", bad |-> FALSE, typed |-> FALSE, parts |-> <<>>, status |-> 200, declared |-> <<>>, limit |-> 99,
             body |-> <<>>, handler |-> "through", failure |-> "status", override |-> FALSE]
FormPart(t, name, chunks, length) ==
    [t |-> t, name |-> name, filename |-> <<>>, media |-> <<"type", "CR", "LF">>, chunks |-> chunks, length |-> length]
InForm == FormPart("field", <<"n">>, <<<<"x">>>>, <<>>)
StreamedParts == {FormPart("stream", <<"f">>, chunks, length) : length \in {<<>>, <<2>>, <<3>>},
                chunks \in {<<<<"f">>, <<"g">>>>, <<<<"f">>, <<"g", "f">>>>, <<<<"f">>, <<"fails">>>>}}
FormFiles == {[FormPart("file", name, <<<<"f">>>>, <<>>) EXCEPT !.filename = label] :
            name \in {<<"a", "\\">>, <<"Q", "CR", "LF">>, <<"n">>}, label \in {<<>>, <<<<"a", "Q">>>>}}
Sendings ==
    {[OneExchange EXCEPT !.how = h, !.typed = t, !.bad = h = "json" /\ ~t] : h \in {"json", "bytes", "delete"}, t \in BOOLEAN}
    \cup {[OneExchange EXCEPT !.how = h, !.parts = <<p>>] : h \in {"stream", "form"}, p \in StreamedParts}
    \cup {[OneExchange EXCEPT !.how = "form", !.parts = <<InForm, p>>] : p \in FormFiles}
DataLine(x) == <<"data", ":", " ", x>>
EventBodies ==
    {<<"B1", "B2", "B3">> \o DataLine("json") \o <<"CR", "LF", "CR", "LF", "id", ":", "i", "LF">> \o DataLine("[DONE]") \o <<"LF", "LF", "data", "LF", "LF">>,
     <<"B1", "B2">> \o DataLine("json") \o <<"LF">> \o DataLine("json") \o <<"CR", "CR", "data", ":", "other", "LF", "LF", "data", ":", "x">>,
     <<":", "x", "CR", "event", ":", "e", "CR", "LF", "data", ":", "x", "CR", "LF", "data", "LF", "LF", "retry", ":", "7", "LF", "event", "LF", "LF">>
        \o DataLine("json") \o <<"LF", "LF">>,
     <<"id", ":", "i", "LF", "data", "LF", "CR", "id", ":", "NUL", "LF", "retry", ":", "x", "LF", "data", ":", "x", "LF", "LF">>}
LineBodies ==
    {<<"json", "CR", "LF", "other", "LF", " ", "LF", "LF", "x", "json", "CR", "CR", "LF", "json">>, <<"LF", "json", " ", "LF", " ">>}
MCExchanges ==
    Sendings
    \cup {[OneExchange EXCEPT !.handler = h, !.body = b, !.limit = n] : h \in {"events", "sse"}, b \in EventBodies, n \in {5, 99}}
    \cup {[OneExchange EXCEPT !.handler = "lines", !.body = b, !.limit = n] : b \in LineBodies, n \in {1, 2, 3, 99}}
    \cup {[OneExchange EXCEPT !.handler = h, !.declared = <<0>>] : h \in {"events", "lines", "through"}}
    \cup {[OneExchange EXCEPT !.handler = h, !.body = b, !.limit = n, !.declared = d] :
            h \in {"json", "text", "through"}, b \in {<<"json">>, <<" ", "json", "LF">>, <<"x", "x">>, <<>>}, n \in {1, 2, 99}, d \in {<<>>, <<2>>}}
    \cup {[OneExchange EXCEPT !.status = s, !.failure = f, !.override = o, !.body = b, !.limit = 2] :
            s \in {404, 429, 503}, f \in {"failure", "status"}, o \in BOOLEAN, b \in {<<"json">>, <<"other">>, <<" ">>, <<"x", "x", "x">>}}

\* An MCP server, its tools and what they are called with.
Node(header, type, kids) == [header |-> header, type |-> type, kids |-> kids]
Header(spelled, lower) == <<[spelled |-> spelled, lower |-> lower, token |-> TRUE]>>
Property(name, node) == [at |-> <<name>>, node |-> node]
Elsewhere(node) == [at |-> <<>>, node |-> node]
City(header) == Property("city", Node(header, "string", <<>>))
Count(header, type) == Property("deep", Node(<<>>, "object", <<Property("count", Node(header, type, <<>>))>>))
Schema(kids) == Node(<<>>, "object", kids)
McpTool(name, schema) == [name |-> name, schema |-> schema, title |-> <<>>, annotated |-> <<name>>, ui |-> <<>>, legacy |-> "absent"]
Searching == Schema(<<City(Header("X", "x")), Count(Header("Y", "y"), "integer")>>)
Counting == Schema(<<City(<<>>), Count(Header("X", "x"), "integer")>>)
Misannotated ==
    {Node(Header("X", "x"), "string", <<>>), Schema(<<City(Header("X", "x")), Count(Header("x", "x"), "integer")>>),
     Schema(<<City(<<[spelled |-> "a b", lower |-> "a b", token |-> FALSE]>>)>>), Schema(<<Count(Header("Y", "y"), "number")>>),
     Schema(<<Elsewhere(Schema(<<City(Header("X", "x"))>>))>>)}
App(name, uri, visibility, legacy) ==
    [McpTool(name, Schema(<<>>)) EXCEPT !.ui = <<[uri |-> uri, visibility |-> visibility]>>, !.legacy = legacy]
Apps == <<App("p", "ui", <<{"app"}>>, "absent"), App("q", "null", <<{}>>, "ui"), App("r", "absent", <<>>, "absent"),
          [McpTool("s", Schema(<<>>)) EXCEPT !.legacy = "ui", !.title = <<"S">>]>>
Arguments(city, count) ==
    LET object(keys, items) == [t |-> "object", text |-> <<>>, keys |-> keys, items |-> items]
    IN  object(<<"city", "deep">>, <<city, object(<<"count">>, <<count>>)>>)
Scalar(t, text) == [t |-> t, text |-> text, keys |-> <<>>, items |-> <<>>]
Text(text) == Scalar("string", text)
McpResult(error, structured, content) == [error |-> error, structured |-> structured, content |-> content]
Content(type, data) == [type |-> type, data |-> data]
McpResults ==
    {McpResult(e, s, c) : e \in BOOLEAN, s \in {<<>>, <<"null">>, <<"valid">>, <<"invalid">>},
        c \in {<<Content("image", "full"), Content("text", "valid"), Content("text", "words")>>,
               <<Content("text", "absent"), Content("image", "part"), Content("audio", "full"), Content("text", "words")>>}}
McpContents ==
    LET content(own, app, text, blob) == [own |-> own, app |-> app, text |-> text, blob |-> blob]
        pages == {content(o, a, t, b) : o, a \in BOOLEAN, t \in {<<>>, <<"html">>}, b \in {"none", "base64", "invalid"}}
    IN  {<<>>} \cup {<<page, content(TRUE, TRUE, <<"html">>, "none")>> : page \in pages}
Fine == {McpResult(FALSE, <<>>, <<>>)}
OwnSchemas == [explicit |-> FALSE, names |-> <<>>, outputs |-> <<>>]
OneServer ==
    [transport |-> "http", probe |-> TRUE, rounds |-> 0, retries |-> 0, handler |-> FALSE, asks |-> FALSE,
     pages |-> <<<<<<McpTool("a", Searching)>>>>, <<<<>>, <<McpTool("a", Counting)>>>>>>, options |-> OwnSchemas,
     arguments |-> Arguments(Text(<<"a">>), Scalar("whole", <<"2">>)), directly |-> {}, results |-> Fine, resources |-> {}]
Lists(tools) == [OneServer EXCEPT !.pages = <<<<tools>>, <<<<>>>>>>]
MCMcpServers ==
    {[OneServer EXCEPT !.transport = t, !.probe = p, !.rounds = n, !.handler = h, !.asks = TRUE, !.pages = <<<<<<>>>>, <<<<>>>>>>] :
        t \in {"http", "stdio", "sse"}, p, h \in BOOLEAN, n \in 0..1}
    \cup {[OneServer EXCEPT !.retries = 1, !.rounds = 2, !.handler = TRUE, !.directly = {"a", "b"}]}
    \cup {[OneServer EXCEPT !.arguments = Arguments(city, count)] :
            city \in {Text(<<>>), Text(<<" ", "a">>), Text(<<"unicode">>), Text(<<"=?base64?", "a", "?=">>), Scalar("null", <<>>), Scalar("boolean", <<"a">>)},
            count \in {Scalar("integer", <<"2">>), Scalar("fraction", <<>>)}}
    \cup {[OneServer EXCEPT !.options = [explicit |-> TRUE, names |-> <<"a", "z">>, outputs |-> <<o, TRUE>>], !.results = McpResults] : o \in BOOLEAN}
    \cup {Lists(<<McpTool("a", s), McpTool("b", Searching)>>) : s \in Misannotated}
    \cup {Lists(<<McpTool("a", Searching), McpTool("a", Counting)>>), Lists(Apps)}
    \cup {[Lists(<<>>) EXCEPT !.resources = McpContents]}
    \cup {Lists(<<McpTool("a", Searching), App("p", "http", <<>>, "ui")>>)}

-----------------------------------------------------------------------------
\* The state of the components a behaviour is not of does not vary.
Init ==
    /\ kind \in {"call", "audio", "batch", "file", "download", "oauth", "modality", "live", "realtime", "output", "schema", "http", "mcp", "request"}
    /\ CallsInit /\ (kind # "call" => ask = CHOOSE c \in MCCalls : c.kind = "speech")
    /\ AudioInit /\ (kind # "audio" => audio.kind = "translation" /\ ~audio.timed)
    /\ BatchInit /\ (kind # "batch" => batch = CHOOSE b \in MCBatches : b.provider = "google")
    /\ FilesInit /\ (kind # "file" => job = CHOOSE j \in MCFileJobs : j.kind = "form")
    /\ DownloadsInit /\ (kind # "download" => prompt = CHOOSE p \in MCPrompts : p.files = <<>>)
    /\ OAuthInit
    /\ kind # "oauth" => saved = Nothing /\ authority = Self /\ {keeps[k] : k \in DOMAIN keeps} = {FALSE}
    /\ modal \in (IF kind = "modality" THEN Modal ELSE {Provider("rerank", "voyage", "m")}) /\ ModalInit
    /\ Live!LiveInit /\ (kind # "live" => live.call = LiveCall)
    /\ Codec!RealtimeInit /\ (kind # "realtime" => rt.call = Talk)
    /\ Structured!OutputInit /\ (kind # "output" => reply.call = Written("text", Plain, <<One(Words)>>))
    /\ Schemas!SchemaInit /\ (kind # "schema" => rewriting.job = Job("closed", Leaf("n", "null")))
    /\ Http!HttpInit /\ (kind # "http" => http.ask = [OneExchange EXCEPT !.how = "delete"])
    /\ Mcp!McpInit /\ (kind # "mcp" => mcp.server = CHOOSE x \in MCMcpServers : TRUE)
    /\ Dialog!Init /\ (kind # "request" => talker = "completion")

Next ==
    \/ kind = "call" /\ CallsNext /\ UNCHANGED <<kind, audioVars, batchVars, fileVars, downloadVars, oauthVars, modalVars, liveVars, rtVars, outputVars, rewriting, http, mcp, requestVars>>
    \/ kind = "audio" /\ AudioNext /\ UNCHANGED <<kind, callVars, batchVars, fileVars, downloadVars, oauthVars, modalVars, liveVars, rtVars, outputVars, rewriting, http, mcp, requestVars>>
    \/ kind = "batch" /\ BatchNext /\ UNCHANGED <<kind, callVars, audioVars, fileVars, downloadVars, oauthVars, modalVars, liveVars, rtVars, outputVars, rewriting, http, mcp, requestVars>>
    \/ kind = "file" /\ FilesNext /\ UNCHANGED <<kind, callVars, audioVars, batchVars, downloadVars, oauthVars, modalVars, liveVars, rtVars, outputVars, rewriting, http, mcp, requestVars>>
    \/ kind = "download" /\ DownloadsNext /\ UNCHANGED <<kind, callVars, audioVars, batchVars, fileVars, oauthVars, modalVars, liveVars, rtVars, outputVars, rewriting, http, mcp, requestVars>>
    \/ kind = "oauth" /\ OAuthNext /\ UNCHANGED <<kind, callVars, audioVars, batchVars, fileVars, downloadVars, modalVars, liveVars, rtVars, outputVars, rewriting, http, mcp, requestVars>>
    \/ kind = "modality" /\ ModalNext /\ UNCHANGED <<kind, callVars, audioVars, batchVars, fileVars, downloadVars, oauthVars, liveVars, rtVars, outputVars, rewriting, http, mcp, requestVars>>
    \/ kind = "live" /\ Live!LiveNext
       /\ UNCHANGED <<kind, callVars, audioVars, batchVars, fileVars, downloadVars, oauthVars, modalVars, rtVars, outputVars, rewriting, http, mcp, requestVars>>
    \/ kind = "realtime" /\ Codec!RealtimeNext
       /\ UNCHANGED <<kind, callVars, audioVars, batchVars, fileVars, downloadVars, oauthVars, modalVars, liveVars, outputVars, rewriting, http, mcp, requestVars>>
    \/ kind = "output" /\ Structured!OutputNext
       /\ UNCHANGED <<kind, callVars, audioVars, batchVars, fileVars, downloadVars, oauthVars, modalVars, liveVars, rtVars, rewriting, http, mcp, requestVars>>
    \/ kind = "schema" /\ Schemas!SchemaNext
       /\ UNCHANGED <<kind, callVars, audioVars, batchVars, fileVars, downloadVars, oauthVars, modalVars, liveVars, rtVars, outputVars, http, mcp, requestVars>>
    \/ kind = "http" /\ Http!HttpNext
       /\ UNCHANGED <<kind, callVars, audioVars, batchVars, fileVars, downloadVars, oauthVars, modalVars, liveVars, rtVars, outputVars, rewriting, mcp, requestVars>>
    \/ kind = "mcp" /\ Mcp!McpNext
       /\ UNCHANGED <<kind, callVars, audioVars, batchVars, fileVars, downloadVars, oauthVars, modalVars, liveVars, rtVars, outputVars, rewriting, http, requestVars>>
    \/ kind = "request" /\ Dialog!Next
       /\ UNCHANGED <<kind, callVars, audioVars, batchVars, fileVars, downloadVars, oauthVars, modalVars, liveVars, rtVars, outputVars, rewriting, http, mcp>>

Spec == Init /\ [][Next]_vars

-----------------------------------------------------------------------------
\* What a call returns is the answer to what was asked, in its order, whatever
\* finished first: one embedding for each value (modality calls), one outcome
\* for each request of a batch, a file the provider is done with, a file in the
\* place of the part that named it, a Finish of a stream that was not cut, and
\* tokens with the server that issued them. What a stream does after its first
\* transport error, which failures are not retried and which settings are left
\* out is what HttpExchange and ModalityModels say, where the code differs from
\* its docs too.
ResultsInOrder ==
    /\ CallsTypeOK
    /\ CallResultInOrder
    /\ AudioResultInOrder
    /\ BatchResultInOrder
    /\ FileResultInOrder
    /\ FilesInOrder
    /\ OAuthResultInOrder
    /\ ModalResultInOrder
    /\ kind = "live" => Live!LiveResultInOrder
    /\ kind = "realtime" => Codec!RealtimeResultInOrder
    /\ kind = "output" => Structured!OutputResultInOrder
    /\ kind = "schema" => Schemas!SchemaResultInOrder
    /\ kind = "http" => Http!HttpResultInOrder
    /\ kind = "mcp" => Mcp!McpResultInOrder

\* Retries, polls, redirects and reruns end at their limits, what may be billed
\* is not sent again under another key, and nothing is sent or told after the
\* token, the deadline or the end of the call.
StopsWhenTold ==
    [][/\ CallStopsWhenTold
       /\ AudioStopsWhenTold
       /\ BatchStopsWhenTold
       /\ FilesStopWhenTold
       /\ DownloadsStopWhenTold
       /\ OAuthStopsWhenTold
       /\ kind = "live" => Live!LiveStopsWhenTold
       /\ kind = "http" => Http!HttpStopsWhenTold
       /\ kind = "mcp" => Mcp!McpStopsWhenTold]_vars

\* Keys, headers, codes, refresh tokens and client secrets go to the origin they
\* are for, whatever addresses a provider, a redirect or a metadata document
\* names; the two ways in which a code or a refresh token may still go to another
\* authorization server are those that OAuthCredentialsStay states.
CredentialsStayHome ==
    /\ BatchCredentialsStay
    /\ FileCredentialsStay
    /\ DownloadCredentialsStay
    /\ OAuthCredentialsStay
    /\ Live!LiveCredentialsStay
    /\ Codec!RealtimeCredentialsStay

\* Whenever the model is asked, the library takes the history it built and what
\* it makes of it is a conversation that the provider takes, with the exceptions
\* that Due (MCRequests) names.
RequestsWellFormed == kind = "request" => Dialog!RequestsWellFormed

\* What a request leaves out without a warning is what the lists of MCRequests
\* name: exactly those parts of the history, and at most those settings and tools.
OnlyListedIsSilent == kind = "request" => Dialog!OnlyListedIsSilent
=============================================================================

---------------------------- MODULE HttpExchange ----------------------------
(* One HTTP exchange of an adapter: the upload of the body, the response and *)
(* the handler that makes a value, a stream or an error of it. Text is a      *)
(* sequence of symbols: a field name of an event, a JSON document or a mark   *)
(* of a form is one symbol. Chunks may end anywhere.                          *)
EXTENDS Naturals, Sequences, SequencesExt, FiniteSets, FiniteSetsExt

CONSTANTS
    Exchanges,   \* what is sent, what the server answers and how it is read
    MaxChunk     \* symbols in a chunk of a response

VARIABLES http

-----------------------------------------------------------------------------
(* Errors.                                                                   *)

Cancelled == [t |-> "cancelled"]
Api(status, retryable, cause, said) ==
    [t |-> "api", status |-> status, retryable |-> retryable, cause |-> cause, said |-> said]
is_retryable(kind) == kind \in {"connect", "timeout", "reset", "io"}
\* What struck the connection, as the kind of error it becomes: while the body of
\* a response is read, a reset is an error of the body.
map_error(struck, responding) == IF responding /\ struck = "reset" THEN "body" ELSE struck
default_retryable(status) == status \in {408, 409, 429} \cup 500..599

invalid_request == Api(<<>>, FALSE, "invalid", "request")
transport_error(kind) == IF kind = "cancelled" THEN Cancelled ELSE Api(<<>>, is_retryable(kind), kind, "connect")

\* Mutant: the status decides whether a response that was not read is asked for
\* again.
body_error_Status(status, kind) == IF kind = "cancelled" THEN Cancelled ELSE Api(<<status>>, default_retryable(status), kind, "body")
body_error(status, kind) == IF kind = "cancelled" THEN Cancelled ELSE Api(<<status>>, is_retryable(kind), kind, "body")
stream_error(status, kind) == IF kind = "cancelled" THEN Cancelled ELSE Api(<<status>>, is_retryable(kind), kind, "stream")
wrap_handler_error(status) == Api(<<status>>, default_retryable(status), "empty", "response")

-----------------------------------------------------------------------------
(* The body of a request.                                                    *)

\* Mutant: a backslash is sent as it is.
escape_header_value_Quotes(value) ==
    FlattenSeq([i \in DOMAIN value |-> IF value[i] \in {"CR", "LF"} THEN <<>> ELSE IF value[i] = "Q" THEN <<"\\", "Q">> ELSE <<value[i]>>])
escape_header_value(value) ==
    FlattenSeq([i \in DOMAIN value |->
        IF value[i] \in {"CR", "LF"} THEN <<>> ELSE IF value[i] \in {"\\", "Q"} THEN <<"\\", value[i]>> ELSE <<value[i]>>])

part_header(part) ==
    <<"boundary", "name=", "Q">> \o escape_header_value(part.name) \o <<"Q">>
    \o (IF part.t = "field" THEN <<>>
        ELSE <<"filename=", "Q">> \o escape_header_value(IF part.filename = <<>> THEN <<"blob">> ELSE part.filename[1]) \o <<"Q", "CR", "LF">>
             \o SelectSeq(part.media, LAMBDA x : x \notin {"CR", "LF"}))
    \o <<"CR", "LF", "CR", "LF">>
Ending == <<"boundary", "--", "CR", "LF">>

\* A stream and the length it was declared with, if any.
Piece(chunks, length) == [chunks |-> chunks, length |-> length]
into_stream(ask) ==
    CASE ask.how = "form" ->
            FlattenSeq([i \in DOMAIN ask.parts |->
                <<Piece(<<part_header(ask.parts[i])>>, <<>>), Piece(ask.parts[i].chunks, ask.parts[i].length), Piece(<<<<"CR", "LF">>>>, <<>>)>>])
            \o <<Piece(<<Ending>>, <<>>)>>
      [] ask.how \in {"json", "bytes"} -> <<Piece(<<<<"payload">>>>, <<>>)>>
      [] ask.how = "stream" -> <<Piece(ask.parts[1].chunks, ask.parts[1].length)>>
      [] ask.how \in {"get", "delete"} -> <<>>

Total(lengths) == FoldLeft(+, 0, lengths)
Length(part) == IF part.t = "stream" THEN part.length ELSE <<Len(part.chunks[1])>>
content_length(ask) ==
    CASE ask.how = "form" ->
            IF \E i \in DOMAIN ask.parts : Length(ask.parts[i]) = <<>> THEN <<>>
            ELSE <<Len(Ending) + Total([i \in DOMAIN ask.parts |-> Len(part_header(ask.parts[i])) + Length(ask.parts[i])[1] + 2])>>
      [] ask.how \in {"json", "bytes"} -> <<1>>
      [] ask.how = "stream" -> ask.parts[1].length
      [] ask.how \in {"get", "delete"} -> <<0>>

content_type(ask) ==
    CASE ask.how = "form" -> "multipart" [] ask.how = "json" -> "json" [] ask.how \in {"bytes", "stream"} -> "given"
      [] ask.how \in {"get", "delete"} -> "none"

\* What an error says of the request: of a form its names, never its files.
values(parts) ==
    LET last == {i \in DOMAIN parts : \A j \in DOMAIN parts : j > i => parts[j].name # parts[i].name}
    IN  {[name |-> parts[i].name, shown |-> IF parts[i].t = "field" THEN parts[i].chunks[1] ELSE <<"file">>] : i \in last}
Recorded(ask) == IF ask.how = "form" THEN values(ask.parts) ELSE {}

-----------------------------------------------------------------------------
(* Server-sent events.                                                       *)

Bom == <<"B1", "B2", "B3">>
Decoder == [buffer |-> <<>>, data |-> <<>>, event |-> <<>>, id |-> <<>>, retry |-> <<>>, bom |-> FALSE, cr |-> FALSE,
            events |-> <<>>, large |-> FALSE]
Event(data, event, id, retry) == [t |-> "event", data |-> data, event |-> event, id |-> id, retry |-> retry]

Field(text) ==
    LET colon == SelectInSeq(text, LAMBDA x : x = ":")
        after == SubSeq(text, colon + 1, Len(text))
    IN  IF colon = 0 THEN [name |-> text, value |-> <<>>]
        ELSE [name |-> SubSeq(text, 1, colon - 1), value |-> IF IsPrefix(<<" ">>, after) THEN Tail(after) ELSE after]
Digits(value) == value # <<>> /\ ToSet(value) \subseteq {"7"}

dispatch(d) ==
    IF d.data = <<>> THEN [d EXCEPT !.event = <<>>]
    ELSE [d EXCEPT !.data = <<>>, !.event = <<>>, !.events = Append(@, Event(Front(d.data), d.event, d.id, d.retry))]

process_line(d, line) ==
    LET f == Field(line)
    IN  CASE line = <<>> -> dispatch(d)
          [] line # <<>> /\ f.name = <<"event">> -> [d EXCEPT !.event = f.value]
          [] line # <<>> /\ f.name = <<"data">> -> [d EXCEPT !.data = @ \o f.value \o <<"LF">>]
          [] line # <<>> /\ f.name = <<"id">> /\ "NUL" \notin ToSet(f.value) -> [d EXCEPT !.id = f.value]
          [] line # <<>> /\ f.name = <<"retry">> /\ Digits(f.value) -> [d EXCEPT !.retry = f.value]
          [] OTHER -> d

feed_byte(d, byte, limit) ==
    LET met == [d EXCEPT !.bom = TRUE, !.cr = FALSE]
        held == Append(d.buffer, byte)
    IN  CASE d.large -> d
          [] ~d.large /\ ~d.bom /\ byte = Bom[Len(d.buffer) + 1] ->
                IF held = Bom THEN [d EXCEPT !.bom = TRUE, !.buffer = <<>>] ELSE [d EXCEPT !.buffer = held]
          [] ~d.large /\ (d.bom \/ byte # Bom[Len(d.buffer) + 1]) ->
                IF d.cr /\ byte = "LF" THEN met
                ELSE IF byte \in {"CR", "LF"} THEN process_line([met EXCEPT !.cr = byte = "CR", !.buffer = <<>>], d.buffer)
                ELSE [met EXCEPT !.buffer = held, !.large = Len(held) + Len(d.data) > limit]

\* Mutant: a chunk that begins with the LF of a CRLF begins with a line.
feed_Lf(d, bytes, limit) == FoldLeft(LAMBDA e, byte : feed_byte(e, byte, limit), [d EXCEPT !.events = <<>>, !.cr = FALSE], bytes)
feed(d, bytes, limit) == FoldLeft(LAMBDA e, byte : feed_byte(e, byte, limit), [d EXCEPT !.events = <<>>], bytes)

-----------------------------------------------------------------------------
(* Chunks of JSON.                                                           *)

Blank == {" ", "CR", "LF"}
Stripped(text) ==
    LET solid == {i \in DOMAIN text : text[i] \notin Blank}
    IN  IF solid = {} THEN <<>> ELSE SubSeq(text, Min(solid), Max(solid))
Item(t, text) == [t |-> t, text |-> text]
ErrorItem(error) == [t |-> "error", error |-> error]
parse_json_chunk(text) ==
    Item(CASE Stripped(text) = <<"json">> -> "value" [] Stripped(text) = <<"other">> -> "mistyped" [] OTHER -> "unparsed", text)

\* What the consumer gets of an event: only MCP reads the events themselves.
OfEvent(handler, e) ==
    IF handler = "events" THEN <<e>> ELSE IF e.data = <<"[DONE]">> THEN <<>> ELSE <<parse_json_chunk(e.data)>>
take_line(line) ==
    LET open == {i \in DOMAIN line : \A j \in i..Len(line) : line[j] = "CR"}
    IN  IF Stripped(line) = <<>> THEN <<>> ELSE <<parse_json_chunk(SubSeq(line, 1, Len(line) - Cardinality(open)))>>

-----------------------------------------------------------------------------
(* The exchange.                                                             *)

Ask == http.ask
Success == Ask.status \in 200..299
Handler == IF Success THEN Ask.handler ELSE Ask.failure
Streaming == {"events", "sse", "lines", "through"}

HttpInit ==
    \E ask \in Exchanges :
        http = [ask |-> ask, at |-> "new", up |-> <<>>, sent |-> <<>>, announced |-> <<>>, type |-> "none", fired |-> FALSE,
                rest |-> ask.body, open |-> TRUE, decoder |-> Decoder, chunk |-> <<>>, line |-> <<>>,
                pending |-> <<>>, items |-> <<>>, result |-> <<>>, struck |-> "nothing"]

Finished(result) == [http EXCEPT !.at = "done", !.result = <<result>>, !.up = <<>>]
Ok(value) == [t |-> "ok", value |-> value]

\* A body that is no JSON ends the call before anything is sent.
Begin ==
    /\ http.at = "new"
    /\ http' = IF Ask.bad THEN Finished(invalid_request)
               ELSE [http EXCEPT !.at = "sending", !.up = into_stream(Ask),
                                 !.announced = content_length(Ask), !.type = IF Ask.typed THEN "own" ELSE content_type(Ask)]

Fire == /\ ~http.fired /\ http.at \notin {"new", "done"}
        /\ http' = [http EXCEPT !.fired = TRUE]

\* Mutant: a stream that ends early is complete.
Short_Accepted(piece) == FALSE
Short(piece) == piece.length \notin {<<>>, <<0>>}

\* The transport takes the next chunk of the body.
Upload ==
    /\ http.at = "sending" /\ ~http.fired
    /\ \/ /\ http.up = <<>>
          /\ http' = [http EXCEPT !.at = "sent"]
       \/ /\ http.up # <<>> /\ http.up[1].chunks = <<>>
          /\ http' = IF Short(http.up[1]) THEN Finished(transport_error("body")) ELSE [http EXCEPT !.up = Tail(@)]
       \/ /\ http.up # <<>> /\ http.up[1].chunks # <<>>
          /\ LET chunk == http.up[1].chunks[1]
                 length == http.up[1].length
             IN  http' = IF chunk = <<"fails">> \/ (length # <<>> /\ Len(chunk) > length[1]) THEN Finished(transport_error("body"))
                         ELSE [http EXCEPT !.sent = @ \o chunk, !.up[1].chunks = Tail(@),
                                           !.up[1].length = IF @ = <<>> THEN <<>> ELSE <<@[1] - Len(chunk)>>]

\* Nothing came of the request.
Disconnect ==
    /\ http.at \in {"sending", "sent"} /\ ~http.fired
    /\ \E struck \in {"connect", "timeout", "reset", "body"} :
        http' = [Finished(transport_error(map_error(struck, FALSE))) EXCEPT !.struck = struck]
CancelRequest ==
    /\ http.at \in {"sending", "sent"} /\ http.fired
    /\ http' = Finished(transport_error("cancelled"))

\* The head of the response; a server may answer before it has read the body.
Respond ==
    /\ http.at \in {"sending", "sent"} /\ ~http.fired
    /\ LET taken == [http EXCEPT !.up = <<>>]
       IN  http' = IF Handler \in Streaming
                   THEN IF Handler # "through" /\ Ask.declared = <<0>>
                        THEN Finished(wrap_handler_error(Ask.status))
                        ELSE [taken EXCEPT !.at = "streaming", !.result = <<Ok(<<>>)>>]
                   ELSE IF Ask.declared # <<>> /\ Ask.declared[1] > Ask.limit
                        THEN Finished(body_error(Ask.status, "too_large"))
                        ELSE [taken EXCEPT !.at = "reading"]

-----------------------------------------------------------------------------
(* A response that is read in full.                                          *)

\* What the error of a response says, and whether it may be retried.
StatusError(retryable, said) == Api(<<Ask.status>>, retryable, "status", said)
JsonError ==
    LET parsed == Stripped(http.chunk) = <<"json">>
    IN  StatusError(IF Ask.override THEN parsed ELSE default_retryable(Ask.status), IF parsed THEN "message" ELSE "reason")
StatusCodeError == StatusError(default_retryable(Ask.status), "reason")

JsonValue == IF parse_json_chunk(http.chunk).t = "value" THEN Ok(http.chunk)
             ELSE Api(<<Ask.status>>, default_retryable(Ask.status), "json", "response")
TextValue == Ok(http.chunk)
BinaryValue == Ok(http.chunk)
Value ==
    CASE Handler = "json" -> JsonValue [] Handler = "text" -> TextValue [] Handler = "binary" -> BinaryValue
      [] Handler = "failure" -> JsonError [] Handler = "status" -> StatusCodeError

\* What may strike while a body is read.
Interruptions == {"timeout", "reset", "body"}

read_body ==
    /\ http.at = "reading"
    /\ \/ /\ http.fired
          /\ http' = Finished(body_error(Ask.status, "cancelled"))
       \/ /\ ~http.fired /\ http.rest = <<>>
          /\ http' = Finished(Value)
       \/ /\ ~http.fired
          /\ \E struck \in Interruptions :
                http' = [Finished(body_error(Ask.status, map_error(struck, TRUE))) EXCEPT !.struck = struck]
       \/ /\ ~http.fired
          /\ \E n \in 1..MaxChunk :
                /\ n <= Len(http.rest)
                /\ http' = IF Len(http.chunk) + n > Ask.limit THEN Finished(body_error(Ask.status, "too_large"))
                           ELSE [http EXCEPT !.rest = SubSeq(@, n + 1, Len(@)), !.chunk = @ \o SubSeq(http.rest, 1, n)]

-----------------------------------------------------------------------------
(* A response that is read as it comes.                                      *)

\* A stream that fails is over, and lets its body go.
Broken(error) == [http EXCEPT !.items = Append(@, ErrorItem(error)), !.open = FALSE, !.at = "done", !.chunk = <<>>, !.line = <<>>]
TooLarge == IF Handler = "lines" THEN stream_error(Ask.status, "too_large")
            ELSE Api(<<Ask.status>>, default_retryable(Ask.status), "too_large", "stream")

Give ==
    /\ http.at = "streaming" /\ http.pending # <<>>
    /\ http' = [http EXCEPT !.items = @ \o OfEvent(Handler, Head(http.pending)), !.pending = Tail(@)]

\* The next line of the chunk, or what there is of it.
Split ==
    /\ http.at = "streaming" /\ http.chunk # <<>>
    /\ LET newline == SelectInSeq(http.chunk, LAMBDA x : x = "LF")
           count == IF newline = 0 THEN Len(http.chunk) ELSE newline - 1
           line == http.line \o SubSeq(http.chunk, 1, count)
       IN  http' = IF Len(line) > Ask.limit THEN Broken(TooLarge)
                   ELSE IF newline = 0 THEN [http EXCEPT !.line = line, !.chunk = <<>>]
                   ELSE [http EXCEPT !.line = <<>>, !.chunk = SubSeq(@, newline + 1, Len(@)), !.items = @ \o take_line(line)]

Reading == http.at = "streaming" /\ http.open /\ http.pending = <<>> /\ http.chunk = <<>>

Receive ==
    /\ Reading /\ ~http.fired
    /\ \E n \in 1..MaxChunk :
        /\ n <= Len(http.rest)
        /\ LET bytes == SubSeq(http.rest, 1, n)
               left == [http EXCEPT !.rest = SubSeq(@, n + 1, Len(@))]
               d == feed(http.decoder, bytes, Ask.limit)
           IN  http' = CASE Handler = "through" -> [left EXCEPT !.items = Append(@, Item("bytes", bytes))]
                         [] Handler = "lines" -> [left EXCEPT !.chunk = bytes]
                         [] Handler \in {"events", "sse"} ->
                                IF d.large THEN [Broken(TooLarge) EXCEPT !.rest = left.rest]
                                ELSE [left EXCEPT !.decoder = [d EXCEPT !.events = <<>>], !.pending = d.events]

\* The end of the body: an event it cuts is dropped, a line is not.
End ==
    /\ Reading /\ http.rest = <<>> /\ ~http.fired
    /\ http' = [http EXCEPT !.open = FALSE, !.at = "done", !.decoder = Decoder, !.line = <<>>,
                            !.items = IF Handler = "lines" THEN @ \o take_line(http.line) ELSE @]
BodyFails ==
    /\ Reading /\ ~http.fired
    /\ \E struck \in Interruptions :
        http' = [Broken(stream_error(Ask.status, map_error(struck, TRUE))) EXCEPT !.struck = struck]
CancelBody ==
    /\ Reading /\ http.fired
    /\ http' = Broken(stream_error(Ask.status, "cancelled"))

HttpNext ==
    \/ Begin \/ Fire \/ Upload \/ Disconnect \/ CancelRequest \/ Respond
    \/ read_body \/ Give \/ Split \/ Receive \/ End \/ BodyFails \/ CancelBody

-----------------------------------------------------------------------------
(* What a body means, however it was cut.                                    *)

Sorted(S) == [k \in 1..Cardinality(S) |-> CHOOSE x \in S : Cardinality({y \in S : y <= x}) = k]

\* The texts before each of the ends, and what is left.
Texts(body, ends) ==
    LET at == Sorted(ends)
        from(i) == IF i = 1 THEN 1 ELSE IF IsPrefix(<<"CR", "LF">>, SubSeq(body, at[i - 1], Len(body)))
                                            /\ at[i - 1] + 1 \notin ends THEN at[i - 1] + 2 ELSE at[i - 1] + 1
    IN  [i \in 1..(Len(at) + 1) |-> SubSeq(body, from(i), IF i > Len(at) THEN Len(body) ELSE at[i] - 1)]

EventText(body) == IF IsPrefix(Bom, body) THEN SubSeq(body, 4, Len(body)) ELSE body
EventLines(body) ==
    Texts(body, {i \in DOMAIN body : body[i] = "CR" \/ (body[i] = "LF" /\ ~(i > 1 /\ body[i - 1] = "CR"))})

\* The events of whole lines; an id and a retry time last, the rest is of one
\* block of lines.
BlockStart(lines, end) == LET before == {i \in 1..(end - 1) : lines[i] = <<>>} IN IF before = {} THEN 1 ELSE Max(before) + 1
Given(lines, from, to, name) ==
    LET at == {i \in from..to : lines[i] # <<>> /\ Field(lines[i]).name = <<name>>}
    IN  [k \in 1..Cardinality(at) |-> Field(lines[Sorted(at)[k]]).value]
Latest(vs) == IF vs = <<>> THEN <<>> ELSE Last(vs)
EventsOf(lines) ==
    LET block(end) == BlockStart(lines, end)
        data(end) == Given(lines, block(end), end, "data")
        ends == Sorted({end \in 1..(Len(lines) - 1) : lines[end] = <<>> /\ data(end) # <<>>})
    IN  [k \in DOMAIN ends |->
            LET end == ends[k]
            IN  Event(Tail(FlattenSeq([i \in DOMAIN data(end) |-> <<"LF">> \o data(end)[i]])),
                      Latest(Given(lines, block(end), end, "event")),
                      Latest(SelectSeq(Given(lines, 1, end, "id"), LAMBDA v : "NUL" \notin ToSet(v))),
                      Latest(SelectSeq(Given(lines, 1, end, "retry"), Digits)))]
LargeEvent(lines, limit) ==
    \E i \in DOMAIN lines :
        Len(lines[i]) + Total([k \in DOMAIN Given(lines, BlockStart(lines, i), i - 1, "data") |->
                                    Len(Given(lines, BlockStart(lines, i), i - 1, "data")[k]) + 1]) > limit

JsonTexts(body) == Texts(body, {i \in DOMAIN body : body[i] = "LF"})
Expected ==
    LET events == EventsOf(EventLines(EventText(Ask.body)))
        texts == JsonTexts(Ask.body)
        short == {i \in DOMAIN texts : \A j \in 1..i : Len(texts[j]) <= Ask.limit}
    IN  CASE Handler \in {"events", "sse"} -> FlattenSeq([i \in DOMAIN events |-> OfEvent(Handler, events[i])])
          [] Handler = "lines" -> FlattenSeq([i \in 1..Cardinality(short) |-> take_line(texts[i])])
TooLong == IF Handler = "lines" THEN \E text \in ToSet(JsonTexts(Ask.body)) : Len(text) > Ask.limit
           ELSE LargeEvent(EventLines(EventText(Ask.body)), Ask.limit)

-----------------------------------------------------------------------------
(* What is checked.                                                          *)

Received == SelectSeq(http.items, LAMBDA x : x.t # "error")
Failures == SelectSeq(http.items, LAMBDA x : x.t = "error")

\* A stream is what its body says, however the network cut it. An item that does
\* not parse is an item like any other; the first error of the transport, or a
\* line or event over the limit, is the last item of the stream. (The comment at
\* handlers.rs:538 has transport errors become items too "so the stream keeps
\* going": after one, nothing comes any more.)
ItemsAreTheBodys ==
    LET items == Received
        error == Failures
        over == http.at = "done" /\ error = <<>>
    IN  (http.result # <<>> /\ http.result[1].t = "ok" /\ Handler \in Streaming) =>
            /\ error # <<>> => Len(error) = 1 /\ Last(http.items) = error[1] /\ ~http.open
            /\ Handler = "through" =>
                LET got == FlattenSeq([i \in DOMAIN items |-> items[i].text])
                IN  IsPrefix(got, Ask.body) /\ (over => got = Ask.body)
            /\ Handler # "through" =>
                /\ IsPrefix(items, Expected)
                /\ over => items = Expected /\ ~TooLong
                /\ (error # <<>> /\ error[1].error.t = "api" /\ error[1].error.cause = "too_large") =>
                    TooLong /\ (Handler = "lines" => items = Expected)

\* A value is made of the whole body and of nothing else, within the limit.
ValueIsTheBody ==
    (http.result # <<>> /\ http.result[1].t = "ok" /\ Handler \notin Streaming) =>
        http.result[1].value = Ask.body /\ Len(Ask.body) <= Ask.limit

\* The names a server reads in the heads of the parts it is sent.
RECURSIVE Unquoted(_)
Unquoted(text) ==
    CASE text = <<>> \/ text[1] = "Q" -> <<>>
      [] text # <<>> /\ text[1] = "\\" -> <<text[2]>> \o Unquoted(SubSeq(text, 3, Len(text)))
      [] OTHER -> <<text[1]>> \o Unquoted(Tail(text))
ReadNames(body) ==
    LET at == {i \in DOMAIN body : body[i] = "name="}
    IN  [k \in 1..Cardinality(at) |-> Unquoted(SubSeq(body, Sorted(at)[k] + 2, Len(body)))]
Plain(name) == SelectSeq(name, LAMBDA x : x \notin {"CR", "LF"})

\* A request that was sent in full has the length it was announced with, and
\* the parts of a form their names, their data and no lines of their own.
UploadIsWhole ==
    http.at = "sent" =>
        /\ http.announced # <<>> => Len(http.sent) = http.announced[1]
        /\ Ask.how = "form" =>
            /\ ReadNames(http.sent) = [i \in DOMAIN Ask.parts |-> Plain(Ask.parts[i].name)]
            /\ Cardinality({i \in DOMAIN http.sent : http.sent[i] = "LF"})
                = 1 + Total([i \in DOMAIN Ask.parts |-> IF Ask.parts[i].t = "field" THEN 3 ELSE 4])

\* Of a form an error tells the fields and no file.
FilesUntold == \A r \in Recorded(Ask), p \in ToSet(Ask.parts) : p.t # "field" => ToSet(FlattenSeq(p.chunks)) \cap ToSet(r.shown) = {}

\* A failure is retryable exactly when the connection failed before there was a
\* response, when the time for a body ran out, or when a status that was read
\* says so. Two failures that may pass are final: a connection that is reset
\* while the body is read (though transport.rs:253 calls connection-level
\* failures, resets among them, retryable), and a status to be retried whose own
\* body is too large.
MayPass(e) ==
    \/ http.struck \in {"connect", "timeout"}
    \/ http.struck = "reset" /\ e.status = <<>>
    \/ /\ e.cause = "status"
       /\ IF Handler = "failure" /\ Ask.override THEN Stripped(http.chunk) = <<"json">> ELSE Ask.status \in {429, 503}
RetriedWhenItMayPass ==
    \A e \in {e.error : e \in ToSet(Failures)} \cup {e \in ToSet(http.result) : e.t # "ok"} :
        /\ e.t = "cancelled" => http.fired
        /\ e.t = "api" => (e.retryable <=> MayPass(e))

HttpResultInOrder == ItemsAreTheBodys /\ ValueIsTheBody /\ UploadIsWhole /\ FilesUntold /\ RetriedWhenItMayPass

\* Once its token fired, an exchange sends and reads nothing more.
HttpStopsWhenTold == http.fired => http'.sent = http.sent /\ http'.rest = http.rest
=============================================================================

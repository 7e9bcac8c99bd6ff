------------------------------ MODULE LiveAudio ------------------------------
(***************************************************************************)
(* Live transcription and speech translation of the adapters over a web    *)
(* socket: the driver of each provider (realtime_ws.rs of OpenAI,          *)
(* live_audio of Google), which sends audio, reads frames and obeys the    *)
(* token, and the mappers it runs.  Texts are sequences of words.          *)
(***************************************************************************)
EXTENDS Naturals, Sequences, SequencesExt

CONSTANTS
    LiveCalls,            \* what the application asks for
    MaxFrames             \* bound on the frames a server sends

VARIABLES
    live,                 \* the call, its driver and its mapper
    line,                 \* what was sent to the server
    yielded               \* the parts of the stream

liveVars == <<live, line, yielded>>

Part(type, id, text) == [type |-> type, id |-> id, text |-> text, source |-> <<>>]
Said(source, text) == [Part("finish", <<>>, text) EXCEPT !.source = source]
Failure(of) == Part("error", <<of>>, <<>>)
StreamStart == Part("start", <<>>, <<>>)

-----------------------------------------------------------------------------
(* The session asked for.                                                  *)

Refusal == [refused |-> TRUE, setup |-> {}, warned |-> {}]
Setup(setup, warned) == [refused |-> FALSE, setup |-> setup, warned |-> warned]

OpenAiTranscript(c) ==
    Setup(c.settings \cap {"language", "delay", "streaming_include"},
          c.settings \cap {"include", "prompt", "temperature", "timestamp_granularities"})

\* The languages and formats of a translation that a provider takes no part of.
unsupported(c) == c.settings \cap {"source_language", "output_audio_format"}

OpenAiTranslation(c) ==
    IF ~c.target \/ c.format \notin {"pcm24", "pcm"} THEN Refusal
    ELSE Setup({"target"}, unsupported(c))

validate_format(format) == format \in {"pcm16", "pcm"}

GoogleTranscript(c) ==
    IF ~c.live \/ ~validate_format(c.format) \/ "bad_mode" \in c.settings THEN Refusal
    ELSE Setup(c.settings \cap {"language_codes", "custom_vocabulary", "word_timestamp", "diarization", "mode"}, {})

GoogleTranslation(c) ==
    IF ~validate_format(c.format) \/ ~c.target THEN Refusal
    ELSE Setup({"target"} \cup (c.settings \cap {"echo_target_language"}), unsupported(c))

session(c) ==
    CASE c.at = "openai" /\ c.of = "transcription" -> OpenAiTranscript(c)
      [] c.at = "openai" /\ c.of = "translation" -> OpenAiTranslation(c)
      [] c.at = "google" /\ c.of = "transcription" -> GoogleTranscript(c)
      [] c.at = "google" /\ c.of = "translation" -> GoogleTranslation(c)

\* Settings of the file transcription that the stream does not look at.
Unread == {"response_format", "chunking_strategy"}

-----------------------------------------------------------------------------
(* The handshake.                                                          *)

Framing == {"host", "connection", "upgrade", "sec-websocket-key"}

\* A bearer token travels as a sub-protocol, any other authorization not at all.
Hello_AllHeaders(c) == [sent |-> "hello", headers |-> c.headers, key |-> IF c.bearer THEN <<"protocol">> ELSE <<>>]
Hello(c) ==
    IF c.at = "openai"
    THEN [sent |-> "hello", headers |-> c.headers \ {"authorization"},
          key |-> IF c.bearer THEN <<"protocol">> ELSE <<>>]
    ELSE [sent |-> "hello", headers |-> c.headers \ ({"x-goog-api-key"} \cup Framing), key |-> <<"query">>]

\* Google has its address checked and needs a key.
Reachable(c) == c.at = "google" => c.place # "private" /\ "x-goog-api-key" \in c.headers

-----------------------------------------------------------------------------
(* The mappers: what a frame makes of the mapper, the parts it yields and  *)
(* whether the stream goes on, ends or fails.                              *)

NewMapper == [source |-> <<>>, text |-> <<>>, source_turn |-> <<>>, turn |-> <<>>, interim |-> <<>>, index |-> 0,
              ended |-> FALSE, open_turn |-> FALSE, saw_complete |-> FALSE, silent |-> 0, terminal |-> FALSE,
              deadline |-> FALSE]

Result(m, parts, flow) == [m |-> m, parts |-> parts, flow |-> flow]
Go(m, parts) == Result(m, parts, "continue")
After(before, r) == Go(r.m, before.parts \o r.parts)

transcript_handle(m, e) ==
    CASE e.type = "delta" -> Go(m, <<Part("delta", e.item, e.text)>>)
      [] e.type = "completed" ->
            Result(m, (IF e.item = <<>> THEN <<>> ELSE <<Part("final", e.item, e.text)>>) \o <<Said(<<>>, e.text)>>, "finish")
      [] e.type = "error" -> Result(m, <<Failure("frame")>>, "finish")
      [] OTHER -> Go(m, <<>>)

translation_finish(m) ==
    Result(m, (IF m.source = <<>> THEN <<>> ELSE <<Part("source_final", <<>>, m.source)>>)
              \o (IF m.text = <<>> THEN <<>> ELSE <<Part("final", <<>>, m.text)>>)
              \o <<Said(m.source, m.text)>>, "finish")

\* An error event does not end a translation.
translation_handle(m, e) ==
    CASE e.type = "audio" -> Go(m, IF e.text = <<>> THEN <<>> ELSE <<Part("audio", <<>>, <<>>)>>)
      [] e.type = "output" -> Go([m EXCEPT !.text = @ \o e.text], <<Part("delta", <<>>, e.text)>>)
      [] e.type = "input" -> Go([m EXCEPT !.source = @ \o e.text], <<Part("source_delta", <<>>, e.text)>>)
      [] e.type = "closed" -> translation_finish(m)
      [] e.type = "error" -> Go(m, <<Failure("frame")>>)
      [] OTHER -> Go(m, <<>>)

\* The grace of a second runs from what was heard last, once the audio is over.
transcript_activity(m) == [m EXCEPT !.deadline = @ \/ m.ended]

\* A final is the deltas of its segment, or what was only heard provisionally.
segment_SameIndex(m) ==
    LET text == IF m.turn # <<>> THEN m.turn ELSE m.interim
    IN  IF text = <<>> THEN Go(m, <<>>)
        ELSE Go([m EXCEPT !.turn = <<>>, !.interim = <<>>, !.text = @ \o text], <<Part("final", <<m.index>>, text)>>)
segment(m) ==
    LET text == IF m.turn # <<>> THEN m.turn ELSE m.interim
    IN  IF text = <<>> THEN Go(m, <<>>)
        ELSE Go([m EXCEPT !.turn = <<>>, !.interim = <<>>, !.index = @ + 1,
                          !.text = IF @ = <<>> THEN text ELSE @ \o <<" ">> \o text],
                <<Part("final", <<m.index>>, text)>>)

transcript_message(m, e) ==
    LET id == <<m.index>>
        partly == IF e.interim = <<>> THEN Go(m, <<>>)
                  ELSE Go([transcript_activity(m) EXCEPT !.interim = e.interim], <<Part("partial", id, e.interim)>>)
        heard == IF e.heard = <<>> THEN partly
                 ELSE Go([transcript_activity(partly.m) EXCEPT !.interim = <<>>, !.turn = @ \o e.heard],
                         Append(partly.parts, Part("delta", id, e.heard)))
        finished == IF e.finished THEN After(heard, segment(heard.m)) ELSE heard
        over == IF e.turn THEN After(finished, segment(finished.m)) ELSE finished
    IN  [over EXCEPT !.m.terminal = m.ended /\ (e.status \in {"IDLE", "REQUIRES_ACTION"} \/ (e.turn /\ e.status = ""))]

translation_activity(m) == [m EXCEPT !.open_turn = TRUE, !.silent = 0, !.deadline = FALSE]

finish_turn(m) ==
    Go([m EXCEPT !.source = @ \o m.source_turn, !.text = @ \o m.turn, !.source_turn = <<>>, !.turn = <<>>,
                 !.index = @ + 1],
       (IF m.source_turn = <<>> THEN <<>> ELSE <<Part("source_final", <<m.index>>, m.source_turn)>>)
       \o (IF m.turn = <<>> THEN <<>> ELSE <<Part("final", <<m.index>>, m.turn)>>))

\* A second of silence after the last audio ends the translation; a silent
\* chunk here is half of it.
SilentChunks == 2

\* A chunk of audio: the silence so far is only of what came after it spoke.
TakeAudio(r, chunk) ==
    IF r.flow = "fail" THEN r
    ELSE IF chunk \in {"invalid", "odd"} THEN [r EXCEPT !.flow = "fail"]
    ELSE LET part == Part("audio", <<r.m.index>>, <<>>)
         IN  IF r.m.ended /\ chunk = "silent" THEN [r EXCEPT !.silent = @ + 1, !.parts = Append(@, part)]
             ELSE [r EXCEPT !.m = translation_activity(@), !.silent = 0, !.parts = Append(@, part)]

\* A frame with broken audio yields none of its parts.
translation_message(m, e) ==
    LET id == <<m.index>>
        heard == IF e.heard = <<>> THEN Go(m, <<>>)
                 ELSE Go([translation_activity(m) EXCEPT !.source_turn = @ \o e.heard], <<Part("source_delta", id, e.heard)>>)
        played == FoldLeft(TakeAudio, [m |-> heard.m, parts |-> heard.parts, flow |-> "continue", silent |-> 0], e.audio)
        said == IF e.said = <<>> THEN Go([played.m EXCEPT !.silent = @ + played.silent], played.parts)
                ELSE Go([translation_activity(played.m) EXCEPT !.turn = @ \o e.said],
                        Append(played.parts, Part("delta", id, e.said)))
        quiet == [said EXCEPT !.m.terminal = @ \/ said.m.silent >= SilentChunks]
        over == After(quiet, finish_turn(quiet.m))
    IN  IF played.flow = "fail" THEN Result(played.m, <<>>, "fail")
        ELSE IF ~e.turn THEN quiet
        ELSE [over EXCEPT !.m.open_turn = FALSE, !.m.saw_complete = TRUE, !.m.deadline = @ \/ m.ended]

audio_ended(c, m) ==
    IF c.of = "transcription" THEN transcript_activity([m EXCEPT !.ended = TRUE])
    ELSE [m EXCEPT !.ended = TRUE, !.deadline = @ \/ (m.saw_complete /\ ~m.open_turn)]

can_close_Always(c, m) == TRUE
can_close(c, m) == m.ended /\ (c.of = "translation" => m.deadline)

\* The last segment or turn, then the whole.
finish(c, m) ==
    LET last == IF c.of = "transcription" THEN segment(m) ELSE finish_turn(m)
    IN  Append(last.parts, Said(last.m.source, last.m.text))

-----------------------------------------------------------------------------
(* The frames of a server.                                                 *)

Event(type, item, text) == [type |-> type, item |-> item, text |-> text]
Content == [type |-> "content", setup |-> FALSE, interim |-> <<>>, heard |-> <<>>, finished |-> FALSE,
            audio |-> <<>>, said |-> <<>>, turn |-> FALSE, status |-> ""]
Frames(c) ==
    CASE c.at = "openai" /\ c.of = "transcription" ->
            {Event("delta", <<"i1">>, <<"a">>), Event("completed", <<"i1">>, <<"a">>), Event("completed", <<>>, <<"b">>)}
            \cup {Event(t, <<>>, <<>>) : t \in {"error", "other", "invalid"}}
      [] c.at = "openai" /\ c.of = "translation" ->
            {Event("audio", <<>>, <<"x">>), Event("output", <<>>, <<"a">>), Event("input", <<>>, <<"b">>)}
            \cup {Event(t, <<>>, <<>>) : t \in {"audio", "closed", "error", "invalid"}}
      [] c.at = "google" /\ c.of = "transcription" ->
            {[Content EXCEPT !.setup = TRUE], [Content EXCEPT !.type = "invalid"], [Content EXCEPT !.type = "error"],
             [Content EXCEPT !.interim = <<"p">>], [Content EXCEPT !.heard = <<"a">>],
             [Content EXCEPT !.heard = <<"b">>, !.finished = TRUE], [Content EXCEPT !.turn = TRUE],
             [Content EXCEPT !.turn = TRUE, !.status = "RUNNING"], [Content EXCEPT !.status = "IDLE"]}
      [] c.at = "google" /\ c.of = "translation" ->
            {[Content EXCEPT !.setup = TRUE], [Content EXCEPT !.type = "error"], [Content EXCEPT !.heard = <<"a">>],
             [Content EXCEPT !.audio = <<"silent">>], [Content EXCEPT !.audio = <<"loud", "silent">>],
             [Content EXCEPT !.audio = <<"odd">>, !.heard = <<"a">>], [Content EXCEPT !.said = <<"b">>, !.audio = <<"silent">>],
             [Content EXCEPT !.turn = TRUE], [Content EXCEPT !.turn = TRUE, !.said = <<"c">>]}

-----------------------------------------------------------------------------
(* The drivers.                                                            *)

c0 == live.call
Google == c0.at = "google"

LiveInit ==
    /\ \E c \in LiveCalls :
        live = [call |-> c, pc |-> "connecting", cancelled |-> FALSE, ready |-> c.at = "openai", chunk |-> 0, rest |-> 0,
                input |-> TRUE, m |-> NewMapper, frames |-> 0]
    /\ line = <<>> /\ yielded = <<>>

\* Nothing opens: refused, not reachable, or cut while it connects.
Refuse ==
    /\ live.pc = "connecting"
    /\ live' = [live EXCEPT !.pc = "refused"]
    /\ UNCHANGED <<line, yielded>>

Connect ==
    /\ live.pc = "connecting" /\ ~session(c0).refused /\ Reachable(c0)
    /\ Google => ~live.cancelled
    /\ line' = Append(line, Hello(c0))
    /\ live' = [live EXCEPT !.pc = "connected"]
    /\ UNCHANGED yielded

\* The setup: of Google a part of the opening, of OpenAI the first step of the
\* stream, which does not look at the token.
Begin ==
    /\ live.pc = "connected"
    /\ \E sent \in BOOLEAN :
        /\ (sent /\ Google) => ~live.cancelled
        /\ line' = IF sent THEN Append(line, [sent |-> "setup"]) ELSE line
        /\ live' = [live EXCEPT !.pc = IF sent THEN "open" ELSE IF Google THEN "refused" ELSE "over"]
        /\ yielded' = IF sent THEN <<StreamStart>> ELSE IF Google THEN <<>> ELSE <<StreamStart, Failure("transport")>>

\* What ends the stream in an error: that of the token at Google, if it fired.
FailWith(error) ==
    /\ yielded' = Append(yielded, Failure(IF Google /\ live.cancelled THEN "cancelled" ELSE error))
    /\ live' = [live EXCEPT !.pc = "over"]

Cutting == live.cancelled

\* A chunk of audio, at Google in pieces and after the setup was acknowledged.
Audio_NoToken ==
    /\ live.pc = "open" /\ live.ready /\ live.input
    /\ live.chunk < Len(c0.chunks)
    /\ live' = [live EXCEPT !.chunk = @ + 1]
    /\ line' = Append(line, [sent |-> "audio", chunk |-> live.chunk + 1, left |-> 0])
    /\ UNCHANGED yielded
Audio ==
    /\ live.pc = "open" /\ live.ready /\ live.input /\ ~Cutting
    /\ live.rest > 0 \/ live.chunk < Len(c0.chunks)
    /\ LET chunk == IF live.rest > 0 THEN live.chunk ELSE live.chunk + 1
           pieces == IF live.rest > 0 THEN live.rest ELSE IF Google THEN c0.chunks[chunk] ELSE 1
       IN  IF pieces = 0 THEN live' = [live EXCEPT !.chunk = chunk] /\ UNCHANGED <<line, yielded>>
           ELSE \/ /\ live' = [live EXCEPT !.chunk = chunk, !.rest = pieces - 1]
                   /\ line' = Append(line, [sent |-> "audio", chunk |-> chunk, left |-> pieces - 1])
                   /\ UNCHANGED yielded
                \/ FailWith("transport") /\ UNCHANGED line

\* The end of the audio is sent once, after the last piece.
AudioEnds_WithRest ==
    /\ live.pc = "open" /\ live.ready /\ live.input /\ ~Cutting /\ live.chunk = Len(c0.chunks)
    /\ live' = [live EXCEPT !.input = FALSE, !.m = IF Google THEN audio_ended(c0, @) ELSE @]
    /\ line' = Append(line, [sent |-> "end"])
    /\ UNCHANGED yielded
AudioEnds ==
    /\ live.pc = "open" /\ live.ready /\ live.input /\ ~Cutting
    /\ live.rest = 0 /\ live.chunk = Len(c0.chunks)
    /\ \/ /\ live' = [live EXCEPT !.input = FALSE, !.m = IF Google THEN audio_ended(c0, @) ELSE @]
          /\ line' = Append(line, [sent |-> "end"])
          /\ UNCHANGED yielded
       \/ FailWith("transport") /\ UNCHANGED line

Raw == IF c0.raw THEN <<Part("raw", <<>>, <<>>)>> ELSE <<>>

\* A frame of OpenAI; one that is no JSON is passed over.
OpenAiFrame(e) ==
    IF e.type = "invalid" THEN live' = [live EXCEPT !.frames = @ + 1] /\ UNCHANGED <<line, yielded>>
    ELSE LET r == IF c0.of = "transcription" THEN transcript_handle(live.m, e) ELSE translation_handle(live.m, e)
         IN  /\ yielded' = yielded \o Raw \o r.parts
             /\ live' = [live EXCEPT !.m = r.m, !.frames = @ + 1, !.pc = IF r.flow = "finish" THEN "over" ELSE @]
             /\ line' = IF r.flow = "finish" THEN Append(line, [sent |-> "close"]) ELSE line

\* A frame of Google: one that is no object, an error or broken audio fails the
\* stream.
GoogleFrame(e) ==
    LET r == IF c0.of = "transcription" THEN transcript_message(live.m, e) ELSE translation_message(live.m, e)
        raw == IF e.type = "invalid" THEN <<>> ELSE Raw
        fails == e.type \in {"invalid", "error"} \/ r.flow = "fail"
        over == ~fails /\ r.m.terminal
    IN  /\ yielded' = yielded \o raw \o (IF fails THEN <<Failure("frame")>>
                                   ELSE r.parts \o (IF over THEN finish(c0, r.m) ELSE <<>>))
        /\ live' = [live EXCEPT !.m = IF fails \/ over THEN @ ELSE r.m, !.frames = @ + 1, !.ready = @ \/ e.setup,
                                !.pc = IF fails \/ over THEN "over" ELSE @]
        /\ UNCHANGED line

Frame ==
    /\ live.pc = "open" /\ ~Cutting /\ live.frames < MaxFrames
    /\ \E e \in Frames(c0) : IF Google THEN GoogleFrame(e) ELSE OpenAiFrame(e)

\* The server closes: an OpenAI transcription just ends, a Google stream is
\* finished if the close is normal and nothing is missing.
Closed(normal) ==
    /\ live.pc = "open" /\ ~Cutting
    /\ IF ~Google
       THEN /\ yielded' = IF c0.of = "transcription" THEN yielded ELSE Append(yielded, Failure("closed"))
            /\ live' = [live EXCEPT !.pc = "over"]
       ELSE IF normal /\ can_close(c0, live.m)
       THEN yielded' = yielded \o finish(c0, live.m) /\ live' = [live EXCEPT !.pc = "over"]
       ELSE FailWith("closed")
    /\ UNCHANGED line

Broken ==
    /\ live.pc = "open" /\ ~Cutting
    /\ FailWith("transport")
    /\ UNCHANGED line

Grace ==
    /\ live.pc = "open" /\ ~Cutting /\ live.m.deadline
    /\ yielded' = yielded \o finish(c0, live.m)
    /\ live' = [live EXCEPT !.pc = "over"]
    /\ UNCHANGED line

\* The token is looked at before everything else; OpenAI is told of the end.
CutLive ==
    /\ live.pc = "open" /\ Cutting
    /\ FailWith("cancelled")
    /\ line' = IF Google THEN line ELSE Append(line, [sent |-> "close"])

CancelLive ==
    /\ ~live.cancelled /\ live.pc \in {"connecting", "connected", "open"}
    /\ live' = [live EXCEPT !.cancelled = TRUE]
    /\ UNCHANGED <<line, yielded>>

LiveNext ==
    \/ Refuse \/ Connect \/ Begin \/ Audio \/ AudioEnds \/ Frame \/ Broken \/ Grace \/ CutLive \/ CancelLive
    \/ \E normal \in BOOLEAN : Closed(normal)

-----------------------------------------------------------------------------
Texts(types, ids, upto) ==
    FlattenSeq([k \in 1..upto |-> IF yielded[k].type \in types /\ yielded[k].id \in ids THEN yielded[k].text ELSE <<>>])
Every == {yielded[k].id : k \in DOMAIN yielded}
Words(text) == SelectSeq(text, LAMBDA w : w # " ")
Sends(what) == {k \in DOMAIN line : line[k].sent = what}

\* A final repeats the deltas of its segment, or what was last heard of it.
FinalsAreTheirDeltas ==
    \A k \in DOMAIN yielded :
        yielded[k].type = "final" /\ Google =>
            LET deltas == Texts({"delta"}, {yielded[k].id}, k)
            IN  IF deltas # <<>> THEN yielded[k].text = deltas
                ELSE \E j \in 1..k : yielded[j].type = "partial" /\ yielded[j].id = yielded[k].id /\ yielded[j].text = yielded[k].text

\* The whole is all that was told piece by piece, and comes last; after a
\* finish of Google's there is no audio it does not answer for.
FinishIsTheWhole ==
    \A k \in DOMAIN yielded : yielded[k].type = "finish" =>
        /\ k = Len(yielded)
        /\ c0.of = "translation" => /\ yielded[k].text = Texts({"delta"}, Every, k)
                                    /\ yielded[k].source = Texts({"source_delta"}, Every, k)
        /\ Google => Words(yielded[k].text) = Texts({"final"}, Every, k) /\ Sends("end") # {}

\* The audio goes out in order, each chunk whole, between setup and end.
AudioInOrder ==
    /\ \A j, k \in Sends("audio") : j < k =>
        line[j].chunk < line[k].chunk \/ (line[j].chunk = line[k].chunk /\ line[j].left > line[k].left)
    /\ Sends("end") # {} => {line[k].chunk : k \in {j \in Sends("audio") : line[j].left = 0}}
                            = {k \in DOMAIN c0.chunks : Google => c0.chunks[k] > 0}
    /\ \A k \in Sends("end") : \A j \in DOMAIN line : line[j].sent \in {"audio", "end"} => j <= k
    /\ \A k \in Sends("audio") : Sends("setup") # {}

\* What a live stream tells and sends is whole and in order, and it starts with
\* the warnings of every setting it did not send.
LiveResultInOrder ==
    /\ FinalsAreTheirDeltas /\ FinishIsTheWhole /\ AudioInOrder
    /\ \A k \in DOMAIN yielded : yielded[k].type = "start" <=> k = 1
    /\ \A k \in DOMAIN yielded : yielded[k].type = "error" /\ yielded[k].id # <<"frame">> => k = Len(yielded)
    /\ ~session(c0).refused => c0.settings \subseteq session(c0).setup \cup session(c0).warned \cup Unread

\* The key is in no header and goes to no address that was not let through.
LiveCredentialsStay ==
    \A k \in Sends("hello") : /\ line[k].headers \cap {"authorization", "x-goog-api-key"} = {}
                              /\ Google => c0.place # "private" /\ line[k].headers \cap Framing = {}

\* An ended stream sends and tells no more, and one that was cut no audio and
\* nothing but the error.
LiveStopsWhenTold ==
    /\ live.pc \in {"over", "refused"} => yielded' = yielded /\ line' = line
    /\ live.cancelled /\ line' # line => Last(line').sent \in {"hello", "setup", "close"}
    /\ live.cancelled /\ yielded' # yielded => Last(yielded').type \in {"start", "error"}
=============================================================================

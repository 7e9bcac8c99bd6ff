---------------------------- MODULE RealtimeCodecs ----------------------------
(***************************************************************************)
(* The realtime models of OpenAI and Google (realtime/mod.rs, realtime.rs) *)
(* under the session that core opens on one: the token, the session        *)
(* configuration, the messages of the client and the events of the server. *)
(* The Live service of Google has no responses: its mapper makes turns of  *)
(* what comes, and keeps its state between messages.                       *)
(***************************************************************************)
EXTENDS Naturals, Sequences, SequencesExt

CONSTANTS
    RealtimeCalls,        \* the sessions asked for
    MaxExchanged          \* bound on the messages of both sides

VARIABLES
    rt,                   \* the session and the mapper of its model
    opened,               \* the requests that opened it
    spoken,               \* what the application sent, the first update included
    carried,              \* what of that went to the server
    happened              \* the events made of the frames

realtimeVars == <<rt, opened, spoken, carried, happened>>

-----------------------------------------------------------------------------
(* The configuration.                                                      *)

\* realtime_tool_definitions: tools that a provider runs are left out.
definitions(tools) == SelectSeq(tools, LAMBDA t : t.kind \in {"function", "dynamic"})

Session(settings, tools) == [settings |-> settings, tools |-> tools]
Dropped(at) == IF at = "openai" THEN {"output_transcription"} ELSE {"turn_detection", "input_format", "output_format"}

session_config(c) == Session(c.settings \ {"output_transcription"}, definitions(c.tools))

\* A tool whose schema has no OpenAPI form refuses the session; the options
\* named for Google only carry a translation.
build_session_config(c) ==
    Session(c.settings \ {"turn_detection", "input_format", "output_format"}, definitions(c.tools))
Convertible(c) == \A k \in DOMAIN c.tools : c.tools[k].kind = "hosted" \/ c.tools[k].schema

SessionOf(c) == IF c.at = "openai" THEN session_config(c) ELSE build_session_config(c)

-----------------------------------------------------------------------------
(* The server's frames into events.                                        *)

NewMapper == [turn_counter |-> 0, has_audio |-> FALSE, has_text |-> FALSE, has_transcript |-> FALSE,
              turn_closed |-> FALSE, input_audio_rate |-> <<>>]

\* What an event is of: its response, its item, its call; each at most one.
Happened(type, response, item, call) == [type |-> type, response |-> response, item |-> item, call |-> call]
Custom == Happened("Custom", <<>>, <<>>, <<>>)

begin_turn_if_closed_KeepsFlags(m) == IF m.turn_closed THEN [m EXCEPT !.turn_counter = @ + 1, !.turn_closed = FALSE] ELSE m
begin_turn_if_closed(m) == IF m.turn_closed THEN [NewMapper EXCEPT !.turn_counter = m.turn_counter + 1,
                                                                 !.input_audio_rate = m.input_audio_rate] ELSE m

OfTurn(m, type) == Happened(type, <<m.turn_counter>>, <<m.turn_counter>>, <<>>)

\* A part yields the event of its audio, decoded or empty, or of its text.
TurnEvents(m, parts) == [k \in DOMAIN parts |-> OfTurn(m, IF parts[k] = "text" THEN "TextDelta" ELSE "AudioDelta")]

\* The end of a turn closes what it opened.
Dones(m) ==
    (IF m.has_audio THEN <<OfTurn(m, "AudioDone")>> ELSE <<>>)
    \o (IF m.has_text THEN <<OfTurn(m, "TextDone")>> ELSE <<>>)
    \o (IF m.has_transcript THEN <<OfTurn(m, "AudioTranscriptDone")>> ELSE <<>>)
    \o <<OfTurn(m, "ResponseDone")>>

Input(m) == Happened("InputTranscriptionCompleted", <<>>, <<m.turn_counter>>, <<>>)

parse_server_content(m, f) ==
    LET begun == IF f.turn = <<>> THEN m ELSE begin_turn_if_closed(m)
        parts == IF f.turn = <<>> THEN <<>> ELSE f.turn[1]
        heardOf == [begun EXCEPT !.has_audio = @ \/ \E k \in DOMAIN parts : parts[k] # "text",
                                 !.has_text = @ \/ \E k \in DOMAIN parts : parts[k] = "text",
                                 !.has_transcript = @ \/ f.said]
        events == (IF f.interrupted THEN <<Happened("SpeechStarted", <<>>, <<>>, <<>>)>> ELSE <<>>)
                  \o TurnEvents(begun, parts)
                  \o (IF f.said THEN <<OfTurn(begun, "AudioTranscriptDelta")>> ELSE <<>>)
                  \o (IF f.input THEN <<Input(begun)>> ELSE <<>>)
                  \o (IF f.generated THEN <<Custom>> ELSE <<>>)
                  \o (IF f.over THEN Dones(heardOf) ELSE <<>>)
    IN  [m |-> [heardOf EXCEPT !.turn_closed = @ \/ f.over], events |-> IF events = <<>> THEN <<Custom>> ELSE events]

\* Every call comes with its arguments whole, as a delta and as done.
parse_event(m, f) ==
    CASE f.type = "setupComplete" -> [m |-> m, events |-> <<Happened("SessionCreated", <<>>, <<>>, <<>>)>>]
      [] f.type = "toolCall" ->
            LET begun == begin_turn_if_closed(m)
                At(type, call) == [OfTurn(begun, type) EXCEPT !.call = <<call>>]
            IN  [m |-> begun,
                 events |-> FlattenSeq([k \in DOMAIN f.calls |->
                     <<At("FunctionCallArgumentsDelta", f.calls[k]), At("FunctionCallArgumentsDone", f.calls[k])>>])]
      [] f.type = "serverContent" -> parse_server_content(m, f)
      [] f.type = "inputTranscription" -> [m |-> m, events |-> <<Input(m)>>]
      [] OTHER -> [m |-> m, events |-> <<Custom>>]

\* The frames of OpenAI are events already, with the ids they need.
ItemEvents == {"SpeechStarted", "SpeechStopped", "AudioCommitted", "ConversationItemAdded", "InputTranscriptionCompleted"}
ResponseEvents == {"ResponseCreated", "ResponseDone"}
PartEvents == {"OutputItemAdded", "OutputItemDone", "ContentPartAdded", "ContentPartDone", "AudioDelta", "AudioDone",
               "AudioTranscriptDelta", "AudioTranscriptDone", "TextDelta", "TextDone"}
CallEvents == {"FunctionCallArgumentsDelta", "FunctionCallArgumentsDone"}
SessionEvents == {"SessionCreated", "SessionUpdated", "Error", "Custom"}

\* An item or a response may be named inside the object the event is about.
Nested == {"ConversationItemAdded", "OutputItemAdded", "OutputItemDone"} \cup ResponseEvents
Either(inner, outer) == IF inner # <<>> THEN inner ELSE outer
server_event_Outer(f) == Happened(f.type, f.response, f.item, f.call)
server_event(f) ==
    Happened(f.type,
             IF f.type \in ResponseEvents THEN Either(f.inner, f.response) ELSE f.response,
             IF f.type \in Nested \ ResponseEvents THEN Either(f.inner, f.item) ELSE f.item, f.call)

-----------------------------------------------------------------------------
(* The client's events into messages; a message that is none is not sent.  *)

ClientEvents == {"SessionUpdate", "InputAudioAppend", "InputAudioCommit", "InputAudioClear", "TextMessage", "AudioMessage",
                 "FunctionCallOutput", "ConversationItemTruncate", "ResponseCreate", "ResponseCancel"}

\* What the Live service has no message for.
Unsendable == {"AudioMessage", "InputAudioClear", "ResponseCreate", "ResponseCancel", "ConversationItemTruncate"}

DEFAULT_INPUT_AUDIO_RATE == 16000

\* The rate of the last update that named one labels the audio.
Rated_LastUpdate(m, e) == IF e.type = "SessionUpdate" THEN [m EXCEPT !.input_audio_rate = e.rate] ELSE m
Rated(m, e) == IF e.type = "SessionUpdate" /\ e.rate # <<>> THEN [m EXCEPT !.input_audio_rate = e.rate] ELSE m

Message(n, e, rate) == [of |-> n, type |-> e.type, rate |-> rate]

client_event(n, e) == <<Message(n, e, <<>>)>>
serialize_event(m, n, e) ==
    IF e.type \in Unsendable THEN <<>>
    ELSE <<Message(n, e, IF e.type # "InputAudioAppend" THEN <<>>
                         ELSE IF m.input_audio_rate = <<>> THEN <<DEFAULT_INPUT_AUDIO_RATE>> ELSE m.input_audio_rate)>>

-----------------------------------------------------------------------------
call == rt.call
OfGoogle == call.at = "google"

RealtimeInit ==
    /\ \E c \in RealtimeCalls : rt = [call |-> c, pc |-> "new", m |-> NewMapper, frames |-> 0]
    /\ opened = <<>> /\ spoken = <<>> /\ carried = <<>> /\ happened = <<>>

\* do_create_client_secret, unless the application brought a secret: the key
\* goes with this request, in a header or in the query, and with no other.
CreateSecret ==
    /\ rt.pc = "new" /\ ~call.given /\ (OfGoogle => Convertible(call))
    /\ opened' = Append(opened, [to |-> "tokens", with |-> {"key"}, session |-> SessionOf(call)])
    /\ rt' = [rt EXCEPT !.pc = "secret"]
    /\ UNCHANGED <<spoken, carried, happened>>

\* websocket_config: the token travels as a sub-protocol or in the query.
websocket_config_Key == {"key"}
websocket_config == {"token"}

OpenSocket ==
    /\ rt.pc = "secret" \/ (rt.pc = "new" /\ call.given)
    /\ opened' = Append(opened, [to |-> "socket", with |-> websocket_config, session |-> Session({}, <<>>)])
    /\ rt' = [rt EXCEPT !.pc = "handshake"]
    /\ UNCHANGED <<spoken, carried, happened>>

\* The connection serializes an event and sends it unless it is none.
Sends(e) ==
    LET m == IF OfGoogle THEN Rated(rt.m, e) ELSE rt.m
        n == Len(spoken) + 1
    IN  /\ spoken' = Append(spoken, e)
        /\ carried' = carried \o (IF OfGoogle THEN serialize_event(m, n, e) ELSE client_event(n, e))
        /\ rt' = [rt EXCEPT !.m = m, !.pc = "open"]
        /\ UNCHANGED <<opened, happened>>

\* The first message is the configuration.
Configure ==
    /\ rt.pc = "handshake" /\ (OfGoogle => Convertible(call))
    /\ Sends([type |-> "SessionUpdate", rate |-> call.rate])

SendEvent ==
    /\ rt.pc = "open" /\ Len(spoken) + rt.frames < MaxExchanged
    /\ \E type \in ClientEvents : \E rate \in (IF type = "SessionUpdate" THEN {<<>>, <<24000>>} ELSE {<<>>}) :
        Sends([type |-> type, rate |-> rate])

\* The opening fails: a tool, a token, a handshake, a cancellation.
OpeningFails ==
    /\ rt.pc \in {"new", "secret", "handshake"}
    /\ rt' = [rt EXCEPT !.pc = "failed"]
    /\ UNCHANGED <<opened, spoken, carried, happened>>

-----------------------------------------------------------------------------
(* The frames of the servers.                                              *)

Framed(type) == [type |-> type, response |-> <<>>, item |-> <<>>, call |-> <<>>, inner |-> <<>>]
OpenAiFrames ==
    {Framed(t) : t \in SessionEvents}
    \cup {[Framed(t) EXCEPT !.item = <<"i">>] : t \in ItemEvents}
    \cup {[Framed(t) EXCEPT !.inner = <<"i">>, !.response = IF t \in PartEvents THEN <<"r">> ELSE <<>>] : t \in Nested}
    \cup {[Framed(t) EXCEPT !.response = <<"r">>] : t \in ResponseEvents}
    \cup {[Framed(t) EXCEPT !.response = <<"r">>, !.item = <<"i">>] : t \in PartEvents}
    \cup {[Framed(t) EXCEPT !.response = <<"r">>, !.item = <<"i">>, !.call = <<"c">>] : t \in CallEvents}

\* A frame of Google's: the parts of a model turn, if it has one.
Quiet == [type |-> "serverContent", interrupted |-> FALSE, turn |-> <<>>, said |-> FALSE, input |-> FALSE,
          generated |-> FALSE, over |-> FALSE, calls |-> <<>>]
GoogleFrames ==
    {Quiet, [Quiet EXCEPT !.interrupted = TRUE], [Quiet EXCEPT !.turn = <<<<"audio", "text">>>>],
     [Quiet EXCEPT !.turn = <<<<"audio">>>>, !.said = TRUE], [Quiet EXCEPT !.turn = <<<<"text">>>>, !.over = TRUE],
     [Quiet EXCEPT !.turn = <<<<>>>>], [Quiet EXCEPT !.said = TRUE], [Quiet EXCEPT !.input = TRUE],
     [Quiet EXCEPT !.generated = TRUE], [Quiet EXCEPT !.over = TRUE], [Quiet EXCEPT !.type = "goAway"],
     [Quiet EXCEPT !.type = "toolCall", !.calls = <<"c1", "c2">>], [Quiet EXCEPT !.type = "setupComplete"],
     [Quiet EXCEPT !.type = "inputTranscription"]}

HearGoogle ==
    /\ rt.pc = "open" /\ OfGoogle /\ Len(spoken) + rt.frames < MaxExchanged
    /\ \E f \in GoogleFrames : LET r == parse_event(rt.m, f)
                               IN  /\ happened' = happened \o r.events
                                   /\ rt' = [rt EXCEPT !.m = r.m, !.frames = @ + 1]
    /\ UNCHANGED <<opened, spoken, carried>>

HearOpenAi ==
    /\ rt.pc = "open" /\ ~OfGoogle /\ rt.frames = 0
    /\ \E f \in OpenAiFrames : happened' = Append(happened, server_event(f)) /\ rt' = [rt EXCEPT !.frames = @ + 1]
    /\ UNCHANGED <<opened, spoken, carried>>

RealtimeNext == CreateSecret \/ OpenSocket \/ Configure \/ SendEvent \/ OpeningFails \/ HearGoogle \/ HearOpenAi

-----------------------------------------------------------------------------
DoneOf == [AudioDelta |-> "AudioDone", TextDelta |-> "TextDone", AudioTranscriptDelta |-> "AudioTranscriptDone"]
Same(j, k) == happened[j].response = happened[k].response

\* The turns made of what Google says: what was opened is closed once the
\* response is, nothing is closed that was not opened, and what the model says
\* after the end of a response is of another one.
TurnsAreWhole ==
    OfGoogle =>
        \A k \in DOMAIN happened :
            /\ \A d \in DOMAIN DoneOf :
                /\ happened[k].type = DoneOf[d] => \E j \in 1..(k - 1) : happened[j].type = d /\ Same(j, k)
                /\ happened[k].type = d => \A l \in k..Len(happened) : happened[l].type = "ResponseDone" /\ Same(k, l)
                                            => \E j \in k..l : happened[j].type = DoneOf[d] /\ Same(j, k)
            /\ happened[k].type \in {"AudioDelta", "TextDelta"} \cup CallEvents
                => \A j \in 1..(k - 1) : ~(happened[j].type = "ResponseDone" /\ Same(j, k))

\* Every event names what it is of, wherever the frame named it.
EventsAreNamed ==
    \A k \in DOMAIN happened :
        /\ happened[k].type \in ResponseEvents \cup PartEvents \cup CallEvents => happened[k].response # <<>>
        /\ happened[k].type \in PartEvents \cup CallEvents \cup {"ConversationItemAdded"} => happened[k].item # <<>>

\* What is sent arrives in its order, but for what the service has no message
\* for, and the audio under the rate in force when it was sent.
SentAsAsked ==
    /\ [k \in DOMAIN carried |-> carried[k].of] =
        SelectSeq([n \in DOMAIN spoken |-> n], LAMBDA n : ~OfGoogle \/ spoken[n].type \notin Unsendable)
    /\ OfGoogle => \A k \in DOMAIN carried : carried[k].type = "InputAudioAppend" =>
        LET named == {n \in 1..carried[k].of : spoken[n].rate # <<>>}
        IN  carried[k].rate = IF named = {} THEN <<DEFAULT_INPUT_AUDIO_RATE>>
                           ELSE spoken[CHOOSE n \in named : \A o \in named : o <= n].rate

\* A realtime session is configured with every setting its provider has a place
\* for and with the tools it can call, and its turns and messages are whole.
RealtimeResultInOrder ==
    /\ TurnsAreWhole /\ EventsAreNamed /\ SentAsAsked
    /\ \A k \in DOMAIN opened : opened[k].to = "tokens" =>
        /\ call.settings \subseteq opened[k].session.settings \cup Dropped(call.at)
        /\ \A t \in ToSet(call.tools) : t.kind # "hosted" <=> t \in ToSet(opened[k].session.tools)
    /\ spoken # <<>> => spoken[1].type = "SessionUpdate"

\* The key opens no socket and is not sent for a session that brought a secret.
RealtimeCredentialsStay ==
    \A k \in DOMAIN opened : "key" \in opened[k].with => opened[k].to = "tokens" /\ ~call.given
=============================================================================

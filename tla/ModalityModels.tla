---------------------------- MODULE ModalityModels ----------------------------
(***************************************************************************)
(* The adapters of the models that are no language models: what the        *)
(* image, embedding, speech, transcription, reranking and video models of  *)
(* OpenAI, Google, Voyage and compatible servers send for one provider     *)
(* call, what they refuse or warn about, and what they make of the answer. *)
(***************************************************************************)
EXTENDS Naturals, Sequences, SequencesExt, FiniteSets

CONSTANTS Modal,          \* the provider calls asked for
          MaxGiven        \* bound on the items of an answer

VARIABLES
    modal,                \* the call asked for
    wire,                 \* <<>>, then <<the request or its refusal>>
    answer                \* <<>>, then <<what the adapter made of the response>>

modalVars == <<modal, wire, answer>>

\* of: the kind of call; at: the adapter; model: the model, where it matters;
\* settings: what the caller set; inputs: the values, documents or files, each
\* by the kind of its data; mask: the mask of an image; n: the images asked
\* for; options: the provider options that are checked, each by its verdict.
Fulfilled(sent, warned, parts) == [refused |-> FALSE, sent |-> sent, warned |-> warned, parts |-> parts]
Refused == [refused |-> TRUE, sent |-> {}, warned |-> {}, parts |-> <<>>]

-----------------------------------------------------------------------------
(* Images.                                                                 *)

returns_base64_by_default(model) == model \in {"gpt-image-1", "chatgpt-image-latest"}
max_images_per_call(model) == IF returns_base64_by_default(model) \/ model = "dall-e-2" THEN 10 ELSE 1

ImageOptions == {"quality", "background", "output_format", "output_compression", "user"}
image_bytes(files) == \A k \in DOMAIN files : files[k] = "bytes"

\* Without files an image is generated, with files they are edited.
OpenAiImage_OneFile(a) ==
    LET format == IF returns_base64_by_default(a.model) THEN {} ELSE {"response_format"}
        sent(more) == (a.settings \cap (ImageOptions \cup {"size"} \cup more)) \cup {"n"} \cup format
        files == SubSeq(a.inputs, 1, IF returns_base64_by_default(a.model) THEN Len(a.inputs) ELSE 1)
    IN  IF a.inputs = <<>> THEN Fulfilled(sent({"style", "moderation"}), a.settings \cap {"aspect_ratio", "seed"}, <<>>)
        ELSE IF ~image_bytes(a.inputs \o a.mask) THEN Refused
        ELSE Fulfilled(sent({"input_fidelity"}), a.settings \cap {"aspect_ratio", "seed"}, files \o a.mask)
OpenAiImage(a) ==
    LET format == IF returns_base64_by_default(a.model) THEN {} ELSE {"response_format"}
        sent(more) == (a.settings \cap (ImageOptions \cup {"size"} \cup more)) \cup {"n"} \cup format
        warned == a.settings \cap {"aspect_ratio", "seed"}
    IN  IF a.inputs = <<>> THEN Fulfilled(sent({"style", "moderation"}), warned, <<>>)
        ELSE IF (~returns_base64_by_default(a.model) /\ Len(a.inputs) # 1) \/ ~image_bytes(a.inputs \o a.mask) THEN Refused
        ELSE Fulfilled(sent({"input_fidelity"}), warned, a.inputs \o a.mask)

warn_if_deprecated_key(a) == IF "named" \in a.options THEN {"deprecated_key"} ELSE {}
\* A compatible server is sent whatever the caller put under its name.
passthrough_options(settings, known) == settings \ (known \cup {"shared"})
CompatibleImage(a) ==
    LET warned == (a.settings \cap {"aspect_ratio", "seed"}) \cup warn_if_deprecated_key(a)
        sent == passthrough_options(a.settings, {"aspect_ratio", "seed"}) \cup {"n"}
    IN  IF a.inputs = <<>> THEN Fulfilled(sent, warned, <<>>)
        ELSE IF ~image_bytes(a.inputs \o a.mask) THEN Refused
        ELSE Fulfilled(sent, warned, a.inputs \o a.mask)

\* A Gemini model draws in the answer of a language model call.
valid_search(a) == a.options \cap {"bad_search", "bad_image_config"} = {}
GoogleImage(a) ==
    IF a.model # "gemini-image" \/ a.mask # <<>> \/ a.n > 1 \/ ~valid_search(a) THEN Refused
    ELSE Fulfilled((a.settings \ {"size"}) \cup {"response_modalities"}
                \cup (a.options \cap {"search"})
                \cup (IF "aspect_ratio" \in a.settings THEN {"image_config"} ELSE {}),
              a.settings \cap {"size"}, a.inputs)

\* The tokens of a response shared out to its images, the rest to the last one.
token_share_NoRest(tokens, count, k) == tokens \div count
token_share(tokens, count, k) ==
    IF k = count THEN tokens - (tokens \div count) * (count - 1) ELSE tokens \div count

Made(items, says) == [failed |-> FALSE, items |-> items, says |-> says]
Broken == [failed |-> TRUE, items |-> <<>>, says |-> <<>>]
PlacesOf(given, of) == SelectSeq([k \in DOMAIN given |-> k], LAMBDA k : given[k] \in of)

\* given: the data of a response, "none" an item without any.
openai_images(given, tokens) ==
    LET shown == PlacesOf(given, {"image"})
    IN  IF "bad" \in ToSet(given) THEN Broken
        ELSE Made(shown, [k \in DOMAIN shown |-> token_share(tokens, Len(given), shown[k])])
compatible_images(given) ==
    IF {"bad", "none"} \cap ToSet(given) # {} THEN Broken ELSE Made(PlacesOf(given, {"image"}), <<>>)
\* Of the content of a Gemini answer only pictures that came as bytes are kept;
\* an answer that was filtered is not asked for again.
image_result(given, tokens) == Made(PlacesOf(given, {"image"}), <<tokens>>)

-----------------------------------------------------------------------------
(* Embeddings and rankings.                                                *)

MaxValues == [openai |-> 3, compatible |-> 2, google |-> 2]
\* An option that came under several keys of the provider: the last one counts.
option_keys == <<"deprecated", "shared", "named", "camel">>
merged_options_First(keys) == SelectSeq(option_keys, LAMBDA k : k \in keys)[1]
merged_options(keys) == Last(SelectSeq(option_keys, LAMBDA k : k \in keys))

OpenAiEmbedding(a) ==
    IF Len(a.inputs) > MaxValues["openai"] THEN Refused
    ELSE Fulfilled(a.settings \cap {"dimensions", "user"}, {}, a.inputs)
CompatibleEmbedding(a) ==
    IF Len(a.inputs) > MaxValues["compatible"] THEN Refused
    ELSE Fulfilled(a.settings \cap {"dimensions", "user"},
              warn_if_deprecated_key(a) \cup (IF "deprecated" \in a.options THEN {"deprecated_shared_key"} ELSE {}),
              a.inputs \o <<IF a.options = {} THEN "" ELSE merged_options(a.options)>>)

\* The parts of one value: its text and what the caller adds to it; an empty
\* text with something added is left out.
valid_part(x) == x # "bad"
parts(value, extra) == IF extra = "none" THEN <<value>> ELSE IF value = "empty" THEN <<extra>> ELSE <<value, extra>>
GoogleEmbedding_Unchecked(a) ==
    IF Len(a.inputs) > MaxValues["google"] \/ "bad_task" \in a.options \/ \E k \in DOMAIN a.content : ~valid_part(a.content[k]) THEN Refused
    ELSE Fulfilled(a.settings \cap {"dimensions", "task"}, {},
              [k \in 1..(IF a.content = <<>> \/ Len(a.inputs) <= Len(a.content) THEN Len(a.inputs) ELSE Len(a.content)) |->
                  parts(a.inputs[k], IF a.content = <<>> THEN "none" ELSE a.content[k])])
GoogleEmbedding(a) ==
    IF \/ Len(a.inputs) > MaxValues["google"] \/ "bad_task" \in a.options
       \/ \E k \in DOMAIN a.content : ~valid_part(a.content[k])
       \/ a.content # <<>> /\ Len(a.content) # Len(a.inputs)
    THEN Refused
    ELSE Fulfilled(a.settings \cap {"dimensions", "task"}, {},
              [k \in DOMAIN a.inputs |-> parts(a.inputs[k], IF a.content = <<>> THEN "none" ELSE a.content[k])])
\* One value is asked for alone, several as a batch.
google_action(a) == IF Len(a.inputs) = 1 THEN "embedContent" ELSE "batchEmbedContents"

\* Documents that are objects are sent as text.
VoyageRanking(a) ==
    Fulfilled(a.settings \cap {"top_k", "return_documents", "truncation"},
         IF "object" \in ToSet(a.inputs) THEN {"object_documents"} ELSE {}, a.inputs)

-----------------------------------------------------------------------------
(* Speech and transcription.                                               *)

OUTPUT_FORMATS == {"mp3", "wav", "pcm"}
OpenAiSpeech(a) ==
    IF "bad_speed" \in a.options THEN Refused
    ELSE Fulfilled({"response_format", "voice"} \cup (a.settings \cap {"speed", "instructions"}),
              (a.settings \cap {"language"}) \cup (IF a.format \in OUTPUT_FORMATS \cup {""} THEN {} ELSE {"output_format"}),
              <<IF a.format \in OUTPUT_FORMATS THEN a.format ELSE "mp3">>)

\* Instructions are put before the text, except where the text is a script of
\* several speakers.
GoogleSpeech_Prepends(a) ==
    IF "bad_speakers" \in a.options THEN Refused
    ELSE Fulfilled((IF "speakers" \in a.options THEN {"speakers"} ELSE {"voice"}) \cup (a.settings \cap {"instructions"}),
              (a.settings \cap {"speed", "language"})
                \cup (IF "speakers" \in a.options THEN a.settings \cap {"instructions"} ELSE {})
                \cup (IF a.format \in {"pcm", "wav", ""} THEN {} ELSE {"output_format"}),
              <<IF a.format = "pcm" THEN "pcm" ELSE "wav">>)
GoogleSpeech(a) ==
    LET several == "speakers" \in a.options
        told == a.settings \cap {"instructions"}
    IN  IF "bad_speakers" \in a.options THEN Refused
        ELSE Fulfilled((IF several THEN {"speakers"} ELSE {"voice"} \cup told),
                  (a.settings \cap {"speed", "language"}) \cup (IF several THEN told ELSE {})
                    \cup (IF a.format \in {"pcm", "wav", ""} THEN {} ELSE {"output_format"}),
                  <<IF a.format = "pcm" THEN "pcm" ELSE "wav">>)
\* The first audio of an answer, with the rate its media type names; raw samples
\* get a header that says so unless they were asked for raw.
parse_sample_rate(rate) == IF rate = 0 THEN 24 ELSE rate
add_wav_header(rate) == <<"wav", rate>>
google_audio(raw, given) ==
    LET found == PlacesOf(given, {"audio16", "audio"})
        rate == parse_sample_rate(IF found # <<>> /\ given[found[1]] = "audio16" THEN 16 ELSE 0)
    IN  IF "bad" \in ToSet(given) THEN Broken
        ELSE IF found = <<>> THEN Made(<<>>, <<"", rate>>)
        ELSE Made(<<found[1]>>, IF raw THEN <<"pcm", rate>> ELSE add_wav_header(rate))

is_realtime_model(model) == model \in {"gpt-realtime-whisper", "gemini-live"}
Diarizes(a) == a.model = "gpt-4o-transcribe-diarize"
\* The format of the response is the model's own for whisper-1, else the
\* caller's, else one with the segments the model can give.
build_form(a) ==
    LET chunking == IF "chunking_strategy" \in a.settings \/ Diarizes(a) THEN {"chunking_strategy"} ELSE {}
        format == CASE a.model = "whisper-1" -> "verbose_json"
                    [] "response_format" \in a.settings -> "own"
                    [] Diarizes(a) -> "diarized_json"
                    [] a.settings = {} -> ""
                    [] a.model = "gpt-4o-transcribe" -> "json"
                    [] OTHER -> "verbose_json"
    IN  Fulfilled((a.settings \ {"response_format", "streaming"}) \cup chunking
                \cup (IF format = "own" THEN {"response_format"} ELSE {}), {}, a.inputs \o <<format>>)
OpenAiTranscription(a) == IF is_realtime_model(a.model) THEN Refused ELSE build_form(a)

transcription_config(a) ==
    (a.settings \cap {"language_codes", "custom_vocabulary", "mode", "diarization", "word_timestamp"})
        \cup (IF a.settings \cap {"diarization", "word_timestamp"} # {} THEN {"mode"} ELSE {})
GoogleTranscription(a) ==
    IF is_realtime_model(a.model) \/ "bad_mode" \in a.options THEN Refused
    ELSE Fulfilled(transcription_config(a), {}, a.inputs)

\* Segments of the response, else its words.
openai_segments(given) ==
    LET of == IF "segments" \in ToSet(given) THEN {"segment", "speaker"} ELSE {"word"}
    IN  Made(PlacesOf(given, of), PlacesOf(given, {"speaker"}))
\* The text of all steps in turn, and each word that has both its offsets.
google_words(given) == Made(PlacesOf(given, {"text", "text_with_word"}), PlacesOf(given, {"text_with_word"}))

-----------------------------------------------------------------------------
(* Videos.                                                                 *)

\* An image a Veo model takes: inline, or in Google's own storage.
image_object(data) == IF data \in {"url", "reference"} THEN <<>> ELSE <<data>>
Ignored(files) == IF \E k \in DOMAIN files : image_object(files[k]) = <<>> THEN {"url_image"} ELSE {}
GoogleVideo(a) ==
    LET first == IF a.first # <<>> THEN a.first ELSE a.image
        referenced == a.first \o a.last = <<>> /\ a.inputs # <<>>
        seen == first \o a.last \o (IF referenced THEN a.inputs ELSE <<>>)
        own == a.settings \cap {"reference_images"}
    IN  Fulfilled((a.settings \ {"fps", "generate_audio", "poll_interval", "reference_images", "zero_seed", "zero_duration"})
                \cup {"sample_count"} \cup (IF referenced THEN {} ELSE own),
             (a.settings \cap {"fps", "generate_audio"}) \cup Ignored(seen),
             FlattenSeq([k \in DOMAIN seen |-> image_object(seen[k])]))

-----------------------------------------------------------------------------
Request(a) ==
    CASE a.of = "image" -> CASE a.at = "openai" -> OpenAiImage(a)
                             [] a.at = "google" -> GoogleImage(a)
                             [] OTHER -> CompatibleImage(a)
      [] a.of = "embedding" -> CASE a.at = "openai" -> OpenAiEmbedding(a)
                                 [] a.at = "google" -> GoogleEmbedding(a)
                                 [] OTHER -> CompatibleEmbedding(a)
      [] a.of = "rerank" -> VoyageRanking(a)
      [] a.of = "speech" -> IF a.at = "openai" THEN OpenAiSpeech(a) ELSE GoogleSpeech(a)
      [] a.of = "transcription" -> IF a.at = "openai" THEN OpenAiTranscription(a) ELSE GoogleTranscription(a)
      [] OTHER -> GoogleVideo(a)

ModalInit == modal \in Modal /\ wire = <<>> /\ answer = <<>>

Prepare ==
    /\ wire = <<>>
    /\ wire' = <<Request(modal)>>
    /\ UNCHANGED <<modal, answer>>

\* What a response may be made of.
Given == CASE modal.of = "image" -> IF modal.at = "google" THEN {"image", "url_image", "text"} ELSE {"image", "none", "bad"}
           [] modal.of = "speech" -> {"audio", "audio16", "text", "bad"}
           [] modal.of = "transcription" -> IF modal.at = "google" THEN {"text", "text_with_word", "other"}
                                            ELSE {"segments", "segment", "speaker", "word"}
           [] OTHER -> {"value"}
Read(given, tokens) ==
    CASE modal.of = "image" -> CASE modal.at = "openai" -> openai_images(given, tokens)
                                 [] modal.at = "google" -> image_result(given, tokens)
                                 [] OTHER -> compatible_images(given)
      [] modal.of = "speech" /\ modal.at = "google" -> google_audio(modal.format = "pcm", given)
      [] modal.of = "speech" -> Made(<<1>>, wire[1].parts)
      [] modal.of = "transcription" -> IF modal.at = "google" THEN google_words(given) ELSE openai_segments(given)
      [] OTHER -> Made([k \in DOMAIN given |-> k], <<>>)

Answered ==
    /\ wire # <<>> /\ ~wire[1].refused /\ answer = <<>> /\ modal.of # "video"
    /\ \E n \in 0..MaxGiven, tokens \in 3..5 : \E given \in [1..n -> Given] :
        answer' = <<[of |-> given, tokens |-> tokens, result |-> Read(given, tokens)]>>
    /\ UNCHANGED <<modal, wire>>

ModalNext == Prepare \/ Answered

-----------------------------------------------------------------------------
\* What the adapters leave out without a word. Of the shared key that compatible
\* images leave out, options_key.rs:8 says that every model of a provider reads
\* it beside its own.
Unsaid == CASE modal.of = "image" /\ modal.at = "openai" ->
                    IF modal.inputs = <<>> THEN {"input_fidelity"} ELSE {"style", "moderation"}
            [] modal.of = "image" /\ modal.at = "compatible" -> {"shared"}
            [] modal.of = "speech" /\ modal.at = "google" -> IF "speakers" \in modal.options THEN {"voice"} ELSE {}
            [] modal.of = "transcription" /\ modal.at = "openai" -> {"streaming"} \cup (IF modal.model = "whisper-1" THEN {"response_format"} ELSE {})
            [] modal.of = "video" -> {"zero_seed", "zero_duration", "poll_interval"}
                    \cup (IF modal.inputs # <<>> /\ modal.first \o modal.last = <<>> THEN {"reference_images"} ELSE {})
            [] OTHER -> {}
\* Frames of a video leave no place for references to it.
Taken == CASE modal.of = "video" -> 0 [] OTHER -> Len(modal.inputs)

\* What the caller set and is neither sent nor warned about is exactly what Unsaid
\* lists; what a warning says is ignored is not sent all the same; no input is
\* left behind; an option under the provider's own key is the one that counts;
\* an answer keeps the order of what was given, its tokens add up, and audio
\* comes in the container it is said to be in.
ModalResultInOrder ==
    /\ \A w \in ToSet(wire) : ~w.refused =>
        /\ modal.settings \ (w.sent \cup w.warned) = modal.settings \cap Unsaid
        /\ w.sent \cap w.warned = {}
        /\ Len(w.parts) >= Taken
        /\ modal.at = "compatible" /\ "camel" \in modal.options => Last(w.parts) = "camel"
    /\ \A r \in ToSet(answer) :
        LET res == r.result IN
        ~res.failed =>
            /\ \A j, k \in DOMAIN res.items : j < k => res.items[j] < res.items[k]
            /\ modal.of = "image" /\ modal.at = "openai" /\ ToSet(r.of) = {"image"} =>
                FoldLeft(LAMBDA sum, t : sum + t, 0, res.says) = r.tokens
            /\ modal.of = "speech" /\ res.items # <<>> => res.says[1] = wire[1].parts[1]
=============================================================================

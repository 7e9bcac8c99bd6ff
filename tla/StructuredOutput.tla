--------------------------- MODULE StructuredOutput ---------------------------
(* ferrin-core: the structured output of a streaming call, read while it is  *)
(* written (partial values, elements of an array) and once it is whole, and  *)
(* ferrin-schema's repair of JSON text that is cut anywhere. Text is a        *)
(* sequence of characters; the strings of a value are sequences of what       *)
(* their escapes stand for.                                                   *)
EXTENDS Naturals, Sequences, SequencesExt, FiniteSets

CONSTANTS
    OutputCalls,   \* the calls: what is asked for and what the model writes
    MaxDepth       \* how deep a value may nest (128 in the code)

VARIABLES
    reply,         \* the call, the attempt, part and character read up to
    partial,       \* the consumer of partial values: its part, text and last value
    gained         \* the consumer of elements: what it was given

outputVars == <<reply, partial, gained>>

-----------------------------------------------------------------------------
(* Values, and the text that spells them.                                   *)

Value(t, s, items, keys) == [t |-> t, s |-> s, items |-> items, keys |-> keys]
No == [ok |-> FALSE, v |-> Value("none", <<>>, <<>>, <<>>), at |-> 0]
Digits == {"0", "1", "8", "3"}
HexDigits == Digits \cup {"D", "E"}
Hex == [x \in HexDigits |-> CASE x = "0" -> 0 [] x = "1" -> 1 [] x = "3" -> 3 [] x = "8" -> 8 [] x = "D" -> 13 [] OTHER -> 14]
Literals == {<<"t", "r", "u", "e">>, <<"f", "a", "l", "s", "e">>, <<"n", "u", "l", "l">>}
Code(s) == Hex[s[1]] * 4096 + Hex[s[2]] * 256 + Hex[s[3]] * 16 + Hex[s[4]]
IsHigh(code) == code \in 55296..56319
IsLow(code) == code \in 56320..57343

Spaces(t, i) == CHOOSE j \in i..(Len(t) + 1) : (j > Len(t) \/ t[j] # " ") /\ \A k \in i..(j - 1) : t[k] = " "
At(t, i) == IF i \in DOMAIN t THEN t[i] ELSE "end"
Run(t, i, chars) == CHOOSE j \in i..(Len(t) + 1) : At(t, j) \notin chars /\ \A k \in i..(j - 1) : t[k] \in chars

\* The characters after an opening quote.
RECURSIVE ReadString(_, _, _)
ReadString(t, i, s) ==
    LET digits(k) == SubSeq(t, k, k + 3)
        are(k) == k + 3 <= Len(t) /\ \A j \in k..(k + 3) : t[j] \in HexDigits
        pair == are(i + 2) /\ At(t, i + 6) = "\\" /\ At(t, i + 7) = "u" /\ are(i + 8)
                /\ IsHigh(Code(digits(i + 2))) /\ IsLow(Code(digits(i + 8)))
        alone == are(i + 2) /\ ~IsHigh(Code(digits(i + 2))) /\ ~IsLow(Code(digits(i + 2)))
    IN  CASE At(t, i) = "end" -> No
          [] At(t, i) = "\"" -> [ok |-> TRUE, v |-> Value("str", s, <<>>, <<>>), at |-> i + 1]
          [] At(t, i) # "\\" -> ReadString(t, i + 1, Append(s, t[i]))
          [] At(t, i + 1) \in {"n", "\"", "\\"} -> ReadString(t, i + 2, Append(s, "\\" \o t[i + 1]))
          [] At(t, i + 1) = "u" /\ pair -> ReadString(t, i + 12, Append(s, "pair"))
          [] At(t, i + 1) = "u" /\ alone -> ReadString(t, i + 6, Append(s, "scalar"))
          [] OTHER -> No

AreDigits(s) == s # <<>> /\ ToSet(s) \subseteq Digits
IsWhole(s) == AreDigits(s) /\ (s[1] = "0" => Len(s) = 1)
IsFraction(s) == s = <<>> \/ (s[1] = "." /\ AreDigits(Tail(s)))
IsExponent(s) == s = <<>> \/ (s[1] = "E" /\ AreDigits(SubSeq(s, IF At(s, 2) \in {"-", "+"} THEN 3 ELSE 2, Len(s))))
IsNumber(s) ==
    \E i, j \in 0..Len(s) :
        /\ IsWhole(SubSeq(s, IF At(s, 1) = "-" THEN 2 ELSE 1, i))
        /\ IsFraction(SubSeq(s, i + 1, j)) /\ IsExponent(SubSeq(s, j + 1, Len(s)))

\* One value, and the members that follow an opening bracket.
RECURSIVE ReadValue(_, _), ReadMembers(_, _, _)
AfterValue(t, so, names, value) ==
    IF value.ok THEN ReadMembers(t, value.at, [so EXCEPT !.items = Append(@, value.v), !.keys = @ \o names]) ELSE No
AfterKey(t, so, key) ==
    IF key.ok /\ At(t, Spaces(t, key.at)) = ":"
    THEN AfterValue(t, so, <<key.v.s>>, ReadValue(t, Spaces(t, key.at) + 1)) ELSE No
ReadMember(t, i, so) ==
    IF so.t = "arr" THEN AfterValue(t, so, <<>>, ReadValue(t, i))
    ELSE AfterKey(t, so, IF At(t, i) = "\"" THEN ReadString(t, i + 1, <<>>) ELSE No)
ReadValue(t, from) ==
    LET i == Spaces(t, from)
        word == Run(t, i, {"t", "r", "u", "e", "f", "a", "l", "s", "n"})
        number == Run(t, i, Digits \cup {"-", "+", ".", "E"})
        made(k, end) == [ok |-> TRUE, v |-> Value(k, SubSeq(t, i, end - 1), <<>>, <<>>), at |-> end]
    IN  CASE At(t, i) = "\"" -> ReadString(t, i + 1, <<>>)
          [] At(t, i) = "{" -> ReadMembers(t, i + 1, Value("obj", <<>>, <<>>, <<>>))
          [] At(t, i) = "[" -> ReadMembers(t, i + 1, Value("arr", <<>>, <<>>, <<>>))
          [] SubSeq(t, i, word - 1) \in Literals -> made("lit", word)
          [] IsNumber(SubSeq(t, i, number - 1)) -> made("num", number)
          [] OTHER -> No
ReadMembers(t, from, so) ==
    LET i == Spaces(t, from)
    IN  CASE At(t, i) = (IF so.t = "obj" THEN "}" ELSE "]") -> [ok |-> TRUE, v |-> so, at |-> i + 1]
          [] so.items # <<>> /\ At(t, i) # "," -> No
          [] OTHER -> ReadMember(t, IF so.items = <<>> THEN i ELSE Spaces(t, i + 1), so)

RECURSIVE depth(_)
depth(v) == IF v.t \notin {"obj", "arr"} THEN 0
            ELSE 1 + FoldLeft(LAMBDA most, x : IF depth(x) > most THEN depth(x) ELSE most, 0, v.items)
RECURSIVE check_object_keys(_)
check_object_keys(v) == (\A i \in DOMAIN v.keys : v.keys[i] # <<"__proto__">>) /\ \A i \in DOMAIN v.items : check_object_keys(v.items[i])

\* ferrin_schema::json::parse.
Accepted(t, read) == read.ok /\ Spaces(t, read.at) = Len(t) + 1 /\ depth(read.v) <= MaxDepth /\ check_object_keys(read.v)
Checked(t, read) == IF Accepted(t, read) THEN read ELSE No
parse(t) == Checked(t, ReadValue(t, 1))

-----------------------------------------------------------------------------
(* Repair: close what is open after the last character that can stay.        *)

Top(m) == Last(m.stack)
replace_top(m, state) == [m EXCEPT !.stack = Append(Front(@), state)]
push(m, state) == [m EXCEPT !.stack = Append(@, state)]
pop(m) == [m EXCEPT !.stack = Front(@)]
keep(m, end) == [m EXCEPT !.last_valid_end = end]

\* Mutant: a minus sign stays although no digit has come.
process_value_start_Minus(m, ch, i, swap) ==
    LET started(state) == push(replace_top(keep(m, i), swap), state)
    IN  CASE ch = "\"" -> started("InsideString")
          [] ch \in {"f", "t", "n"} -> [started("InsideLiteral") EXCEPT !.literal_start = i]
          [] ch \in Digits \cup {"-"} -> started("InsideNumber")
          [] ch = "{" -> started("InsideObjectStart")
          [] ch = "[" -> started("InsideArrayStart")
          [] OTHER -> m
process_value_start(m, ch, i, swap) ==
    LET started(state) == push(replace_top(keep(m, i), swap), state)
    IN  CASE ch = "\"" -> started("InsideString")
          [] ch \in {"f", "t", "n"} -> [started("InsideLiteral") EXCEPT !.literal_start = i]
          [] ch = "-" -> push(replace_top(m, swap), "InsideNumber")
          [] ch \in Digits -> started("InsideNumber")
          [] ch = "{" -> started("InsideObjectStart")
          [] ch = "[" -> started("InsideArrayStart")
          [] OTHER -> m

process_after_object_value(m, ch, i) ==
    CASE ch = "," -> replace_top(m, "InsideObjectAfterComma") [] ch = "}" -> pop(keep(m, i)) [] OTHER -> m
process_after_array_value(m, ch, i) ==
    CASE ch = "," -> replace_top(m, "InsideArrayAfterComma") [] ch = "]" -> pop(keep(m, i)) [] OTHER -> m
\* A number or a literal ends with the character after it.
EndsValue(m, ch, i) ==
    CASE Top(m) = "InsideArrayAfterValue" /\ ch \in {",", "]"} -> process_after_array_value(m, ch, i)
      [] Top(m) = "InsideObjectAfterValue" /\ ch \in {",", "}"} -> process_after_object_value(m, ch, i)
      [] OTHER -> m

UnicodeDigit(m, ch, i) ==
    LET code == m.unicode_escape_value * 16 + Hex[ch]
        read == [m EXCEPT !.unicode_escape_value = code, !.unicode_escape_digits = @ + 1]
        whole == [pop(read) EXCEPT !.pending_high_surrogate = IsHigh(code)]
    IN  CASE ch \notin HexDigits -> m
          [] read.unicode_escape_digits # 4 -> read
          [] IsHigh(code) -> whole
          [] ~m.pending_high_surrogate \/ IsLow(code) -> keep(whole, i)
          [] OTHER -> pop(read)

step(m, ch, i, input) ==
    LET to(state) == replace_top(m, state)
        closes == pop(keep(m, i))
        state == Top(m)
        partial_literal == SubSeq(input, m.literal_start, i)
    IN  CASE state = "Root" -> process_value_start(m, ch, i, "Finish")
          [] state = "InsideObjectStart" /\ ch = "}" -> closes
          [] state \in {"InsideObjectStart", "InsideObjectAfterComma"} /\ ch = "\"" -> to("InsideObjectKey")
          [] state = "InsideObjectKey" /\ ch = "\"" -> to("InsideObjectAfterKey")
          [] state = "InsideObjectKey" /\ ch = "\\" -> push(m, "InsideObjectKeyEscape")
          [] state = "InsideObjectKeyEscape" -> pop(m)
          [] state = "InsideObjectAfterKey" /\ ch = ":" -> to("InsideObjectBeforeValue")
          [] state = "InsideObjectBeforeValue" -> process_value_start(m, ch, i, "InsideObjectAfterValue")
          [] state = "InsideObjectAfterValue" -> process_after_object_value(m, ch, i)
          [] state = "InsideString" /\ ch = "\"" -> closes
          [] state = "InsideString" /\ ch = "\\" -> push(m, "InsideStringEscape")
          [] state = "InsideString" -> keep(m, i)
          [] state \in {"InsideArrayStart", "InsideArrayAfterValue"} /\ ch = "]" -> closes
          [] state = "InsideArrayStart" ->
               process_value_start(IF ch = "-" THEN m ELSE keep(m, i), ch, i, "InsideArrayAfterValue")
          [] state = "InsideArrayAfterValue" /\ ch = "," -> to("InsideArrayAfterComma")
          [] state = "InsideArrayAfterValue" -> keep(m, i)
          [] state = "InsideArrayAfterComma" -> process_value_start(m, ch, i, "InsideArrayAfterValue")
          [] state = "InsideStringEscape" /\ ch = "u" ->
               [to("InsideStringUnicodeEscape") EXCEPT !.unicode_escape_digits = 0, !.unicode_escape_value = 0]
          [] state = "InsideStringEscape" -> pop(keep(m, i))
          [] state = "InsideStringUnicodeEscape" -> UnicodeDigit(m, ch, i)
          [] state = "InsideNumber" /\ ch \in Digits -> keep(m, i)
          [] state = "InsideNumber" /\ ch \in {"E", "-", "+", "."} -> m
          [] state = "InsideNumber" -> EndsValue(pop(m), ch, i)
          [] state = "InsideLiteral" /\ (\E word \in Literals : IsPrefix(partial_literal, word)) -> keep(m, i)
          [] state = "InsideLiteral" -> EndsValue(pop(m), ch, i)
          [] OTHER -> m

\* What closes an open state.
Closing(state, m, input) ==
    LET partial_literal == SubSeq(input, m.literal_start, Len(input))
        word == CHOOSE w \in Literals : IsPrefix(partial_literal, w)
    IN  CASE state = "InsideString" -> <<"\"">>
          [] state \in {"InsideObjectKey", "InsideObjectAfterKey", "InsideObjectAfterComma", "InsideObjectStart",
                        "InsideObjectBeforeValue", "InsideObjectAfterValue"} -> <<"}">>
          [] state \in {"InsideArrayStart", "InsideArrayAfterComma", "InsideArrayAfterValue"} -> <<"]">>
          [] state = "InsideLiteral" -> SubSeq(word, Len(partial_literal) + 1, Len(word))
          [] OTHER -> <<>>
finish(m, input) ==
    SubSeq(input, 1, m.last_valid_end) \o FlattenSeq([i \in DOMAIN m.stack |-> Closing(Reverse(m.stack)[i], m, input)])

repair(input) ==
    LET start == [stack |-> <<"Root">>, last_valid_end |-> 0, literal_start |-> 1, unicode_escape_digits |-> 0,
                  unicode_escape_value |-> 0, pending_high_surrogate |-> FALSE]
    IN  finish(FoldLeft(LAMBDA m, i : step(m, input[i], i, input), start, [i \in DOMAIN input |-> i]), input)

\* The value of text that may be cut, and whether it had to be repaired.
Read(read, repaired) == [ok |-> read.ok, v |-> read.v, repaired |-> repaired]
Mended(t, read) == IF read.ok THEN Read(read, FALSE) ELSE Read(parse(repair(t)), TRUE)
parse_partial(t) == Mended(t, parse(t))

-----------------------------------------------------------------------------
(* What a call may ask for. A schema says the type of a value and the one    *)
(* property it must have, if any.                                            *)

Valid(schema, v) ==
    /\ schema.type \in {"any", v.t}
    /\ schema.property = <<>> \/ Contains(v.keys, schema.property[1])

Elements == <<"elements">>
Result == <<"result">>
elements_of(v) ==
    LET found == IF v.t = "obj" THEN SelectSeq([i \in DOMAIN v.keys |-> [key |-> v.keys[i], item |-> v.items[i]]],
                                               LAMBDA m : m.key = Elements /\ m.item.t = "arr") ELSE <<>>
    IN  [ok |-> found # <<>>, items |-> IF found = <<>> THEN <<>> ELSE found[1].item.items]
result_of(v) ==
    LET found == IF v.t = "obj" THEN SelectSeq([i \in DOMAIN v.keys |-> [key |-> v.keys[i], item |-> v.items[i]]],
                                               LAMBDA m : m.key = Result /\ m.item.t = "str") ELSE <<>>
    IN  [ok |-> found # <<>>, s |-> IF found = <<>> THEN <<>> ELSE found[1].item.s]

validate_configuration(asked) == asked.min # <<>> /\ asked.max # <<>> => asked.min[1] <= asked.max[1]

\* What the model is asked to keep to.
wrapper_schema(asked) == [of |-> "elements", items |-> asked.schema, min |-> asked.min, max |-> asked.max]
response_format(asked) ==
    CASE asked.kind = "none" -> [of |-> "none"]
      [] asked.kind = "text" -> [of |-> "text"]
      [] asked.kind = "array" -> wrapper_schema(asked)
      [] asked.kind = "choice" -> [of |-> "result", enum |-> asked.options]
      [] OTHER -> [of |-> "schema", schema |-> asked.schema]

\* Which values keep to it.
Admits(format, v) ==
    CASE format.of \in {"none", "text"} -> TRUE
      [] format.of = "schema" -> Valid(format.schema, v)
      [] format.of = "result" -> v.keys = <<Result>> /\ v.items[1].t = "str" /\ v.items[1].s \in format.enum
      [] OTHER -> /\ v.keys = <<Elements>> /\ v.items[1].t = "arr"
                  /\ \A i \in DOMAIN v.items[1].items : Valid(format.items, v.items[1].items[i])
                  /\ format.min = <<>> \/ Len(v.items[1].items) >= format.min[1]
                  /\ format.max = <<>> \/ Len(v.items[1].items) <= format.max[1]

Text(t) == Value("str", t, <<>>, <<>>)
Array(items) == Value("arr", <<>>, items, <<>>)
Got(v) == [ok |-> TRUE, v |-> v]
Nothing == [ok |-> FALSE, v |-> Text(<<>>)]

\* The whole text of the last step, by what was asked for.
json_complete(asked, read) == IF read.ok /\ Valid(asked.schema, read.v) THEN Got(read.v) ELSE Nothing
choice_complete(asked, read) ==
    LET result == result_of(read.v)
    IN  IF read.ok /\ result.ok /\ result.s \in asked.options THEN Got(Text(result.s)) ELSE Nothing
array_complete(asked, read) ==
    LET elements == elements_of(read.v)
    IN  IF /\ read.ok /\ elements.ok
           /\ asked.min = <<>> \/ Len(elements.items) >= asked.min[1]
           /\ asked.max = <<>> \/ Len(elements.items) <= asked.max[1]
           /\ \A i \in DOMAIN elements.items : Valid(asked.schema, elements.items[i])
        THEN Got(Array(elements.items)) ELSE Nothing
read_complete(asked, read) ==
    CASE asked.kind = "array" -> array_complete(asked, read)
      [] asked.kind = "choice" -> choice_complete(asked, read)
      [] OTHER -> json_complete(asked, read)
parse_complete(asked, t) ==
    CASE asked.kind = "none" -> Got(Text(<<>>))
      [] asked.kind = "text" -> Got(Text(t))
      [] OTHER -> read_complete(asked, parse(t))

parse_output(asked, last, t) ==
    IF asked.kind = "none" THEN Got(Text(<<>>))
    ELSE IF last = "stop" \/ (last # "tool-calls" /\ t # <<>>) THEN parse_complete(asked, t) ELSE Nothing

\* Mutant: the element that is being written counts as complete.
parse_elements_Unfinished(asked, read) ==
    LET elements == elements_of(read.v)
    IN  IF read.ok /\ elements.ok THEN Got(Array(SelectSeq(elements.items, LAMBDA x : Valid(asked.schema, x)))) ELSE Nothing
\* The complete elements of text that goes on; of repaired text the last one
\* may still grow.
parse_elements(asked, read) ==
    LET elements == elements_of(read.v)
        complete == IF read.repaired /\ elements.items # <<>> THEN Front(elements.items) ELSE elements.items
    IN  IF read.ok /\ elements.ok THEN Got(Array(SelectSeq(complete, LAMBDA x : Valid(asked.schema, x)))) ELSE Nothing

\* Mutant: the first option that fits what has come.
choice_partial_First(asked, read, prefix) ==
    LET fitting == {o \in asked.options : IsPrefix(prefix, o)}
    IN  IF fitting # {} THEN Got(Text(CHOOSE o \in fitting : \A p \in fitting : Len(o) <= Len(p))) ELSE Nothing
choice_partial(asked, read, prefix) ==
    LET fitting == {o \in asked.options : IsPrefix(prefix, o)}
    IN  CASE ~read.repaired /\ prefix \in fitting -> Got(Text(prefix))
          [] read.repaired /\ Cardinality(fitting) = 1 -> Got(Text(CHOOSE o \in fitting : TRUE))
          [] OTHER -> Nothing

\* The value of text that goes on.
read_partial(asked, read) ==
    LET result == result_of(read.v)
    IN  CASE asked.kind = "array" -> parse_elements(asked, read)
          [] ~read.ok -> Nothing
          [] asked.kind = "choice" -> IF result.ok THEN choice_partial(asked, read, result.s) ELSE Nothing
          [] OTHER -> Got(read.v)
strategy_partial(asked, t) ==
    CASE asked.kind = "none" -> Nothing
      [] asked.kind = "text" -> Got(Text(t))
      [] OTHER -> read_partial(asked, parse_partial(t))

\* Whether a partial value already is one of the output's type.
typed_partial(asked, v) ==
    CASE asked.kind \in {"text", "choice"} -> TRUE
      [] asked.kind = "array" -> \A i \in DOMAIN v.items : Valid(asked.schema, v.items[i])
      [] OTHER -> Valid(asked.schema, v)

-----------------------------------------------------------------------------
(* The stream: attempts, each of text parts [id, step, doc], read in pieces. *)

Unread == [id |-> <<>>, text |-> <<>>, last |-> <<>>, typed |-> FALSE]
NoElements == [id |-> <<>>, text |-> <<>>, published |-> 0, given |-> <<>>, over |-> "no", kept |-> 0]

OutputInit ==
    /\ reply \in {[call |-> c, attempt |-> 1, part |-> 0, at |-> 0, over |-> FALSE] : c \in OutputCalls}
    /\ partial = Unread
    /\ gained = NoElements

Parts == reply.call.attempts[reply.attempt]
Part == Parts[reply.part]
Goes == ~reply.over /\ validate_configuration(reply.call.asked)

\* TextStart: the first part of an attempt is the one that is parsed.
StartPart ==
    /\ Goes /\ reply.part < Len(Parts) /\ (reply.part > 0 => reply.at = Len(Part.doc.text))
    /\ reply' = [reply EXCEPT !.part = @ + 1, !.at = 0]
    /\ partial' = [partial EXCEPT !.id = IF @ = <<>> THEN <<Parts[reply.part + 1].id>> ELSE @]
    /\ gained' = [gained EXCEPT !.id = IF @ = <<>> THEN <<Parts[reply.part + 1].id>> ELSE @]

\* PartialState::handle.
Showing(w, read) ==
    IF ~read.ok \/ w.last = <<read.v>> THEN w
    ELSE [w EXCEPT !.last = <<read.v>>, !.typed = typed_partial(reply.call.asked, read.v)]
PartialState_handle(w, id, piece) ==
    IF w.id # <<id>> THEN w
    ELSE Showing([w EXCEPT !.text = @ \o piece], strategy_partial(reply.call.asked, w.text \o piece))

\* ElementState::handle.
Giving(w, read) ==
    LET most == reply.call.asked.max
        room == IF most = <<>> THEN Len(read.v.items) ELSE most[1]
        next == SubSeq(read.v.items, w.published + 1, IF room < Len(read.v.items) THEN room ELSE Len(read.v.items))
    IN  IF ~read.ok THEN w
        ELSE [w EXCEPT !.given = @ \o next, !.published = @ + Len(next),
                       !.over = IF Len(read.v.items) > w.published + Len(next) THEN "too many" ELSE "no"]
ElementState_handle(w, id, piece) ==
    IF w.id # <<id>> \/ w.over # "no" THEN w
    ELSE Giving([w EXCEPT !.text = @ \o piece], parse_elements(reply.call.asked, parse_partial(w.text \o piece)))

TextDelta ==
    /\ Goes /\ reply.part > 0 /\ reply.at < Len(Part.doc.text)
    /\ \E n \in {1, Len(Part.doc.text) - reply.at} :
         LET piece == SubSeq(Part.doc.text, reply.at + 1, reply.at + n)
         IN  /\ reply' = [reply EXCEPT !.at = @ + n]
             /\ partial' = PartialState_handle(partial, Part.id, piece)
             /\ gained' = IF reply.call.asked.kind = "array" THEN ElementState_handle(gained, Part.id, piece) ELSE gained

\* Mutant: the elements of the new attempt are given from its first one.
ElementState_retry_Again(w) == [w EXCEPT !.id = <<>>, !.text = <<>>, !.kept = @ + Len(w.given), !.published = 0]
\* What was given stays given: the new attempt goes on after as many elements.
ElementState_retry(w) == [w EXCEPT !.id = <<>>, !.text = <<>>, !.kept = Len(w.given)]

RetryAttempt ==
    /\ Goes /\ reply.attempt < Len(reply.call.attempts) /\ reply.part > 0
    /\ reply' = [reply EXCEPT !.attempt = @ + 1, !.part = 0, !.at = 0]
    /\ partial' = Unread
    /\ gained' = ElementState_retry(gained)

\* The text the last step ends with.
FinalText == FlattenSeq([i \in DOMAIN Parts |-> IF Parts[i].step = Last(Parts).step THEN Parts[i].doc.text ELSE <<>>])
Final == parse_output(reply.call.asked, reply.call.finish, FinalText)

\* The end of the events; the element stream then waits for the completion, a
\* view does not.
EndOutput ==
    /\ Goes /\ reply.attempt = Len(reply.call.attempts) /\ reply.part = Len(Parts) /\ reply.at = Len(Part.doc.text)
    /\ reply' = [reply EXCEPT !.over = TRUE]
    /\ gained' = [gained EXCEPT !.over = IF @ # "no" THEN @ ELSE IF Final.ok \/ reply.call.view THEN "end" ELSE "failed"]
    /\ UNCHANGED partial

OutputNext == StartPart \/ TextDelta \/ RetryAttempt \/ EndOutput

-----------------------------------------------------------------------------
(* Properties.                                                              *)

\* A value grows into another: nothing that is shown of it is taken back.
RECURSIVE Grows(_, _)
Grows(p, v) ==
    /\ p.t = v.t /\ IsPrefix(p.s, v.s) /\ IsPrefix(p.keys, v.keys) /\ Len(p.items) <= Len(v.items)
    /\ p.items # <<>> => /\ IsPrefix(Front(p.items), v.items)
                         /\ Grows(Last(p.items), v.items[Len(p.items)])

ValidOf(doc) == IF doc.v = <<>> THEN <<>>
                ELSE SelectSeq(elements_of(doc.v[1]).items, LAMBDA x : Valid(reply.call.asked.schema, x))

\* What is shown of a document that is being written is a beginning of its
\* value, at whatever character the text is cut, and every prefix in which a
\* value has begun can be read; a choice that is shown is the one made.
PartialsGrow ==
    LET asked == reply.call.asked
        doc == Parts[1].doc
    IN  (reply.part = 1 /\ doc.v # <<>> /\ parse(doc.text).ok) =>
        /\ (partial.last # <<>> /\ asked.kind \in {"object", "json"}) => Grows(partial.last[1], doc.v[1])
        /\ (partial.last # <<>> /\ asked.kind = "array") => IsPrefix(partial.last[1].items, ValidOf(doc))
        /\ (partial.last # <<>> /\ asked.kind = "choice" /\ parse_complete(asked, doc.text).ok)
             => partial.last[1].s = result_of(doc.v[1]).s
        /\ (asked.kind = "json" /\ doc.v[1].t # "num" /\ Spaces(partial.text, 1) <= Len(partial.text)) => parse_partial(partial.text).ok
        /\ partial.typed => typed_partial(asked, partial.last[1])

\* Each element is given once, whole and in its place, at most as many as were
\* asked for, and those of a new attempt follow those of the one it replaces.
ElementsAreWhole ==
    LET asked == reply.call.asked
    IN  (asked.kind = "array" /\ reply.part > 0) =>
        /\ asked.max # <<>> => Len(gained.given) <= asked.max[1]
        /\ Parts[1].doc.v # <<>> =>
             LET of == ValidOf(Parts[1].doc)
             IN  /\ Len(gained.given) > gained.kept =>
                      \A i \in (gained.kept + 1)..Len(gained.given) : i <= Len(of) /\ gained.given[i] = of[i]
                 /\ (Len(Parts) = 1 /\ reply.over /\ gained.over # "too many" /\ parse(Parts[1].doc.text).ok)
                      => Len(gained.given) = IF gained.kept > Len(of) THEN gained.kept ELSE Len(of)

\* A text that keeps to what the model was asked for is an output, and the
\* last partial value of a call with one part is that output.
FormatIsAccepted ==
    LET asked == reply.call.asked
        doc == Parts[1].doc
    IN  (reply.over /\ Len(Parts) = 1 /\ doc.v # <<>> /\ parse(doc.text).ok) =>
        /\ (Admits(response_format(asked), doc.v[1]) /\ reply.call.finish # "tool-calls") => Final.ok
        /\ (Final.ok /\ asked.kind # "none") => partial.last = <<Final.v>> /\ partial.typed
        /\ (Final.ok /\ asked.kind = "array" /\ gained.kept = 0) => gained.given = Final.v.items /\ gained.over = "end"

OutputResultInOrder == PartialsGrow /\ ElementsAreWhole /\ FormatIsAccepted
===============================================================================

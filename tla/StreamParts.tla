----------------------------- MODULE StreamParts -----------------------------
(* The parts of a model's stream, the driver that turns an adapter's state   *)
(* machine into a stream of them and the check that makes an error frame     *)
(* sent before any output the failure of the request.                        *)
(* Texts and JSON are sequences of the pieces they are sent in.              *)
EXTENDS Naturals, Sequences, SequencesExt

\* A part that opens, extends or closes a text, a reasoning or a tool input;
\* or one that stands alone.
Start(k, id, v) == [at |-> "start", k |-> k, id |-> id, v |-> v]
Delta(k, id, v) == [at |-> "delta", k |-> k, id |-> id, v |-> v]
End(k, id) == [at |-> "end", k |-> k, id |-> id, v |-> <<>>]
One(k, id, v) == [at |-> "one", k |-> k, id |-> id, v |-> v]
Separator == "nl"     \* what joins the pieces of a summary that is not streamed
ErrorPart == One("error", "", <<>>)
Finish(reason) == One("finish", "", <<reason>>)

IsError(p) == p.k = "error"

\* A whole tool input at once: its start, its text and its end, then the call.
WholeCall(id, name, v) ==
    <<Start("input", id, <<>>), Delta("input", id, v), End("input", id), One("call", id, <<name>> \o v)>>

\* The tools the application declared under a name of its own.
CustomName(name) == IF name \in {"code_execution", "code_interpreter"} THEN "run_code" ELSE name

-----------------------------------------------------------------------------

NothingOpen == [text |-> <<>>, reasoning |-> <<>>, input |-> <<>>]

observe(open, p) ==
    CASE p.at = "start" -> [open EXCEPT ![p.k] = Append(@, p.id)]
      [] p.at = "end" -> [open EXCEPT ![p.k] = SelectSeq(@, LAMBDA id : id # p.id)]
      [] OTHER -> open

\* Inputs first, then reasoning, then text, each in the order they were opened.
close(open) ==
    LET ends(k) == [i \in 1..Len(open[k]) |-> End(k, open[k][i])]
    IN  ends("input") \o ends("reasoning") \o ends("text")

\* Mutant: an error is sent on with what is open left open.
enqueue_NotClosed(open, parts) ==
    LET n == SelectInSeq(parts, IsError)
    IN  [open |-> FoldLeft(observe, open, parts), parts |-> IF n = 0 THEN parts ELSE SubSeq(parts, 1, n), ended |-> n # 0]

\* What the driver sends on of the parts a machine produced, and what is open
\* then: everything up to the first error, before which what is open is closed.
enqueue(open, parts) ==
    LET n == SelectInSeq(parts, IsError)
        sent == IF n = 0 THEN parts ELSE SubSeq(parts, 1, n - 1)
        after == FoldLeft(observe, open, sent)
    IN  IF n = 0 THEN [open |-> after, parts |-> parts, ended |-> FALSE]
        ELSE [open |-> NothingOpen, parts |-> sent \o close(after) \o <<parts[n]>>, ended |-> TRUE]

-----------------------------------------------------------------------------

\* What a stream says, whatever pieces it was sent in and however its items
\* overlapped: the text and the reasoning, and which sources, whatever joins
\* and repeats them; for each id the calls, results and other parts, in order.
Said == {"call", "hosted", "result", "file", "approval", "custom", "finish"}
Gist(parts) ==
    LET said(k) == SelectSeq(FlattenSeq([i \in 1..Len(parts) |-> IF parts[i].k = k THEN parts[i].v ELSE <<>>]), LAMBDA v : v # Separator)
        others == {i \in 1..Len(parts) : parts[i].at = "one" /\ parts[i].k \in Said}
        those(key) == SelectSeq(parts, LAMBDA p : p.at = "one" /\ <<p.k, p.id>> = key)
    IN  [text |-> said("text"), reasoning |-> said("reasoning"),
         sources |-> {parts[i].v : i \in {i \in 1..Len(parts) : parts[i].k = "source"}},
         others |-> [key \in {<<parts[i].k, parts[i].id>> : i \in others} |-> those(key)]]

\* The order of what is said: a text or a reasoning that says something has its
\* place where it starts, and is one with its like before it.
Order(parts) ==
    LET says(p) == \E i \in DOMAIN parts : parts[i].k = p.k /\ parts[i].id = p.id /\ ToSet(parts[i].v) \ {Separator} # {}
        spoken(p) == p.k \in {"text", "reasoning"}
        placed == SelectSeq(parts, LAMBDA p : IF spoken(p) THEN p.at \in {"start", "one"} /\ says(p) ELSE p.at = "one" /\ p.k \in Said)
        key(p) == IF spoken(p) THEN <<p.k>> ELSE <<p.k, p.id>>
    IN  FoldLeft(LAMBDA seen, p : IF spoken(p) /\ seen # <<>> /\ Last(seen) = key(p) THEN seen ELSE Append(seen, key(p)), <<>>, placed)

\* A part has its place in what came before it: a start opens what is not
\* open, an extension and an end are of what is; a call comes once, when its
\* input is complete and before its result; the stream finishes with nothing open; and nothing
\* follows an error.
InPlace(before, p) ==
    LET open == FoldLeft(observe, NothingOpen, before)
        over == \E i \in DOMAIN before : IsError(before[i])
        known(id) == \E i \in DOMAIN before : before[i].k \in {"call", "hosted", "result"} /\ before[i].id = id
    IN  /\ ~over
        /\ p.at = "start" => ~Contains(open[p.k], p.id)
        /\ p.at \in {"delta", "end"} => Contains(open[p.k], p.id)
        /\ p.k \in {"call", "hosted"} => ~known(p.id) /\ ~Contains(open.input, p.id)
        /\ p.k \in {"finish", "error"} => open = NothingOpen

\* The deltas of a tool input spell the input of the call, when there are any.
InputSpelled(parts, id) ==
    LET deltas == FlattenSeq([i \in 1..Len(parts) |->
                     IF parts[i].at = "delta" /\ parts[i].k = "input" /\ parts[i].id = id THEN parts[i].v ELSE <<>>])
        called == SelectSeq(parts, LAMBDA p : p.k \in {"call", "hosted"} /\ p.id = id)
    IN  deltas = <<>> \/ called = <<>> \/ deltas = Tail(called[1].v)
=============================================================================

------------------------------ MODULE ChatServer ------------------------------
(* A server of the Chat Completions API or of the older Completions API, as  *)
(* the adapters for OpenAI and for compatible endpoints meet it. A chunk is  *)
(* [t, content, typed, reasoning, calls, notes, reason]; what is missing is  *)
(* an empty sequence. Units are [k, v, x]: text, reasoning, calls and notes. *)
EXTENDS StreamParts, TLC

CONSTANTS
    ChatUnits,        \* what a completion may be made of
    MaxChatUnits      \* how much of it, at most

LOCAL INSTANCE FiniteSets

Chunk == [t |-> "chunk", content |-> <<>>, typed |-> <<>>, reasoning |-> <<>>, calls |-> <<>>, notes |-> <<>>, reason |-> <<>>]

\* The delta of a call, of which anything may be missing.
Call(index, id, name, args) == [index |-> index, id |-> id, name |-> name, args |-> args]

LOCAL CallId(n) == <<"call_1", "call_2", "call_3">>[n]
LOCAL IndexOf(u, n) == IF u.x = "unindexed" THEN <<>> ELSE <<n>>

\* The deltas of the nth call. Some servers repeat its id or send an empty
\* one, some send its name late, its id never, or all of it at once.
Deltas(u, n) ==
    LET id == IF u.x = "anonymous" THEN <<>> ELSE <<CallId(n)>>
        later == CASE u.x = "repeated" -> id [] u.x = "empty id" -> <<"">> [] OTHER -> <<>>
        rest(from) == [k \in 1..(Len(u.v) - from + 1) |-> Call(IndexOf(u, n), later, <<>>, <<<<u.v[from + k - 1]>>>>)]
    IN  CASE u.x = "whole" -> <<Call(IndexOf(u, n), id, <<"tool">>, <<u.v>>)>>
          [] u.x = "late name" ->
                <<Call(IndexOf(u, n), id, <<>>, <<<<u.v[1]>>>>), Call(IndexOf(u, n), <<>>, <<"tool">>, <<<<u.v[2]>>>>)>> \o rest(3)
          [] OTHER -> <<Call(IndexOf(u, n), id, <<"tool">>, <<<<>>>>)>> \o rest(1)

\* The chunks of a unit; n is the number of the call it may be.
Chunks(u, n) ==
    CASE u.k = "text" /\ u.x = "" -> [k \in DOMAIN u.v |-> [Chunk EXCEPT !.content = <<<<u.v[k]>>>>]]
      [] u.k = "reasoning" /\ u.x = "" -> [k \in DOMAIN u.v |-> [Chunk EXCEPT !.reasoning = <<<<u.v[k]>>>>]]
      [] u.k \in {"text", "reasoning"} /\ u.x = "typed" ->
            [k \in DOMAIN u.v |-> [Chunk EXCEPT !.typed = <<[k |-> u.k, v |-> <<u.v[k]>>], [k |-> "image", v |-> <<"i">>]>>]]
      [] u.k = "call" -> [k \in DOMAIN Deltas(u, n) |-> [Chunk EXCEPT !.calls = <<Deltas(u, n)[k]>>]]
      [] u.k = "note" -> <<[Chunk EXCEPT !.notes = u.v]>>

Server == [phase |-> "begun", units |-> <<>>, sent |-> <<>>, reason |-> ""]

\* The number of a call among the calls.
LOCAL Number(units, i) == Cardinality({j \in 1..i : units[j].k = "call"})

\* Calls may be under way together when each delta names its own.
LOCAL Indexed(u) == u.k = "call" /\ u.x # "unindexed"
LOCAL May(srv, open, u) == open # {} => Indexed(u) /\ \A i \in open : Indexed(srv.units[i])

\* What it sends next: its role, a chunk of a unit, the reason it finished
\* for, and how much it used.
ServerSends(srv, units) ==
    LET n == Len(srv.units)
        chunks(i) == Chunks(srv.units[i], Number(srv.units, i))
        open == {i \in 1..n : srv.sent[i] < Len(chunks(i))}
        begun(u) == [srv EXCEPT !.units = Append(@, u), !.sent = Append(@, 1)]
        reasons == {"stop", "length", "content_filter", "function_call", "tool_calls", "unheard of"}
    IN  CASE srv.phase = "begun" ->
                {<<[Chunk EXCEPT !.content = c], [srv EXCEPT !.phase = "open"]>> : c \in {<<>>, <<<<>>>>}}
          [] srv.phase = "open" ->
                {<<chunks(i)[srv.sent[i] + 1], [srv EXCEPT !.sent[i] = @ + 1]>> : i \in open}
                \cup {<<Chunks(u, Number(begun(u).units, n + 1))[1], begun(u)>> :
                        u \in IF n < MaxChatUnits THEN {u \in units : May(srv, open, u)} ELSE {}}
                \cup IF open = {} THEN {<<[Chunk EXCEPT !.reason = <<r>>], [srv EXCEPT !.phase = "usage", !.reason = r]>> : r \in reasons} ELSE {}
          [] srv.phase = "usage" -> {<<Chunk, [srv EXCEPT !.phase = "over"]>>}
          [] OTHER -> {}

\* The same response when it is not streamed.
LOCAL Of(srv, k) == SelectSeq(srv.units, LAMBDA u : u.k = k)
Sent(srv) ==
    LET said(k) == FlattenSeq([i \in DOMAIN Of(srv, k) |-> Of(srv, k)[i].v])
        call(n) == Call(<<>>, IF Of(srv, "call")[n].x = "anonymous" THEN <<>> ELSE <<CallId(n)>>, <<"tool">>, <<Of(srv, "call")[n].v>>)
    IN  [text |-> said("text"), reasoning |-> said("reasoning"), notes |-> said("note"),
         calls |-> [n \in DOMAIN Of(srv, "call") |-> call(n)], reason |-> srv.reason]
=============================================================================

--------------------------- MODULE EventBroadcast ---------------------------
(***************************************************************************)
(* What independent views of one event stream promise, without the tee     *)
(* that keeps the promise: every view reads the same events in the same    *)
(* order, each once, and ends only after the last one; a view that goes    *)
(* away, or is never read, changes nothing for the others.                 *)
(***************************************************************************)
EXTENDS Naturals, Sequences

CONSTANTS
    Views,      \* the views of one stream
    Eager       \* those whose consumers keep polling

VARIABLES
    sent,       \* events 1..sent were produced
    finished,   \* no more will be
    received,   \* what each view has returned
    state       \* of each view: "open" | "ended" | "gone"

vars == <<sent, finished, received, state>>

Init ==
    /\ sent = 0 /\ finished = FALSE
    /\ received = [v \in Views |-> <<>>]
    /\ state = [v \in Views |-> "open"]

Produce ==
    /\ ~ finished
    /\ sent' = sent + 1
    /\ UNCHANGED <<finished, received, state>>

Finish ==
    /\ ~ finished
    /\ finished' = TRUE
    /\ UNCHANGED <<sent, received, state>>

Read(v) ==
    /\ state[v] = "open" /\ Len(received[v]) < sent
    /\ received' = [received EXCEPT ![v] = Append(@, Len(@) + 1)]
    /\ UNCHANGED <<sent, finished, state>>

End(v) ==
    /\ state[v] = "open" /\ finished /\ Len(received[v]) = sent
    /\ state' = [state EXCEPT ![v] = "ended"]
    /\ UNCHANGED <<sent, finished, received>>

Leave(v) ==
    /\ state' = [state EXCEPT ![v] = "gone"]
    /\ UNCHANGED <<sent, finished, received>>

Next == Produce \/ Finish \/ \E v \in Views : Read(v) \/ End(v) \/ Leave(v)

SafeSpec == Init /\ [][Next]_vars

Spec == SafeSpec /\ \A v \in Eager : WF_vars(Read(v) \/ End(v))
=============================================================================

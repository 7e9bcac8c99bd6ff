--------------------------- MODULE StreamPromise ---------------------------
(***************************************************************************)
(* What a streaming call promises its caller, without the pipeline that    *)
(* keeps the promise: steps are built one after another, at most one       *)
(* terminal event is seen and no step follows it, and the completion       *)
(* resolves at most once; success needs at least one step, a call that was *)
(* not cancelled, and no error or abort seen before it.                    *)
(***************************************************************************)
EXTENDS Naturals

VARIABLES
    built,      \* steps the caller has
    terminal,   \* terminal event the caller saw
    cancelled,  \* was the call cancelled or stopped?
    result      \* the completion

vars == <<built, terminal, cancelled, result>>

Terminals == {"finish", "error", "abort"}
Failures == {"cancelled", "timeout", "model", "transform", "invalid", "no_output", "dropped"}

Init == built = 0 /\ terminal = "none" /\ cancelled = FALSE /\ result = "pending"

Build ==
    /\ result = "pending" /\ terminal = "none"
    /\ built' = built + 1 /\ UNCHANGED <<terminal, cancelled, result>>

Terminate ==
    /\ result = "pending" /\ terminal = "none"
    /\ terminal' \in Terminals /\ UNCHANGED <<built, cancelled, result>>

Cancel ==
    /\ result = "pending" /\ cancelled' = TRUE /\ UNCHANGED <<built, terminal, result>>

Succeed ==
    /\ result = "pending" /\ ~cancelled /\ built > 0 /\ terminal \in {"none", "finish"}
    /\ result' = "ok" /\ UNCHANGED <<built, terminal, cancelled>>

Break ==
    /\ result = "pending"
    /\ result' \in Failures /\ UNCHANGED <<built, terminal, cancelled>>

Next == Build \/ Terminate \/ Cancel \/ Succeed \/ Break

Spec == Init /\ [][Next]_vars
=============================================================================

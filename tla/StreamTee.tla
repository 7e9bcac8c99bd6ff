----------------------------- MODULE StreamTee -----------------------------
(***************************************************************************)
(* The pull-driven fan-out of StreamTextResult: two views (any number      *)
(* here) share one upstream.  A view that finds its own queue empty polls  *)
(* the upstream itself, copies what it gets to the queues of the others    *)
(* and wakes them; the upstream holds one waker that stands for all views. *)
(* Each step is what a thread does under one lock.  A task that is woken   *)
(* while it polls is polled again.                                         *)
(*                                                                         *)
(* Events are numbered; what they carry is left out.                       *)
(***************************************************************************)
EXTENDS Naturals, Sequences

CONSTANTS
    Views,      \* the views of one tee
    Eager,      \* those whose consumers keep polling
    MaxEvents   \* bound: events of the upstream

ASSUME EagerAssumption == Eager \subseteq Views
ASSUME MaxEventsAssumption == MaxEvents \in Nat

VARIABLES
    sent, finished,  \* the upstream: events ready so far, and its end
    armed,           \* it holds the waker of the views
    pulled,          \* events taken from it
    upstream,        \* Shared::upstream is there
    queues,          \* Shared::queues, of every view that is there
    there,           \* the keys of queues
    wakers,          \* the keys of WakeViews
    task,            \* of each view: "ready", "polling", "asleep", "waking",
                     \* "ending", "ended", "leaving", "gone"
    woken,           \* tasks woken since their poll began
    received         \* what each view has returned

source == <<sent, finished>>
shared == <<pulled, upstream, queues, there>>
vars == <<source, armed, shared, wakers, task, woken, received>>

Init ==
    /\ sent = 0 /\ finished = FALSE /\ armed = FALSE
    /\ pulled = 0 /\ upstream = TRUE
    /\ queues = [v \in Views |-> <<>>] /\ there = Views
    /\ wakers = {} /\ woken = {}
    /\ task = [v \in Views |-> "ready"]
    /\ received = [v \in Views |-> <<>>]

-----------------------------------------------------------------------------
Roused_One == IF wakers = {} THEN {} ELSE {CHOOSE v \in wakers : TRUE}

(* Whom WakeViews::wake_by_ref wakes.                                      *)
Roused == wakers

(* The upstream.  An event, or the end, wakes who polled for it: the waker *)
(* it holds stands for all views.                                          *)
Rouse == woken' = (IF armed THEN woken \union Roused ELSE woken) /\ armed' = FALSE

Produce ==
    /\ ~ finished /\ sent < MaxEvents
    /\ sent' = sent + 1
    /\ Rouse
    /\ UNCHANGED <<finished, shared, wakers, task, received>>

Finish ==
    /\ ~ finished
    /\ finished' = TRUE
    /\ Rouse
    /\ UNCHANGED <<sent, shared, wakers, task, received>>

-----------------------------------------------------------------------------
Go(v, place) == task' = [task EXCEPT ![v] = place]

Deliver(v, event) == received' = [received EXCEPT ![v] = Append(@, event)]

(* poll_next begins with the view's waker ...                              *)
Begin(v) ==
    /\ task[v] = "ready" \/ (task[v] = "asleep" /\ v \in woken)
    /\ wakers' = wakers \union {v}
    /\ woken' = woken \ {v}
    /\ Go(v, "polling")
    /\ UNCHANGED <<source, armed, shared, received>>

(* ... an event in its own queue comes first ...                           *)
Pop(v) ==
    /\ task[v] = "polling" /\ queues[v] # <<>>
    /\ queues' = [queues EXCEPT ![v] = Tail(@)]
    /\ Deliver(v, Head(queues[v]))
    /\ Go(v, "ready")
    /\ UNCHANGED <<source, armed, pulled, upstream, there, wakers, woken>>

(* ... an upstream that has ended is not polled again ...                  *)
PollEnded(v) ==
    /\ task[v] = "polling" /\ queues[v] = <<>> /\ ~ upstream
    /\ Go(v, "ended")
    /\ UNCHANGED <<source, armed, shared, wakers, woken, received>>

Copies_ToAll(v) ==
    [u \in Views |-> IF u \in there THEN Append(queues[u], pulled + 1) ELSE queues[u]]

(* The queues of the other views get a copy.                               *)
Copies(v) ==
    [u \in Views |-> IF u \in there \ {v} THEN Append(queues[u], pulled + 1)
                     ELSE queues[u]]

(* ... else it is polled with the waker of all views, under the lock ...   *)
PollEvent(v) ==
    /\ task[v] = "polling" /\ queues[v] = <<>> /\ upstream
    /\ pulled < sent
    /\ pulled' = pulled + 1
    /\ queues' = Copies(v)
    /\ Deliver(v, pulled + 1)
    /\ Go(v, "waking")
    /\ UNCHANGED <<source, armed, upstream, there, wakers, woken>>

PollEnd(v) ==
    /\ task[v] = "polling" /\ queues[v] = <<>> /\ upstream
    /\ pulled = sent /\ finished
    /\ upstream' = FALSE
    /\ Go(v, "ending")
    /\ UNCHANGED <<source, armed, pulled, queues, there, wakers, woken, received>>

PollPending(v) ==
    /\ task[v] = "polling" /\ queues[v] = <<>> /\ upstream
    /\ pulled = sent /\ ~ finished
    /\ armed' = TRUE
    /\ Go(v, "asleep")
    /\ UNCHANGED <<source, shared, wakers, woken, received>>

(* ... and after the lock is released the others learn of it.              *)
Wake(v) ==
    /\ task[v] \in {"waking", "ending"}
    /\ woken' = woken \union Roused
    /\ Go(v, IF task[v] = "waking" THEN "ready" ELSE "ended")
    /\ UNCHANGED <<source, armed, shared, wakers, received>>

(* The drop of a view, under two locks: its waker, then its queue.         *)
Drop(v) ==
    /\ task[v] \in {"ready", "asleep", "ended"}
    /\ wakers' = wakers \ {v}
    /\ Go(v, "leaving")
    /\ UNCHANGED <<source, armed, shared, woken, received>>

Forget(v) ==
    /\ task[v] = "leaving"
    /\ there' = there \ {v}
    /\ queues' = [queues EXCEPT ![v] = <<>>]
    /\ Go(v, "gone")
    /\ UNCHANGED <<source, armed, pulled, upstream, wakers, woken, received>>

-----------------------------------------------------------------------------
Poll(v) == PollEnded(v) \/ PollEvent(v) \/ PollEnd(v) \/ PollPending(v)
Step(v) == Pop(v) \/ Poll(v) \/ Wake(v)

Next ==
    \/ Produce \/ Finish
    \/ \E v \in Views : Begin(v) \/ Step(v) \/ Drop(v) \/ Forget(v)

Spec == Init /\ [][Next]_vars

(* A poll that has begun ends, and the consumer of an eager view polls it  *)
(* again whenever its task is ready or was woken.                          *)
FairSpec ==
    /\ Spec
    /\ \A v \in Views : WF_vars(Step(v))
    /\ \A v \in Eager : WF_vars(Begin(v))

-----------------------------------------------------------------------------
Event == 1..MaxEvents
Tasks == {"ready", "polling", "asleep", "waking", "ending", "ended", "leaving", "gone"}

(* Types; nothing is kept for a view that is not there any more.           *)
TypeOK ==
    /\ sent \in 0..MaxEvents /\ finished \in BOOLEAN /\ armed \in BOOLEAN
    /\ pulled \in 0..MaxEvents /\ upstream \in BOOLEAN
    /\ queues \in [Views -> Seq(Event)] /\ there \in SUBSET Views
    /\ wakers \in SUBSET Views /\ woken \in SUBSET Views
    /\ task \in [Views -> Tasks]
    /\ received \in [Views -> Seq(Event)]
    /\ \A v \in Views \ there : queues[v] = <<>>

(* No wake-up is lost: a view sleeps, without being woken, only while it   *)
(* has nothing to read and the upstream will wake it, whichever view       *)
(* polled the upstream last (the shared waker of tee.rs:65).               *)
NoLostWakeup ==
    \A v \in Views : task[v] = "asleep" /\ v \notin woken =>
        /\ v \in wakers /\ armed /\ upstream
        /\ queues[v] = <<>> /\ pulled = sent /\ ~ finished

(* The views keep the promise of EventBroadcast.                           *)
State(v) ==
    CASE task[v] = "ended" -> "ended"
      [] task[v] \in {"leaving", "gone"} -> "gone"
      [] OTHER -> "open"
Promise == INSTANCE EventBroadcast WITH state <- [v \in Views |-> State(v)]
KeepsBroadcast == Promise!Spec
=============================================================================

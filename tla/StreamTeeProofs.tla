-------------------------- MODULE StreamTeeProofs --------------------------
(***************************************************************************)
(* Theorems about StreamTee for every set of views and every number of     *)
(* events.                                                                 *)
(***************************************************************************)
EXTENDS StreamTee, SequenceTheorems, TLAPS

LEMMA TypeInit == Init => TypeOK
  <1>1. <<>> \in Seq(Event)
    BY EmptySeq
  <1>2. 0 \in 0..MaxEvents
    BY MaxEventsAssumption
  <1>3. QED
    BY <1>1, <1>2 DEF Init, TypeOK, Tasks

\* What a copy does to the queues: a view that is gone gets none.
LEMMA Copying ==
  ASSUME TypeOK, NEW v \in Views, pulled + 1 \in Event
  PROVE  /\ Copies(v) \in [Views -> Seq(Event)]
         /\ \A u \in Views \ there : Copies(v)[u] = <<>>
         /\ Copies(v)[v] = queues[v]
         /\ \A u \in there \ {v} :
              /\ Len(Copies(v)[u]) = Len(queues[u]) + 1
              /\ \A j \in 1..Len(queues[u]) : Copies(v)[u][j] = queues[u][j]
              /\ Copies(v)[u][Len(queues[u]) + 1] = pulled + 1
  <1>1. \A u \in Views : /\ queues[u] \in Seq(Event)
                         /\ Append(queues[u], pulled + 1) \in Seq(Event)
    BY DEF TypeOK
  <1>2. Copies(v) \in [Views -> Seq(Event)]
    BY <1>1 DEF Copies
  <1>3. (\A u \in Views \ there : Copies(v)[u] = <<>>) /\ Copies(v)[v] = queues[v]
    BY DEF Copies, TypeOK
  <1>4. ASSUME NEW u \in there \ {v}
        PROVE  /\ Len(Copies(v)[u]) = Len(queues[u]) + 1
               /\ \A j \in 1..Len(queues[u]) : Copies(v)[u][j] = queues[u][j]
               /\ Copies(v)[u][Len(queues[u]) + 1] = pulled + 1
    <2>1. u \in Views
      BY DEF TypeOK
    <2>2. Copies(v)[u] = Append(queues[u], pulled + 1)
      BY <2>1 DEF Copies
    <2>3. QED
      BY <1>1, <2>1, <2>2, AppendProperties
  <1>5. QED
    BY <1>2, <1>3, <1>4

\* The arithmetic of an event that moves from a queue to a record, or is new.
LEMMA Moving ==
  ASSUME NEW a \in Nat, NEW b \in Nat, NEW j \in Nat
  PROVE  /\ (a + 1) + (b - 1) = a + b
         /\ a + (b + 1) = (a + b) + 1
         /\ a + (j + 1) = (a + 1) + j
  OBVIOUS

\* What taking the next event does to a queue.
LEMMA Popping ==
  ASSUME NEW s \in Seq(Event), s # <<>>
  PROVE  /\ Head(s) = s[1] /\ Head(s) \in Event
         /\ Tail(s) \in Seq(Event)
         /\ Len(s) \in Nat \ {0} /\ Len(Tail(s)) = Len(s) - 1
         /\ \A j \in 1..Len(Tail(s)) : Tail(s)[j] = s[j + 1]
  BY HeadTailProperties, EmptySeq

\* What returning an event adds to a view's record.
LEMMA Delivering ==
  ASSUME TypeOK, NEW v \in Views, NEW e \in Event, Deliver(v, e)
  PROVE  /\ received' \in [Views -> Seq(Event)]
         /\ received' = [received EXCEPT ![v] = Append(received[v], e)]
         /\ Len(received'[v]) = Len(received[v]) + 1
         /\ \A u \in Views \ {v} : received'[u] = received[u]
  BY AppendProperties DEF TypeOK, Deliver

LEMMA TypeStep == TypeOK /\ [Next]_vars => TypeOK'
  <1> SUFFICES ASSUME TypeOK, [Next]_vars PROVE TypeOK'
    OBVIOUS
  <1> USE DEF shared, source, Go, Tasks
  <1>1. CASE Produce
    <2>1. sent' \in 0..MaxEvents
      BY <1>1, MaxEventsAssumption DEF Produce, TypeOK
    <2>2. woken' \in SUBSET Views /\ armed' \in BOOLEAN
      BY <1>1 DEF Produce, Rouse, Roused, TypeOK
    <2>3. QED
      BY <1>1, <2>1, <2>2 DEF Produce, TypeOK
  <1>2. CASE Finish
    BY <1>2 DEF Finish, Rouse, Roused, TypeOK
  <1>3. ASSUME NEW v \in Views, Begin(v) PROVE TypeOK'
    BY <1>3 DEF Begin, TypeOK
  <1>4. ASSUME NEW v \in Views, Pop(v) PROVE TypeOK'
    <2>1. queues[v] \in Seq(Event) /\ queues[v] # <<>>
      BY <1>4 DEF Pop, TypeOK
    <2>2. Tail(queues[v]) \in Seq(Event) /\ Head(queues[v]) \in Event
      BY <2>1, Popping
    <2>3. received' \in [Views -> Seq(Event)]
      BY <1>4, <2>2, Delivering DEF Pop
    <2>4. QED
      BY <1>4, <2>2, <2>3 DEF Pop, TypeOK
  <1>5. ASSUME NEW v \in Views, PollEnded(v) PROVE TypeOK'
    BY <1>5 DEF PollEnded, TypeOK
  <1>6. ASSUME NEW v \in Views, PollEvent(v) PROVE TypeOK'
    <2>1. pulled + 1 \in Event
      BY <1>6, MaxEventsAssumption DEF PollEvent, TypeOK, Event
    <2>2. received' \in [Views -> Seq(Event)]
      BY <1>6, <2>1, Delivering DEF PollEvent
    <2>3. /\ queues' \in [Views -> Seq(Event)]
          /\ \A u \in Views \ there' : queues'[u] = <<>>
      BY <1>6, <2>1, Copying DEF PollEvent
    <2>4. QED
      <3>1. pulled' \in 0..MaxEvents
        BY <1>6, <2>1, MaxEventsAssumption DEF PollEvent, Event
      <3>2. QED
        BY <1>6, <2>2, <2>3, <3>1 DEF PollEvent, TypeOK
  <1>7. ASSUME NEW v \in Views, PollEnd(v) PROVE TypeOK'
    BY <1>7 DEF PollEnd, TypeOK
  <1>8. ASSUME NEW v \in Views, PollPending(v) PROVE TypeOK'
    BY <1>8 DEF PollPending, TypeOK
  <1>9. ASSUME NEW v \in Views, Wake(v) PROVE TypeOK'
    BY <1>9 DEF Wake, Roused, TypeOK
  <1>10. ASSUME NEW v \in Views, Drop(v) PROVE TypeOK'
    BY <1>10 DEF Drop, TypeOK
  <1>11. ASSUME NEW v \in Views, Forget(v) PROVE TypeOK'
    BY <1>11, EmptySeq DEF Forget, TypeOK
  <1>12. CASE UNCHANGED vars
    BY <1>12 DEF vars, TypeOK
  <1>13. QED
    BY <1>1, <1>2, <1>3, <1>4, <1>5, <1>6, <1>7, <1>8, <1>9, <1>10, <1>11, <1>12
    DEF Next, Step, Poll

\* Every reachable state is well typed, and nothing is queued for a view
\* that was dropped (Drop for View, tee.rs:88-93).
THEOREM TypeCorrect == Spec => []TypeOK
  BY TypeInit, TypeStep, PTL DEF Spec

-----------------------------------------------------------------------------
(* Wake-ups.  A view that polls, or that went to sleep, left its waker     *)
(* first (tee.rs:53); the rest is the property itself.                     *)

Enrolled == \A v \in Views : task[v] \in {"polling", "asleep"} => v \in wakers

WakeInv == Enrolled /\ NoLostWakeup

LEMMA WakeInit == Init => WakeInv
  BY DEF Init, WakeInv, Enrolled, NoLostWakeup

LEMMA WakeStep == TypeOK /\ WakeInv /\ [Next]_vars => WakeInv'
  <1> SUFFICES ASSUME TypeOK, WakeInv, [Next]_vars PROVE WakeInv'
    OBVIOUS
  <1> USE DEF shared, source, Go, TypeOK, WakeInv, Enrolled, NoLostWakeup
  <1>1. CASE Produce
    BY <1>1 DEF Produce, Rouse, Roused
  <1>2. CASE Finish
    BY <1>2 DEF Finish, Rouse, Roused
  <1>3. ASSUME NEW v \in Views, Begin(v) PROVE WakeInv'
    BY <1>3 DEF Begin
  <1>4. ASSUME NEW v \in Views, Pop(v) PROVE WakeInv'
    BY <1>4 DEF Pop
  <1>5. ASSUME NEW v \in Views, PollEnded(v) PROVE WakeInv'
    BY <1>5 DEF PollEnded
  <1>6. ASSUME NEW v \in Views, PollEvent(v) PROVE WakeInv'
    BY <1>6 DEF PollEvent
  <1>7. ASSUME NEW v \in Views, PollEnd(v) PROVE WakeInv'
    BY <1>7 DEF PollEnd
  <1>8. ASSUME NEW v \in Views, PollPending(v) PROVE WakeInv'
    BY <1>8 DEF PollPending
  <1>9. ASSUME NEW v \in Views, Wake(v) PROVE WakeInv'
    BY <1>9 DEF Wake, Roused
  <1>10. ASSUME NEW v \in Views, Drop(v) PROVE WakeInv'
    BY <1>10 DEF Drop
  <1>11. ASSUME NEW v \in Views, Forget(v) PROVE WakeInv'
    BY <1>11 DEF Forget
  <1>12. CASE UNCHANGED vars
    BY <1>12 DEF vars
  <1>13. QED
    BY <1>1, <1>2, <1>3, <1>4, <1>5, <1>6, <1>7, <1>8, <1>9, <1>10, <1>11, <1>12
    DEF Next, Step, Poll

\* No view sleeps with an event to read, whichever views were dropped and
\* whichever polled the upstream last (View::poll_next, tee.rs:52-86).
THEOREM NoWakeupIsLost == Spec => []NoLostWakeup
  <1>1. WakeInv => NoLostWakeup
    BY DEF WakeInv
  <1>2. QED
    BY <1>1, TypeCorrect, WakeInit, WakeStep, PTL DEF Spec

-----------------------------------------------------------------------------
(* Order.  What a view that is still there has returned, followed by its   *)
(* queue, is exactly what was pulled from the upstream.                    *)

Present == \A v \in Views : v \in there <=> task[v] # "gone"

Supply ==
  /\ pulled \leq sent
  /\ upstream \/ (finished /\ pulled = sent)

Numbered ==
  \A v \in there :
    /\ Len(received[v]) + Len(queues[v]) = pulled
    /\ \A j \in 1..Len(queues[v]) : queues[v][j] = Len(received[v]) + j

Ending == \A v \in Views : task[v] = "ending" => ~upstream /\ queues[v] = <<>>

OrderInv == Present /\ Supply /\ Numbered /\ Ending

LEMMA OrderInit == Init => OrderInv
  BY EmptySeq DEF Init, OrderInv, Present, Supply, Numbered, Ending

\* A step that leaves the queues and what was pulled and returned alone.
LEMMA OrderKept ==
  ASSUME OrderInv, UNCHANGED <<pulled, queues, there, received>>, Present', Supply', Ending'
  PROVE  OrderInv'
  BY DEF OrderInv, Numbered

LEMMA OrderPop ==
  ASSUME TypeOK, OrderInv, NEW v \in Views, Pop(v)
  PROVE  OrderInv' /\ Promise!Read(v)
  <1>1. queues[v] \in Seq(Event) /\ queues[v] # <<>>
    BY DEF Pop, TypeOK
  <1>2. /\ Head(queues[v]) = queues[v][1] /\ Head(queues[v]) \in Event
        /\ Tail(queues[v]) \in Seq(Event)
        /\ Len(queues[v]) \in Nat \ {0} /\ Len(Tail(queues[v])) = Len(queues[v]) - 1
        /\ \A j \in 1..Len(Tail(queues[v])) : Tail(queues[v])[j] = queues[v][j + 1]
    BY <1>1, Popping
  <1>3. /\ received' = [received EXCEPT ![v] = Append(received[v], Head(queues[v]))]
        /\ Len(received'[v]) = Len(received[v]) + 1
        /\ \A u \in Views \ {v} : received'[u] = received[u]
    BY <1>2, Delivering DEF Pop
  <1>4. v \in there /\ there \subseteq Views
    BY <1>1 DEF TypeOK
  <1>5. \A u \in Views : Len(received[u]) \in Nat
    BY LenProperties DEF TypeOK
  <1>6. /\ Len(received[v]) + Len(queues[v]) = pulled
        /\ Head(queues[v]) = Len(received[v]) + 1
    <2>1. 1 \in 1..Len(queues[v])
      BY <1>2
    <2>2. QED
      BY <1>2, <1>4, <2>1 DEF OrderInv, Numbered
  <1>7. Present' /\ Supply' /\ Ending'
    BY DEF Pop, Go, source, TypeOK, OrderInv, Present, Supply, Ending
  <1>8. Numbered'
    <2> SUFFICES ASSUME NEW u \in there
                 PROVE  /\ Len(received'[u]) + Len(queues'[u]) = pulled
                        /\ \A j \in 1..Len(queues'[u]) :
                             queues'[u][j] = Len(received'[u]) + j
      BY DEF Pop, Numbered
    <2>1. CASE u = v
      <3>1. queues'[v] = Tail(queues[v])
        BY DEF Pop, TypeOK
      <3>2. Len(received'[v]) + Len(queues'[v]) = pulled
        <4>1. Len(queues'[v]) = Len(queues[v]) - 1
          BY <1>2, <3>1
        <4>2. /\ Len(received[v]) \in Nat /\ Len(queues[v]) \in Nat
              /\ Len(received'[v]) = Len(received[v]) + 1
              /\ Len(received[v]) + Len(queues[v]) = pulled
          BY <1>2, <1>3, <1>5, <1>6
        <4>3. QED
          <5>1. (Len(received[v]) + 1) + (Len(queues[v]) - 1)
                  = Len(received[v]) + Len(queues[v])
            BY <4>2, Moving
          <5>2. QED
            BY <4>1, <4>2, <5>1
      <3>3. ASSUME NEW j \in 1..Len(Tail(queues[v]))
            PROVE  Tail(queues[v])[j] = Len(received[v]) + 1 + j
        <4>1. j + 1 \in 1..Len(queues[v])
          BY <1>2
        <4>2. queues[v][j + 1] = Len(received[v]) + (j + 1)
          BY <1>4, <4>1 DEF OrderInv, Numbered
        <4>3. QED
          <5>1. j \in Nat /\ Len(received[v]) \in Nat
            BY <1>2, <1>5
          <5>2. Len(received[v]) + (j + 1) = (Len(received[v]) + 1) + j
            BY <5>1, Moving
          <5>3. Tail(queues[v])[j] = queues[v][j + 1]
            BY <1>2
          <5>4. QED
            BY <4>2, <5>2, <5>3
      <3>4. QED
        BY <1>3, <2>1, <3>1, <3>2, <3>3
    <2>2. CASE u # v
      BY <1>3, <1>4, <2>2 DEF Pop, TypeOK, OrderInv, Numbered
    <2>3. QED
      BY <2>1, <2>2
  <1>9. Promise!Read(v)
    <2>1. Len(received[v]) < sent
      BY <1>2, <1>5, <1>6 DEF OrderInv, Supply, TypeOK
    <2>2. State(v) = "open" /\ \A u \in Views : State(u)' = State(u)
      BY DEF State, Pop, Go, TypeOK
    <2>3. QED
      BY <1>3, <1>6, <2>1, <2>2 DEF Promise!Read, Pop, source, TypeOK
  <1>10. QED
    BY <1>7, <1>8, <1>9 DEF OrderInv

LEMMA OrderPollEvent ==
  ASSUME TypeOK, OrderInv, NEW v \in Views, PollEvent(v)
  PROVE  OrderInv' /\ Promise!Read(v)
  <1>1. pulled + 1 \in Event /\ pulled \in Nat
    BY MaxEventsAssumption DEF PollEvent, TypeOK, Event
  <1>2. /\ received' = [received EXCEPT ![v] = Append(received[v], pulled + 1)]
        /\ Len(received'[v]) = Len(received[v]) + 1
        /\ \A u \in Views \ {v} : received'[u] = received[u]
    BY <1>1, Delivering DEF PollEvent
  <1>3. v \in there /\ there \subseteq Views
    BY DEF PollEvent, TypeOK, OrderInv, Present
  <1>4. \A u \in Views : Len(received[u]) \in Nat /\ Len(queues[u]) \in Nat
    BY LenProperties DEF TypeOK
  <1>5. Len(received[v]) = pulled
    <2>1. Len(queues[v]) = 0 /\ Len(received[v]) + Len(queues[v]) = pulled
      BY <1>3, EmptySeq DEF PollEvent, OrderInv, Numbered
    <2>2. QED
      BY <1>1, <1>4, <2>1
  <1>6. Present' /\ Supply'
    BY <1>1 DEF PollEvent, Go, source, TypeOK, OrderInv, Present, Supply
  <1>7. Ending'
    BY DEF PollEvent, Go, TypeOK, OrderInv, Ending
  <1>8. Numbered'
    <2> SUFFICES ASSUME NEW u \in there
                 PROVE  /\ Len(received'[u]) + Len(queues'[u]) = pulled + 1
                        /\ \A j \in 1..Len(queues'[u]) :
                             queues'[u][j] = Len(received'[u]) + j
      BY DEF PollEvent, Numbered
    <2>1. CASE u = v
      <3>1. queues'[v] = <<>>
        BY <1>1, Copying DEF PollEvent
      <3>2. QED
        BY <1>1, <1>2, <1>5, <2>1, <3>1, EmptySeq
    <2>2. CASE u # v
      <3>1. /\ Len(queues'[u]) = Len(queues[u]) + 1
            /\ \A j \in 1..Len(queues[u]) : queues'[u][j] = queues[u][j]
            /\ queues'[u][Len(queues[u]) + 1] = pulled + 1
        BY <1>1, <2>2, Copying DEF PollEvent
      <3>2. received'[u] = received[u] /\ u \in Views
        BY <1>2, <1>3, <2>2
      <3>3. /\ Len(received[u]) + Len(queues[u]) = pulled
            /\ \A j \in 1..Len(queues[u]) : queues[u][j] = Len(received[u]) + j
        BY DEF OrderInv, Numbered
      <3>4. QED
        <4>1. Len(received[u]) \in Nat /\ Len(queues[u]) \in Nat
          BY <1>4, <3>2
        <4>2. ASSUME NEW j \in 1..Len(queues'[u])
              PROVE  queues'[u][j] = Len(received[u]) + j
          <5>1. j \in 1..Len(queues[u]) \/ j = Len(queues[u]) + 1
            BY <3>1, <4>1
          <5>2. QED
            <6>1. Len(received[u]) + (Len(queues[u]) + 1)
                    = (Len(received[u]) + Len(queues[u])) + 1
              BY <4>1, Moving
            <6>2. QED
              BY <3>1, <3>3, <5>1, <6>1
        <4>3. Len(received'[u]) + Len(queues'[u]) = pulled + 1
          <5>1. Len(received[u]) + (Len(queues[u]) + 1)
                  = (Len(received[u]) + Len(queues[u])) + 1
            BY <4>1, Moving
          <5>2. QED
            BY <3>1, <3>2, <3>3, <5>1
        <4>4. QED
          BY <3>2, <4>2, <4>3
    <2>3. QED
      BY <2>1, <2>2
  <1>9. Promise!Read(v)
    <2>1. State(v) = "open" /\ \A u \in Views : State(u)' = State(u)
      BY DEF State, PollEvent, Go, TypeOK
    <2>2. QED
      BY <1>1, <1>2, <1>5, <2>1 DEF Promise!Read, PollEvent, source, TypeOK
  <1>10. QED
    BY <1>6, <1>7, <1>8, <1>9 DEF OrderInv

\* The other steps of a view keep the invariant and read nothing.
LEMMA OrderRest ==
  ASSUME TypeOK, OrderInv, NEW v \in Views,
         \/ Begin(v) \/ PollEnded(v) \/ PollEnd(v) \/ PollPending(v)
         \/ Wake(v) \/ Drop(v) \/ Forget(v)
  PROVE  OrderInv'
  <1> USE DEF shared, source, Go, TypeOK
  <1>1. CASE Begin(v)
    BY <1>1, OrderKept DEF Begin, OrderInv, Present, Supply, Ending
  <1>2. CASE PollEnded(v)
    BY <1>2, OrderKept DEF PollEnded, OrderInv, Present, Supply, Ending
  <1>3. CASE PollEnd(v)
    BY <1>3, OrderKept DEF PollEnd, OrderInv, Present, Supply, Ending
  <1>4. CASE PollPending(v)
    BY <1>4, OrderKept DEF PollPending, OrderInv, Present, Supply, Ending
  <1>5. CASE Wake(v)
    BY <1>5, OrderKept DEF Wake, OrderInv, Present, Supply, Ending
  <1>6. CASE Drop(v)
    BY <1>6, OrderKept DEF Drop, OrderInv, Present, Supply, Ending
  <1>7. CASE Forget(v)
    <2>1. Present' /\ Supply' /\ Ending'
      BY <1>7 DEF Forget, OrderInv, Present, Supply, Ending
    <2>2. Numbered'
      BY <1>7 DEF Forget, OrderInv, Numbered
    <2>3. QED
      BY <2>1, <2>2 DEF OrderInv
  <1>8. QED
    BY <1>1, <1>2, <1>3, <1>4, <1>5, <1>6, <1>7

LEMMA OrderStep == TypeOK /\ OrderInv /\ [Next]_vars => OrderInv'
  <1> SUFFICES ASSUME TypeOK, OrderInv, [Next]_vars PROVE OrderInv'
    OBVIOUS
  <1>1. CASE Produce
    BY <1>1, OrderKept DEF Produce, shared, TypeOK, OrderInv, Present, Supply, Ending
  <1>2. CASE Finish
    BY <1>2, OrderKept DEF Finish, shared, TypeOK, OrderInv, Present, Supply, Ending
  <1>3. CASE UNCHANGED vars
    BY <1>3, OrderKept DEF vars, source, shared, OrderInv, Present, Supply, Ending
  <1>4. QED
    BY <1>1, <1>2, <1>3, OrderPop, OrderPollEvent, OrderRest DEF Next, Step, Poll

\* A view ends only after it has returned every event.
LEMMA NothingMissed ==
  ASSUME TypeOK, OrderInv, NEW v \in Views, PollEnded(v) \/ (Wake(v) /\ task[v] = "ending")
  PROVE  finished /\ Len(received[v]) = sent
  <1>1. v \in there /\ queues[v] = <<>> /\ ~upstream
    BY DEF PollEnded, OrderInv, Present, Ending
  <1>2. Len(received[v]) \in Nat
    BY LenProperties DEF TypeOK
  <1>3. QED
    BY <1>1, <1>2, EmptySeq DEF OrderInv, Supply, Numbered, TypeOK

\* Each step of a view is a step of the promise, or none.
LEMMA ViewSteps ==
  ASSUME TypeOK, OrderInv, NEW v \in Views,
         \/ Begin(v) \/ PollEnded(v) \/ PollEnd(v) \/ PollPending(v)
         \/ Wake(v) \/ Drop(v) \/ Forget(v)
  PROVE  [Promise!Next]_Promise!vars
  <1> USE DEF shared, source, Go, TypeOK, Tasks, State, Promise!vars
  <1>1. CASE Begin(v)
    BY <1>1 DEF Begin
  <1>2. CASE PollEnded(v)
    <2>1. Promise!End(v)
      BY <1>2, NothingMissed DEF PollEnded, Promise!End
    <2>2. QED
      BY <2>1 DEF Promise!Next
  <1>3. CASE PollEnd(v)
    BY <1>3 DEF PollEnd
  <1>4. CASE PollPending(v)
    BY <1>4 DEF PollPending
  <1>5. CASE Wake(v)
    <2>1. CASE task[v] = "waking"
      BY <1>5, <2>1 DEF Wake
    <2>2. CASE task[v] = "ending"
      <3>1. Promise!End(v)
        BY <1>5, <2>2, NothingMissed DEF Wake, Promise!End
      <3>2. QED
        BY <3>1 DEF Promise!Next
    <2>3. QED
      BY <1>5, <2>1, <2>2 DEF Wake
  <1>6. CASE Drop(v)
    <2>1. Promise!Leave(v)
      BY <1>6 DEF Drop, Promise!Leave
    <2>2. QED
      BY <2>1 DEF Promise!Next
  <1>7. CASE Forget(v)
    BY <1>7 DEF Forget
  <1>8. QED
    BY <1>1, <1>2, <1>3, <1>4, <1>5, <1>6, <1>7

\* The tee implements the safety half of EventBroadcast: every view returns
\* the same events, in order, each once, and ends only after the last, while
\* other views are slow, asleep or dropped (tee.rs:52-93).
THEOREM ViewsReadTheSame == Spec => Promise!SafeSpec
  <1>1. Init => Promise!Init
    BY DEF Init, Promise!Init, State
  <1>2. TypeOK /\ OrderInv /\ [Next]_vars => [Promise!Next]_Promise!vars
    <2> SUFFICES ASSUME TypeOK, OrderInv, [Next]_vars PROVE [Promise!Next]_Promise!vars
      OBVIOUS
    <2>1. CASE Produce
      BY <2>1 DEF Produce, shared, State, Promise!Next, Promise!Produce
    <2>2. CASE Finish
      BY <2>2 DEF Finish, shared, State, Promise!Next, Promise!Finish
    <2>3. ASSUME NEW v \in Views, Pop(v) \/ PollEvent(v) PROVE Promise!Next
      BY <2>3, OrderPop, OrderPollEvent DEF Promise!Next
    <2>4. CASE UNCHANGED vars
      BY <2>4 DEF vars, source, State, Promise!vars
    <2>5. QED
      BY <2>1, <2>2, <2>3, <2>4, ViewSteps DEF Next, Step, Poll
  <1>3. QED
    BY <1>1, <1>2, TypeCorrect, OrderInit, OrderStep, PTL DEF Spec, Promise!SafeSpec
=============================================================================

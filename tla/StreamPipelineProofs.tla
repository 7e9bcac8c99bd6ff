------------------------- MODULE StreamPipelineProofs -------------------------
(***************************************************************************)
(* Theorems about StreamPipeline for every channel capacity, transform     *)
(* window, number of steps and events.                                     *)
(***************************************************************************)
EXTENDS StreamPipeline, SequenceTheorems, TLAPS

-----------------------------------------------------------------------------
(* The two queues of events, chan and held.                                *)

\* What sending an event does to a queue.
LEMMA Sending ==
  ASSUME NEW s \in Seq(Events), NEW e \in Events
  PROVE  /\ Append(s, e) \in Seq(Events)
         /\ Len(Append(s, e)) = Len(s) + 1
         /\ \A f : Carries(Append(s, e), f) <=> Carries(s, f) \/ f = e
  BY AppendProperties DEF Carries

\* What taking an event does to a queue.
LEMMA Taking ==
  ASSUME NEW s \in Seq(Events), s # <<>>
  PROVE  /\ Head(s) \in Events
         /\ Tail(s) \in Seq(Events)
         /\ Len(Tail(s)) = Len(s) - 1
         /\ \A f : Carries(s, f) <=> f = Head(s) \/ Carries(Tail(s), f)
  <1>1. /\ Head(s) = s[1] /\ Head(s) \in Events /\ Len(s) \in Nat \ {0}
        /\ Tail(s) \in Seq(Events) /\ Len(Tail(s)) = Len(s) - 1
        /\ \A i \in 1..(Len(s) - 1) : Tail(s)[i] = s[i + 1]
    BY HeadTailProperties, EmptySeq
  <1>2. ASSUME NEW f, Carries(s, f), f # Head(s) PROVE Carries(Tail(s), f)
    <2>1. PICK i \in 1..Len(s) : s[i] = f
      BY <1>2 DEF Carries
    <2>2. i - 1 \in 1..Len(Tail(s)) /\ Tail(s)[i - 1] = f
      BY <1>1, <1>2, <2>1
    <2>3. QED
      BY <2>2 DEF Carries
  <1>3. ASSUME NEW f, f = Head(s) \/ Carries(Tail(s), f) PROVE Carries(s, f)
    BY <1>1, <1>3 DEF Carries
  <1>4. QED
    BY <1>1, <1>2, <1>3

\* Nothing is in an empty queue.
LEMMA NothingCarried ==
  /\ <<>> \in Seq(Events) /\ Len(<<>>) = 0
  /\ \A f : ~Carries(<<>>, f)
  BY EmptySeq DEF Carries

-----------------------------------------------------------------------------
(* Type correctness.                                                       *)

LEMMA TypeInit == Init => TypeOK
  <1> SUFFICES ASSUME Init PROVE TypeOK
    OBVIOUS
  <1> USE StreamPipelineAssumption DEF StreamPipelineAssumption, Init
  <1>1. buffer \in Seq(Startup)
    <2>1. PICK n \in 0..Replay : buffer = <<"start">> \o [i \in 1..n |-> "content"]
      OBVIOUS
    <2>2. [i \in 1..n |-> "content"] \in Seq(Startup)
      BY DEF Startup
    <2>3. <<"start">> \in Seq(Startup)
      BY DEF Startup
    <2>4. QED
      BY <2>1, <2>2, <2>3, ConcatProperties
  <1>2. ProducerType
    BY <1>1 DEF ProducerType, Points
  <1>3. ChannelType
    BY EmptySeq DEF ChannelType
  <1>4. TokenType /\ ConsumerType
    BY DEF TokenType, ConsumerType
  <1>5. QED
    BY <1>2, <1>3, <1>4 DEF TypeOK

LEMMA SendType ==
  ASSUME ChannelType, NEW e \in {"start", "content", "start-step", "finish-step"} \cup Terminals,
         Send(e)
  PROVE  chan' \in Seq(Events) /\ Len(chan') <= Capacity
  <1>1. e \in Events
    BY DEF Events, Startup
  <1>2. Len(chan) \in Nat
    BY LenProperties DEF ChannelType
  <1>3. QED
    BY <1>1, <1>2, Sending, StreamPipelineAssumption
    DEF Send, ChannelType, StreamPipelineAssumption

LEMMA TypeNext == TypeOK /\ [Next]_vars => TypeOK'
  <1> SUFFICES ASSUME TypeOK, [Next]_vars PROVE TypeOK'
    OBVIOUS
  <1> USE DEF TypeOK, ProducerType, ChannelType, TokenType, ConsumerType, Errors, Points
  <1> USE DEF ProducerOnly, ConsumerOnly, pvars, tvars, cvars
  <1>1. CASE FirstCallOk
    BY <1>1 DEF FirstCallOk
  <1>2. CASE FirstCallFails
    BY <1>2 DEF FirstCallFails, CallerTold
  <1>3. CASE Release
    <2>1. CASE buffer = <<>>
      BY <1>3, <2>1 DEF Release
    <2>2. CASE buffer # <<>>
      <3>1. Head(buffer) \in Startup /\ Tail(buffer) \in Seq(Startup)
        BY <2>2, HeadTailProperties
      <3>2. chan' \in Seq(Events) /\ Len(chan') <= Capacity
        BY <1>3, <2>2, <3>1, SendType DEF Release, Startup
      <3>3. QED
        <4>1. buffer' \in Seq(Startup)
          BY <1>3, <2>2, <3>1 DEF Release
        <4>2. QED
          BY <1>3, <2>2, <3>2, <4>1 DEF Release
    <2>3. QED
      BY <2>1, <2>2
  <1>4. CASE BeginStep
    BY <1>4 DEF BeginStep
  <1>5. CASE Emit
    <2>1. chan' \in Seq(Events) /\ Len(chan') <= Capacity
      BY <1>5, SendType DEF Emit, Terminals
    <2>2. QED
      BY <1>5, <2>1 DEF Emit
  <1>6. CASE FinishStep
    <2>1. chan' \in Seq(Events) /\ Len(chan') <= Capacity
      BY <1>6, SendType DEF FinishStep, Terminals
    <2>2. QED
      BY <1>6, <2>1 DEF FinishStep
  <1>7. CASE TakeStep
    BY <1>7 DEF TakeStep, afterStep
  <1>8. CASE Finish
    <2>1. chan' \in Seq(Events) /\ Len(chan') <= Capacity
      BY <1>8, SendType DEF Finish, Terminals
    <2>2. QED
      BY <1>8, <2>1 DEF Finish
  <1>9. CASE ModelFails
    BY <1>9, EmptySeq DEF ModelFails, GiveUp
  <1>10. CASE ObserveCancel
    BY <1>10, EmptySeq DEF ObserveCancel, GiveUp, CancelError
  <1>11. CASE Report
    <2>1. chan' \in Seq(Events) /\ Len(chan') <= Capacity
      BY <1>11, SendType DEF Report, Terminals
    <2>2. QED
      BY <1>11, <2>1 DEF Report
  <1>12. CASE Settle
    BY <1>12 DEF Settle
  <1>13. CASE DropSender
    BY <1>13 DEF DropSender
  <1>14. CASE StepTimesOut \/ TotalTimesOut
    <2>1. PICK scope : Expires(scope)
      BY <1>14 DEF StepTimesOut, TotalTimesOut
    <2>2. CASE producer = "starting"
      BY <2>1, <2>2 DEF Expires, CallerTold
    <2>3. CASE producer # "starting"
      BY <2>1, <2>3, EmptySeq DEF Expires, GiveUp
    <2>4. QED
      BY <2>2, <2>3
  <1>15. CASE Started
    BY <1>15 DEF Started
  <1>16. CASE Pull
    <2>1. /\ chan' \in Seq(Events) /\ Len(chan') <= Capacity /\ Head(chan) \in Events
      <3>1. chan' = Tail(chan) /\ chan # <<>>
        BY <1>16 DEF Pull
      <3>2. Len(chan) \in Nat
        BY LenProperties
      <3>3. QED
        BY <3>1, <3>2, Taking, StreamPipelineAssumption DEF StreamPipelineAssumption
    <2>2. held' \in Seq(Events) /\ Len(held') <= Window
      <3>1. CASE stop
        BY <1>16, <3>1 DEF Pull
      <3>2. CASE ~stop
        <4>1. held' = Append(held, Head(chan)) /\ Len(held) < Window
          BY <1>16, <3>2 DEF Pull
        <4>2. Len(held) \in Nat
          BY LenProperties
        <4>3. QED
          BY <2>1, <4>1, <4>2, Sending, StreamPipelineAssumption DEF StreamPipelineAssumption
      <3>3. QED
        BY <3>1, <3>2
    <2>3. cut' \in BOOLEAN
      BY <1>16 DEF Pull
    <2>4. QED
      BY <1>16, <2>1, <2>2, <2>3 DEF Pull
  <1>17. CASE TransformStops \/ TransformFails
    <2>1. PICK fails \in BOOLEAN, ends \in BOOLEAN : TransformActs(fails, ends)
      BY <1>17 DEF TransformStops, TransformFails
    <2>2. held' \in Seq(Events) /\ Len(held') <= Window /\ cut' \in BOOLEAN
      <3>1. CASE ends
        BY <2>1, <3>1, EmptySeq, StreamPipelineAssumption
        DEF TransformActs, StreamPipelineAssumption
      <3>2. CASE ~ends
        BY <2>1, <3>2 DEF TransformActs
      <3>3. QED
        BY <3>1, <3>2
    <2>3. QED
      BY <2>1, <2>2 DEF TransformActs
  <1>18. CASE TransformTruncates
    BY <1>18, EmptySeq, StreamPipelineAssumption DEF TransformTruncates, StreamPipelineAssumption
  <1>19. CASE HandleEvent
    <2> PICK e \in Events : Handle(e)
      BY <1>19 DEF HandleEvent
    <2>1. /\ held' \in Seq(Events) /\ Len(held') <= Window
      BY Taking, StreamPipelineAssumption DEF Handle, StreamPipelineAssumption
    <2>2. ProducerType' /\ TokenType'
      BY DEF Handle, ProducerAborted
    <2>3. stepChan' \in Nat /\ chan' \in Seq(Events) /\ Len(chan') <= Capacity
      BY DEF Handle
    <2>4. ConsumerType'
      <3>1. inStep' \in BOOLEAN /\ aborted' \in BOOLEAN
        BY DEF Handle
      <3>2. built' \in Nat /\ aborts' \in Nat
        BY DEF Handle
      <3>3. caller' \in {caller, "ended"} /\ completion' \in {completion, "invalid"}
        BY DEF Handle
      <3>4. terminal' \in {"none"} \cup Terminals
        BY DEF Handle
      <3>5. QED
        BY <3>1, <3>2, <3>3, <3>4
    <2>5. QED
      BY <2>1, <2>2, <2>3, <2>4
  <1>20. CASE EndStream
    <2>1. completion' \in {"ok", "transform", "no_output"} \cup Errors
      <3>1. CancelError \in Errors /\ (Outcome \in Errors \/ Outcome = "finished")
        BY DEF CancelError, Outcome
      <3>2. QED
        BY <1>20, <3>1 DEF EndStream, Verdict
    <2>2. aborts' \in Nat
      BY <1>20 DEF EndStream
    <2>3. QED
      BY <1>20, <2>1, <2>2 DEF EndStream, ProducerAborted
  <1>21. CASE DropAll
    BY <1>21 DEF DropAll, ProducerAborted
  <1>22. CASE Cancel
    BY <1>22 DEF Cancel
  <1>23. CASE UNCHANGED vars
    BY <1>23 DEF vars
  <1>24. QED
    BY <1>1, <1>2, <1>3, <1>4, <1>5, <1>6, <1>7, <1>8, <1>9, <1>10, <1>11, <1>12, <1>13,
       <1>14, <1>15, <1>16, <1>17, <1>18, <1>19, <1>20, <1>21, <1>22, <1>23
    DEF Next, ProducerStep, ConsumerStep

(* Type correctness: in particular the event channel never holds more than *)
(* EVENT_CHANNEL_CAPACITY events and the transforms never more than they   *)
(* may (stage.rs:47-90, mod.rs:55-107).                                    *)
THEOREM TypeCorrect == Spec => []TypeOK
  <1>1. QED
    BY TypeInit, TypeNext, PTL DEF Spec

-----------------------------------------------------------------------------
(* One step at a time.  NoWaitCycle is not inductive: that the step result *)
(* is on its way when the producer waits for it rests on there being no    *)
(* more than one step anywhere between the two sides.  The invariant says  *)
(* where that step is, from the FinishStep event in the channel through    *)
(* the transforms to the step channel, and that it is nowhere while the    *)
(* producer runs or once it has finished.                                  *)

FinishSteps(s) == {i \in 1..Len(s) : s[i] = "finish-step"}
Once(s) == \A i, j \in FinishSteps(s) : i = j
InFlight == Carries(chan, "finish-step") \/ Carries(held, "finish-step")
NothingOwed == ~InFlight /\ stepChan = 0

OneStep ==
    /\ Once(chan) /\ Once(held)
    /\ ~(Carries(chan, "finish-step") /\ Carries(held, "finish-step"))
    /\ InFlight => stepChan = 0
    /\ stepChan <= 1 /\ built = pushed + stepChan

Owed ==
    /\ producer = "await" /\ ~cut => InFlight \/ stepChan = 1
    /\ producer \in {"starting", "releasing", "begin", "step", "finish"} => NothingOwed
    /\ producer = "settle" /\ perror = "none" => NothingOwed
    /\ outcome = "finished" => NothingOwed

Settled ==
    /\ producer = "report" => perror # "none"
    /\ outcome # "pending" => producer \in {"drop", "gone"}
    /\ outcome = "finished" => perror = "none"

StepInv == TypeOK /\ OneStep /\ Owed /\ Settled

LEMMA SendOnce ==
  ASSUME NEW s \in Seq(Events), NEW e \in Events, Once(s),
         e = "finish-step" => ~Carries(s, "finish-step")
  PROVE  Once(Append(s, e))
  BY AppendProperties DEF Once, FinishSteps, Carries

LEMMA TakeOnce ==
  ASSUME NEW s \in Seq(Events), s # <<>>, Once(s)
  PROVE  /\ Once(Tail(s))
         /\ Head(s) = "finish-step" => ~Carries(Tail(s), "finish-step")
  <1>1. /\ Head(s) = s[1] /\ Len(s) \in Nat \ {0} /\ Len(Tail(s)) = Len(s) - 1
        /\ \A i \in 1..(Len(s) - 1) : Tail(s)[i] = s[i + 1]
    BY HeadTailProperties, EmptySeq
  <1>2. ASSUME NEW i \in FinishSteps(Tail(s)) PROVE i + 1 \in FinishSteps(s) /\ i \in Nat
    BY <1>1 DEF FinishSteps
  <1>3. Once(Tail(s))
    <2>1. SUFFICES ASSUME NEW i \in FinishSteps(Tail(s)), NEW j \in FinishSteps(Tail(s))
                   PROVE i = j
      BY DEF Once
    <2>2. i + 1 = j + 1 /\ i \in Nat /\ j \in Nat
      BY <1>2 DEF Once
    <2>3. QED
      BY <2>2
  <1>4. ASSUME Head(s) = "finish-step", Carries(Tail(s), "finish-step") PROVE FALSE
    <2>1. PICK i \in FinishSteps(Tail(s)) : TRUE
      BY <1>4 DEF Carries, FinishSteps
    <2>2. 1 \in FinishSteps(s)
      BY <1>1, <1>4 DEF FinishSteps
    <2>3. i + 1 \in FinishSteps(s) /\ i >= 1
      BY <1>1, <1>2, <2>1 DEF FinishSteps
    <2>4. QED
      BY <2>2, <2>3 DEF Once, FinishSteps
  <1>5. QED
    BY <1>3, <1>4

\* Sending anything but a FinishStep changes nothing of this.
LEMMA SendOther ==
  ASSUME NEW e \in Startup \cup {"start-step"} \cup Terminals,
         ChannelType, Once(chan), Send(e)
  PROVE  Once(chan') /\ (Carries(chan', "finish-step") <=> Carries(chan, "finish-step"))
  <1>1. e \in Events /\ chan' = Append(chan, e) /\ chan \in Seq(Events)
    BY DEF Events, Send, ChannelType
  <1>2. e # "finish-step"
    BY DEF Startup, Terminals
  <1>3. QED
    BY <1>1, <1>2, Sending, SendOnce

LEMMA StepInit == Init => StepInv
  <1> SUFFICES ASSUME Init PROVE StepInv
    OBVIOUS
  <1>1. TypeOK
    BY TypeInit
  <1>2. ~InFlight /\ Once(chan) /\ Once(held)
    BY NothingCarried DEF Init, InFlight, Once, FinishSteps
  <1>3. OneStep /\ Owed /\ Settled
    BY <1>2 DEF Init, OneStep, Owed, Settled, NothingOwed, InFlight
  <1>4. QED
    BY <1>1, <1>3 DEF StepInv

LEMMA StepNext == StepInv /\ [Next]_vars => StepInv'
  <1> SUFFICES ASSUME StepInv, [Next]_vars PROVE StepInv'
    OBVIOUS
  <1>t. TypeOK'
    BY TypeNext DEF StepInv
  <1>c. ChannelType /\ Once(chan) /\ Once(held)
    BY DEF StepInv, TypeOK, OneStep
  <1>d. stepChan \in Nat /\ built \in Nat /\ pushed \in Nat
        /\ perror \in {"none"} \cup Errors
    BY DEF StepInv, TypeOK, ChannelType, ProducerType, ConsumerType
  <1> DEFINE Queues == OneStep' /\ Owed' /\ Settled'
  <1> SUFFICES Queues
    BY <1>t DEF StepInv
  <1> USE DEF OneStep, Owed, Settled, NothingOwed, InFlight
  <1> USE DEF ProducerOnly, ConsumerOnly, pvars, tvars, cvars
  <1>1. CASE FirstCallOk
    BY <1>1 DEF FirstCallOk, StepInv
  <1>2. CASE FirstCallFails
    BY <1>2 DEF FirstCallFails, CallerTold, StepInv
  <1>3. CASE Release
    <2>1. CASE buffer = <<>>
      BY <1>3, <2>1 DEF Release, StepInv
    <2>2. CASE buffer # <<>>
      <3>1. Head(buffer) \in Startup
        BY <2>2, HeadTailProperties DEF StepInv, TypeOK, ProducerType
      <3>2. Once(chan') /\ (Carries(chan', "finish-step") <=> Carries(chan, "finish-step"))
        BY <1>3, <1>c, <2>2, <3>1, SendOther DEF Release, Startup
      <3>3. QED
        BY <1>3, <2>2, <3>2 DEF Release, StepInv
    <2>3. QED
      BY <2>1, <2>2
  <1>4. CASE BeginStep
    BY <1>4 DEF BeginStep, StepInv
  <1>5. CASE Emit
    <2>1. Once(chan') /\ (Carries(chan', "finish-step") <=> Carries(chan, "finish-step"))
      BY <1>5, <1>c, SendOther DEF Emit, Startup
    <2>2. QED
      BY <1>5, <2>1 DEF Emit, StepInv
  <1>6. CASE FinishStep
    <2>1. NothingOwed
      BY <1>6 DEF FinishStep, StepInv
    <2>2. "finish-step" \in Events /\ chan \in Seq(Events)
      BY <1>c DEF Events, ChannelType
    <2>3. chan' = Append(chan, "finish-step")
      BY <1>6 DEF FinishStep, Send
    <2>4. Once(chan') /\ Carries(chan', "finish-step")
      BY <1>c, <2>1, <2>2, <2>3, SendOnce, Sending
    <2>5. QED
      BY <1>6, <1>c, <2>1, <2>4 DEF FinishStep, StepInv
  <1>7. CASE TakeStep
    BY <1>7, <1>d DEF TakeStep, afterStep, StepInv
  <1>8. CASE Finish
    <2>1. Once(chan') /\ (Carries(chan', "finish-step") <=> Carries(chan, "finish-step"))
      BY <1>8, <1>c, SendOther DEF Finish, Terminals
    <2>2. QED
      BY <1>8, <2>1 DEF Finish, StepInv
  <1>9. CASE ModelFails
    BY <1>9 DEF ModelFails, GiveUp, StepInv
  <1>10. CASE ObserveCancel
    <2>1. CancelError # "none"
      BY DEF CancelError
    <2>2. QED
      BY <1>10, <2>1 DEF ObserveCancel, GiveUp, StepInv
  <1>11. CASE Report
    <2>1. Once(chan') /\ (Carries(chan', "finish-step") <=> Carries(chan, "finish-step"))
      BY <1>11, <1>c, SendOther DEF Report, Terminals
    <2>2. QED
      BY <1>11, <2>1 DEF Report, StepInv
  <1>12. CASE Settle
    BY <1>12, <1>d DEF Settle, StepInv, Errors
  <1>13. CASE DropSender
    BY <1>13 DEF DropSender, StepInv
  <1>14. CASE StepTimesOut \/ TotalTimesOut
    <2>1. PICK scope : Expires(scope) /\ scope \in {totalScope, {"starting", "releasing", "begin", "step"}}
      BY <1>14 DEF StepTimesOut, TotalTimesOut
    <2>2. CASE producer = "starting"
      BY <2>1, <2>2 DEF Expires, CallerTold, StepInv
    <2>3. CASE producer # "starting"
      BY <2>1, <2>3 DEF Expires, GiveUp, StepInv, totalScope
    <2>4. QED
      BY <2>2, <2>3
  <1>15. CASE Started
    BY <1>15 DEF Started, StepInv
  <1>16. CASE Pull
    <2>1. /\ chan # <<>> /\ chan \in Seq(Events) /\ held \in Seq(Events)
          /\ chan' = Tail(chan) /\ Head(chan) \in Events
      BY <1>16, <1>c, Taking DEF Pull, ChannelType
    <2>2. /\ Once(chan')
          /\ Head(chan) = "finish-step" => ~Carries(chan', "finish-step")
          /\ Carries(chan, "finish-step")
             <=> Head(chan) = "finish-step" \/ Carries(chan', "finish-step")
      BY <1>c, <2>1, TakeOnce, Taking
    <2>3. CASE stop
      BY <1>16, <2>2, <2>3 DEF Pull, StepInv
    <2>4. CASE ~stop
      <3>1. held' = Append(held, Head(chan)) /\ cut' = cut
        BY <1>16, <2>4 DEF Pull
      <3>2. Once(held')
        BY <1>c, <2>1, <2>2, <3>1, SendOnce DEF StepInv
      <3>3. Carries(held', "finish-step")
            <=> Carries(held, "finish-step") \/ Head(chan) = "finish-step"
        BY <2>1, <3>1, Sending
      <3>4. QED
        BY <1>16, <2>2, <3>1, <3>2, <3>3 DEF Pull, StepInv
    <2>5. QED
      BY <2>3, <2>4
  <1>17. CASE TransformStops \/ TransformFails
    <2>1. PICK fails \in BOOLEAN, ends \in BOOLEAN : TransformActs(fails, ends)
      BY <1>17 DEF TransformStops, TransformFails
    <2>2. CASE ends
      <3>1. Once(held') /\ ~Carries(held', "finish-step") /\ cut'
        BY <2>1, <2>2, NothingCarried DEF TransformActs, Once, FinishSteps
      <3>2. QED
        BY <2>1, <3>1 DEF TransformActs, StepInv
    <2>3. CASE ~ends
      BY <2>1, <2>3 DEF TransformActs, StepInv
    <2>4. QED
      BY <2>2, <2>3
  <1>18. CASE TransformTruncates
    <2>1. Once(held') /\ ~Carries(held', "finish-step") /\ cut'
      BY <1>18, NothingCarried DEF TransformTruncates, Once, FinishSteps
    <2>2. QED
      BY <1>18, <2>1 DEF TransformTruncates, StepInv
  <1>19. CASE HandleEvent
    <2> PICK e \in Events : Handle(e)
      BY <1>19 DEF HandleEvent
    <2>1. held # <<>> /\ held \in Seq(Events) /\ held' = Tail(held) /\ e = Head(held)
      BY <1>c DEF Handle, ChannelType
    <2>2. /\ Once(held')
          /\ e = "finish-step" => ~Carries(held', "finish-step")
          /\ Carries(held, "finish-step") <=> e = "finish-step" \/ Carries(held', "finish-step")
      BY <1>c, <2>1, TakeOnce, Taking
    <2>3. CASE e = "finish-step" /\ ~inStep
      BY <2>2, <2>3 DEF Handle, ProducerAborted, StepInv
    <2>4. CASE e = "finish-step" /\ inStep
      BY <1>d, <2>2, <2>4 DEF Handle, StepInv
    <2>5. CASE e # "finish-step"
      BY <2>2, <2>5 DEF Handle, StepInv
    <2>6. QED
      BY <2>3, <2>4, <2>5, <1>t DEF TypeOK, ConsumerType
  <1>20. CASE EndStream
    BY <1>20 DEF EndStream, ProducerAborted, StepInv
  <1>21. CASE DropAll
    BY <1>21 DEF DropAll, ProducerAborted, StepInv
  <1>22. CASE Cancel
    BY <1>22 DEF Cancel, StepInv
  <1>23. CASE UNCHANGED vars
    BY <1>23 DEF vars, StepInv
  <1>24. QED
    BY <1>1, <1>2, <1>3, <1>4, <1>5, <1>6, <1>7, <1>8, <1>9, <1>10, <1>11, <1>12, <1>13,
       <1>14, <1>15, <1>16, <1>17, <1>18, <1>19, <1>20, <1>21, <1>22, <1>23
    DEF Next, ProducerStep, ConsumerStep

LEMMA StepAlways == Spec => []StepInv
  BY StepInit, StepNext, PTL DEF Spec

(* The producer never waits for a step result that is not on its way       *)
(* (stage.rs:195, processor.rs:351).                                       *)
THEOREM NoWait == Spec => []NoWaitCycle
  <1>1. StepInv => NoWaitCycle
    BY DEF StepInv, OneStep, Owed, InFlight, NoWaitCycle
  <1>2. QED
    BY <1>1, StepAlways, PTL

(* The processor never waits for room in the step channel (mod.rs:64).     *)
THEOREM StepChannelHasRoom == Spec => []StepChannelNeverFull
  <1>1. StepInv => StepChannelNeverFull
    BY DEF StepInv, OneStep, StepChannelNeverFull
  <1>2. QED
    BY <1>1, StepAlways, PTL

-----------------------------------------------------------------------------
(* The end of a stream.  A terminal event is the last of its queue, sits   *)
(* behind everything else, and is sent by a producer that will send        *)
(* nothing more; an Error or Abort event has its cause in the producer.    *)

HasTerminal(s) == \E i \in 1..Len(s) : s[i] \in Terminals
LastOnly(s) == \A i \in 1..Len(s) : s[i] \in Terminals => i = Len(s)
Bad(s) == Carries(s, "error") \/ Carries(s, "abort")

Ending ==
    /\ LastOnly(chan) /\ LastOnly(held)
    /\ HasTerminal(held) => chan = <<>>
    /\ terminal # "none" => chan = <<>> /\ held = <<>>
    /\ HasTerminal(chan) \/ HasTerminal(held) \/ terminal # "none"
       => producer \in {"settle", "drop", "gone"}

Blame ==
    /\ Bad(chan) \/ Bad(held) \/ terminal \in {"error", "abort"} => perror # "none"
    /\ stop => cancelled
    /\ caller \in {"waiting", "streaming"} => completion = "pending"
    /\ completion = "ok" =>
        caller = "ended" /\ outcome = "finished" /\ ~cancelled /\ built > 0

EndInv == StepInv /\ Ending /\ Blame

LEMMA SendEnd ==
  ASSUME NEW s \in Seq(Events), NEW e \in Events, ~HasTerminal(s)
  PROVE  /\ LastOnly(Append(s, e))
         /\ HasTerminal(Append(s, e)) <=> e \in Terminals
         /\ Bad(Append(s, e)) <=> Bad(s) \/ e \in {"error", "abort"}
  <1>1. /\ LastOnly(Append(s, e))
        /\ HasTerminal(Append(s, e)) <=> e \in Terminals
    BY AppendProperties, LenProperties DEF LastOnly, HasTerminal
  <1>2. Bad(Append(s, e)) <=> Bad(s) \/ e \in {"error", "abort"}
    BY Sending DEF Bad
  <1>3. QED
    BY <1>1, <1>2

LEMMA TakeEnd ==
  ASSUME NEW s \in Seq(Events), s # <<>>, LastOnly(s)
  PROVE  /\ LastOnly(Tail(s))
         /\ HasTerminal(s) <=> Head(s) \in Terminals \/ HasTerminal(Tail(s))
         /\ Head(s) \in Terminals => Tail(s) = <<>>
         /\ Bad(s) <=> Bad(Tail(s)) \/ Head(s) \in {"error", "abort"}
  <1>1. /\ Head(s) = s[1] /\ Len(s) \in Nat \ {0} /\ Len(Tail(s)) = Len(s) - 1
        /\ Tail(s) \in Seq(Events)
        /\ \A i \in 1..(Len(s) - 1) : Tail(s)[i] = s[i + 1]
    BY HeadTailProperties, EmptySeq
  <1>l. \A i \in 1..Len(s) : s[i] \in Terminals => i = Len(s)
    BY DEF LastOnly
  <1>2. LastOnly(Tail(s))
    <2>1. SUFFICES ASSUME NEW i \in 1..Len(Tail(s)), Tail(s)[i] \in Terminals
                   PROVE i = Len(Tail(s))
      BY DEF LastOnly
    <2>2. i \in Int /\ i + 1 \in 1..Len(s) /\ Tail(s)[i] = s[i + 1]
      BY <1>1
    <2>3. i + 1 = Len(s)
      BY <1>l, <2>1, <2>2
    <2>4. Len(Tail(s)) = Len(s) - 1 /\ Len(s) \in Int
      BY <1>1
    <2>5. QED
      BY <2>2, <2>3, <2>4
  <1>3. HasTerminal(s) => Head(s) \in Terminals \/ HasTerminal(Tail(s))
    <2>1. SUFFICES ASSUME NEW i \in 1..Len(s), s[i] \in Terminals, i # 1
                   PROVE HasTerminal(Tail(s))
      BY <1>1 DEF HasTerminal
    <2>2. i - 1 \in 1..Len(Tail(s)) /\ Tail(s)[i - 1] = s[i]
      BY <1>1, <2>1
    <2>3. QED
      BY <2>1, <2>2 DEF HasTerminal
  <1>4. Head(s) \in Terminals \/ HasTerminal(Tail(s)) => HasTerminal(s)
    BY <1>1 DEF HasTerminal
  <1>5. Head(s) \in Terminals => Tail(s) = <<>>
    <2>1. Head(s) \in Terminals => Len(Tail(s)) = 0
      <3>1. 1 \in 1..Len(s)
        BY <1>1
      <3>2. Head(s) \in Terminals => 1 = Len(s)
        BY <1>1, <1>l, <3>1
      <3>3. QED
        BY <1>1, <3>2
    <2>2. QED
      BY <1>1, <2>1, EmptySeq
  <1>6. Bad(s) <=> Bad(Tail(s)) \/ Head(s) \in {"error", "abort"}
    BY Taking DEF Bad
  <1>7. QED
    BY <1>2, <1>3, <1>4, <1>5, <1>6

LEMMA NothingEnds ==
  /\ LastOnly(<<>>) /\ ~HasTerminal(<<>>) /\ ~Bad(<<>>)
  BY NothingCarried DEF LastOnly, HasTerminal, Bad

LEMMA EndInit == Init => EndInv
  <1> SUFFICES ASSUME Init PROVE EndInv
    OBVIOUS
  <1>1. StepInv
    BY StepInit
  <1>2. Ending /\ Blame
    BY NothingEnds DEF Init, Ending, Blame
  <1>3. QED
    BY <1>1, <1>2 DEF EndInv

LEMMA EndNext == EndInv /\ [Next]_vars => EndInv'
  <1> SUFFICES ASSUME EndInv, [Next]_vars PROVE EndInv'
    OBVIOUS
  <1>s. StepInv /\ StepInv'
    BY StepNext DEF EndInv
  <1>c. /\ chan \in Seq(Events) /\ held \in Seq(Events) /\ buffer \in Seq(Startup)
        /\ LastOnly(chan) /\ LastOnly(held)
    BY DEF EndInv, StepInv, TypeOK, ChannelType, ProducerType, Ending
  <1>p. /\ producer = "report" => perror # "none"
        /\ outcome # "pending" => producer \in {"drop", "gone"}
        /\ outcome = "finished" => perror = "none"
        /\ built \in Nat
    BY DEF EndInv, StepInv, Settled, TypeOK, ConsumerType
  <1> SUFFICES Ending' /\ Blame'
    BY <1>s DEF EndInv
  <1> USE DEF EndInv, Ending, Blame
  <1> USE DEF ProducerOnly, ConsumerOnly, pvars, tvars, cvars
  <1>n. ASSUME producer \in {"starting", "releasing", "begin", "step", "await", "finish", "report"}
        PROVE  ~HasTerminal(chan) /\ ~HasTerminal(held) /\ terminal = "none"
    BY <1>n
  <1>m. ASSUME NEW e \in Events, Send(e),
               producer \in {"releasing", "step", "finish", "report"}
        PROVE  /\ LastOnly(chan')
               /\ HasTerminal(chan') <=> e \in Terminals
               /\ Bad(chan') <=> Bad(chan) \/ e \in {"error", "abort"}
    BY <1>c, <1>n, <1>m, SendEnd DEF Send
  <1>1. CASE FirstCallOk
    BY <1>1, <1>p, <1>n DEF FirstCallOk
  <1>2. CASE FirstCallFails
    BY <1>2, <1>p, <1>n DEF FirstCallFails, CallerTold
  <1>3. CASE Release
    <2>1. CASE buffer = <<>>
      BY <1>3, <1>n, <2>1 DEF Release
    <2>2. CASE buffer # <<>>
      <3>1. Head(buffer) \in Events /\ Head(buffer) \notin Terminals
        BY <1>c, <2>2, HeadTailProperties DEF Startup, Events, Terminals
      <3>2. LastOnly(chan') /\ ~HasTerminal(chan') /\ (Bad(chan') <=> Bad(chan))
        BY <1>3, <1>m, <2>2, <3>1 DEF Release, Terminals
      <3>3. QED
        BY <1>3, <1>n, <2>2, <3>2 DEF Release
    <2>3. QED
      BY <2>1, <2>2
  <1>4. CASE BeginStep
    BY <1>4, <1>n DEF BeginStep
  <1>5. CASE Emit
    <2>1. LastOnly(chan') /\ ~HasTerminal(chan') /\ (Bad(chan') <=> Bad(chan))
      BY <1>5, <1>m DEF Emit, Events, Startup, Terminals
    <2>2. QED
      BY <1>5, <1>n, <2>1 DEF Emit
  <1>6. CASE FinishStep
    <2>1. LastOnly(chan') /\ ~HasTerminal(chan') /\ (Bad(chan') <=> Bad(chan))
      BY <1>6, <1>m DEF FinishStep, Events, Terminals
    <2>2. QED
      BY <1>6, <1>n, <2>1 DEF FinishStep
  <1>7. CASE TakeStep
    BY <1>7, <1>n DEF TakeStep
  <1>8. CASE Finish
    <2>1. LastOnly(chan') /\ (Bad(chan') <=> Bad(chan))
      BY <1>8, <1>m DEF Finish, Events, Terminals
    <2>2. QED
      BY <1>8, <1>n, <2>1 DEF Finish
  <1>9. CASE ModelFails
    BY <1>9, <1>n, <1>p DEF ModelFails, GiveUp
  <1>10. CASE ObserveCancel
    <2>1. CancelError # "none"
      BY DEF CancelError
    <2>2. QED
      BY <1>10, <1>n, <1>p, <2>1 DEF ObserveCancel, GiveUp
  <1>11. CASE Report
    <2>1. LastOnly(chan')
      BY <1>11, <1>m DEF Report, Events, Terminals
    <2>2. QED
      BY <1>11, <1>n, <1>p, <2>1 DEF Report
  <1>12. CASE Settle
    BY <1>12, <1>p DEF Settle
  <1>13. CASE DropSender
    BY <1>13, <1>p DEF DropSender
  <1>14. CASE StepTimesOut \/ TotalTimesOut
    <2>1. PICK scope : Expires(scope) /\ scope \in {totalScope, {"starting", "releasing", "begin", "step"}}
      BY <1>14 DEF StepTimesOut, TotalTimesOut
    <2>2. CASE producer = "starting"
      BY <1>n, <1>p, <2>1, <2>2 DEF Expires, CallerTold
    <2>3. CASE producer # "starting"
      BY <1>n, <1>p, <2>1, <2>3 DEF Expires, GiveUp, totalScope
    <2>4. QED
      BY <2>2, <2>3
  <1>15. CASE Started
    BY <1>15 DEF Started
  <1>16. CASE Pull
    <2>1. chan # <<>> /\ chan' = Tail(chan) /\ Head(chan) \in Events
      BY <1>16, <1>c, Taking DEF Pull
    <2>2. /\ LastOnly(chan')
          /\ HasTerminal(chan) <=> Head(chan) \in Terminals \/ HasTerminal(chan')
          /\ Head(chan) \in Terminals => chan' = <<>>
          /\ Bad(chan) <=> Bad(chan') \/ Head(chan) \in {"error", "abort"}
      BY <1>c, <2>1, TakeEnd
    <2>3. ~HasTerminal(held) /\ terminal = "none"
      BY <2>1
    <2>4. CASE stop
      BY <1>16, <2>2, <2>3, <2>4 DEF Pull
    <2>5. CASE ~stop
      <3>1. held' = Append(held, Head(chan))
        BY <1>16, <2>5 DEF Pull
      <3>2. /\ LastOnly(held')
            /\ HasTerminal(held') <=> Head(chan) \in Terminals
            /\ Bad(held') <=> Bad(held) \/ Head(chan) \in {"error", "abort"}
        BY <1>c, <2>1, <2>3, <3>1, SendEnd
      <3>3. QED
        BY <1>16, <2>2, <2>3, <3>2 DEF Pull
    <2>6. QED
      BY <2>4, <2>5
  <1>17. CASE TransformStops \/ TransformFails
    <2>1. PICK fails \in BOOLEAN, ends \in BOOLEAN : TransformActs(fails, ends)
      BY <1>17 DEF TransformStops, TransformFails
    <2>2. CASE ends
      BY <2>1, <2>2, NothingEnds DEF TransformActs, Streaming
    <2>3. CASE ~ends
      BY <2>1, <2>3 DEF TransformActs, Streaming
    <2>4. QED
      BY <2>2, <2>3
  <1>18. CASE TransformTruncates
    BY <1>18, NothingEnds DEF TransformTruncates
  <1>19. CASE HandleEvent
    <2> PICK e \in Events : Handle(e)
      BY <1>19 DEF HandleEvent
    <2>1. held # <<>> /\ held' = Tail(held) /\ e = Head(held) /\ Streaming
      BY DEF Handle
    <2>2. /\ LastOnly(held')
          /\ HasTerminal(held) <=> e \in Terminals \/ HasTerminal(held')
          /\ e \in Terminals => held' = <<>>
          /\ Bad(held) <=> Bad(held') \/ e \in {"error", "abort"}
      BY <1>c, <2>1, TakeEnd
    <2>3. /\ terminal = "none" /\ terminal' = IF e \in Terminals THEN e ELSE "none"
          /\ UNCHANGED <<chan, perror, stop, cancelled>>
      BY <2>1 DEF Handle
    <2>4. producer' \in {producer, "gone"}
      BY DEF Handle, ProducerAborted
    <2>5. Ending'
      BY <2>2, <2>3, <2>4
    <2>6. completion = "pending" /\ (completion' = "pending" \/ (completion' = "invalid" /\ caller' = "ended"))
      BY <2>1 DEF Handle, Streaming
    <2>7. Blame'
      BY <2>2, <2>3, <2>6 DEF Terminals
    <2>8. QED
      BY <2>5, <2>7
  <1>20. CASE EndStream
    <2>1. completion' = "ok" => ~cancelled /\ outcome = "finished" /\ built > 0
      <3>1. ASSUME Verdict = "ok" PROVE ~cancelled /\ Outcome = "finished" /\ built # 0
        BY <1>s, <3>1 DEF Verdict, checksToken, CancelError, Outcome, Errors, StepInv, TypeOK,
                          TokenType, ProducerType
      <3>2. QED
        BY <1>20, <1>p, <3>1 DEF EndStream, Outcome
    <2>2. outcome = "finished" => outcome' = "finished"
      BY <1>20 DEF EndStream, ProducerAborted
    <2>3. QED
      BY <1>20, <2>1, <2>2 DEF EndStream, ProducerAborted
  <1>21. CASE DropAll
    BY <1>21 DEF DropAll, ProducerAborted
  <1>22. CASE Cancel
    BY <1>22 DEF Cancel
  <1>23. CASE UNCHANGED vars
    BY <1>23 DEF vars
  <1>24. QED
    BY <1>1, <1>2, <1>3, <1>4, <1>5, <1>6, <1>7, <1>8, <1>9, <1>10, <1>11, <1>12, <1>13,
       <1>14, <1>15, <1>16, <1>17, <1>18, <1>19, <1>20, <1>21, <1>22, <1>23
    DEF Next, ProducerStep, ConsumerStep

LEMMA EndAlways == Spec => []EndInv
  BY EndInit, EndNext, PTL DEF Spec

(* Success is never partial: a completion that resolves with a result      *)
(* holds every step the producer ran, of a call nobody cancelled, stopped  *)
(* or saw fail (processor.rs:383-455).                                     *)
THEOREM SuccessIsComplete == Spec => []OkIsComplete
  <1>1. EndInv => OkIsComplete
    BY DEF EndInv, Ending, Blame, StepInv, OneStep, Owed, Settled, NothingOwed, TypeOK,
           ConsumerType, ProducerType, Terminals, OkIsComplete
  <1>2. QED
    BY <1>1, EndAlways, PTL

(* No event reaches the caller after a terminal event (stage.rs:134-154).  *)
THEOREM NothingAfterTheEnd == Spec => TerminalIsLast
  <1>1. EndInv /\ [Next]_vars => [HandleEvent => terminal = "none"]_vars
    BY DEF EndInv, Ending, HandleEvent, Handle
  <1>2. QED
    BY <1>1, EndAlways, PTL DEF Spec, TerminalIsLast

-----------------------------------------------------------------------------
(* The pipeline implements the promise made to the caller.                 *)

LEMMA PromiseInit == Init => Promise!Init
  BY DEF Init, Promise!Init

LEMMA PromiseNext ==
  EndInv /\ EndInv' /\ [Next]_vars => [Promise!Next]_(Promise!vars)
  <1> SUFFICES ASSUME EndInv, EndInv', [Next]_vars
               PROVE  [Promise!Next]_(Promise!vars)
    OBVIOUS
  <1>b. /\ stop => cancelled
        /\ caller \in {"waiting", "streaming"} => completion = "pending"
        /\ cancelled \in BOOLEAN /\ stop \in BOOLEAN
    BY DEF EndInv, Blame, StepInv, TypeOK, TokenType
  <1> DEFINE Same == UNCHANGED <<built, terminal, cancelled, stop, completion>>
  <1>u. ASSUME Same PROVE UNCHANGED Promise!vars
    BY <1>u DEF Promise!vars
  <1> USE DEF ProducerOnly, ConsumerOnly, pvars, tvars, cvars
  <1>1. CASE ProducerStep
    <2>1. Same
      BY <1>1 DEF ProducerStep, FirstCallOk, FirstCallFails, CallerTold, Release, BeginStep,
                  Emit, FinishStep, TakeStep, Finish, ModelFails, ObserveCancel, GiveUp,
                  Report, Settle, DropSender
    <2>2. QED
      BY <1>u, <2>1
  <1>2. CASE StepTimesOut \/ TotalTimesOut
    <2>1. Same
      BY <1>2 DEF StepTimesOut, TotalTimesOut, Expires, CallerTold, GiveUp
    <2>2. QED
      BY <1>u, <2>1
  <1>3. CASE Started \/ Pull \/ TransformTruncates
    <2>1. Same
      BY <1>3 DEF Started, Pull, TransformTruncates
    <2>2. QED
      BY <1>u, <2>1
  <1>4. CASE HandleEvent
    <2> PICK e \in Events : Handle(e)
      BY <1>4 DEF HandleEvent
    <2>1. completion = "pending" /\ terminal = "none" /\ UNCHANGED <<cancelled, stop>>
      BY <1>b DEF Handle, Streaming, EndInv, Ending
    <2>2. CASE e = "finish-step" /\ ~inStep
      <3>1. completion' = "invalid" /\ UNCHANGED <<built, terminal>>
        BY <2>1, <2>2 DEF Handle, Terminals
      <3>2. Promise!Break
        BY <2>1, <3>1 DEF Promise!Break, Promise!Failures
      <3>3. QED
        BY <3>2 DEF Promise!Next
    <2>3. CASE e = "finish-step" /\ inStep
      <3>1. built' = built + 1 /\ UNCHANGED <<completion, terminal>>
        BY <2>1, <2>3 DEF Handle, Terminals
      <3>2. Promise!Build
        BY <2>1, <3>1 DEF Promise!Build
      <3>3. QED
        BY <3>2 DEF Promise!Next
    <2>4. CASE e \in Terminals
      <3>1. terminal' = e /\ UNCHANGED <<completion, built>>
        BY <2>4 DEF Handle, Terminals
      <3>2. Promise!Terminate
        BY <2>1, <2>4, <3>1 DEF Promise!Terminate, Promise!Terminals, Terminals
      <3>3. QED
        BY <3>2 DEF Promise!Next
    <2>5. CASE e \notin Terminals /\ e # "finish-step"
      <3>1. Same
        BY <2>1, <2>5 DEF Handle
      <3>2. QED
        BY <1>u, <3>1
    <2>6. QED
      BY <2>2, <2>3, <2>4, <2>5
  <1>5. CASE TransformStops \/ TransformFails \/ Cancel
    <2>1. /\ completion = "pending" /\ cancelled'
          /\ UNCHANGED <<built, terminal, completion>>
      BY <1>5, <1>b
      DEF TransformStops, TransformFails, TransformActs, Cancel, Streaming
    <2>2. (cancelled' \/ stop') = TRUE
      BY <2>1
    <2>3. Promise!Cancel
      BY <2>1, <2>2 DEF Promise!Cancel
    <2>4. QED
      BY <2>3 DEF Promise!Next
  <1>6. CASE EndStream
    <2>1. /\ completion = "pending" /\ completion' = Verdict
          /\ UNCHANGED <<built, terminal, cancelled, stop, perror>>
      BY <1>6, <1>b DEF EndStream, Streaming
    <2>2. CASE Verdict = "ok"
      <3>1. /\ ~cancelled' /\ outcome' = "finished" /\ built' > 0
            /\ perror' = "none" /\ terminal' \in {"none", "finish"}
        BY <2>1, <2>2 DEF EndInv, Blame, StepInv, Settled, TypeOK, ConsumerType, Terminals
      <3>2. Promise!Succeed
        BY <1>b, <2>1, <2>2, <3>1 DEF Promise!Succeed
      <3>3. QED
        BY <3>2 DEF Promise!Next
    <2>3. CASE Verdict # "ok"
      <3>1. Verdict \in {"transform", "no_output"} \cup Errors
        BY <2>3 DEF Verdict, CancelError, EndInv, StepInv, TypeOK, TokenType, Errors
      <3>2. Promise!Break
        BY <2>1, <3>1 DEF Promise!Break, Promise!Failures, Errors
      <3>3. QED
        BY <3>2 DEF Promise!Next
    <2>4. QED
      BY <2>2, <2>3
  <1>7. CASE DropAll
    <2>1. /\ completion = "pending" /\ completion' = "dropped"
          /\ UNCHANGED <<built, terminal, cancelled, stop>>
      BY <1>7, <1>b DEF DropAll
    <2>2. Promise!Break
      BY <2>1 DEF Promise!Break, Promise!Failures
    <2>3. QED
      BY <2>2 DEF Promise!Next
  <1>8. CASE UNCHANGED vars
    BY <1>u, <1>8 DEF vars
  <1>9. QED
    BY <1>1, <1>2, <1>3, <1>4, <1>5, <1>6, <1>7, <1>8 DEF Next, ConsumerStep

(* The detailed pipeline implements StreamPromise: whatever the channel,   *)
(* the transforms, the timeouts and the tasks do in between, the caller    *)
(* sees steps, at most one terminal event and one result that agree.       *)
THEOREM PipelineKeepsPromise == Spec => KeepsPromise
  <1>1. QED
    BY PromiseInit, PromiseNext, EndAlways, PTL DEF Spec, KeepsPromise, Promise!Spec

-----------------------------------------------------------------------------
(***************************************************************************)
(* How a streaming call ends: the processor never meets an event it cannot *)
(* place, and what the caller is told agrees with what happened.  Built on *)
(* the invariants StepInv and EndInv.                                      *)
(***************************************************************************)

-----------------------------------------------------------------------------
(* A StartStep before every FinishStep.  NeverInvalid is not inductive:    *)
(* one has to follow the StartStep of the step under way through channel,  *)
(* transforms and processor, and say that none is overtaken by a           *)
(* FinishStep.  That a step is not closed by the FinishStep of another     *)
(* rests on OneStep: at most one is under way.                             *)

StartFirst(s) ==
    \A j \in 1..Len(s) : s[j] = "finish-step" => \E i \in 1..(j - 1) : s[i] = "start-step"

Opened == inStep \/ Carries(held, "start-step")

Paired ==
    /\ Carries(held, "finish-step") => inStep \/ StartFirst(held)
    /\ ~cut /\ Carries(chan, "finish-step") => Opened \/ StartFirst(chan)
    /\ ~cut /\ producer = "step" /\ content > 0 => Opened \/ Carries(chan, "start-step")
    /\ producer \in {"starting", "releasing", "begin", "await"} => content = 0
    /\ NeverInvalid

PairInv == StepInv /\ Paired

LEMMA SendFirst ==
  ASSUME NEW s \in Seq(Events), NEW e \in Events, StartFirst(s),
         e = "finish-step" => Carries(s, "start-step")
  PROVE  StartFirst(Append(s, e))
  <1>1. /\ Len(Append(s, e)) = Len(s) + 1 /\ Len(s) \in Nat
        /\ Append(s, e)[Len(s) + 1] = e
        /\ \A i \in 1..Len(s) : Append(s, e)[i] = s[i]
    BY AppendProperties, LenProperties
  <1> SUFFICES ASSUME NEW j \in 1..(Len(s) + 1), Append(s, e)[j] = "finish-step"
               PROVE  \E i \in 1..(j - 1) : Append(s, e)[i] = "start-step"
    BY <1>1 DEF StartFirst
  <1>2. CASE j = Len(s) + 1
    <2>1. PICK i \in 1..Len(s) : s[i] = "start-step"
      BY <1>1, <1>2 DEF Carries
    <2>2. i \in 1..(j - 1) /\ Append(s, e)[i] = "start-step"
      BY <1>1, <1>2, <2>1
    <2>3. QED
      BY <2>2
  <1>3. CASE j \in 1..Len(s)
    <2>1. PICK i \in 1..(j - 1) : s[i] = "start-step"
      BY <1>1, <1>3 DEF StartFirst
    <2>2. i \in 1..Len(s)
      BY <1>1, <1>3
    <2>3. QED
      BY <1>1, <2>1, <2>2
  <1>4. QED
    BY <1>1, <1>2, <1>3

LEMMA TakeFirst ==
  ASSUME NEW s \in Seq(Events), s # <<>>, StartFirst(s)
  PROVE  /\ Head(s) # "finish-step"
         /\ Head(s) # "start-step" => StartFirst(Tail(s))
  <1>1. /\ Head(s) = s[1] /\ Len(s) \in Nat \ {0} /\ Len(Tail(s)) = Len(s) - 1
        /\ \A i \in 1..(Len(s) - 1) : Tail(s)[i] = s[i + 1]
    BY HeadTailProperties, EmptySeq
  <1>2. Head(s) # "finish-step"
    <2>1. 1 \in 1..Len(s) /\ 1..(1 - 1) = {}
      BY <1>1
    <2>2. QED
      BY <1>1, <2>1 DEF StartFirst
  <1>3. ASSUME Head(s) # "start-step", NEW j \in 1..Len(Tail(s)), Tail(s)[j] = "finish-step"
        PROVE  \E i \in 1..(j - 1) : Tail(s)[i] = "start-step"
    <2>1. j + 1 \in 1..Len(s) /\ s[j + 1] = "finish-step" /\ j \in Int
      BY <1>1, <1>3
    <2>2. PICK i \in 1..((j + 1) - 1) : s[i] = "start-step"
      BY <2>1 DEF StartFirst
    <2>3. i # 1
      BY <1>1, <1>3, <2>2
    <2>4. i - 1 \in 1..(j - 1) /\ i - 1 \in 1..(Len(s) - 1) /\ (i - 1) + 1 = i
      BY <1>1, <1>3, <2>2, <2>3
    <2>5. Tail(s)[i - 1] = "start-step"
      BY <1>1, <2>2, <2>4
    <2>6. QED
      BY <2>4, <2>5
  <1>4. QED
    BY <1>2, <1>3 DEF StartFirst

\* A queue without a FinishStep is in order.
LEMMA NoneFirst ==
  ASSUME NEW s, ~Carries(s, "finish-step")
  PROVE  StartFirst(s)
  BY DEF Carries, StartFirst

\* Sending anything but a FinishStep.
LEMMA SendPair ==
  ASSUME NEW e \in Startup \cup {"start-step"} \cup Terminals, ChannelType, Send(e)
  PROVE  /\ Carries(chan', "finish-step") <=> Carries(chan, "finish-step")
         /\ Carries(chan', "start-step") <=> Carries(chan, "start-step") \/ e = "start-step"
         /\ StartFirst(chan) => StartFirst(chan')
  <1>1. e \in Events /\ chan' = Append(chan, e) /\ chan \in Seq(Events)
    BY DEF Events, Send, ChannelType
  <1>2. e # "finish-step"
    BY DEF Startup, Terminals
  <1>3. QED
    BY <1>1, <1>2, Sending, SendFirst

LEMMA PairInit == Init => PairInv
  <1> SUFFICES ASSUME Init PROVE PairInv
    OBVIOUS
  <1>1. StepInv
    BY StepInit
  <1>2. Paired
    BY NothingCarried DEF Init, Paired, NeverInvalid
  <1>3. QED
    BY <1>1, <1>2 DEF PairInv

LEMMA PairNext == PairInv /\ [Next]_vars => PairInv'
  <1> SUFFICES ASSUME PairInv, [Next]_vars PROVE PairInv'
    OBVIOUS
  <1>s. StepInv /\ StepInv'
    BY StepNext DEF PairInv
  <1>c. /\ ChannelType /\ chan \in Seq(Events) /\ held \in Seq(Events)
        /\ content \in Nat /\ buffer \in Seq(Startup)
        /\ inStep \in BOOLEAN /\ cut \in BOOLEAN
    BY <1>s DEF StepInv, TypeOK, ChannelType, ProducerType, ConsumerType, TokenType
  <1> SUFFICES Paired'
    BY <1>s DEF PairInv
  <1> USE DEF PairInv, Paired, Opened, NeverInvalid
  <1> USE DEF ProducerOnly, ConsumerOnly, pvars, tvars, cvars
  <1>1. CASE FirstCallOk
    BY <1>1 DEF FirstCallOk
  <1>2. CASE FirstCallFails
    BY <1>2 DEF FirstCallFails, CallerTold
  <1>3. CASE Release
    <2>1. CASE buffer = <<>>
      BY <1>3, <2>1 DEF Release
    <2>2. CASE buffer # <<>>
      <3>1. Head(buffer) \in Startup
        BY <1>c, <2>2, HeadTailProperties
      <3>2. /\ Carries(chan', "finish-step") <=> Carries(chan, "finish-step")
            /\ StartFirst(chan) => StartFirst(chan')
        BY <1>3, <1>c, <2>2, <3>1, SendPair DEF Release
      <3>3. QED
        BY <1>3, <2>2, <3>2 DEF Release
    <2>3. QED
      BY <2>1, <2>2
  <1>4. CASE BeginStep
    BY <1>4 DEF BeginStep
  <1>5. CASE Emit
    <2> DEFINE e == IF content = 0 THEN "start-step" ELSE "content"
    <2>1. /\ Carries(chan', "finish-step") <=> Carries(chan, "finish-step")
          /\ Carries(chan', "start-step") <=> Carries(chan, "start-step") \/ e = "start-step"
          /\ StartFirst(chan) => StartFirst(chan')
      BY <1>5, <1>c, SendPair DEF Emit, Startup
    <2>2. content = 0 \/ content > 0
      BY <1>c
    <2>3. ~cut => Opened \/ Carries(chan', "start-step")
      BY <1>5, <2>1, <2>2 DEF Emit
    <2>4. QED
      BY <1>5, <2>1, <2>3 DEF Emit
  <1>6. CASE FinishStep
    <2>1. producer = "step" /\ content > 0 /\ chan' = Append(chan, "finish-step")
      BY <1>6 DEF FinishStep, Send
    <2>2. StartFirst(chan) /\ ~Carries(held, "finish-step")
      BY <1>s, <2>1, NoneFirst DEF StepInv, Owed, NothingOwed, InFlight
    <2>3. Carries(chan, "start-step") => StartFirst(chan')
      BY <1>c, <2>1, <2>2, SendFirst DEF Events
    <2>4. QED
      BY <1>6, <2>1, <2>2, <2>3 DEF FinishStep
  <1>7. CASE TakeStep
    BY <1>7 DEF TakeStep, afterStep
  <1>8. CASE Finish
    <2>1. /\ Carries(chan', "finish-step") <=> Carries(chan, "finish-step")
          /\ StartFirst(chan) => StartFirst(chan')
      BY <1>8, <1>c, SendPair DEF Finish, Terminals
    <2>2. QED
      BY <1>8, <2>1 DEF Finish
  <1>9. CASE ModelFails \/ ObserveCancel
    BY <1>9 DEF ModelFails, ObserveCancel, GiveUp
  <1>10. CASE Report
    <2>1. /\ Carries(chan', "finish-step") <=> Carries(chan, "finish-step")
          /\ StartFirst(chan) => StartFirst(chan')
      BY <1>10, <1>c, SendPair DEF Report, Terminals
    <2>2. QED
      BY <1>10, <2>1 DEF Report
  <1>11. CASE Settle \/ DropSender
    BY <1>11 DEF Settle, DropSender
  <1>12. CASE StepTimesOut \/ TotalTimesOut
    BY <1>12 DEF StepTimesOut, TotalTimesOut, Expires, CallerTold, GiveUp
  <1>13. CASE Started \/ Cancel
    BY <1>13 DEF Started, Cancel
  <1>14. CASE Pull
    <2>1. /\ chan # <<>> /\ chan' = Tail(chan) /\ Head(chan) \in Events /\ ~cut
          /\ UNCHANGED <<producer, content, inStep, completion>>
      BY <1>14, <1>c, Taking DEF Pull
    <2>2. \A f : Carries(chan, f) <=> f = Head(chan) \/ Carries(chan', f)
      BY <1>c, <2>1, Taking
    <2>3. CASE stop
      BY <1>14, <2>1, <2>3 DEF Pull
    <2>4. CASE ~stop
      <3>1. held' = Append(held, Head(chan)) /\ cut' = cut
        BY <1>14, <2>4 DEF Pull
      <3>2. \A f : Carries(held', f) <=> Carries(held, f) \/ f = Head(chan)
        BY <1>c, <2>1, <3>1, Sending
      <3>3. Opened => Opened'
        BY <2>1, <3>2
      <3>4. Carries(held', "finish-step") => inStep' \/ StartFirst(held')
        <4>1. CASE Head(chan) = "finish-step"
          <5>1. Opened
            BY <1>c, <2>1, <2>2, <4>1, TakeFirst
          <5>2. StartFirst(held)
            BY <1>s, <2>2, <4>1, NoneFirst DEF StepInv, OneStep
          <5>3. QED
            BY <1>c, <2>1, <3>1, <5>1, <5>2, SendFirst
        <4>2. CASE Head(chan) # "finish-step"
          BY <1>c, <2>1, <3>1, <3>2, <4>2, SendFirst
        <4>3. QED
          BY <4>1, <4>2
      <3>5. Carries(chan', "finish-step") => Opened' \/ StartFirst(chan')
        BY <1>c, <2>1, <2>2, <3>2, <3>3, TakeFirst
      <3>6. QED
        BY <2>1, <2>2, <3>1, <3>2, <3>3, <3>4, <3>5
    <2>5. QED
      BY <2>3, <2>4
  <1>15. CASE TransformStops \/ TransformFails
    <2>1. PICK fails \in BOOLEAN, ends \in BOOLEAN : TransformActs(fails, ends)
      BY <1>15 DEF TransformStops, TransformFails
    <2>2. CASE ends
      BY <2>1, <2>2, NothingCarried DEF TransformActs
    <2>3. CASE ~ends
      BY <2>1, <2>3 DEF TransformActs
    <2>4. QED
      BY <2>2, <2>3
  <1>16. CASE TransformTruncates
    BY <1>16, NothingCarried DEF TransformTruncates
  <1>17. CASE HandleEvent
    <2> PICK e \in Events : Handle(e)
      BY <1>17 DEF HandleEvent
    <2>1. /\ held # <<>> /\ held' = Tail(held) /\ e = Head(held)
          /\ UNCHANGED <<chan, cut, content>>
      BY DEF Handle
    <2>2. \A f : Carries(held, f) <=> f = e \/ Carries(held', f)
      BY <1>c, <2>1, Taking
    <2>3. e = "finish-step" => inStep
      BY <1>c, <2>1, <2>2, TakeFirst
    <2>4. UNCHANGED <<completion, producer>>
      BY <2>3 DEF Handle
    <2>5. inStep' = (e = "start-step" \/ (e # "finish-step" /\ inStep))
      BY <2>3 DEF Handle
    <2>6. CASE e = "finish-step"
      <3>1. ~Carries(chan, "finish-step") /\ ~Carries(held', "finish-step")
        BY <1>c, <1>s, <2>1, <2>2, <2>6, TakeOnce DEF StepInv, OneStep
      <3>2. producer # "step"
        BY <1>s, <2>2, <2>6 DEF StepInv, Owed, NothingOwed, InFlight
      <3>3. QED
        BY <2>1, <2>4, <3>1, <3>2
    <2>7. CASE e = "start-step"
      BY <2>1, <2>4, <2>5, <2>7
    <2>8. CASE e \notin {"start-step", "finish-step"}
      <3>1. StartFirst(held) => StartFirst(held')
        BY <1>c, <2>1, <2>8, TakeFirst
      <3>2. Opened => Opened'
        BY <2>2, <2>5, <2>8
      <3>3. QED
        BY <2>1, <2>2, <2>4, <2>5, <2>8, <3>1, <3>2
    <2>9. QED
      BY <2>6, <2>7, <2>8
  <1>18. CASE EndStream
    <2>1. Verdict # "invalid"
      BY <1>s DEF Verdict, CancelError, Outcome, StepInv, TypeOK, TokenType, Errors
    <2>2. QED
      BY <1>18, <2>1 DEF EndStream, ProducerAborted
  <1>19. CASE DropAll
    BY <1>19 DEF DropAll, ProducerAborted
  <1>20. CASE UNCHANGED vars
    BY <1>20 DEF vars
  <1>21. QED
    BY <1>1, <1>2, <1>3, <1>4, <1>5, <1>6, <1>7, <1>8, <1>9, <1>10, <1>11, <1>12, <1>13,
       <1>14, <1>15, <1>16, <1>17, <1>18, <1>19, <1>20
    DEF Next, ProducerStep, ConsumerStep

LEMMA PairAlways == Spec => []PairInv
  BY PairInit, PairNext, PTL DEF Spec

(* However a stream is cut, stopped or timed out, the processor never      *)
(* meets a FinishStep outside a step (processor.rs:310-322).               *)
THEOREM NeverMisplaced == Spec => []NeverInvalid
  <1>1. PairInv => NeverInvalid
    BY DEF PairInv, Paired
  <1>2. QED
    BY <1>1, PairAlways, PTL

-----------------------------------------------------------------------------
(* The end a call comes to.  A terminal event has its cause in the         *)
(* producer, wherever it is; a recorded timeout and a plain cancellation   *)
(* exclude each other; a stream cut without a stop has not ended; and the  *)
(* outcome is there once the producer has let go of the channel.           *)

Seen(e) == Carries(chan, e) \/ Carries(held, e) \/ terminal = e

Causes ==
    /\ Seen("abort") => perror = "cancelled"
    /\ Seen("error") => perror \in {"model", "timeout"}
    /\ Seen("finish") => perror = "none" /\ pushed > 0
    /\ producer = "finish" => pushed > 0
    /\ perror # "none" => producer \in {"report", "settle", "drop", "gone"}
    /\ perror = "cancelled" => cancelled /\ reason = "none"
    /\ failure => stop

Hooks ==
    /\ aborted <=> terminal = "abort"
    /\ completion = "pending" => aborts = IF aborted THEN 1 ELSE 0
    /\ AbortHookOnce

Cuts == cut /\ ~stop => held = <<>> /\ terminal = "none"

Told ==
    /\ caller = "streaming" => ready = "ok"
    /\ producer = "starting" => ready = "pending"
    /\ ready = "ok" /\ caller \in {"waiting", "streaming"} /\ producer \in {"drop", "gone"}
       => outcome = IF perror = "none" THEN "finished" ELSE perror

FateInv == EndInv /\ PairInv /\ Causes /\ Hooks /\ Cuts /\ Told /\ TerminalAgrees

\* What the inductive invariants say of the types, in one place.
LEMMA FateTypes ==
  ASSUME EndInv
  PROVE  /\ ChannelType /\ chan \in Seq(Events) /\ held \in Seq(Events)
         /\ buffer \in Seq(Startup) /\ pushed \in Nat /\ aborts \in Nat /\ built \in Nat
         /\ stepChan \in Nat /\ built = pushed + stepChan
         /\ perror \in {"none"} \cup Errors /\ reason \in {"none", "timeout"}
         /\ terminal \in {"none"} \cup Terminals
         /\ cut \in BOOLEAN /\ stop \in BOOLEAN /\ failure \in BOOLEAN
         /\ cancelled \in BOOLEAN /\ aborted \in BOOLEAN
         /\ caller \in {"waiting", "streaming"} => completion = "pending"
         /\ stop => cancelled
  BY DEF EndInv, StepInv, OneStep, TypeOK, ProducerType, ChannelType, TokenType, ConsumerType, Blame

LEMMA FateInit == Init => FateInv
  <1> SUFFICES ASSUME Init PROVE FateInv
    OBVIOUS
  <1>1. EndInv /\ PairInv
    BY EndInit, PairInit
  <1>2. Causes /\ Hooks /\ Cuts /\ Told /\ TerminalAgrees
    BY NothingCarried
    DEF Init, Causes, Seen, Hooks, AbortHookOnce, Cuts, Told, TerminalAgrees, Terminals
  <1>3. QED
    BY <1>1, <1>2 DEF FateInv

\* What sending an event adds to what is under way.
LEMMA SendSeen ==
  ASSUME NEW e \in Events, chan \in Seq(Events), Send(e), UNCHANGED <<held, terminal>>
  PROVE  \A f : Seen(f)' <=> Seen(f) \/ f = e
  BY Sending DEF Send, Seen

\* Only the producer adds to it.
LEMMA OnlyProducerShows ==
  ASSUME FateInv, [Next]_vars, ~ProducerStep
  PROVE  \A f \in Terminals : Seen(f)' => Seen(f)
  <1>t. chan \in Seq(Events) /\ held \in Seq(Events)
    BY FateTypes DEF FateInv
  <1> USE DEF Seen, pvars, tvars, cvars
  <1>1. CASE StepTimesOut \/ TotalTimesOut \/ Started \/ EndStream \/ DropAll \/ Cancel
             \/ UNCHANGED vars
    BY <1>1 DEF StepTimesOut, TotalTimesOut, Expires, CallerTold, GiveUp, ProducerOnly, Started,
                EndStream, DropAll, Cancel, vars
  <1>2. CASE Pull
    <2>1. chan # <<>> /\ chan' = Tail(chan) /\ terminal' = terminal
      BY <1>2 DEF Pull
    <2>2. Head(chan) \in Events /\ \A f : Carries(chan, f) <=> f = Head(chan) \/ Carries(chan', f)
      BY <1>t, <2>1, Taking
    <2>3. held' = held \/ held' = Append(held, Head(chan))
      BY <1>2 DEF Pull
    <2>4. \A f : Carries(held', f) => Carries(held, f) \/ f = Head(chan)
      BY <1>t, <2>2, <2>3, Sending
    <2>5. QED
      BY <2>1, <2>2, <2>4
  <1>3. CASE TransformStops \/ TransformFails \/ TransformTruncates
    <2>1. (held' = held \/ held' = <<>>) /\ UNCHANGED <<chan, terminal>>
      BY <1>3 DEF TransformStops, TransformFails, TransformActs, TransformTruncates
    <2>2. QED
      BY <2>1, NothingCarried
  <1>4. CASE HandleEvent
    <2> PICK e \in Events : Handle(e)
      BY <1>4 DEF HandleEvent
    <2>1. /\ held # <<>> /\ held' = Tail(held) /\ e = Head(held) /\ chan' = chan
          /\ terminal' = IF e \in Terminals THEN e ELSE terminal
      BY DEF Handle
    <2>2. \A f : Carries(held, f) <=> f = e \/ Carries(held', f)
      BY <1>t, <2>1, Taking
    <2>3. QED
      BY <2>1, <2>2
  <1>5. QED
    BY <1>1, <1>2, <1>3, <1>4 DEF Next, ConsumerStep

\* A terminal event is seen only when the producer is past its loop.
LEMMA SeenLate ==
  ASSUME EndInv, NEW f \in Terminals, Seen(f)
  PROVE  producer \in {"settle", "drop", "gone"}
  <1>1. Carries(chan, f) => HasTerminal(chan)
    BY DEF Carries, HasTerminal
  <1>2. Carries(held, f) => HasTerminal(held)
    BY DEF Carries, HasTerminal
  <1>3. terminal = f => terminal # "none"
    BY DEF Terminals
  <1>4. QED
    BY <1>1, <1>2, <1>3 DEF Seen, EndInv, Ending

LEMMA CausesNext == FateInv /\ [Next]_vars => Causes'
  <1> SUFFICES ASSUME FateInv, [Next]_vars PROVE Causes'
    OBVIOUS
  <1>i. EndInv /\ Causes
    BY DEF FateInv
  <1>t. /\ chan \in Seq(Events) /\ held \in Seq(Events) /\ pushed \in Nat
        /\ perror \in {"none"} \cup Errors /\ reason \in {"none", "timeout"}
        /\ producer = "report" => perror # "none"
    BY <1>i, FateTypes DEF EndInv, StepInv, Settled
  <1>l. producer \notin {"settle", "drop", "gone"}
        => ~Seen("abort") /\ ~Seen("error") /\ ~Seen("finish")
    BY <1>i, SeenLate DEF Terminals
  <1>h. ~ProducerStep
        => (Seen("abort")' => Seen("abort")) /\ (Seen("error")' => Seen("error"))
           /\ (Seen("finish")' => Seen("finish"))
    BY OnlyProducerShows DEF Terminals
  <1>n. ASSUME UNCHANGED <<chan, held, terminal>>
        PROVE  \A f : Seen(f)' <=> Seen(f)
    BY <1>n DEF Seen
  <1>m. ASSUME NEW e \in Events, Send(e), ProducerOnly
        PROVE  \A f : Seen(f)' <=> Seen(f) \/ f = e
    BY <1>t, <1>m, SendSeen DEF ProducerOnly, tvars, cvars
  <1> USE DEF Causes
  <1>1. CASE FirstCallOk \/ FirstCallFails \/ BeginStep \/ Settle \/ DropSender
    <2>1. /\ UNCHANGED <<chan, held, terminal, perror, pushed, cancelled, reason, failure, stop>>
          /\ producer' # "finish"
          /\ producer \in {"report", "settle", "drop", "gone"}
             => producer' \in {"report", "settle", "drop", "gone"}
      BY <1>1 DEF FirstCallOk, FirstCallFails, CallerTold, BeginStep, Settle, DropSender,
                  ProducerOnly, tvars, cvars
    <2>2. QED
      BY <1>i, <1>n, <2>1
  <1>2. CASE ModelFails \/ ObserveCancel
    <2>1. /\ UNCHANGED <<chan, held, terminal, pushed, cancelled, reason, failure, stop>>
          /\ producer' = "report" /\ producer \in {"begin", "step"}
          /\ perror' = "model" \/ (perror' = CancelError /\ cancelled)
      BY <1>2 DEF ModelFails, ObserveCancel, GiveUp, ProducerOnly, tvars, cvars
    <2>2. CancelError = "cancelled" => reason = "none"
      BY <1>t DEF CancelError
    <2>3. QED
      BY <1>i, <1>l, <1>n, <2>1, <2>2
  <1>3. CASE Release \/ Emit \/ FinishStep
    <2>1. PICK e \in {"start", "content", "start-step", "finish-step", "none"} :
             IF e = "none" THEN chan' = chan ELSE Send(e)
      <3>1. CASE Release
        <4>1. buffer # <<>> => Head(buffer) \in Startup
          BY <1>i, FateTypes, HeadTailProperties
        <4>2. QED
          BY <3>1, <4>1 DEF Release, Startup
      <3>2. CASE Emit
        BY <3>2 DEF Emit
      <3>3. CASE FinishStep
        BY <3>3 DEF FinishStep
      <3>4. QED
        BY <1>3, <3>1, <3>2, <3>3
    <2>2. /\ UNCHANGED <<held, terminal, perror, pushed, cancelled, reason, failure, stop>>
          /\ ProducerOnly /\ producer' # "finish"
          /\ producer \in {"releasing", "step"}
      BY <1>3 DEF Release, Emit, FinishStep, ProducerOnly, tvars, cvars
    <2>3. ~Seen("abort")' /\ ~Seen("error")' /\ ~Seen("finish")'
      <3>1. CASE e = "none"
        BY <1>l, <1>n, <2>1, <2>2, <3>1
      <3>2. CASE e # "none"
        <4>1. e \in Events
          BY <3>2 DEF Events, Startup
        <4>2. QED
          BY <1>l, <1>m, <2>1, <2>2, <3>2, <4>1
      <3>3. QED
        BY <3>1, <3>2
    <2>4. QED
      BY <1>i, <2>2, <2>3
  <1>4. CASE TakeStep
    <2>1. /\ UNCHANGED <<chan, held, terminal, perror, cancelled, reason, failure, stop>>
          /\ producer = "await" /\ pushed' = pushed + 1
      BY <1>4 DEF TakeStep, tvars, cvars
    <2>2. QED
      BY <1>i, <1>l, <1>n, <1>t, <2>1
  <1>5. CASE Finish
    <2>1. /\ UNCHANGED <<perror, pushed, cancelled, reason, failure, stop>>
          /\ ProducerOnly /\ Send("finish") /\ producer = "finish" /\ producer' = "settle"
      BY <1>5 DEF Finish, ProducerOnly, tvars
    <2>2. "finish" \in Events
      BY DEF Events, Terminals
    <2>3. \A f : Seen(f)' <=> Seen(f) \/ f = "finish"
      BY <1>m, <2>1, <2>2
    <2>4. QED
      BY <1>i, <1>l, <2>1, <2>3
  <1>6. CASE Report
    <2>1. /\ UNCHANGED <<perror, pushed, cancelled, reason, failure, stop>>
          /\ ProducerOnly /\ producer = "report" /\ producer' = "settle"
          /\ Send(IF perror = "cancelled" THEN "abort" ELSE "error")
      BY <1>6 DEF Report, ProducerOnly, tvars
    <2>2. {"abort", "error"} \subseteq Events
      BY DEF Events, Terminals
    <2>3. \A f : Seen(f)' <=> Seen(f) \/ f = IF perror = "cancelled" THEN "abort" ELSE "error"
      BY <1>m, <2>1, <2>2
    <2>4. perror \in Errors
      BY <1>t, <2>1
    <2>5. QED
      BY <1>i, <1>l, <2>1, <2>3, <2>4 DEF Errors
  <1>7. CASE StepTimesOut \/ TotalTimesOut
    <2>1. PICK scope : Expires(scope) /\ scope \in {totalScope, {"starting", "releasing", "begin", "step"}}
      BY <1>7 DEF StepTimesOut, TotalTimesOut
    <2>2. /\ UNCHANGED <<chan, held, terminal, pushed, cancelled, failure, stop>>
          /\ producer \notin {"settle", "drop", "gone", "report"}
      BY <2>1 DEF Expires, CallerTold, GiveUp, ProducerOnly, tvars, cvars, totalScope
    <2>3. \/ producer' = "gone" /\ perror' = perror
          \/ producer' = "report" /\ perror' = "timeout"
      BY <2>1 DEF Expires, CallerTold, GiveUp
    <2>4. QED
      BY <1>i, <1>l, <1>n, <2>2, <2>3
  <1>8. CASE ~ProducerStep /\ ~StepTimesOut /\ ~TotalTimesOut
    <2>1. /\ UNCHANGED <<perror, pushed, reason>> /\ producer' \in {producer, "gone"}
          /\ cancelled => cancelled'
      BY <1>8 DEF Next, ConsumerStep, Started, Pull, HandleEvent, Handle, EndStream, TransformStops,
                  TransformFails, TransformActs, TransformTruncates, DropAll, Cancel, ConsumerOnly,
                  ProducerAborted, pvars, vars
    <2>2. failure' => stop'
      BY <1>8, <1>i
      DEF Next, ConsumerStep, Started, Pull, HandleEvent, Handle, EndStream, TransformStops,
          TransformFails, TransformActs, TransformTruncates, DropAll, Cancel, tvars, vars
    <2>3. QED
      BY <1>8, <1>h, <1>i, <2>1, <2>2
  <1>9. QED
    BY <1>1, <1>2, <1>3, <1>4, <1>5, <1>6, <1>7, <1>8 DEF ProducerStep

\* The processor places every event it handles, and none follows a terminal.
LEMMA Placing ==
  ASSUME FateInv, [Next]_vars, NEW e \in Events, Handle(e)
  PROVE  /\ e # "finish-step" \/ inStep
         /\ terminal = "none" /\ held # <<>>
         /\ completion = "pending" /\ UNCHANGED <<completion, caller, producer, outcome>>
  <1>1. completion' # "invalid"
    BY PairNext DEF FateInv, PairInv, Paired, NeverInvalid
  <1>2. e # "finish-step" \/ inStep
    BY <1>1 DEF Handle
  <1>3. held # <<>> /\ caller = "streaming"
    BY DEF Handle, Streaming
  <1>4. terminal = "none" /\ completion = "pending"
    BY <1>3 DEF FateInv, EndInv, Ending, Blame
  <1>5. UNCHANGED <<completion, caller, producer, outcome>>
    BY <1>2 DEF Handle
  <1>6. QED
    BY <1>2, <1>3, <1>4, <1>5

LEMMA HooksNext == FateInv /\ [Next]_vars => Hooks'
  <1> SUFFICES ASSUME FateInv, [Next]_vars PROVE Hooks'
    OBVIOUS
  <1>i. EndInv /\ Causes /\ Hooks
    BY DEF FateInv
  <1>t. /\ aborted \in BOOLEAN /\ aborts \in Nat
        /\ caller \in {"waiting", "streaming"} => completion = "pending"
    BY <1>i, FateTypes
  <1> USE DEF Hooks, AbortHookOnce
  <1>1. CASE HandleEvent
    <2> PICK e \in Events : Handle(e)
      BY <1>1 DEF HandleEvent
    <2>1. /\ terminal = "none" /\ completion = "pending" /\ completion' = completion
          /\ e # "finish-step" \/ inStep
      BY Placing
    <2>2. ~aborted /\ aborts = 0
      BY <1>i, <2>1
    <2>3. /\ aborted' = (aborted \/ e = "abort")
          /\ aborts' = IF e = "abort" THEN aborts + 1 ELSE aborts
          /\ terminal' = IF e \in Terminals THEN e ELSE terminal
      BY <2>1 DEF Handle
    <2>4. aborted' <=> e = "abort"
      BY <2>2, <2>3
    <2>5. aborts' = IF aborted' THEN 1 ELSE 0
      BY <2>2, <2>3, <2>4
    <2>6. terminal' = "abort" <=> e = "abort"
      BY <2>1, <2>3 DEF Terminals
    <2>7. QED
      BY <2>1, <2>4, <2>5, <2>6
  <1>2. CASE EndStream
    <2>1. /\ completion = "pending" /\ completion' = Verdict
          /\ UNCHANGED <<aborted, terminal>>
          /\ aborts' = IF needsAbort(Verdict) THEN aborts + 1 ELSE aborts
      BY <1>2, <1>t DEF EndStream, Streaming
    <2>2. aborted => Verdict \in {"transform", "cancelled"}
      <3>1. aborted => cancelled /\ reason = "none"
        BY <1>i DEF Causes, Seen
      <3>2. QED
        BY <3>1 DEF Verdict, checksToken, CancelError
    <2>3. CASE aborted
      <3>1. aborts = 1 /\ ~needsAbort(Verdict)
        BY <1>i, <2>1, <2>3 DEF needsAbort
      <3>2. QED
        BY <1>i, <2>1, <2>2, <2>3, <3>1
    <2>4. CASE ~aborted
      <3>1. aborts = 0 /\ (needsAbort(Verdict) <=> Verdict = "cancelled")
        BY <1>i, <2>1, <2>4 DEF needsAbort
      <3>2. Verdict # "pending"
        BY <1>i, FateTypes DEF Verdict, CancelError, Errors
      <3>3. QED
        BY <1>i, <2>1, <2>4, <3>1, <3>2
    <2>5. QED
      BY <2>3, <2>4
  <1>3. CASE DropAll
    <2>1. completion = "pending" /\ completion' = "dropped" /\ UNCHANGED <<aborted, terminal, aborts>>
      BY <1>3, <1>t DEF DropAll
    <2>2. QED
      BY <1>i, <1>t, <2>1
  <1>4. CASE ~HandleEvent /\ ~EndStream /\ ~DropAll
    <2>1. UNCHANGED <<aborted, aborts, terminal, completion>>
      BY <1>4 DEF Next, ProducerStep, ConsumerStep, FirstCallOk, FirstCallFails, CallerTold,
                  Release, BeginStep, Emit, FinishStep, TakeStep, Finish, ModelFails,
                  ObserveCancel, GiveUp, Report, Settle, DropSender, StepTimesOut, TotalTimesOut,
                  Expires, ProducerOnly, Started, Pull, TransformStops, TransformFails,
                  TransformActs, TransformTruncates, Cancel, cvars, vars
    <2>2. QED
      BY <1>i, <2>1
  <1>5. QED
    BY <1>1, <1>2, <1>3, <1>4

LEMMA CutsNext == FateInv /\ [Next]_vars => Cuts'
  <1> SUFFICES ASSUME FateInv, [Next]_vars PROVE Cuts'
    OBVIOUS
  <1>i. Cuts /\ cut \in BOOLEAN /\ stop \in BOOLEAN /\ (terminal # "none" => held = <<>>)
    BY FateTypes DEF FateInv, EndInv, Ending
  <1> USE DEF Cuts
  <1>1. CASE HandleEvent
    <2> PICK e \in Events : Handle(e)
      BY <1>1 DEF HandleEvent
    <2>1. held # <<>> /\ UNCHANGED <<cut, stop>>
      BY DEF Handle
    <2>2. QED
      BY <1>i, <2>1
  <1>2. CASE Pull
    BY <1>2, <1>i DEF Pull, cvars
  <1>3. CASE TransformStops \/ TransformFails
    BY <1>3 DEF TransformStops, TransformFails, TransformActs
  <1>4. CASE TransformTruncates
    BY <1>4, <1>i DEF TransformTruncates, cvars
  <1>5. CASE ~HandleEvent /\ ~Pull /\ ~TransformStops /\ ~TransformFails /\ ~TransformTruncates
    <2>1. UNCHANGED <<cut, stop, held, terminal>>
      BY <1>5 DEF Next, ProducerStep, ConsumerStep, FirstCallOk, FirstCallFails, CallerTold,
                  Release, BeginStep, Emit, FinishStep, TakeStep, Finish, ModelFails,
                  ObserveCancel, GiveUp, Report, Settle, DropSender, StepTimesOut, TotalTimesOut,
                  Expires, ProducerOnly, Started, EndStream, DropAll, Cancel, tvars, cvars, vars
    <2>2. QED
      BY <1>i, <2>1
  <1>6. QED
    BY <1>1, <1>2, <1>3, <1>4, <1>5

LEMMA ToldNext == FateInv /\ [Next]_vars => Told'
  <1> SUFFICES ASSUME FateInv, [Next]_vars PROVE Told'
    OBVIOUS
  <1>i. Told
    BY DEF FateInv
  <1> USE DEF Told, ProducerOnly, pvars, cvars
  <1>1. CASE FirstCallOk \/ FirstCallFails
    <2>1. producer = "starting" /\ ready' # "pending" /\ UNCHANGED caller
      BY <1>1 DEF FirstCallOk, FirstCallFails, CallerTold
    <2>2. (producer' = "gone" /\ ready' # "ok") \/ producer' = "releasing"
      BY <1>1 DEF FirstCallOk, FirstCallFails, CallerTold
    <2>3. QED
      BY <1>i, <2>1, <2>2
  <1>2. CASE Release \/ BeginStep \/ Emit \/ FinishStep \/ TakeStep \/ Finish \/ ModelFails
             \/ ObserveCancel \/ Report
    <2>1. /\ UNCHANGED <<caller, ready, outcome>>
          /\ producer' \notin {"starting", "drop", "gone"}
      BY <1>2 DEF Release, BeginStep, Emit, FinishStep, TakeStep, Finish, ModelFails, ObserveCancel,
                  GiveUp, Report, afterStep
    <2>2. QED
      BY <1>i, <2>1
  <1>3. CASE Settle
    BY <1>3, <1>i DEF Settle
  <1>4. CASE DropSender
    BY <1>4, <1>i DEF DropSender
  <1>5. CASE StepTimesOut \/ TotalTimesOut
    <2>1. PICK scope : Expires(scope)
      BY <1>5 DEF StepTimesOut, TotalTimesOut
    <2>2. CASE producer = "starting"
      BY <1>i, <2>1, <2>2 DEF Expires, CallerTold
    <2>3. CASE producer # "starting"
      BY <1>i, <2>1, <2>3 DEF Expires, GiveUp
    <2>4. QED
      BY <2>2, <2>3
  <1>6. CASE Started
    BY <1>6, <1>i DEF Started
  <1>7. CASE HandleEvent
    <2> PICK e \in Events : Handle(e)
      BY <1>7 DEF HandleEvent
    <2>1. UNCHANGED <<caller, producer, outcome, ready, perror>>
      BY Placing DEF Handle, ConsumerOnly
    <2>2. QED
      BY <1>i, <2>1
  <1>8. CASE EndStream \/ DropAll
    <2>1. caller' \in {"ended", "dropped"} /\ producer' = "gone"
      BY <1>8 DEF EndStream, DropAll, ProducerAborted
    <2>2. QED
      BY <2>1
  <1>9. CASE Pull \/ TransformStops \/ TransformFails \/ TransformTruncates \/ Cancel
             \/ UNCHANGED vars
    <2>1. UNCHANGED <<caller, producer, outcome, ready, perror>>
      BY <1>9 DEF Pull, TransformStops, TransformFails, TransformActs, TransformTruncates,
                  Cancel, vars
    <2>2. QED
      BY <1>i, <2>1
  <1>10. QED
    BY <1>1, <1>2, <1>3, <1>4, <1>5, <1>6, <1>7, <1>8, <1>9 DEF Next, ProducerStep, ConsumerStep

LEMMA AgreesNext == FateInv /\ [Next]_vars => TerminalAgrees'
  <1> SUFFICES ASSUME FateInv, [Next]_vars PROVE TerminalAgrees'
    OBVIOUS
  <1>i. EndInv /\ Causes /\ Cuts /\ Told /\ TerminalAgrees
    BY DEF FateInv
  <1>t. /\ pushed \in Nat /\ stepChan \in Nat /\ built = pushed + stepChan
        /\ perror \in {"none"} \cup Errors /\ cut \in BOOLEAN /\ cancelled \in BOOLEAN
        /\ stop => cancelled
    BY <1>i, FateTypes
  <1> USE DEF TerminalAgrees
  <1>1. CASE EndStream
    <2>1. /\ caller = "streaming" /\ completion' = Verdict /\ UNCHANGED <<terminal, cancelled>>
          /\ cut \/ producer = "gone"
      BY <1>1 DEF EndStream, Streaming, Exhausted
    <2> SUFFICES ASSUME ~cancelled, terminal # "none"
                 PROVE  /\ terminal = "finish" => Verdict = "ok"
                        /\ terminal = "error" => Verdict \in {"model", "timeout"}
                        /\ terminal = "abort" => Verdict = "cancelled"
      BY <2>1
    <2>2. ~stop /\ ~failure
      BY <1>i, <1>t DEF Causes
    <2>3. producer = "gone"
      BY <1>i, <2>1, <2>2 DEF Cuts
    <2>4. outcome = IF perror = "none" THEN "finished" ELSE perror
      BY <1>i, <2>1, <2>3 DEF Told
    <2>5. Verdict = IF outcome \in Errors THEN outcome ELSE IF built = 0 THEN "no_output" ELSE "ok"
      BY <1>t, <2>2, <2>4 DEF Verdict, checksToken, Outcome, Errors
    <2>6. CASE terminal = "finish"
      <3>1. perror = "none" /\ pushed > 0
        BY <1>i, <2>6 DEF Causes, Seen
      <3>2. QED
        BY <1>t, <2>4, <2>5, <2>6, <3>1 DEF Errors
    <2>7. CASE terminal = "error"
      <3>1. perror \in {"model", "timeout"}
        BY <1>i, <2>7 DEF Causes, Seen
      <3>2. QED
        BY <2>4, <2>5, <2>7, <3>1 DEF Errors
    <2>8. CASE terminal = "abort"
      <3>1. cancelled
        BY <1>i, <2>8 DEF Causes, Seen
      <3>2. QED
        BY <3>1
    <2>9. QED
      BY <2>6, <2>7, <2>8
  <1>2. CASE HandleEvent
    <2> PICK e \in Events : Handle(e)
      BY <1>2 DEF HandleEvent
    <2>1. caller' = "streaming"
      BY Placing DEF Handle, Streaming
    <2>2. QED
      BY <2>1
  <1>3. CASE ~EndStream /\ ~HandleEvent
    <2>1. /\ caller' = "ended" => caller = "ended"
          /\ caller = "ended" => UNCHANGED <<terminal, completion>> \/ caller' # "ended"
          /\ cancelled => cancelled'
      BY <1>3 DEF Next, ProducerStep, ConsumerStep, FirstCallOk, FirstCallFails, CallerTold,
                  Release, BeginStep, Emit, FinishStep, TakeStep, Finish, ModelFails,
                  ObserveCancel, GiveUp, Report, Settle, DropSender, StepTimesOut, TotalTimesOut,
                  Expires, ProducerOnly, Started, Pull, TransformStops, TransformFails,
                  TransformActs, TransformTruncates, Cancel, DropAll, cvars, vars
    <2>2. QED
      BY <1>i, <2>1
  <1>4. QED
    BY <1>1, <1>2, <1>3

LEMMA FateAlways == Spec => []FateInv
  <1>1. FateInv /\ [Next]_vars => FateInv'
    BY EndNext, PairNext, CausesNext, HooksNext, CutsNext, ToldNext, AgreesNext DEF FateInv
  <1>2. QED
    BY <1>1, FateInit, PTL DEF Spec

(* on_abort runs once for a call that ends as cancelled and never for one  *)
(* that ends otherwise, whether the Abort event got through or not         *)
(* (processor.rs:353-356, 398-425).                                        *)
THEOREM HookRunsOnce == Spec => []AbortHookOnce
  <1>1. FateInv => AbortHookOnce
    BY DEF FateInv, Hooks
  <1>2. QED
    BY <1>1, FateAlways, PTL

(* The result the caller gets agrees with the terminal event it saw, since *)
(* the outcome is sent before the channel closes (stage.rs:134-154).       *)
THEOREM ResultAgrees == Spec => []TerminalAgrees
  <1>1. FateInv => TerminalAgrees
    BY DEF FateInv
  <1>2. QED
    BY <1>1, FateAlways, PTL
=============================================================================

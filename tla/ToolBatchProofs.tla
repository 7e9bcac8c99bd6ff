--------------------------- MODULE ToolBatchProofs ---------------------------
(***************************************************************************)
(* Theorems about ToolBatch for every number of calls, every limit and     *)
(* every channel.                                                          *)
(***************************************************************************)
EXTENDS ToolBatch, FiniteSetTheorems, TLAPS

Phases == {"queued", "running", "offering", "ending", "done", "joined", "aborted"}
Places == {"filling", "progress", "join", "last", "refill", "returned", "failed"}
Active == {"running", "offering", "ending", "done"}

\* The part of TypeOK the counting rests on.
BatchType ==
    /\ limit \in Nat /\ next \in 0..Calls
    /\ task \in [Call -> Phases]
    /\ how \in [Call -> Outcomes \cup {"none"}]
    /\ pc \in Places

-----------------------------------------------------------------------------
(* The JoinSet.                                                            *)

LEMMA JoinSetIsActive == InJoinSet = {c \in Call : task[c] \in Active}
  BY DEF InJoinSet, Executing, InPhase, Active

LEMMA CallsAreFinite == Calls \in Nat \ {0} /\ IsFiniteSet(Call)
  BY FS_Interval, ToolBatchAssumption DEF Call, ToolBatchAssumption

\* The JoinSet is finite, and so is whatever replaces it.
LEMMA JoinSetIsFinite ==
  /\ IsFiniteSet(InJoinSet) /\ Cardinality(InJoinSet) \in Nat
  /\ IsFiniteSet(InJoinSet') /\ Cardinality(InJoinSet') \in Nat
  <1>1. InJoinSet \in SUBSET Call /\ InJoinSet' \in SUBSET Call
    BY DEF InJoinSet, Executing, InPhase, Call
  <1>2. IsFiniteSet(InJoinSet) /\ IsFiniteSet(InJoinSet')
    BY <1>1, CallsAreFinite, FS_Subset
  <1>3. QED
    BY <1>2, FS_CardinalityType

\* What a change of one task does to it.
LEMMA OneTask ==
  ASSUME BatchType, NEW c \in Call, NEW p \in Phases, task' = [task EXCEPT ![c] = p]
  PROVE  /\ task' \in [Call -> Phases]
         /\ \A d \in Call : task'[d] = IF d = c THEN p ELSE task[d]
         /\ InJoinSet' = IF p \in Active THEN InJoinSet \cup {c} ELSE InJoinSet \ {c}
  <1>1. \A d \in Call : task'[d] = IF d = c THEN p ELSE task[d]
    BY DEF BatchType
  <1>2. InJoinSet = {d \in Call : task[d] \in Active}
        /\ InJoinSet' = {d \in Call : task'[d] \in Active}
    BY DEF InJoinSet, Executing, InPhase, Active, Call
  <1>3. InJoinSet' = IF p \in Active THEN InJoinSet \cup {c} ELSE InJoinSet \ {c}
    BY <1>1, <1>2
  <1>4. QED
    BY <1>1, <1>3 DEF BatchType

-----------------------------------------------------------------------------
(* The inductive invariant.  AtMostLimit is not inductive: a slot is free  *)
(* only because a call was joined just before, and while the batch fills   *)
(* the JoinSet the limit bounds the calls started, not those running.      *)

Slots ==
    /\ \A c \in Call : c > next => task[c] = "queued"
    /\ pc = "filling" => next <= limit
    /\ Cardinality(InJoinSet) <= limit
    /\ pc = "refill" => Cardinality(InJoinSet) + 1 <= limit
    /\ limit = 0 /\ pc # "failed" => next = 0

\* How an execution ended decides what may become of its task.
Fates ==
    /\ \A c \in Call : task[c] \in {"queued", "running", "offering"} => how[c] = "none"
    /\ \A c \in Call : task[c] = "joined" => how[c] \notin fatal
    /\ \A c \in Call : task[c] = "aborted" => pc = "failed"
    /\ pc = "returned" => InJoinSet = {}

BatchInv == BatchType /\ Slots /\ Fates

LEMMA BatchInit == Init => BatchInv
  <1> SUFFICES ASSUME Init PROVE BatchInv
    OBVIOUS
  <1>1. BatchType
    BY ToolBatchAssumption DEF Init, BatchType, ToolBatchAssumption, Phases, Places
  <1>2. InJoinSet = {}
    BY JoinSetIsActive DEF Init, Active
  <1>3. Cardinality(InJoinSet) = 0
    BY <1>2, FS_EmptySet
  <1>4. Slots
    BY <1>1, <1>3 DEF Init, Slots, BatchType
  <1>5. Fates
    BY <1>2 DEF Init, Fates
  <1>6. QED
    BY <1>1, <1>4, <1>5 DEF BatchInv

\* While calls are still queued, there are no more tasks than calls started.
LEMMA NoMoreThanStarted ==
  ASSUME BatchInv
  PROVE  Cardinality(InJoinSet) <= next
  <1>1. next \in Nat /\ InJoinSet \in SUBSET (1..next)
    BY CallsAreFinite DEF BatchInv, BatchType, Slots, InJoinSet, Executing, InPhase, Call
  <1>2. IsFiniteSet(1..next) /\ Cardinality(1..next) = next
    BY <1>1, FS_Interval
  <1>3. QED
    BY <1>1, <1>2, FS_Subset

\* Failing empties the JoinSet and leaves every other task alone.
LEMMA Failing ==
  ASSUME BatchInv, Fails, how' = how, next' \in next..Calls, limit' = limit
  PROVE  BatchInv'
  <1>1. /\ task' \in [Call -> Phases] /\ pc' = "failed"
        /\ \A c \in Call : task'[c] = IF c \in InJoinSet THEN "aborted" ELSE task[c]
    BY DEF Fails, BatchInv, BatchType, Phases
  <1>2. InJoinSet' = {}
    <2>1. \A c \in Call : task'[c] \notin Active
      BY <1>1, JoinSetIsActive DEF Active
    <2>2. QED
      BY <2>1 DEF InJoinSet, Executing, InPhase, Active, Call
  <1>3. Cardinality(InJoinSet') = 0
    BY <1>2, FS_EmptySet
  <1>4. BatchType'
    BY <1>1, CallsAreFinite DEF BatchInv, BatchType, Places, Call
  <1>5. \A c \in Call : c > next' => task'[c] = "queued"
    <2> TAKE c \in Call
    <2>1. c > next' => c > next
      BY CallsAreFinite DEF BatchInv, BatchType, Call
    <2>2. c > next => task[c] = "queued"
      BY DEF BatchInv, Slots
    <2>3. c > next => c \notin InJoinSet
      BY <2>2, JoinSetIsActive DEF Active
    <2>4. QED
      BY <1>1, <2>1, <2>2, <2>3
  <1>6. Slots'
    BY <1>1, <1>3, <1>4, <1>5 DEF Slots, BatchType
  <1>7. Fates'
    BY <1>1 DEF Fates, BatchInv, fatal
  <1>8. QED
    BY <1>4, <1>6, <1>7 DEF BatchInv

\* A step of the batch that moves no task and starts no call.
LEMMA Moving ==
  ASSUME BatchInv, UNCHANGED <<limit, next, task, how>>, pc' \in Places \ {"filling", "refill"},
         pc # "failed",
         pc' = "returned" => InJoinSet = {}
  PROVE  BatchInv'
  BY DEF BatchInv, BatchType, Slots, Fates, InJoinSet, Executing, InPhase

\* Starting the next call.
LEMMA Starting ==
  ASSUME BatchInv, next < Calls, next' = next + 1, limit' = limit, how' = how,
         task' = [task EXCEPT ![next + 1] = "running"],
         pc \in {"filling", "refill"}, pc' \in {"filling", "progress", "join"},
         pc = "filling" => next < limit,
         pc' = "filling" => pc = "filling"
  PROVE  BatchInv'
  <1>1. next + 1 \in Call /\ next \in Nat /\ limit \in Nat
    BY CallsAreFinite DEF BatchInv, BatchType, Call
  <1>2. /\ task' \in [Call -> Phases]
        /\ \A d \in Call : task'[d] = IF d = next + 1 THEN "running" ELSE task[d]
        /\ InJoinSet' = InJoinSet \cup {next + 1}
    BY <1>1, OneTask DEF BatchInv, Phases, Active
  <1>3. Cardinality(InJoinSet') <= Cardinality(InJoinSet) + 1
    BY <1>2, JoinSetIsFinite, FS_AddElement
  <1>4. Cardinality(InJoinSet) + 1 <= limit
    BY <1>1, NoMoreThanStarted, JoinSetIsFinite DEF BatchInv, Slots
  <1>5. BatchType'
    BY <1>1, <1>2, CallsAreFinite DEF BatchInv, BatchType, Places, Call
  <1>6. \A c \in Call : c > next' => task'[c] = "queued"
    BY <1>1, <1>2 DEF BatchInv, Slots, Call
  <1>7. Slots'
    <2>1. Cardinality(InJoinSet') <= limit'
      BY <1>1, <1>3, <1>4, JoinSetIsFinite
    <2>2. pc' = "filling" => next' <= limit'
      BY <1>1
    <2>3. limit' # 0
      BY <1>1, <1>4, JoinSetIsFinite
    <2>4. QED
      BY <1>6, <2>1, <2>2, <2>3 DEF Slots
  <1>8. task[next + 1] = "queued"
    BY <1>1 DEF BatchInv, Slots
  <1>9. Fates'
    BY <1>2, <1>8 DEF Fates, BatchInv, fatal
  <1>10. QED
    BY <1>5, <1>7, <1>9 DEF BatchInv

LEMMA BatchNext == BatchInv /\ [Next]_vars => BatchInv'
  <1> SUFFICES ASSUME BatchInv, [Next]_vars PROVE BatchInv'
    OBVIOUS
  <1>t. /\ BatchType /\ limit \in Nat /\ next \in 0..Calls /\ Calls \in Nat
        /\ Cardinality(InJoinSet) \in Nat
    BY CallsAreFinite, JoinSetIsFinite DEF BatchInv, BatchType
  <1> USE DEF config
  <1>1. CASE TaskStep
    <2> PICK c \in Call : Preliminary(c) \/ SendProgress(c) \/ EndExecution(c) \/ EndTask(c)
      BY <1>1 DEF TaskStep
    <2>o. pc \notin {"returned", "failed"}
      BY <1>1 DEF TaskStep, Over
    <2>1. CASE Preliminary(c) \/ SendProgress(c)
      <3>0. PICK p \in {"running", "offering"} : task' = [task EXCEPT ![c] = p]
        BY <2>1 DEF Preliminary, SendProgress
      <3>1. /\ task[c] \in {"running", "offering"} /\ UNCHANGED <<limit, next, pc, how>>
            /\ \A d \in Call : task'[d] = IF d = c THEN p ELSE task[d]
            /\ task' \in [Call -> Phases] /\ InJoinSet' = InJoinSet \cup {c}
        BY <1>t, <2>1, <3>0, OneTask DEF Preliminary, SendProgress, Phases, Active
      <3>2. InJoinSet' = InJoinSet
        BY <3>1, JoinSetIsActive DEF Active
      <3>3. BatchType' /\ Slots'
        BY <3>1, <3>2 DEF BatchInv, BatchType, Slots
      <3>4. Fates'
        BY <2>o, <3>1 DEF BatchInv, Fates
      <3>5. QED
        BY <3>3, <3>4 DEF BatchInv
    <2>2. CASE EndExecution(c)
      <3>1. /\ task[c] = "running" /\ UNCHANGED <<limit, next, pc>>
            /\ \A d \in Call : task'[d] = IF d = c THEN "ending" ELSE task[d]
            /\ task' \in [Call -> Phases] /\ InJoinSet' = InJoinSet \cup {c}
        BY <1>t, <2>2, OneTask DEF EndExecution, Phases, Active
      <3>2. InJoinSet' = InJoinSet
        BY <3>1, JoinSetIsActive DEF Active
      <3>3. PICK o \in Outcomes : how' = [how EXCEPT ![c] = o]
        BY <2>2 DEF EndExecution, Outcomes
      <3>4. BatchType'
        BY <3>1, <3>3 DEF BatchInv, BatchType
      <3>5. \A d \in Call : d # c => how'[d] = how[d]
        BY <3>3 DEF BatchInv, BatchType
      <3>6. Slots'
        BY <3>1, <3>2 DEF BatchInv, Slots
      <3>7. Fates'
        BY <2>o, <3>1, <3>5 DEF BatchInv, Fates, fatal
      <3>8. QED
        BY <3>4, <3>6, <3>7 DEF BatchInv
    <2>3. CASE EndTask(c)
      <3>1. /\ task[c] = "ending" /\ UNCHANGED <<limit, next, pc, how>>
            /\ \A d \in Call : task'[d] = IF d = c THEN "done" ELSE task[d]
            /\ task' \in [Call -> Phases] /\ InJoinSet' = InJoinSet \cup {c}
        BY <1>t, <2>3, OneTask DEF EndTask, Phases, Active
      <3>2. InJoinSet' = InJoinSet
        BY <3>1, JoinSetIsActive DEF Active
      <3>3. BatchType' /\ Slots'
        BY <3>1, <3>2 DEF BatchInv, BatchType, Slots
      <3>4. Fates'
        BY <2>o, <3>1 DEF BatchInv, Fates, fatal
      <3>5. QED
        BY <3>3, <3>4 DEF BatchInv
    <2>4. QED
      BY <2>1, <2>2, <2>3
  <1>2. CASE Fill
    <2>1. CASE full
      BY <1>2, <2>1, Moving DEF Fill, firstPoll, Places
    <2>2. CASE ~full /\ next < Calls
      <3>1. next < limit
        BY <1>2, <1>t, <2>2 DEF Fill, full, BatchInv, Slots
      <3>2. CASE Fails
        BY <1>2, <1>t, <2>2, <3>2, Failing DEF Fill, SpawnNext
      <3>3. CASE ~Fails
        BY <1>2, <1>t, <2>2, <3>1, <3>3, Starting DEF Fill, SpawnNext
      <3>4. QED
        BY <3>2, <3>3
    <2>3. CASE ~full /\ ~(next < Calls)
      BY <1>2, <2>3, Moving DEF Fill, SpawnNext, firstPoll, Places
    <2>4. QED
      BY <2>1, <2>2, <2>3
  <1>3. CASE PollProgress
    <2>1. CASE Fails
      BY <1>3, <1>t, <2>1, Failing DEF PollProgress
    <2>2. CASE ~Fails
      <3>1. pc' \in {"progress", "last", "join"} /\ pc = "progress"
        BY <1>3, <2>2 DEF PollProgress
      <3>2. QED
        BY <1>3, <2>2, <3>1, Moving DEF PollProgress, Places
    <2>3. QED
      BY <2>1, <2>2
  <1>4. CASE Join
    <2> PICK c \in InPhase("done") : (how[c] \notin fatal /\ Deliver(c)) \/ Fails
      BY <1>4 DEF Join
    <2>0. UNCHANGED <<limit, next, how>> /\ pc \in {"join", "last"}
      BY <1>4 DEF Join
    <2>1. CASE Fails
      BY <1>t, <2>0, <2>1, Failing
    <2>2. CASE how[c] \notin fatal /\ Deliver(c)
      <3>1. c \in Call /\ task[c] = "done" /\ task' = [task EXCEPT ![c] = "joined"] /\ pc' = "refill"
        BY <2>2 DEF InPhase, Deliver
      <3>2. /\ \A d \in Call : task'[d] = IF d = c THEN "joined" ELSE task[d]
            /\ task' \in [Call -> Phases] /\ InJoinSet' = InJoinSet \ {c}
        BY <1>t, <3>1, OneTask DEF Phases, Active
      <3>3. c \in InJoinSet
        BY <3>1, JoinSetIsActive DEF Active
      <3>4. Cardinality(InJoinSet') = Cardinality(InJoinSet) - 1
        BY <3>2, <3>3, JoinSetIsFinite, FS_RemoveElement
      <3>5. BatchType'
        BY <2>0, <3>1, <3>2 DEF BatchInv, BatchType, Places
      <3>6. Slots'
        BY <1>t, <2>0, <3>1, <3>2, <3>4 DEF BatchInv, Slots
      <3>7. Fates'
        BY <2>0, <2>2, <3>1, <3>2 DEF BatchInv, Fates
      <3>8. QED
        BY <3>5, <3>6, <3>7 DEF BatchInv
    <2>3. QED
      BY <2>1, <2>2
  <1>5. CASE Refill
    <2>1. CASE next < Calls
      <3>1. CASE Fails
        BY <1>5, <1>t, <2>1, <3>1, Failing DEF Refill, SpawnNext
      <3>2. CASE ~Fails
        BY <1>5, <1>t, <2>1, <3>2, Starting DEF Refill, SpawnNext, firstPoll
      <3>3. QED
        BY <3>1, <3>2
    <2>2. CASE ~(next < Calls)
      BY <1>5, <2>2, Moving DEF Refill, SpawnNext, firstPoll, Places
    <2>3. QED
      BY <2>1, <2>2
  <1>6. CASE Wait
    <2>1. /\ UNCHANGED <<limit, next, task, how>> /\ pc \in {"join", "last"}
          /\ pc' \in {"returned", "progress"}
          /\ pc' = "returned" => InJoinSet = {}
      BY <1>6 DEF Wait, AllJoined
    <2>2. QED
      BY <2>1, Moving DEF Places
  <1>7. CASE Cancel
    BY <1>7 DEF Cancel, BatchInv, BatchType, Slots, Fates, InJoinSet, Executing, InPhase
  <1>8. CASE UNCHANGED vars
    BY <1>8 DEF vars, BatchInv, BatchType, Slots, Fates, InJoinSet, Executing, InPhase
  <1>9. QED
    BY <1>1, <1>2, <1>3, <1>4, <1>5, <1>6, <1>7, <1>8 DEF Next, BatchStep

LEMMA BatchAlways == Spec => []BatchInv
  BY BatchInit, BatchNext, PTL DEF Spec

(* Never more tool tasks than max_tool_concurrency are alive, whatever     *)
(* order they end in and however slots are refilled (stage.rs:344-370,     *)
(* tools.rs:285-321).                                                      *)
THEOREM LimitIsKept == Spec => []AtMostLimit
  <1>1. BatchInv => AtMostLimit
    BY DEF BatchInv, Slots, AtMostLimit
  <1>2. QED
    BY <1>1, BatchAlways, PTL

(* A batch in which a tool was cancelled or panicked never returns         *)
(* normally: the half of CancellationIsFatal that is about the batch       *)
(* (stage.rs:358-368).                                                     *)
FatalEndsTheBatch == \A c \in Call : how[c] \in fatal => pc # "returned"

THEOREM FatalNeverReturns == Spec => []FatalEndsTheBatch
  <1>1. BatchInv => FatalEndsTheBatch
    <2> SUFFICES ASSUME BatchInv, NEW c \in Call, how[c] \in fatal, pc = "returned"
                 PROVE  FALSE
      BY DEF FatalEndsTheBatch
    <2>1. task[c] \notin Active
      BY JoinSetIsActive DEF BatchInv, Fates
    <2>2. task[c] \in {"queued", "joined", "aborted"}
      BY <2>1 DEF BatchInv, BatchType, Phases, Active
    <2>3. QED
      BY <2>2 DEF BatchInv, Fates, fatal
  <1>2. QED
    BY <1>1, BatchAlways, PTL

-----------------------------------------------------------------------------
(* What goes in and what comes out.  The results are counted where they    *)
(* are: in the channel, or among what the batch has emitted.               *)

Items == Call \X {"preliminary", "final"}
Final(c) == <<c, "final">>
Prelim(c) == <<c, "preliminary">>

Occurs(s, x) == Cardinality({i \in DOMAIN s : s[i] = x})

LEMMA ItemsDiffer ==
  /\ \A c \in Call : Final(c) \in Items /\ Prelim(c) \in Items
  /\ \A c, d \in Call : Final(c) = Final(d) => c = d
  /\ \A c, d \in Call : Prelim(c) = Prelim(d) => c = d
  /\ \A c, d : Final(c) # Prelim(d)
  BY DEF Items, Final, Prelim

LEMMA OccursCounts ==
  ASSUME NEW S, NEW s \in Seq(S), NEW x
  PROVE  /\ Occurs(s, x) \in Nat
         /\ IsFiniteSet({i \in DOMAIN s : s[i] = x})
         /\ Occurs(s, x) > 0 => \E i \in DOMAIN s : s[i] = x
  <1> DEFINE P == {i \in DOMAIN s : s[i] = x}
  <1>1. Len(s) \in Nat /\ DOMAIN s = 1..Len(s)
    OBVIOUS
  <1>2. IsFiniteSet(1..Len(s))
    BY <1>1, FS_Interval
  <1>3. P \in SUBSET (1..Len(s))
    BY <1>1
  <1>4. IsFiniteSet(P)
    BY <1>2, <1>3, FS_Subset
  <1>5. Cardinality(P) \in Nat /\ (P = {} => Cardinality(P) = 0)
    BY <1>4, FS_CardinalityType, FS_EmptySet
  <1>6. QED
    BY <1>4, <1>5 DEF Occurs

LEMMA OccursEmpty ==
  ASSUME NEW x
  PROVE  Occurs(<<>>, x) = 0
  <1>1. {i \in DOMAIN <<>> : <<>>[i] = x} = {}
    OBVIOUS
  <1>2. QED
    BY <1>1, FS_EmptySet DEF Occurs

LEMMA OccursAppend ==
  ASSUME NEW S, NEW s \in Seq(S), NEW x, NEW y \in S
  PROVE  Occurs(Append(s, y), x) = Occurs(s, x) + IF y = x THEN 1 ELSE 0
  <1> DEFINE t == Append(s, y)
             n == Len(s) + 1
             P == {i \in DOMAIN s : s[i] = x}
             Q == {i \in DOMAIN t : t[i] = x}
  <1>1. /\ Len(s) \in Nat /\ DOMAIN s = 1..Len(s) /\ DOMAIN t = 1..n
        /\ \A i \in 1..Len(s) : t[i] = s[i]
        /\ t[n] = y
    OBVIOUS
  <1>2. IsFiniteSet(P) /\ Cardinality(P) \in Nat
    BY OccursCounts DEF Occurs
  <1> HIDE DEF t
  <1>3. n \notin P /\ \A i \in 1..n : i \in 1..Len(s) \/ i = n
    BY <1>1
  <1>4. CASE y = x
    <2>1. Q = P \cup {n}
      BY <1>1, <1>3, <1>4
    <2>2. Cardinality(Q) = Cardinality(P) + 1
      BY <1>2, <1>3, <2>1, FS_AddElement
    <2>3. QED
      BY <1>4, <2>2 DEF Occurs, t
  <1>5. CASE y # x
    <2>1. Q = P
      BY <1>1, <1>3, <1>5
    <2> HIDE DEF P, Q
    <2>2. Cardinality(Q) = Cardinality(P) /\ Cardinality(P) + 0 = Cardinality(P)
      BY <1>2, <2>1
    <2>3. QED
      BY <1>5, <2>2 DEF Occurs, t, P, Q
  <1>6. QED
    BY <1>4, <1>5

LEMMA OccursTail ==
  ASSUME NEW S, NEW s \in Seq(S), NEW x, s # <<>>
  PROVE  Occurs(s, x) = Occurs(Tail(s), x) + IF Head(s) = x THEN 1 ELSE 0
  <1> DEFINE t == Tail(s)
             P == {i \in DOMAIN s : s[i] = x}
             Q == {i \in DOMAIN t : t[i] = x}
             f == [i \in Q |-> i + 1]
  <1>1. /\ Len(s) \in Nat \ {0} /\ DOMAIN s = 1..Len(s)
        /\ t \in Seq(S) /\ DOMAIN t = 1..(Len(s) - 1)
        /\ \A i \in 1..(Len(s) - 1) : t[i] = s[i + 1]
        /\ Head(s) = s[1]
    OBVIOUS
  <1>2. IsFiniteSet(P) /\ Cardinality(P) \in Nat
    BY OccursCounts DEF Occurs
  <1> HIDE DEF t
  <1>3. IsFiniteSet(Q) /\ Cardinality(Q) \in Nat
    BY <1>1, OccursCounts DEF Occurs
  <1>4. \A i \in Q : i \in Nat /\ i + 1 \in P \ {1}
    BY <1>1
  <1>5. \A j \in P \ {1} : j - 1 \in Q /\ (j - 1) + 1 = j
    BY <1>1
  <1> HIDE DEF P, Q
  <1>6. f \in Injection(Q, P \ {1}) /\ f \in Surjection(Q, P \ {1})
    BY <1>4, <1>5 DEF Injection, Surjection, IsInjective
  <1> HIDE DEF f
  <1>7. ExistsBijection(Q, P \ {1})
    BY <1>6 DEF ExistsBijection, Bijection
  <1>8. Cardinality(P \ {1}) = Cardinality(Q)
    BY <1>3, <1>7, FS_Bijection
  <1>9. Cardinality(P) = Cardinality(Q) + IF 1 \in P THEN 1 ELSE 0
    <2>1. Cardinality(P \ {1}) = IF 1 \in P THEN Cardinality(P) - 1 ELSE Cardinality(P)
      BY <1>2, FS_RemoveElement
    <2>2. QED
      BY <1>2, <1>3, <1>8, <2>1
  <1>10. 1 \in P <=> Head(s) = x
    BY <1>1 DEF P
  <1>11. QED
    BY <1>9, <1>10 DEF Occurs, P, Q, t

-----------------------------------------------------------------------------
(* The second invariant.  A batch that returns has lost nothing because    *)
(* its slots stay full while calls are queued, so that it cannot run dry   *)
(* before the last of them, and because it sees the channel closed only    *)
(* when it is empty.                                                       *)

Filled ==
    /\ pc # "failed" => \A c \in Call : c <= next => task[c] # "queued"
    /\ pc = "filling" => Cardinality(InJoinSet) = next
    /\ pc \in {"progress", "join", "last"} /\ next < Calls => Cardinality(InJoinSet) = limit
    /\ pc = "refill" /\ next < Calls => Cardinality(InJoinSet) + 1 = limit
    /\ pc = "returned" /\ limit > 0 => next = Calls

Drained ==
    /\ pc \in {"progress", "last"} => streaming
    /\ streaming /\ ~sender => next = Calls
    /\ \A c \in InPhase("offering") : streaming /\ sent[c] < MaxPreliminary
    /\ pc = "last" => Closed
    /\ pc = "returned" /\ streaming => ~sender
    /\ pc \in {"last", "returned"} \/ ~streaming => progress = <<>>

\* Every output and every preliminary result is in one place, until the batch
\* fails over an event it cannot emit.
Accounted ==
    /\ outputs = Cardinality(InPhase("joined"))
    /\ streaming => \A c \in Call :
         /\ Occurs(out, Final(c)) = IF task[c] = "joined" THEN 1 ELSE 0
         /\ pc # "failed" => Occurs(out, Prelim(c)) + Occurs(progress, Prelim(c)) = sent[c]
    /\ ~streaming => out = IF pc = "returned" THEN Flattened(InPhase("joined")) ELSE <<>>

Ledger == TypeOK /\ Filled /\ Drained /\ Accounted

LEMMA LedgerTypes ==
  ASSUME Ledger
  PROVE  /\ streaming \in BOOLEAN /\ sender \in BOOLEAN /\ outputs \in Nat
         /\ out \in Seq(Items) /\ progress \in Seq(Items)
         /\ sent \in [Call -> Nat]
         /\ \A x : Occurs(out, x) \in Nat /\ Occurs(progress, x) \in Nat
  <1>1. /\ streaming \in BOOLEAN /\ sender \in BOOLEAN /\ outputs \in Nat
        /\ out \in Seq(Items)
    BY ToolBatchAssumption DEF Ledger, TypeOK, ToolBatchAssumption, Items
  <1>2. sent \in [Call -> Nat]
    BY ToolBatchAssumption DEF Ledger, TypeOK, ToolBatchAssumption
  <1>3. progress \in Seq(Items)
    <2>1. progress \in Seq(Call \X {"preliminary"})
      BY DEF Ledger, TypeOK
    <2>2. Call \X {"preliminary"} \subseteq Items
      BY DEF Items
    <2> HIDE DEF Items
    <2>3. QED
      BY <2>1, <2>2
  <1>4. QED
    BY <1>1, <1>2, <1>3, OccursCounts

LEMMA LedgerInit == Init => Ledger
  <1> SUFFICES ASSUME Init PROVE Ledger
    OBVIOUS
  <1>1. TypeOK
    <2>1. \A S : <<>> \in Seq(S)
      OBVIOUS
    <2>2. Len(<<>>) <= Capacity /\ 0 \in 0..MaxPreliminary /\ 0 \in 0..Calls
      BY ToolBatchAssumption DEF ToolBatchAssumption
    <2>3. streaming \in BOOLEAN
      BY ToolBatchAssumption DEF Init, ToolBatchAssumption
    <2>4. QED
      BY <2>1, <2>2, <2>3 DEF Init, TypeOK
  <1>2. InJoinSet = {} /\ InPhase("joined") = {}
    BY DEF Init, InJoinSet, Executing, InPhase
  <1>3. Cardinality(InJoinSet) = 0 /\ Cardinality(InPhase("joined")) = 0
    BY <1>2, FS_EmptySet
  <1>4. Filled
    BY <1>3, CallsAreFinite DEF Init, Filled, Call
  <1>5. Drained
    BY <1>2 DEF Init, Drained, InPhase
  <1>6. \A x : Occurs(<<>>, x) = 0
    BY OccursEmpty
  <1>7. Accounted
    BY <1>3, <1>6 DEF Init, Accounted
  <1>8. QED
    BY <1>1, <1>4, <1>5, <1>7 DEF Ledger

\* A batch with nothing left to join flattens the calls it started.
LEMMA FlattenedInterval ==
  ASSUME NEW n \in Nat
  PROVE  Flattened(1..n) = [i \in 1..n |-> Final(i)]
  <1>1. Cardinality(1..n) = n
    BY FS_Interval
  <1>2. ASSUME NEW i \in 1..n
        PROVE  (CHOOSE c \in 1..n : Cardinality({d \in 1..n : d <= c}) = i) = i
    <2>1. ASSUME NEW c \in 1..n
          PROVE  Cardinality({d \in 1..n : d <= c}) = c
      <3>1. c \in Nat \ {0} /\ {d \in 1..n : d <= c} = 1..c
        OBVIOUS
      <3>2. Cardinality(1..c) = c
        BY <3>1, FS_Interval
      <3>3. QED
        BY <3>1, <3>2
    <2>2. QED
      BY <2>1
  <1> DEFINE pick(i) == CHOOSE c \in 1..n : Cardinality({d \in 1..n : d <= c}) = i
  <1>3. Flattened(1..n) = [i \in 1..Cardinality(1..n) |-> Final(pick(i))]
    BY DEF Flattened, Final
  <1>4. \A i \in 1..n : pick(i) = i
    BY <1>2
  <1> HIDE DEF pick
  <1>5. QED
    BY <1>1, <1>3, <1>4

LEMMA FlattenedInOrder ==
  ASSUME BatchInv, Filled, pc # "failed", InJoinSet = {}
  PROVE  /\ InPhase("joined") = 1..next
         /\ Flattened(InPhase("joined")) = [i \in 1..next |-> Final(i)]
  <1>1. next \in Nat /\ Calls \in Nat /\ 1..next \in SUBSET Call
    BY CallsAreFinite DEF BatchInv, BatchType, Call
  <1>2. \A c \in Call : c \in 1..next <=> ~(c > next)
    BY <1>1 DEF Call
  <1>3. \A c \in Call : task[c] \notin Active /\ task[c] # "aborted" /\ task[c] \in Phases
    BY JoinSetIsActive DEF BatchInv, BatchType, Fates
  <1>4. \A c \in Call : task[c] = "joined" <=> c \in 1..next
    <2> TAKE c \in Call
    <2>1. c > next => task[c] = "queued"
      BY DEF BatchInv, Slots
    <2>2. c <= next => task[c] # "queued"
      BY DEF Filled
    <2>3. task[c] \in {"queued", "joined"}
      BY <1>3 DEF Phases, Active
    <2>4. QED
      BY <1>1, <1>2, <2>1, <2>2, <2>3 DEF Call
  <1>5. InPhase("joined") = 1..next
    BY <1>1, <1>4 DEF InPhase
  <1>6. QED
    BY <1>1, <1>5, FlattenedInterval

LEMMA TypeNext ==
  ASSUME BatchInv, BatchInv', Ledger, [Next]_vars
  PROVE  TypeOK'
  <1>1. /\ limit \in Limits /\ streaming \in Modes /\ UNCHANGED <<limit, streaming>>
    BY DEF Ledger, TypeOK, vars, config, Next, TaskStep, Preliminary, SendProgress, EndExecution, EndTask,
           BatchStep, Fill, PollProgress, Join, Refill, Wait, Cancel
  <1>2. /\ next' \in 0..Calls /\ pc' \in Places /\ task' \in [Call -> Phases]
        /\ how' \in [Call -> Outcomes \cup {"none"}]
    BY DEF BatchInv, BatchType
  <1>3. sent' \in [Call -> 0..MaxPreliminary]
    <2>1. CASE UNCHANGED sent
      BY <2>1 DEF Ledger, TypeOK
    <2>2. CASE \E c \in Call : SendProgress(c)
      BY <2>2, ToolBatchAssumption
         DEF Ledger, TypeOK, Drained, InPhase, SendProgress, ToolBatchAssumption
    <2>3. QED
      BY <2>1, <2>2 DEF vars, Next, TaskStep, Preliminary, EndExecution,
           EndTask, BatchStep, Fill, PollProgress, Join, Refill, Wait, Cancel
  <1>p. /\ progress \in Seq(Call \X {"preliminary"}) /\ Len(progress) <= Capacity
        /\ Capacity \in Nat
    BY ToolBatchAssumption DEF Ledger, TypeOK, ToolBatchAssumption
  <1>4. /\ progress' \in Seq(Call \X {"preliminary"}) /\ Len(progress') <= Capacity
    <2>1. CASE UNCHANGED progress
      BY <1>p, <2>1
    <2>2. CASE \E c \in Call : SendProgress(c)
      <3>1. PICK c \in Call : SendProgress(c)
        BY <2>2
      <3>2. <<c, "preliminary">> \in Call \X {"preliminary"}
        OBVIOUS
      <3>3. \/ UNCHANGED progress
            \/ /\ Len(progress) < Capacity
               /\ progress' = Append(progress, <<c, "preliminary">>)
        BY <3>1 DEF SendProgress
      <3> DEFINE S == Call \X {"preliminary"}
                 x == <<c, "preliminary">>
      <3> HIDE DEF S, x
      <3>4. x \in S /\ progress \in Seq(S)
        BY <1>p, <3>2 DEF S, x
      <3>5. \/ UNCHANGED progress
            \/ Len(progress) < Capacity /\ progress' = Append(progress, x)
        BY <3>3 DEF x
      <3>6. progress' \in Seq(S) /\ Len(progress') <= Capacity
        BY <1>p, <3>4, <3>5
      <3>7. QED
        BY <3>6 DEF S
    <2>3. CASE PollProgress
      <3> DEFINE S == Call \X {"preliminary"}
      <3> HIDE DEF S
      <3>1. progress \in Seq(S)
        BY <1>p DEF S
      <3>2. UNCHANGED progress \/ (progress # <<>> /\ progress' = Tail(progress))
        BY <2>3 DEF PollProgress
      <3>3. progress # <<>> => Tail(progress) \in Seq(S) /\ Len(Tail(progress)) = Len(progress) - 1
        BY <3>1
      <3>4. Len(progress) \in Nat
        BY <3>1
      <3>5. progress' \in Seq(S) /\ (Len(progress') = Len(progress) \/ Len(progress') = Len(progress) - 1)
        BY <3>1, <3>2, <3>3
      <3>6. Len(progress') <= Capacity
        BY <1>p, <3>4, <3>5
      <3>7. QED
        BY <3>5, <3>6 DEF S
    <2>4. QED
      BY <2>1, <2>2, <2>3 DEF vars, Next, TaskStep, Preliminary, EndExecution,
           EndTask, BatchStep, Fill, Join, Refill, Wait, Cancel
  <1>5. out' \in Seq(Items)
    <2>0. out \in Seq(Items) /\ progress \in Seq(Items)
      BY LedgerTypes
    <2>1. CASE UNCHANGED out
      BY <2>0, <2>1
    <2>2. CASE PollProgress
      <3>1. UNCHANGED out \/ (progress # <<>> /\ out' = Append(out, Head(progress)))
        BY <2>2 DEF PollProgress, Emits
      <3>2. QED
        BY <2>0, <3>1
    <2>3. CASE \E c \in Call : out' = Append(out, Final(c))
      BY <2>0, <2>3, ItemsDiffer
    <2>4. CASE Wait /\ pc' = "returned" /\ out' = Flattened(InPhase("joined"))
      <3>1. InJoinSet = {} /\ pc # "failed"
        BY <2>4 DEF Wait, AllJoined
      <3>2. out' = [i \in 1..next |-> Final(i)]
        BY <2>4, <3>1, FlattenedInOrder DEF Ledger
      <3>3. next \in Nat /\ \A i \in 1..next : i \in Call
        BY CallsAreFinite DEF BatchInv, BatchType, Call
      <3>4. out' \in [1..next -> Items]
        BY <3>2, <3>3, ItemsDiffer
      <3>5. QED
        BY <3>3, <3>4
    <2>5. QED
      <3>1. CASE Wait
        BY <2>1, <2>4, <3>1 DEF Wait
      <3>2. CASE Join
        BY <2>1, <2>3, <3>2 DEF Join, Deliver, Emits, InPhase, Final
      <3>3. QED
        BY <2>1, <2>2, <3>1, <3>2 DEF vars, Next, TaskStep, Preliminary, SendProgress, EndExecution,
           EndTask, BatchStep, Fill, Refill, Cancel
  <1>6. outputs' \in Nat
    <2>1. UNCHANGED outputs \/ outputs' = outputs + 1
      BY DEF vars, Next, TaskStep, Preliminary, SendProgress, EndExecution, EndTask,
           BatchStep, Fill, PollProgress, Join, Deliver, Refill, Wait, Cancel
    <2>2. QED
      BY <2>1 DEF Ledger, TypeOK
  <1>s. sender' \in BOOLEAN
    <2>1. UNCHANGED sender \/ sender' = FALSE
      BY DEF vars, Next, TaskStep, Preliminary, SendProgress, EndExecution, EndTask,
           BatchStep, Fill, SpawnNext, PollProgress, Join, Refill, Wait, Cancel
    <2>2. QED
      BY <2>1 DEF Ledger, TypeOK
  <1>c. cancelled' \in BOOLEAN
    <2>1. UNCHANGED cancelled \/ cancelled' = TRUE
      BY DEF vars, Next, TaskStep, Preliminary, SendProgress, EndExecution, EndTask,
           BatchStep, Fill, PollProgress, Join, Refill, Wait, Cancel
    <2>2. QED
      BY <2>1 DEF Ledger, TypeOK
  <1>7. QED
    BY <1>1, <1>2, <1>3, <1>4, <1>5, <1>6, <1>s, <1>c DEF TypeOK, Places, Phases, Items

\* What starting the next call does to the JoinSet.
LEMMA StartedCall ==
  ASSUME BatchInv, next < Calls, task' = [task EXCEPT ![next + 1] = "running"]
  PROVE  /\ Cardinality(InJoinSet') = Cardinality(InJoinSet) + 1
         /\ task[next + 1] = "queued" /\ next + 1 \in Call
         /\ \A d \in Call : task'[d] = IF d = next + 1 THEN "running" ELSE task[d]
  <1>1. next + 1 \in Call /\ next \in Nat
    BY CallsAreFinite DEF BatchInv, BatchType, Call
  <1>2. /\ \A d \in Call : task'[d] = IF d = next + 1 THEN "running" ELSE task[d]
        /\ InJoinSet' = InJoinSet \cup {next + 1}
    BY <1>1, OneTask DEF BatchInv, Phases, Active
  <1>3. task[next + 1] = "queued"
    BY <1>1 DEF BatchInv, Slots
  <1>4. next + 1 \notin InJoinSet
    BY <1>3, JoinSetIsActive DEF Active
  <1>5. Cardinality(InJoinSet') = Cardinality(InJoinSet) + 1
    BY <1>2, <1>4, JoinSetIsFinite, FS_AddElement
  <1>6. QED
    BY <1>1, <1>2, <1>3, <1>5

\* And what the steps of one task do.
LEMMA TaskMoved ==
  ASSUME BatchInv, NEW c \in Call,
         Preliminary(c) \/ SendProgress(c) \/ EndExecution(c) \/ EndTask(c)
  PROVE  /\ InJoinSet' = InJoinSet
         /\ task[c] \in {"running", "offering", "ending"}
         /\ \A d \in Call : task'[d] = IF d = c THEN task'[c] ELSE task[d]
         /\ task'[c] \in Active
  <1>1. PICK p \in Active : task' = [task EXCEPT ![c] = p]
    BY DEF Preliminary, SendProgress, EndExecution, EndTask, Active
  <1>2. task[c] \in {"running", "offering", "ending"} /\ BatchType
    BY DEF Preliminary, SendProgress, EndExecution, EndTask, BatchInv
  <1>3. /\ \A d \in Call : task'[d] = IF d = c THEN p ELSE task[d]
        /\ InJoinSet' = InJoinSet \cup {c}
    BY <1>1, <1>2, OneTask DEF Phases, Active
  <1>4. c \in InJoinSet
    BY <1>2, JoinSetIsActive DEF Active
  <1>5. QED
    BY <1>2, <1>3, <1>4

LEMMA JoinedCall ==
  ASSUME BatchInv, NEW c \in InPhase("done"), Deliver(c)
  PROVE  /\ Cardinality(InJoinSet') = Cardinality(InJoinSet) - 1
         /\ InPhase("joined")' = InPhase("joined") \cup {c} /\ c \notin InPhase("joined")
         /\ c \in Call /\ task[c] = "done"
         /\ \A d \in Call : task'[d] = IF d = c THEN "joined" ELSE task[d]
  <1>1. c \in Call /\ task[c] = "done" /\ task' = [task EXCEPT ![c] = "joined"]
    BY DEF InPhase, Deliver
  <1>2. /\ \A d \in Call : task'[d] = IF d = c THEN "joined" ELSE task[d]
        /\ InJoinSet' = InJoinSet \ {c}
    BY <1>1, OneTask DEF BatchInv, Phases, Active
  <1>3. c \in InJoinSet
    BY <1>1, JoinSetIsActive DEF Active
  <1>4. Cardinality(InJoinSet') = Cardinality(InJoinSet) - 1
    BY <1>2, <1>3, JoinSetIsFinite, FS_RemoveElement
  <1>5. InPhase("joined")' = InPhase("joined") \cup {c} /\ c \notin InPhase("joined")
    BY <1>1, <1>2 DEF InPhase, Call
  <1>6. QED
    BY <1>1, <1>2, <1>4, <1>5

LEMMA FilledNext ==
  ASSUME BatchInv, BatchInv', Ledger, [Next]_vars
  PROVE  Filled'
  <1>t. /\ limit \in Nat /\ next \in 0..Calls /\ next \in Nat /\ Calls \in Nat
        /\ Cardinality(InJoinSet) \in Nat
        /\ limit' = limit
    BY CallsAreFinite, JoinSetIsFinite
       DEF BatchInv, BatchType, config, vars, Next, TaskStep, Preliminary, SendProgress, EndExecution,
           EndTask, BatchStep, Fill, PollProgress, Join, Refill, Wait, Cancel
  <1>f. Filled
    BY DEF Ledger
  <1>1. CASE /\ UNCHANGED <<next, pc>>
             /\ \/ UNCHANGED task
                \/ \E c \in Call : \/ Preliminary(c) \/ SendProgress(c)
                                  \/ EndExecution(c) \/ EndTask(c)
    <2>1. InJoinSet' = InJoinSet /\ \A d \in Call : task'[d] = task[d] \/ task'[d] # "queued"
      BY <1>1, TaskMoved DEF InJoinSet, Executing, InPhase, Active
    <2>2. QED
      BY <1>1, <1>f, <1>t, <2>1 DEF Filled
  <1>2. CASE Fails
    BY <1>2 DEF Fails, Filled
  <1>3. CASE /\ pc \in {"filling", "refill"} /\ next < Calls
             /\ next' = next + 1 /\ task' = [task EXCEPT ![next + 1] = "running"]
             /\ pc' = IF pc = "filling" THEN "filling" ELSE firstPoll
    <2>1. /\ Cardinality(InJoinSet') = Cardinality(InJoinSet) + 1
          /\ next + 1 \in Call
          /\ \A d \in Call : task'[d] = IF d = next + 1 THEN "running" ELSE task[d]
      BY <1>3, StartedCall
    <2>2. \A c \in Call : c <= next' => task'[c] # "queued"
      BY <1>3, <1>f, <1>t, <2>1 DEF Filled, Call
    <2>3. CASE pc = "filling"
      BY <1>3, <1>f, <1>t, <2>1, <2>2, <2>3 DEF Filled
    <2>4. CASE pc = "refill"
      BY <1>3, <1>f, <1>t, <2>1, <2>2, <2>4 DEF Filled, firstPoll
    <2>5. QED
      BY <1>3, <2>3, <2>4
  <1>4. CASE /\ UNCHANGED <<next, task>> /\ pc # "failed" /\ pc' \in {"progress", "join", "last"}
             /\ \/ next = Calls
                \/ pc = "filling" /\ next = limit
                \/ pc \in {"progress", "join", "last"}
    <2>1. InJoinSet' = InJoinSet
      BY <1>4 DEF InJoinSet, Executing, InPhase
    <2>2. QED
      BY <1>4, <1>f, <1>t, <2>1 DEF Filled
  <1>5. CASE Join
    <2>1. PICK c \in InPhase("done") : Fails \/ Deliver(c)
      BY <1>5 DEF Join
    <2>2. CASE Deliver(c)
      <3>1. /\ Cardinality(InJoinSet') = Cardinality(InJoinSet) - 1
            /\ \A d \in Call : task'[d] = IF d = c THEN "joined" ELSE task[d]
        BY <2>2, JoinedCall
      <3>2. pc \in {"join", "last"} /\ pc' = "refill" /\ next' = next
        BY <1>5, <2>2 DEF Join, Deliver
      <3>3. QED
        BY <1>f, <1>t, <3>1, <3>2 DEF Filled
    <2>3. QED
      BY <1>2, <2>1, <2>2
  <1>6. CASE Wait /\ pc' = "returned"
    <2>1. /\ InJoinSet = {} /\ pc \in {"join", "last"} /\ UNCHANGED <<next, task>>
      BY <1>6 DEF Wait, AllJoined
    <2>2. Cardinality(InJoinSet) = 0
      BY <2>1, FS_EmptySet
    <2>3. next < Calls => limit = 0
      BY <1>f, <2>1, <2>2 DEF Filled
    <2>4. QED
      BY <1>6, <1>f, <1>t, <2>1, <2>3 DEF Filled
  <1>7. QED
    <2>1. CASE TaskStep \/ Cancel \/ UNCHANGED vars
      BY <1>1, <2>1 DEF TaskStep, Preliminary, SendProgress, EndExecution, EndTask, Cancel, vars
    <2>2. CASE Fill
      BY <1>2, <1>3, <1>4, <2>2 DEF Fill, SpawnNext, full, firstPoll
    <2>3. CASE Refill
      BY <1>2, <1>3, <1>4, <2>3 DEF Refill, SpawnNext, firstPoll
    <2>4. CASE PollProgress
      <3>1. \/ Fails
            \/ pc' \in {"progress", "join", "last"} /\ pc = "progress" /\ UNCHANGED <<next, task>>
        BY <2>4 DEF PollProgress
      <3>2. QED
        BY <1>2, <1>4, <3>1
    <2>5. CASE Wait
      BY <1>4, <1>6, <2>5 DEF Wait
    <2>6. QED
      BY <1>5, <2>1, <2>2, <2>3, <2>4, <2>5 DEF Next, BatchStep

LEMMA DrainedNext ==
  ASSUME BatchInv, BatchInv', Ledger, [Next]_vars
  PROVE  Drained'
  <1>t. /\ next \in 0..Calls /\ next \in Nat /\ Calls \in Nat
        /\ Drained
        /\ streaming' = streaming
    BY CallsAreFinite
       DEF Ledger, BatchInv, BatchType, config, vars, Next, TaskStep, Preliminary,
           SendProgress, EndExecution, EndTask, BatchStep, Fill, PollProgress, Join, Refill, Wait, Cancel
  <1>1. ASSUME NEW c \in Call, Preliminary(c) \/ SendProgress(c), ~Over
        PROVE  Drained'
    <2>1. c \in Executing /\ pc # "returned" /\ streaming
      BY <1>1, <1>t DEF Preliminary, SendProgress, Over, Executing, InPhase, Drained
    <2>2. pc # "last"
      BY <1>t, <2>1 DEF Drained, Closed
    <2>3. UNCHANGED <<next, sender, pc>>
      BY <1>1 DEF Preliminary, SendProgress
    <2>4. ASSUME NEW d \in InPhase("offering")'
          PROVE  sent'[d] < MaxPreliminary
      <3>1. d \in Call /\ task'[d] = "offering" /\ task \in [Call -> Phases]
            /\ sent \in [Call -> Nat]
        BY LedgerTypes DEF InPhase, Call, BatchInv, BatchType
      <3>2. CASE Preliminary(c)
        BY <1>t, <3>1, <3>2 DEF Preliminary, Drained, InPhase
      <3>3. CASE SendProgress(c)
        <4>1. d # c /\ task[d] = "offering" /\ sent'[d] = sent[d]
          BY <3>1, <3>3 DEF SendProgress
        <4>2. QED
          BY <1>t, <3>1, <4>1 DEF Drained, InPhase
      <3>4. QED
        BY <1>1, <3>2, <3>3
    <2>5. QED
      BY <1>t, <2>1, <2>2, <2>3, <2>4 DEF Drained
  <1>2. ASSUME \A d \in Call : task'[d] \in {"running", "offering"} => task[d] = task'[d]
        PROVE  /\ UNCHANGED sender => (Closed => Closed')
               /\ InPhase("offering")' \subseteq InPhase("offering")
    BY <1>2 DEF Closed, Executing, InPhase, Call
  <1>o. ASSUME NEW c \in Call, EndExecution(c) \/ EndTask(c)
        PROVE  Drained'
    <2>1. PICK p \in {"ending", "done"} : task' = [task EXCEPT ![c] = p]
      BY <1>o DEF EndExecution, EndTask
    <2>2. \A d \in Call : task'[d] = IF d = c THEN p ELSE task[d]
      BY <2>1 DEF BatchInv, BatchType
    <2>3. \A d \in Call : task'[d] \in {"running", "offering"} => task[d] = task'[d]
      BY <2>2
    <2>4. UNCHANGED <<next, sender, progress, pc, sent>>
      BY <1>o DEF EndExecution, EndTask
    <2>5. QED
      BY <1>t, <1>2, <2>3, <2>4 DEF Drained
  <1>f. ASSUME Fails
        PROVE  /\ InPhase("offering")' \subseteq InPhase("offering")
               /\ pc' = "failed"
    BY <1>f DEF Fails, InPhase, Call
  <1>3. CASE Fill \/ Refill
    <2>1. /\ progress' = progress /\ sent' = sent /\ pc \in {"filling", "refill"}
          /\ pc' \in {"filling", "failed", firstPoll}
          /\ \/ UNCHANGED sender /\ (UNCHANGED next \/ (next < Calls /\ next' = next + 1))
             \/ next = Calls /\ UNCHANGED next
      BY <1>3 DEF Fill, Refill, SpawnNext, Fails
    <2>2. pc' \notin {"last", "returned"} /\ (pc' = "progress" => streaming)
      BY <2>1 DEF firstPoll
    <2>3. streaming /\ ~sender' => next' = Calls
      BY <1>t, <2>1 DEF Drained
    <2>4. InPhase("offering")' \subseteq InPhase("offering")
      <3>1. \/ UNCHANGED task
            \/ Fails
            \/ next < Calls /\ task' = [task EXCEPT ![next + 1] = "running"]
        BY <1>3 DEF Fill, Refill, SpawnNext
      <3>2. CASE next < Calls /\ task' = [task EXCEPT ![next + 1] = "running"]
        BY <3>2, StartedCall DEF InPhase, Call
      <3>3. QED
        BY <1>f, <3>1, <3>2 DEF InPhase
    <2>5. QED
      BY <1>t, <2>1, <2>2, <2>3, <2>4 DEF Drained
  <1>4. CASE PollProgress
    <2>1. CASE Fails
      <3>1. UNCHANGED <<next, sender, sent>> /\ streaming
        BY <1>4, <1>t DEF PollProgress, Drained
      <3>2. QED
        BY <1>f, <1>t, <2>1, <3>1 DEF Drained
    <2>2. CASE ~Fails
      <3>1. /\ pc = "progress" /\ UNCHANGED <<next, task, sender, sent>>
            /\ \/ pc' = "progress"
               \/ pc' = "join" /\ progress' = progress
               \/ pc' = "last" /\ Closed /\ progress' = progress /\ progress = <<>>
        BY <1>4, <2>2 DEF PollProgress
      <3>2. InPhase("offering")' = InPhase("offering") /\ (Closed => Closed')
        BY <3>1 DEF Closed, Executing, InPhase
      <3>3. QED
        BY <1>t, <3>1, <3>2 DEF Drained
    <2>3. QED
      BY <2>1, <2>2
  <1>5. CASE Join
    <2>1. /\ pc' \in {"failed", "refill"} /\ UNCHANGED <<next, sender, progress, sent>>
      BY <1>5 DEF Join, Fails, Deliver
    <2>2. PICK c \in InPhase("done") : Fails \/ Deliver(c)
      BY <1>5 DEF Join
    <2>3. InPhase("offering")' \subseteq InPhase("offering")
      <3>1. CASE Deliver(c)
        <4>1. \A d \in Call : task'[d] = IF d = c THEN "joined" ELSE task[d]
          BY <3>1, JoinedCall
        <4>2. QED
          BY <1>2, <4>1
      <3>2. QED
        BY <1>f, <2>2, <3>1
    <2>4. QED
      BY <1>t, <2>1, <2>3 DEF Drained
  <1>6. CASE Wait
    <2>1. /\ UNCHANGED <<next, sender, progress, task, sent>>
          /\ \/ pc' = "progress" /\ streaming
             \/ pc' = "returned" /\ (pc = "last" \/ ~streaming)
      BY <1>6 DEF Wait, AllJoined
    <2>c. Closed => ~sender
      BY DEF Closed
    <2>2. InPhase("offering")' = InPhase("offering")
      BY <2>1 DEF InPhase
    <2>3. QED
      BY <1>t, <2>1, <2>2, <2>c DEF Drained
  <1>7. CASE Cancel \/ UNCHANGED vars
    BY <1>t, <1>7 DEF Cancel, vars, Drained, Closed, Executing, InPhase
  <1>8. QED
    BY <1>1, <1>o, <1>3, <1>4, <1>5, <1>6, <1>7 DEF Next, TaskStep, BatchStep

\* A step that moves no result, or fails the batch.
LEMMA QuietStep ==
  ASSUME Ledger, UNCHANGED <<streaming, sent, out, outputs>>,
         pc' # "failed" => pc # "failed" /\ UNCHANGED progress,
         \A c \in Call : task'[c] = "joined" <=> task[c] = "joined",
         (pc' # "returned" /\ pc # "returned") \/ UNCHANGED pc
  PROVE  Accounted'
  <1>1. InPhase("joined")' = InPhase("joined")
    BY DEF InPhase, Call
  <1>2. QED
    BY <1>1 DEF Ledger, Accounted

LEMMA SendCounted ==
  ASSUME BatchInv, Ledger, NEW c \in Call, SendProgress(c), ~Over
  PROVE  Accounted'
  <1>1. /\ UNCHANGED <<streaming, pc, out, outputs>> /\ streaming
        /\ sent' = [sent EXCEPT ![c] = @ + 1]
        /\ progress' = Append(progress, Prelim(c))
    BY DEF SendProgress, config, Prelim, Ledger, Drained, InPhase
  <1>2. /\ InPhase("joined")' = InPhase("joined") /\ pc # "returned"
        /\ \A d \in Call : task'[d] = "joined" <=> task[d] = "joined"
    BY <1>1, TaskMoved DEF InPhase, Over, Active, Call
  <1>3. /\ progress \in Seq(Items) /\ sent \in [Call -> Nat]
        /\ \A x : Occurs(out, x) \in Nat /\ Occurs(progress, x) \in Nat
    BY LedgerTypes
  <1> SUFFICES ASSUME NEW d \in Call, pc # "failed"
               PROVE  Occurs(out, Prelim(d)) + Occurs(progress', Prelim(d)) = sent'[d]
    BY <1>1, <1>2 DEF Ledger, Accounted
  <1>4. Prelim(c) \in Items /\ (Prelim(c) = Prelim(d) <=> c = d)
    BY ItemsDiffer
  <1>5. Occurs(progress', Prelim(d)) = Occurs(progress, Prelim(d)) + IF c = d THEN 1 ELSE 0
    BY <1>1, <1>3, <1>4, OccursAppend
  <1>6. sent'[d] = sent[d] + IF c = d THEN 1 ELSE 0
    BY <1>1, <1>3
  <1>7. Occurs(out, Prelim(d)) + Occurs(progress, Prelim(d)) = sent[d]
    BY <1>1 DEF Ledger, Accounted
  <1>8. QED
    BY <1>3, <1>5, <1>6, <1>7

LEMMA PollCounted ==
  ASSUME Ledger, PollProgress, ~Fails
  PROVE  Accounted'
  <1>1. /\ UNCHANGED <<streaming, task, sent, outputs>> /\ pc = "progress"
        /\ pc' \notin {"returned", "failed"} /\ streaming
        /\ \/ UNCHANGED <<progress, out>>
           \/ /\ progress # <<>>
              /\ progress' = Tail(progress) /\ out' = Append(out, Head(progress))
    BY DEF PollProgress, Emits, Closed, config, Ledger, Drained
  <1>2. /\ progress \in Seq(Items) /\ out \in Seq(Items)
        /\ \A x : Occurs(out, x) \in Nat /\ Occurs(progress, x) \in Nat
    BY LedgerTypes
  <1>3. CASE UNCHANGED <<progress, out>>
    BY <1>1, <1>3, QuietStep
  <1>4. CASE /\ progress # <<>>
             /\ progress' = Tail(progress) /\ out' = Append(out, Head(progress))
    <2>1. Head(progress) \in Items /\ Tail(progress) \in Seq(Items)
      BY <1>2, <1>4
    <2>2. ASSUME NEW x
          PROVE  Occurs(out', x) + Occurs(progress', x) = Occurs(out, x) + Occurs(progress, x)
      <3> DEFINE one == IF Head(progress) = x THEN 1 ELSE 0
      <3>1. Occurs(out', x) = Occurs(out, x) + one
        BY <1>2, <1>4, <2>1, OccursAppend
      <3>2. Occurs(progress, x) = Occurs(Tail(progress), x) + one
        BY <1>2, <1>4, OccursTail
      <3>3. Occurs(Tail(progress), x) \in Nat
        BY <2>1, OccursCounts
      <3>4. one \in Nat
        OBVIOUS
      <3> HIDE DEF one
      <3>5. QED
        BY <1>2, <1>4, <3>1, <3>2, <3>3, <3>4
    <2>3. InPhase("joined")' = InPhase("joined")
      BY <1>1 DEF InPhase
    <2>4. ASSUME NEW d \in Call
          PROVE  Occurs(out', Final(d)) = Occurs(out, Final(d))
      <3>1. progress \in Seq(Call \X {"preliminary"})
        BY DEF Ledger, TypeOK
      <3>2. Head(progress) \in Call \X {"preliminary"}
        BY <1>4, <3>1
      <3>3. Head(progress) # Final(d)
        BY <3>2 DEF Final
      <3>4. Occurs(out', Final(d)) = Occurs(out, Final(d)) + 0
        BY <1>2, <1>4, <2>1, <3>3, OccursAppend
      <3>5. QED
        BY <1>2, <3>4
    <2>5. QED
      BY <1>1, <2>2, <2>3, <2>4 DEF Ledger, Accounted
  <1>5. QED
    BY <1>1, <1>3, <1>4

LEMMA DeliveryCounted ==
  ASSUME BatchInv, Ledger, Join, NEW c \in InPhase("done"), Deliver(c)
  PROVE  Accounted'
  <1>1. /\ InPhase("joined")' = InPhase("joined") \cup {c} /\ c \notin InPhase("joined")
        /\ c \in Call /\ task[c] = "done"
        /\ \A d \in Call : task'[d] = IF d = c THEN "joined" ELSE task[d]
    BY JoinedCall
  <1>2. /\ UNCHANGED <<streaming, sent, progress>> /\ pc' = "refill"
        /\ pc \in {"join", "last"}
        /\ outputs' = outputs + 1
        /\ out' = IF streaming THEN Append(out, Final(c)) ELSE out
    BY DEF Join, Deliver, Emits, config, Final
  <1>3. /\ progress \in Seq(Items) /\ out \in Seq(Items) /\ outputs \in Nat
        /\ \A x : Occurs(out, x) \in Nat /\ Occurs(progress, x) \in Nat
    BY LedgerTypes
  <1>4. outputs' = Cardinality(InPhase("joined")')
    <2>1. InPhase("joined") \in SUBSET Call
      BY DEF InPhase
    <2>2. IsFiniteSet(InPhase("joined"))
      BY <2>1, CallsAreFinite, FS_Subset
    <2>3. QED
      BY <1>1, <1>2, <2>2, FS_AddElement DEF Ledger, Accounted
  <1>5. CASE streaming
    <2> SUFFICES ASSUME NEW d \in Call
                 PROVE  /\ Occurs(out', Final(d)) = IF task'[d] = "joined" THEN 1 ELSE 0
                        /\ Occurs(out', Prelim(d)) = Occurs(out, Prelim(d))
      BY <1>2, <1>4, <1>5 DEF Ledger, Accounted
    <2>1. Final(c) \in Items /\ Final(c) # Prelim(d) /\ (Final(c) = Final(d) <=> c = d)
      BY <1>1, ItemsDiffer
    <2>2. Occurs(out', Prelim(d)) = Occurs(out, Prelim(d)) + 0
      BY <1>2, <1>3, <1>5, <2>1, OccursAppend
    <2>3. Occurs(out', Final(d)) = Occurs(out, Final(d)) + IF c = d THEN 1 ELSE 0
      BY <1>2, <1>3, <1>5, <2>1, OccursAppend
    <2>4. Occurs(out, Final(d)) = IF task[d] = "joined" THEN 1 ELSE 0
      BY <1>5 DEF Ledger, Accounted
    <2>5. QED
      BY <1>1, <1>3, <2>2, <2>3, <2>4
  <1>6. CASE ~streaming
    BY <1>2, <1>4, <1>6 DEF Ledger, Accounted
  <1>7. QED
    BY <1>5, <1>6

LEMMA AccountedNext ==
  ASSUME BatchInv, BatchInv', Ledger, [Next]_vars
  PROVE  Accounted'
  <1>1. ASSUME Fails PROVE \A c \in Call : task'[c] = "joined" <=> task[c] = "joined"
    BY <1>1, JoinSetIsActive DEF Fails, Active
  <1>2. CASE TaskStep
    <2>1. PICK c \in Call : Preliminary(c) \/ SendProgress(c) \/ EndExecution(c) \/ EndTask(c)
      BY <1>2 DEF TaskStep
    <2>2. CASE Preliminary(c) \/ EndExecution(c) \/ EndTask(c)
      <3>1. \A d \in Call : task'[d] = "joined" <=> task[d] = "joined"
        BY <2>2, TaskMoved DEF Active
      <3>2. UNCHANGED <<streaming, sent, progress, out, outputs, pc>>
        BY <2>2 DEF Preliminary, EndExecution, EndTask, config
      <3>3. QED
        BY <3>1, <3>2, QuietStep
    <2>3. QED
      BY <1>2, <2>1, <2>2, SendCounted DEF TaskStep
  <1>3. CASE Fill \/ Refill
    <2>1. /\ UNCHANGED <<streaming, sent, progress, out, outputs>>
          /\ pc \notin {"returned", "failed"} /\ pc' # "returned"
      BY <1>3 DEF Fill, Refill, SpawnNext, Fails, config, firstPoll
    <2>2. \/ UNCHANGED task
          \/ Fails
          \/ next < Calls /\ task' = [task EXCEPT ![next + 1] = "running"]
      BY <1>3 DEF Fill, Refill, SpawnNext
    <2>3. \A c \in Call : task'[c] = "joined" <=> task[c] = "joined"
      BY <1>1, <2>2, StartedCall
    <2>4. QED
      BY <2>1, <2>3, QuietStep
  <1>4. CASE PollProgress
    <2>1. CASE Fails
      <3>1. UNCHANGED <<streaming, sent, out, outputs>> /\ pc # "returned" /\ pc' = "failed"
        BY <1>4, <2>1 DEF PollProgress, Fails, config
      <3>2. QED
        BY <1>1, <1>4, <2>1, <3>1, QuietStep
    <2>2. QED
      BY <1>4, <2>1, PollCounted
  <1>5. CASE Join
    <2>1. PICK c \in InPhase("done") : (Fails /\ UNCHANGED <<out, outputs>>) \/ Deliver(c)
      BY <1>5 DEF Join
    <2>2. CASE Fails /\ UNCHANGED <<out, outputs>>
      <3>1. UNCHANGED <<streaming, sent, progress>> /\ pc # "returned" /\ pc' = "failed"
        BY <1>5, <2>2 DEF Join, Fails, config
      <3>2. QED
        BY <1>1, <2>2, <3>1, QuietStep
    <2>3. QED
      BY <1>5, <2>1, <2>2, DeliveryCounted
  <1>6. CASE Wait
    <2>1. /\ UNCHANGED <<streaming, task, sent, progress, outputs>>
          /\ pc \notin {"returned", "failed"}
          /\ \/ pc' = "returned" /\ out' = IF streaming THEN out ELSE Flattened(InPhase("joined"))
             \/ pc' = "progress" /\ out' = out
      BY <1>6 DEF Wait, config
    <2>2. InPhase("joined")' = InPhase("joined")
      BY <2>1 DEF InPhase
    <2>3. QED
      BY <2>1, <2>2 DEF Ledger, Accounted
  <1>7. CASE Cancel \/ UNCHANGED vars
    BY <1>7, QuietStep DEF Cancel, vars, config
  <1>8. QED
    BY <1>2, <1>3, <1>4, <1>5, <1>6, <1>7 DEF Next, BatchStep

LEMMA LedgerAlways == Spec => [](BatchInv /\ Ledger)
  <1>1. BatchInv /\ BatchInv' /\ Ledger /\ [Next]_vars => Ledger'
    BY TypeNext, FilledNext, DrainedNext, AccountedNext DEF Ledger
  <1>2. QED
    BY <1>1, BatchAlways, LedgerInit, PTL DEF Spec

-----------------------------------------------------------------------------
(* The type invariant, the capacity of the progress channel included.      *)
THEOREM TypeCorrect == Spec => []TypeOK
  <1>1. BatchInv /\ Ledger => TypeOK
    BY DEF Ledger
  <1>2. QED
    BY <1>1, LedgerAlways, PTL

(* A cancelled tool contributes no output, in either loop, and its batch   *)
(* never returns normally (stage.rs:358-368, tools.rs:307-317).            *)
THEOREM CancellationEndsTheBatch == Spec => []CancellationIsFatal
  <1>1. BatchInv /\ Ledger => CancellationIsFatal
    <2> SUFFICES ASSUME BatchInv, Ledger, NEW c \in Call, how[c] = "cancelled"
                 PROVE  pc # "returned" /\ Count(c, "final") = 0
      BY DEF CancellationIsFatal
    <2>1. how[c] \in fatal /\ task[c] # "joined"
      BY DEF fatal, BatchInv, Fates
    <2>2. pc # "returned"
      <3>1. task[c] \notin {"queued"}
        BY DEF BatchInv, Fates
      <3>2. pc = "returned" => task[c] \notin Active /\ task[c] # "aborted"
        BY JoinSetIsActive DEF BatchInv, Fates
      <3>3. QED
        BY <2>1, <3>1, <3>2 DEF BatchInv, BatchType, Phases, Active
    <2>3. Count(c, "final") = Occurs(out, Final(c))
      BY DEF Count, Occurs, Final
    <2>4. Occurs(out, Final(c)) = 0
      <3>1. CASE streaming
        BY <2>1, <3>1 DEF Ledger, Accounted
      <3>2. CASE ~streaming
        BY <2>2, <3>2, OccursEmpty DEF Ledger, Accounted
      <3>3. QED
        BY <3>1, <3>2
    <2>5. QED
      BY <2>2, <2>3, <2>4
  <1>2. QED
    BY <1>1, LedgerAlways, PTL

(* A batch that returns has run all calls, gives the final output of each  *)
(* exactly once (the generating loop in call order) and has forwarded      *)
(* every preliminary result (stage.rs:307-376, tools.rs:272-321), whatever *)
(* the limit; with a limit of zero it is the generating loop's, and has    *)
(* run nothing.                                                            *)
THEOREM ReturnedBatchIsComplete == Spec => []NothingLost
  <1>1. BatchInv /\ Ledger => NothingLost
    <2> SUFFICES ASSUME BatchInv, Ledger, pc = "returned"
                 PROVE  IF limit = 0
                        THEN /\ ~streaming /\ InPhase("queued") = Call
                             /\ out = <<>> /\ outputs = 0
                        ELSE /\ outputs = Calls
                             /\ \A c \in Call : Count(c, "final") = 1
                             /\ streaming => \A c \in Call : Count(c, "preliminary") = sent[c]
                             /\ ~streaming => out = [c \in Call |-> <<c, "final">>]
      BY DEF NothingLost
    <2>t. limit \in Nat /\ next \in Nat /\ Calls \in Nat /\ 0 < Calls
      BY CallsAreFinite DEF BatchInv, BatchType, Call
    <2>1. InJoinSet = {} /\ Filled
      BY DEF BatchInv, Fates, Ledger
    <2>2. /\ InPhase("joined") = 1..next
          /\ Flattened(InPhase("joined")) = [i \in 1..next |-> Final(i)]
      BY <2>1, FlattenedInOrder
    <2>3. outputs = next
      <3>1. Cardinality(1..next) = next
        BY <2>t, FS_Interval
      <3>2. QED
        BY <2>2, <3>1 DEF Ledger, Accounted
    <2>4. CASE limit = 0
      <3>1. next = 0
        BY <2>t, <2>4 DEF BatchInv, Slots
      <3>2. ~streaming
        BY <2>t, <2>4, <3>1 DEF Ledger, Drained
      <3>3. InPhase("queued") = Call
        BY <3>1 DEF BatchInv, Slots, InPhase, Call
      <3>4. out = [i \in 1..0 |-> Final(i)]
        BY <2>2, <3>1, <3>2 DEF Ledger, Accounted
      <3>5. QED
        BY <2>3, <2>4, <3>1, <3>2, <3>3, <3>4
    <2>5. CASE limit # 0
      <3>1. next = Calls
        BY <2>t, <2>1, <2>5 DEF Filled
      <3>2. InPhase("joined") = Call
        BY <2>2, <3>1 DEF Call
      <3>3. ASSUME ~streaming PROVE out = [i \in Call |-> Final(i)]
        BY <2>2, <3>1, <3>3 DEF Ledger, Accounted, Call
      <3>4. ASSUME NEW c \in Call
            PROVE  Occurs(out, Final(c)) = 1
        <4>1. CASE streaming
          <5>1. task[c] = "joined"
            BY <3>2 DEF InPhase
          <5>2. QED
            BY <4>1, <5>1 DEF Ledger, Accounted
        <4>2. CASE ~streaming
          <5>1. {i \in DOMAIN out : out[i] = Final(c)} = {c}
            BY <3>3, <4>2, ItemsDiffer
          <5>2. QED
            BY <5>1, FS_Singleton DEF Occurs
        <4>3. QED
          BY <4>1, <4>2
      <3>5. ASSUME streaming, NEW c \in Call
            PROVE  Occurs(out, Prelim(c)) = sent[c]
        <4>1. progress = <<>>
          BY DEF Ledger, Drained
        <4>2. Occurs(out, Prelim(c)) + Occurs(progress, Prelim(c)) = sent[c]
          BY <3>5 DEF Ledger, Accounted
        <4>3. Occurs(progress, Prelim(c)) = 0 /\ Occurs(out, Prelim(c)) \in Nat
          BY <4>1, OccursEmpty, LedgerTypes
        <4>4. QED
          BY <4>2, <4>3
      <3>6. \A c : Count(c, "final") = Occurs(out, Final(c))
                   /\ Count(c, "preliminary") = Occurs(out, Prelim(c))
        BY DEF Count, Occurs, Final, Prelim
      <3>7. QED
        BY <2>3, <2>5, <3>1, <3>3, <3>4, <3>5, <3>6 DEF Final
    <2>6. QED
      BY <2>4, <2>5
  <1>2. QED
    BY <1>1, LedgerAlways, PTL
=============================================================================

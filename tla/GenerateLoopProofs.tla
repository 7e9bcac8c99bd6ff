------------------------- MODULE GenerateLoopProofs -------------------------
(***************************************************************************)
(* Theorems about GenerateLoop for every set of calls, every stop          *)
(* condition, and any number of invocations and failures.                  *)
(***************************************************************************)
EXTENDS GenerateLoop, FiniteSetTheorems, TLAPS

Phases == {"app", "replay", "model", "resolve"}

\* The types of what the properties read.
LoopType ==
    /\ phase \in Phases
    /\ kind \in [Calls -> Kinds \cup {"unused"}]
    /\ status \in [Calls -> Status]
    /\ saved \in History /\ draft \in History
    /\ last \in SUBSET Calls
    /\ steps \in Nat /\ failures \in Nat
    /\ runs \in [Calls -> Nat]

-----------------------------------------------------------------------------
(* The inductive invariant.  Neither OneReply nor RunsAsDecided is          *)
(* inductive: what a replay may still start depends on the requests and the *)
(* replies of the history it is given, and what a failed invocation leaves  *)
(* behind on those of the history the application still has.                *)

\* Nothing has been said of a call, or done about it, before its step.
Untouched(c) ==
    /\ draft.replies[c] = <<>> /\ saved.replies[c] = <<>>
    /\ c \notin draft.requests /\ c \notin saved.requests
    /\ status[c] = "none" /\ runs[c] = 0

NewCalls ==
    /\ \A c \in last : kind[c] # "unused"
    /\ \A c \in Calls : kind[c] = "unused" \/ (phase = "resolve" /\ c \in last)
                           => Untouched(c)

\* Decisions are about requests; between invocations there is one history.
Histories ==
    /\ \A d \in draft.tail : d.call \in draft.requests
    /\ \A d \in saved.tail : d.call \in saved.requests
    /\ phase = "app" => draft = saved

SingleReplies ==
    \A c \in Calls : Len(draft.replies[c]) <= 1 /\ Len(saved.replies[c]) <= 1

\* A call that ran has a reply, but for the runs of failed invocations.
RunsAnswered ==
    \A c \in Calls : runs[c] <= failures + IF draft.replies[c] = <<>> THEN 0 ELSE 1

\* A denied call has not run, and is either answered or forgotten.
DenialStands ==
    \A c \in Calls : status[c] = "denied" =>
        /\ runs[c] = 0
        /\ c \in draft.requests => draft.replies[c] # <<>>
        /\ c \in saved.requests => saved.replies[c] # <<>>

LoopInv ==
    /\ LoopType /\ NewCalls /\ Histories
    /\ SingleReplies /\ RunsAnswered /\ DenialStands

\* The steps an invocation has taken.
StepsTaken ==
    /\ phase = "replay" => steps = 0
    /\ phase # "app" => steps < StopAfter

-----------------------------------------------------------------------------
(* What the operators of the model do.                                     *)

LEMMA Joined ==
  ASSUME NEW S, NEW s \in Seq(S), NEW t \in Seq(S)
  PROVE  /\ s \o t \in Seq(S)
         /\ Len(s \o t) = Len(s) + Len(t)
         /\ Len(s) \in Nat /\ Len(t) \in Nat
         /\ Len(t) = 0 => s \o t = s
  OBVIOUS

LEMMA NoneJoined ==
  ASSUME NEW S
  PROVE  <<>> \in Seq(S) /\ Len(<<>>) = 0
  OBVIOUS

LEMMA OneJoined ==
  ASSUME NEW S, NEW x \in S
  PROVE  <<x>> \in Seq(S) /\ Len(<<x>>) = 1
  OBVIOUS

\* What the lengths of the joined sequences say.
LEMMA Lengths ==
  ASSUME NEW a \in Nat, NEW b \in {0, 1}, NEW c \in {0, 1}, NEW n, n = a + b + c
  PROVE  /\ b = 1 \/ c = 1 => n # 0
         /\ a = 0 /\ ~(b = 1 /\ c = 1) => n <= 1
  OBVIOUS

\* Two sequences, of one entry or none, may follow.
LEMMA MayFollow ==
  ASSUME NEW S, NEW s \in Seq(S), NEW t \in Seq(S), NEW u \in Seq(S),
         Len(t) \in {0, 1}, Len(u) \in {0, 1}, NEW r, r = (s \o t) \o u
  PROVE  /\ r \in Seq(S)
         /\ Len(t) = 0 /\ Len(u) = 0 => r = s
         /\ Len(t) = 1 \/ Len(u) = 1 => r # <<>>
         /\ s = <<>> /\ ~(Len(t) = 1 /\ Len(u) = 1) => Len(r) <= 1
  <1>1. /\ s \o t \in Seq(S) /\ Len(s \o t) = Len(s) + Len(t) /\ Len(s) \in Nat
        /\ Len(t) = 0 => s \o t = s
    BY Joined
  <1>2. /\ r \in Seq(S) /\ Len(r) = Len(s \o t) + Len(u)
        /\ Len(u) = 0 => r = s \o t
    BY <1>1, Joined
  <1>3. Len(r) = Len(s) + Len(t) + Len(u)
    BY <1>1, <1>2, Zenon
  <1>4. (r = <<>> => Len(r) = 0) /\ (s = <<>> => Len(s) = 0)
    BY NoneJoined
  <1>5. /\ Len(t) = 1 \/ Len(u) = 1 => Len(r) # 0
        /\ Len(s) = 0 /\ ~(Len(t) = 1 /\ Len(u) = 1) => Len(r) <= 1
    BY <1>1, <1>3, Lengths, Zenon
  <1>6. QED
    BY <1>1, <1>2, <1>4, <1>5, Zenon

LEMMA OneOrNone ==
  ASSUME NEW S, NEW x \in S, NEW p \in BOOLEAN, NEW t, t = IF p THEN <<x>> ELSE <<>>
  PROVE  t \in Seq(S) /\ Len(t) \in {0, 1} /\ (Len(t) = 1 <=> p)
  <1>1. CASE p
    <2>1. t = <<x>>
      BY <1>1
    <2>2. QED
      BY <1>1, <2>1, OneJoined
  <1>2. CASE ~p
    <2>1. t = <<>>
      BY <1>2
    <2>2. QED
      BY <1>2, <2>1, NoneJoined
  <1>3. QED
    BY <1>1, <1>2

\* Replies are added where they are given and nowhere else.
LEMMA ReplyAdds ==
  ASSUME NEW h \in History, NEW O \in SUBSET Calls, NEW D \in SUBSET Calls
  PROVE  /\ Reply(h, O, D) \in [Calls -> Seq({"output", "denied"})]
         /\ \A c \in Calls : c \notin O \cup D => Reply(h, O, D)[c] = h.replies[c]
         /\ \A c \in O \cup D : Reply(h, O, D)[c] # <<>>
         /\ \A c \in Calls : h.replies[c] = <<>> /\ ~(c \in O /\ c \in D)
                => Len(Reply(h, O, D)[c]) <= 1
  <1> DEFINE Texts == {"output", "denied"}
             out(c) == IF c \in O THEN <<"output">> ELSE <<>>
             den(c) == IF c \in D THEN <<"denied">> ELSE <<>>
             R == Reply(h, O, D)
  <1>1. R = [c \in Calls |-> h.replies[c] \o out(c) \o den(c)]
    BY DEF Reply
  <1> HIDE DEF R
  <1>2. ASSUME NEW c \in Calls
        PROVE  /\ R[c] \in Seq(Texts)
               /\ c \notin O /\ c \notin D => R[c] = h.replies[c]
               /\ c \in O \/ c \in D => R[c] # <<>>
               /\ h.replies[c] = <<>> /\ ~(c \in O /\ c \in D) => Len(R[c]) <= 1
    <2>1. h.replies[c] \in Seq(Texts)
      BY DEF History
    <2>2. "output" \in Texts /\ "denied" \in Texts
      OBVIOUS
    <2>3. R[c] = h.replies[c] \o out(c) \o den(c)
      BY <1>1
    <2> HIDE DEF Texts
    <2>4. out(c) \in Seq(Texts) /\ Len(out(c)) \in {0, 1} /\ (Len(out(c)) = 1 <=> c \in O)
      BY <2>2, OneOrNone
    <2>5. den(c) \in Seq(Texts) /\ Len(den(c)) \in {0, 1} /\ (Len(den(c)) = 1 <=> c \in D)
      BY <2>2, OneOrNone
    <2> HIDE DEF out, den
    <2>6. /\ R[c] \in Seq(Texts)
          /\ Len(out(c)) = 0 /\ Len(den(c)) = 0 => R[c] = h.replies[c]
          /\ Len(out(c)) = 1 \/ Len(den(c)) = 1 => R[c] # <<>>
          /\ h.replies[c] = <<>> /\ ~(Len(out(c)) = 1 /\ Len(den(c)) = 1) => Len(R[c]) <= 1
      BY <2>1, <2>3, <2>4, <2>5, MayFollow
    <2>7. QED
      BY <2>4, <2>5, <2>6
  <1>3. R \in [Calls -> Seq({"output", "denied"})]
    BY <1>1, <1>2
  <1>4. QED
    BY <1>2, <1>3 DEF R

LEMMA CountAdds ==
  ASSUME NEW f \in [Calls -> Nat], NEW started
  PROVE  /\ Count(f, started) \in [Calls -> Nat]
         /\ \A c \in Calls : Count(f, started)[c] =
                IF c \in started THEN f[c] + 1 ELSE f[c]
  BY DEF Count

\* A decision is collected once: only for a request that has no reply.
LEMMA CollectedOnce ==
  ASSUME LoopInv, NEW approved \in BOOLEAN, NEW c \in Collected(approved)
  PROVE  c \in Calls /\ c \in draft.requests /\ draft.replies[c] = <<>>
  BY DEF Collected, LoopInv, Histories

LEMMA NotBothCollected ==
  ASSUME ~Conflicting(draft.tail)
  PROVE  Collected(TRUE) \cap Collected(FALSE) = {}
  BY DEF Conflicting, Collected

\* A replay runs what was approved and answers nothing twice.
LEMMA ReplayPlan ==
  ASSUME LoopInv, ~Conflicting(draft.tail),
         NEW bad \in SUBSET Calls, NEW refused \in SUBSET Calls, ReplayChoice(bad, refused)
  PROVE  /\ (ReplayRuns(bad, refused) \cup bad) \cap (refused \cup Collected(FALSE)) = {}
         /\ \A c \in ReplayRuns(bad, refused) \cup bad \cup refused \cup Collected(FALSE) :
               c \in Calls /\ c \in draft.requests /\ draft.replies[c] = <<>>
  <1>0. bad \subseteq Collected(TRUE) /\ refused \subseteq Collected(TRUE)
    BY Zenon DEF ReplayChoice
  <1>1. ReplayRuns(bad, refused) \subseteq Collected(TRUE)
    BY Zenon DEF ReplayRuns
  <1>2. bad \cap refused = {} /\ ReplayRuns(bad, refused) \cap refused = {}
    BY DEF ReplayChoice, ReplayRuns
  <1>3. QED
    BY <1>0, <1>1, <1>2, CollectedOnce, NotBothCollected

-----------------------------------------------------------------------------
(* The steps of the loop.                                                  *)

LEMMA LoopInit == Init => LoopInv
  <1> SUFFICES ASSUME Init PROVE LoopInv
    OBVIOUS
  <1>1. LoopType
    BY DEF Init, LoopType, Phases, History, Kinds, Status
  <1>2. Len(<<>>) = 0
    OBVIOUS
  <1>3. QED
    BY <1>1, <1>2 DEF Init, LoopInv, NewCalls, Untouched, Histories, SingleReplies,
                      RunsAnswered, DenialStands

\* Answering calls without a reply, and starting some of them, keeps the
\* counts: no call gets a second reply or a second run.
LEMMA Answering ==
  ASSUME LoopInv,
         NEW O \in SUBSET Calls, NEW D \in SUBSET Calls, NEW R \in SUBSET O,
         O \cap D = {}, \A c \in O \cup D : draft.replies[c] = <<>>,
         runs' = Count(runs, R), draft'.replies = Reply(draft, O, D),
         failures' = failures
  PROVE  /\ runs' \in [Calls -> Nat]
         /\ \A c \in Calls : c \notin R => runs'[c] = runs[c]
         /\ \A c \in Calls : Len(draft'.replies[c]) <= 1
         /\ \A c \in Calls : draft.replies[c] # <<>> \/ c \in O \cup D
                                => draft'.replies[c] # <<>>
         /\ \A c \in Calls : c \notin O \cup D => draft'.replies[c] = draft.replies[c]
         /\ RunsAnswered'
  <1>1. draft \in History /\ runs \in [Calls -> Nat] /\ failures \in Nat
    BY DEF LoopInv, LoopType
  <1>2. /\ runs' \in [Calls -> Nat]
        /\ \A c \in Calls : runs'[c] = IF c \in R THEN runs[c] + 1 ELSE runs[c]
    BY <1>1, CountAdds
  <1>3. /\ \A c \in Calls : c \notin O \cup D => draft'.replies[c] = draft.replies[c]
        /\ \A c \in O \cup D : draft'.replies[c] # <<>>
        /\ \A c \in Calls : draft.replies[c] = <<>> /\ ~(c \in O /\ c \in D)
                => Len(draft'.replies[c]) <= 1
    BY <1>1, ReplyAdds
  <1>4. \A c \in Calls : Len(draft'.replies[c]) <= 1
    BY <1>3 DEF LoopInv, SingleReplies
  <1>5. ASSUME NEW c \in Calls
        PROVE  runs'[c] <= failures' + IF draft'.replies[c] = <<>> THEN 0 ELSE 1
    <2>1. runs[c] <= failures + IF draft.replies[c] = <<>> THEN 0 ELSE 1
      BY DEF LoopInv, RunsAnswered
    <2>2. CASE c \in O \cup D
      <3>1. draft'.replies[c] # <<>> /\ runs[c] <= failures
        BY <1>1, <1>3, <2>1, <2>2
      <3>2. QED
        BY <1>1, <1>2, <3>1
    <2>3. CASE c \notin O \cup D
      <3>1. draft'.replies[c] = draft.replies[c] /\ runs'[c] = runs[c]
        BY <1>2, <1>3, <2>3
      <3>2. QED
        BY <2>1, <3>1
    <2>4. QED
      BY <2>2, <2>3
  <1>6. RunsAnswered'
    BY <1>5 DEF RunsAnswered
  <1>7. QED
    BY <1>2, <1>3, <1>4, <1>6

\* A failed invocation leaves the history it was given, and the runs of
\* calls that had neither a reply nor a denial.
LEMMA Failing ==
  ASSUME LoopInv, Fail, NEW R \in SUBSET Calls, runs' = Count(runs, R),
         \A c \in R : draft.replies[c] = <<>> /\ status[c] # "denied",
         \A c \in R : kind[c] # "unused"
  PROVE  LoopInv'
  <1>1. /\ saved \in History /\ draft \in History /\ runs \in [Calls -> Nat]
        /\ failures \in Nat
    BY DEF LoopInv, LoopType
  <1>2. /\ phase' = "app" /\ draft' = saved /\ saved' = saved /\ last' = {}
        /\ kind' = kind /\ status' = status /\ steps' = steps
        /\ failures' = failures + 1
    BY DEF Fail
  <1>3. /\ runs' \in [Calls -> Nat]
        /\ \A c \in Calls : runs'[c] = IF c \in R THEN runs[c] + 1 ELSE runs[c]
    BY <1>1, CountAdds
  <1>4. LoopType'
    BY <1>1, <1>2, <1>3 DEF LoopInv, LoopType, Phases
  <1>5. NewCalls'
    BY <1>2, <1>3 DEF LoopInv, NewCalls, Untouched
  <1>6. Histories' /\ SingleReplies'
    BY <1>2 DEF LoopInv, Histories, SingleReplies
  <1>7. RunsAnswered'
    <2> SUFFICES ASSUME NEW c \in Calls
                 PROVE  runs'[c] <= failures'
      BY <1>1, <1>2, <1>3 DEF RunsAnswered
    <2>1. runs[c] <= failures + IF draft.replies[c] = <<>> THEN 0 ELSE 1
      BY DEF LoopInv, RunsAnswered
    <2>2. QED
      BY <1>1, <1>2, <1>3, <2>1
  <1>8. DenialStands'
    BY <1>2, <1>3 DEF LoopInv, DenialStands
  <1>9. QED
    BY <1>4, <1>5, <1>6, <1>7, <1>8 DEF LoopInv

\* Nothing ran in an invocation that failed before its tools.
LEMMA FailingIdle ==
  ASSUME LoopInv, Fail, UNCHANGED runs
  PROVE  LoopInv'
  <1>1. runs = Count(runs, {})
    BY DEF LoopInv, LoopType, Count
  <1>2. QED
    BY <1>1, Failing

LEMMA InvokeKeeps == LoopInv /\ Invoke => LoopInv'
  <1> SUFFICES ASSUME LoopInv, Invoke PROVE LoopInv'
    OBVIOUS
  <1>1. PICK decisions \in SUBSET {d \in Decision : d.call \in saved.requests},
             keep \in {{}, saved.tail} :
          draft' = [saved EXCEPT !.tail = keep \union decisions]
    BY DEF Invoke
  <1>2. /\ saved \in History /\ draft \in History
        /\ phase' = "replay" /\ steps' = 0 /\ saved' = saved
        /\ UNCHANGED <<kind, status, last, runs, failures>>
        /\ draft = saved
    BY DEF Invoke, LoopInv, LoopType, Histories, answer
  <1>3. /\ keep \union decisions \in SUBSET Decision
        /\ \A d \in keep \union decisions : d.call \in saved.requests
    BY <1>1, <1>2 DEF LoopInv, Histories, History
  <1>4. /\ draft' \in History
        /\ draft'.replies = saved.replies /\ draft'.requests = saved.requests
        /\ draft'.tail = keep \union decisions
    BY <1>1, <1>2, <1>3 DEF History
  <1>5. LoopType'
    BY <1>2, <1>4 DEF LoopInv, LoopType, Phases
  <1>6. NewCalls'
    BY <1>2, <1>4 DEF LoopInv, NewCalls, Untouched
  <1>7. Histories'
    BY <1>2, <1>3, <1>4 DEF LoopInv, Histories
  <1>8. SingleReplies' /\ RunsAnswered' /\ DenialStands'
    BY <1>2, <1>4 DEF LoopInv, SingleReplies, RunsAnswered, DenialStands
  <1>9. QED
    BY <1>5, <1>6, <1>7, <1>8 DEF LoopInv

LEMMA ReplayKeeps == LoopInv /\ Replay => LoopInv'
  <1> SUFFICES ASSUME LoopInv, Replay PROVE LoopInv'
    OBVIOUS
  <1>1. PICK bad \in SUBSET Calls, refused \in SUBSET Calls :
          /\ ReplayChoice(bad, refused)
          /\ LET started == ReplayRuns(bad, refused)
                 outputs == started \union bad
                 denials == refused \union Collected(FALSE)
             IN /\ runs' = Count(runs, started)
                /\ draft' = [draft EXCEPT
                       !.replies = Reply(draft, outputs, denials),
                       !.tail = IF outputs \union denials = {} THEN @ ELSE {}]
    BY DEF Replay
  <1> DEFINE R == ReplayRuns(bad, refused)
             O == R \cup bad
             D == refused \cup Collected(FALSE)
  <1>2. /\ phase = "replay" /\ phase' = "model" /\ ~Conflicting(draft.tail)
        /\ UNCHANGED <<kind, status, saved, last, steps, failures>>
    BY DEF Replay, answer
  <1>3. /\ O \in SUBSET Calls /\ D \in SUBSET Calls /\ O \cap D = {} /\ R \subseteq O
        /\ \A c \in O \cup D : c \in draft.requests /\ draft.replies[c] = <<>>
    <2>1. ReplayChoice(bad, refused)
      BY <1>1
    <2>2. /\ O \cap D = {}
          /\ \A c \in R \cup bad \cup refused \cup Collected(FALSE) :
               c \in Calls /\ c \in draft.requests /\ draft.replies[c] = <<>>
      BY <1>2, <2>1, ReplayPlan, Zenon
    <2> HIDE DEF R
    <2>3. QED
      BY <2>2
  <1>4. /\ runs' = Count(runs, R)
        /\ draft' = [draft EXCEPT !.replies = Reply(draft, O, D),
                                  !.tail = IF O \cup D = {} THEN @ ELSE {}]
    BY <1>1
  <1> HIDE DEF R, O, D
  <1>5. /\ draft \in History /\ saved \in History
        /\ Reply(draft, O, D) \in [Calls -> Seq({"output", "denied"})]
    BY <1>3, ReplyAdds DEF LoopInv, LoopType
  <1>6. /\ draft' \in History
        /\ draft'.replies = Reply(draft, O, D) /\ draft'.requests = draft.requests
        /\ draft'.tail \subseteq draft.tail
    BY <1>4, <1>5 DEF History
  <1>7. /\ runs' \in [Calls -> Nat]
        /\ \A c \in Calls : c \notin R => runs'[c] = runs[c]
        /\ \A c \in Calls : Len(draft'.replies[c]) <= 1
        /\ \A c \in Calls : draft.replies[c] # <<>> \/ c \in O \cup D
                               => draft'.replies[c] # <<>>
        /\ \A c \in Calls : c \notin O \cup D => draft'.replies[c] = draft.replies[c]
        /\ RunsAnswered'
    BY <1>2, <1>3, <1>4, <1>6, Answering
  <1>8. LoopType'
    BY <1>2, <1>6, <1>7 DEF LoopInv, LoopType, Phases
  <1>9. NewCalls'
    <2> SUFFICES ASSUME NEW c \in Calls, kind[c] = "unused"
                 PROVE  Untouched(c)'
      BY <1>2 DEF LoopInv, NewCalls
    <2>1. Untouched(c)
      BY DEF LoopInv, NewCalls
    <2>2. c \notin O \cup D /\ c \notin R
      BY <1>3, <2>1 DEF Untouched
    <2>3. QED
      BY <1>2, <1>6, <1>7, <2>1, <2>2 DEF Untouched
  <1>10. Histories'
    BY <1>2, <1>6 DEF LoopInv, Histories
  <1>11. SingleReplies'
    BY <1>2, <1>7 DEF LoopInv, SingleReplies
  <1>12. DenialStands'
    <2> SUFFICES ASSUME NEW c \in Calls, status[c] = "denied"
                 PROVE  /\ runs'[c] = 0
                        /\ c \in draft'.requests => draft'.replies[c] # <<>>
                        /\ c \in saved'.requests => saved'.replies[c] # <<>>
      BY <1>2 DEF DenialStands
    <2>1. /\ runs[c] = 0
          /\ c \in draft.requests => draft.replies[c] # <<>>
          /\ c \in saved.requests => saved.replies[c] # <<>>
      BY DEF LoopInv, DenialStands
    <2>2. c \notin R
      BY <1>3, <2>1
    <2>3. QED
      BY <1>2, <1>6, <1>7, <2>1, <2>2
  <1>13. QED
    BY <1>7, <1>8, <1>9, <1>10, <1>11, <1>12 DEF LoopInv

LEMMA ReplayAbortedKeeps == LoopInv /\ ReplayAborted => LoopInv'
  <1> SUFFICES ASSUME LoopInv, ReplayAborted PROVE LoopInv'
    OBVIOUS
  <1>1. PICK bad \in SUBSET Calls, refused \in SUBSET Calls :
          \E started \in SUBSET ReplayRuns(bad, refused) \ {{}} :
              runs' = Count(runs, started)
    BY DEF ReplayAborted
  <1>2. PICK R \in SUBSET ReplayRuns(bad, refused) : runs' = Count(runs, R)
    BY <1>1
  <1>3. ASSUME NEW c \in R
        PROVE  /\ c \in Calls /\ draft.replies[c] = <<>>
               /\ status[c] # "denied" /\ kind[c] # "unused"
    <2>1. c \in Collected(TRUE) /\ kind[c] = "tool"
      BY DEF ReplayRuns
    <2>2. c \in Calls /\ c \in draft.requests /\ draft.replies[c] = <<>>
      BY <2>1, CollectedOnce
    <2>3. QED
      BY <2>1, <2>2 DEF LoopInv, DenialStands
  <1>4. Fail
    BY DEF ReplayAborted
  <1>5. QED
    BY <1>2, <1>3, <1>4, Failing

LEMMA ModelAnswersKeeps == LoopInv /\ ModelAnswers => LoopInv'
  <1> SUFFICES ASSUME LoopInv, ModelAnswers PROVE LoopInv'
    OBVIOUS
  <1>1. PICK new \in SUBSET Unused : \E k \in [new -> Kinds] :
          /\ kind' = [c \in Calls |-> IF c \in new THEN k[c] ELSE kind[c]]
          /\ last' = new
    BY DEF ModelAnswers
  <1>2. PICK k \in [new -> Kinds] :
          kind' = [c \in Calls |-> IF c \in new THEN k[c] ELSE kind[c]]
    BY <1>1
  <1>3. /\ phase' = "resolve" /\ last' = new /\ new \in SUBSET Calls
        /\ \A c \in new : kind[c] = "unused"
        /\ UNCHANGED <<status, saved, draft, steps, runs, failures>>
    BY <1>1 DEF ModelAnswers, Unused
  <1>4. LoopType'
    BY <1>2, <1>3 DEF LoopInv, LoopType, Phases
  <1>5. NewCalls'
    <2> SUFFICES ASSUME NEW c \in Calls, kind'[c] = "unused" \/ c \in new
                 PROVE  Untouched(c)'
      <3>1. \A c \in new : kind'[c] \in Kinds /\ "unused" \notin Kinds
        BY <1>2, <1>3 DEF Kinds
      <3>2. QED
        BY <1>3, <3>1 DEF NewCalls
    <2>1. kind[c] = "unused"
      BY <1>2, <1>3
    <2>2. QED
      BY <1>3, <2>1 DEF LoopInv, NewCalls, Untouched
  <1>6. Histories' /\ SingleReplies' /\ RunsAnswered' /\ DenialStands'
    BY <1>3 DEF LoopInv, Histories, SingleReplies, RunsAnswered, DenialStands
  <1>7. QED
    BY <1>4, <1>5, <1>6 DEF LoopInv

\* What a step starts, answers and denies are calls nothing was said of.
LEMMA StepPlan ==
  ASSUME LoopInv, phase = "resolve", NEW s \in Resolutions
  PROVE  /\ Invalid \cup Executes(s) \in SUBSET last /\ Denied(s) \in SUBSET last
         /\ (Invalid \cup Executes(s)) \cap Denied(s) = {}
         /\ last \in SUBSET Calls
         /\ \A c \in last : Untouched(c) /\ kind[c] # "unused"
         /\ \A c \in last : s[c] \in Status
         /\ \A c \in Executes(s) : kind[c] = "tool"
  <1>1. last \in SUBSET Calls /\ \A c \in last : Untouched(c) /\ kind[c] # "unused"
    BY DEF LoopInv, LoopType, NewCalls
  <1>2. \A c \in last : s[c] \in Status /\ (kind[c] = "invalid" => s[c] = "none")
    BY DEF Resolutions
  <1>3. QED
    BY <1>1, <1>2 DEF Invalid, Executes, Denied

LEMMA FinishStepKeeps == LoopInv /\ FinishStep => LoopInv'
  <1> SUFFICES ASSUME LoopInv, FinishStep PROVE LoopInv'
    OBVIOUS
  <1>1. PICK s \in Resolutions :
          /\ status' = [c \in Calls |-> IF c \in last THEN s[c] ELSE status[c]]
          /\ runs' = Count(runs, Executes(s))
          /\ draft' = StepMessages(s)
          /\ steps' = steps + 1
          /\ \/ phase' = "model" /\ UNCHANGED saved
             \/ phase' = "app" /\ saved' = draft'
    BY DEF FinishStep
  <1> DEFINE O == Invalid \cup Executes(s)
             D == Denied(s)
             R == Executes(s)
  <1>2. /\ phase = "resolve"
        /\ UNCHANGED <<kind, last, failures>>
    BY DEF FinishStep, answer
  <1>3. /\ O \in SUBSET last /\ D \in SUBSET last /\ O \cap D = {} /\ R \subseteq O
        /\ last \in SUBSET Calls
        /\ \A c \in last : Untouched(c) /\ kind[c] # "unused"
        /\ \A c \in last : s[c] \in Status
    BY <1>2, StepPlan
  <1>4. /\ draft' = [requests |-> draft.requests \union {c \in last : s[c] # "none"},
                     replies  |-> Reply(draft, O, D),
                     tail     |-> IF Responses(s) # {} \/ O # {} THEN Responses(s)
                                  ELSE IF silent THEN draft.tail ELSE {}]
        /\ D = {c \in last : s[c] = "denied"}
    BY <1>1 DEF StepMessages, Denied
  <1> HIDE DEF R, O, D
  <1>5. /\ draft \in History /\ saved \in History
        /\ Reply(draft, O, D) \in [Calls -> Seq({"output", "denied"})]
    BY <1>3, ReplyAdds DEF LoopInv, LoopType
  <1>6. /\ Responses(s) \in SUBSET Decision
        /\ \A d \in Responses(s) : d.call \in last /\ s[d.call] # "none"
    <2> SUFFICES ASSUME NEW d \in Responses(s)
                 PROVE  d \in Decision /\ d.call \in last /\ s[d.call] # "none"
      OBVIOUS
    <2>1. PICK c \in last : /\ s[c] \in {"approved", "denied"}
                            /\ d = [call |-> c, approved |-> s[c] = "approved"]
      BY DEF Responses
    <2>2. c \in Calls /\ (s[c] = "approved") \in BOOLEAN
      BY <1>3
    <2>3. QED
      BY <2>1, <2>2 DEF Decision
  <1>7. /\ draft'.tail \in SUBSET Decision
        /\ draft'.replies = Reply(draft, O, D)
        /\ draft'.requests = draft.requests \union {c \in last : s[c] # "none"}
        /\ draft'.tail \subseteq draft.tail \/ draft'.tail = Responses(s)
    BY <1>4, <1>5, <1>6 DEF History
  <1>8. draft' \in History
    BY <1>3, <1>4, <1>5, <1>7 DEF History
  <1>9. \A c \in O \cup D : draft.replies[c] = <<>>
    BY <1>3 DEF Untouched
  <1>10. /\ runs' \in [Calls -> Nat]
         /\ \A c \in Calls : c \notin R => runs'[c] = runs[c]
         /\ \A c \in Calls : Len(draft'.replies[c]) <= 1
         /\ \A c \in Calls : draft.replies[c] # <<>> \/ c \in O \cup D
                                => draft'.replies[c] # <<>>
         /\ \A c \in Calls : c \notin O \cup D => draft'.replies[c] = draft.replies[c]
         /\ RunsAnswered'
    <2>1. runs' = Count(runs, R)
      BY <1>1 DEF R
    <2>2. O \in SUBSET Calls /\ D \in SUBSET Calls /\ R \in SUBSET O
      BY <1>3
    <2>3. QED
      BY <1>2, <1>3, <1>7, <1>9, <2>1, <2>2, Answering
  <1>11. saved' = saved \/ saved' = draft'
    BY <1>1
  <1>12. LoopType'
    <2>1. status' \in [Calls -> Status]
      BY <1>1, <1>3 DEF LoopInv, LoopType
    <2>2. steps' \in Nat
      BY <1>1 DEF LoopInv, LoopType
    <2>3. phase' \in Phases
      BY <1>1 DEF Phases
    <2>4. saved' \in History
      BY <1>5, <1>8, <1>11
    <2>5. QED
      BY <1>2, <1>8, <1>10, <2>1, <2>2, <2>3, <2>4 DEF LoopInv, LoopType
  <1>13. NewCalls'
    <2> SUFFICES ASSUME NEW c \in Calls, kind[c] = "unused"
                 PROVE  Untouched(c)'
      BY <1>1, <1>2, <1>3 DEF NewCalls
    <2>1. Untouched(c)
      BY DEF LoopInv, NewCalls
    <2>2. c \notin last /\ c \notin O \cup D /\ c \notin R
      BY <1>3
    <2>3. /\ draft'.replies[c] = <<>> /\ c \notin draft'.requests
          /\ runs'[c] = 0 /\ status'[c] = "none"
      BY <1>1, <1>7, <1>10, <2>1, <2>2 DEF Untouched
    <2>4. QED
      BY <1>11, <2>1, <2>3 DEF Untouched
  <1>14. Histories'
    <2>1. \A d \in draft'.tail : d.call \in draft'.requests
      BY <1>6, <1>7 DEF LoopInv, Histories
    <2>2. phase' = "app" => draft' = saved'
      BY <1>1
    <2>3. QED
      BY <1>11, <2>1, <2>2 DEF LoopInv, Histories
  <1>15. SingleReplies'
    BY <1>10, <1>11 DEF LoopInv, SingleReplies
  <1>16. DenialStands'
    <2> SUFFICES ASSUME NEW c \in Calls, status'[c] = "denied"
                 PROVE  /\ runs'[c] = 0
                        /\ c \in draft'.requests => draft'.replies[c] # <<>>
                        /\ c \in saved'.requests => saved'.replies[c] # <<>>
      BY DEF DenialStands
    <2>1. CASE c \in last
      <3>1. c \in D
        BY <1>1, <1>4, <2>1
      <3>2. c \notin R
        BY <1>3, <3>1
      <3>3. runs'[c] = 0 /\ draft'.replies[c] # <<>> /\ c \notin saved.requests
        BY <1>3, <1>10, <2>1, <3>1, <3>2 DEF Untouched
      <3>4. QED
        BY <1>11, <3>3
    <2>2. CASE c \notin last
      <3>1. status[c] = "denied" /\ c \notin R
        BY <1>1, <1>3, <2>2
      <3>2. /\ runs[c] = 0
            /\ c \in draft.requests => draft.replies[c] # <<>>
            /\ c \in saved.requests => saved.replies[c] # <<>>
        BY <3>1 DEF LoopInv, DenialStands
      <3>3. runs'[c] = 0 /\ (c \in draft'.requests => draft'.replies[c] # <<>>)
        BY <1>7, <1>10, <2>2, <3>1, <3>2
      <3>4. QED
        BY <1>11, <3>2, <3>3
    <2>3. QED
      BY <2>1, <2>2
  <1>17. QED
    BY <1>10, <1>12, <1>13, <1>14, <1>15, <1>16 DEF LoopInv

LEMMA StepFailsKeeps == LoopInv /\ StepFails => LoopInv'
  <1> SUFFICES ASSUME LoopInv, StepFails PROVE LoopInv'
    OBVIOUS
  <1>1. PICK s \in Resolutions : \E started \in SUBSET Executes(s) :
          runs' = Count(runs, started)
    BY DEF StepFails
  <1>2. PICK R \in SUBSET Executes(s) : runs' = Count(runs, R)
    BY <1>1
  <1>3. phase = "resolve" /\ Fail
    BY DEF StepFails
  <1>4. /\ R \in SUBSET Calls
        /\ \A c \in R : Untouched(c) /\ kind[c] = "tool"
    BY <1>3, StepPlan
  <1>5. QED
    BY <1>2, <1>3, <1>4, Failing DEF Untouched

LEMMA LoopNext == LoopInv /\ [Next]_vars => LoopInv'
  <1> SUFFICES ASSUME LoopInv, [Next]_vars PROVE LoopInv'
    OBVIOUS
  <1>1. CASE Invoke
    BY <1>1, InvokeKeeps
  <1>2. CASE Replay
    BY <1>2, ReplayKeeps
  <1>3. CASE ReplayRejected
    BY <1>3, FailingIdle DEF ReplayRejected
  <1>4. CASE ReplayAborted
    BY <1>4, ReplayAbortedKeeps
  <1>5. CASE ModelAnswers
    BY <1>5, ModelAnswersKeeps
  <1>6. CASE ModelFails
    BY <1>6, FailingIdle DEF ModelFails
  <1>7. CASE FinishStep
    BY <1>7, FinishStepKeeps
  <1>8. CASE StepFails
    BY <1>8, StepFailsKeeps
  <1>9. CASE UNCHANGED vars
    BY <1>9 DEF vars, answer, LoopInv, LoopType, NewCalls, Untouched, Histories,
                SingleReplies, RunsAnswered, DenialStands
  <1>10. QED
    BY <1>1, <1>2, <1>3, <1>4, <1>5, <1>6, <1>7, <1>8, <1>9 DEF Next

LEMMA LoopAlways == Spec => []LoopInv
  BY LoopInit, LoopNext, PTL DEF Spec

-----------------------------------------------------------------------------
(* Every variable the properties read keeps its type, however often the    *)
(* application calls the loop again (generate_text/run.rs).                *)
THEOREM TypeCorrect == Spec => []LoopType
  <1>1. LoopInv => LoopType
    BY DEF LoopInv
  <1>2. QED
    BY <1>1, LoopAlways, PTL

(* No call of the client's tools gets a second result from the steps and   *)
(* the replays of any number of invocations (replay_approvals of replay.rs,*)
(* execute_tools of tools.rs).                                             *)
THEOREM RepliesAreSingle == Spec => []OneReply
  <1>1. LoopInv => OneReply
    BY DEF LoopInv, SingleReplies, OneReply
  <1>2. QED
    BY <1>1, LoopAlways, PTL

(* A tool starts once, and once more for each failed invocation at most;   *)
(* one the policy denied never starts, whatever the user approves later.   *)
THEOREM DecisionsAreKept == Spec => []RunsAsDecided
  <1>1. LoopInv => RunsAsDecided
    <2> SUFFICES ASSUME LoopInv, NEW c \in Calls
                 PROVE  runs[c] <= IF status[c] = "denied" THEN 0 ELSE 1 + failures
      BY DEF RunsAsDecided
    <2>1. /\ runs[c] <= failures + IF draft.replies[c] = <<>> THEN 0 ELSE 1
          /\ runs[c] \in Nat /\ failures \in Nat
          /\ status[c] = "denied" => runs[c] = 0
      BY DEF LoopInv, LoopType, RunsAnswered, DenialStands
    <2>2. runs[c] <= 1 + failures
      BY <2>1
    <2>3. QED
      BY <2>1, <2>2
  <1>2. QED
    BY <1>1, LoopAlways, PTL

-----------------------------------------------------------------------------
(* The loop's continuation: it compares numbers, and how many calls wait   *)
(* follows only because the outputs and the denials are apart, and the     *)
(* outputs are all of client calls.                                        *)

LEMMA OpenAfterCount ==
  ASSUME NEW L, IsFiniteSet(L), NEW K \in SUBSET L, NEW O \in SUBSET K,
         NEW D \in SUBSET L, O \cap D = {},
         Cardinality(O) + Cardinality(D) = Cardinality(K)
  PROVE  Cardinality(K \ (O \cup D)) = Cardinality(D \ K)
  <1> DEFINE H == O \cup (D \cap K)
  <1>1. /\ IsFiniteSet(O) /\ IsFiniteSet(D) /\ IsFiniteSet(K) /\ IsFiniteSet(D \cap K)
        /\ IsFiniteSet(H)
    BY FS_Subset
  <1>2. Cardinality(O \cap (D \cap K)) = 0
    <2>1. O \cap (D \cap K) = {}
      OBVIOUS
    <2>2. QED
      BY <2>1, FS_EmptySet
  <1>3. Cardinality(H)
          = Cardinality(O) + Cardinality(D \cap K) - Cardinality(O \cap (D \cap K))
    BY <1>1, FS_Union
  <1>4. Cardinality(K \ H) = Cardinality(K) - Cardinality(K \cap H)
    BY <1>1, FS_Difference
  <1>5. Cardinality(D \ K) = Cardinality(D) - Cardinality(D \cap K)
    BY <1>1, FS_Difference
  <1>6. K \cap H = H /\ K \ H = K \ (O \cup D)
    OBVIOUS
  <1>7. /\ Cardinality(O) \in Nat /\ Cardinality(D) \in Nat /\ Cardinality(K) \in Nat
        /\ Cardinality(D \cap K) \in Nat
    BY <1>1, FS_CardinalityType
  <1> HIDE DEF H
  <1>8. Cardinality(K \ H) = Cardinality(D \ K)
    BY <1>2, <1>3, <1>4, <1>5, <1>6, <1>7
  <1>9. QED
    BY <1>6, <1>8

LEMMA StepContinues ==
  ASSUME LoopInv, FinishStep, phase' = "model"
  PROVE  Cardinality(Waiting') = Cardinality(HostedDenials')
  <1>1. PICK s \in Resolutions :
          /\ status' = [c \in Calls |-> IF c \in last THEN s[c] ELSE status[c]]
          /\ draft' = StepMessages(s)
          /\ ShouldContinue(Cardinality(Invalid \union Executes(s)),
                            Cardinality(Denied(s)),
                            Cardinality({c \in last : Client(c)}),
                            Cardinality(pending'))
    BY DEF FinishStep
  <1> DEFINE O == Invalid \cup Executes(s)
             D == Denied(s)
             K == {c \in last : Client(c)}
  <1>2. phase = "resolve" /\ kind' = kind /\ last' = last
    BY DEF FinishStep, answer
  <1>3. O \in SUBSET last /\ D \in SUBSET last /\ O \cap D = {} /\ last \in SUBSET Calls
    BY <1>2, StepPlan
  <1>4. O \in SUBSET K
    BY <1>3 DEF Invalid, Executes, Client, ClientKinds
  <1>5. K \in SUBSET last
    OBVIOUS
  <1>6. Cardinality(O) + Cardinality(D) = Cardinality(K)
    BY <1>1 DEF ShouldContinue
  <1>7. IsFiniteSet(last)
    BY <1>3, CallsAssumption, FS_Subset
  <1>8. draft'.replies = Reply(draft, O, D)
    BY <1>1 DEF StepMessages
  <1>9. draft \in History /\ \A c \in last : draft.replies[c] = <<>>
    BY <1>2 DEF LoopInv, LoopType, NewCalls, Untouched
  <1>10. HostedDenials' = D \ K
    <2>1. \A c \in last : status'[c] = s[c]
      BY <1>1, <1>3
    <2>2. QED
      BY <1>2, <2>1 DEF HostedDenials, Denied, Client
  <1> HIDE DEF O, D
  <1>11. Waiting' = K \ (O \cup D)
    <2>1. \A c \in last : draft'.replies[c] = <<>> <=> c \notin O \cup D
      <3> SUFFICES ASSUME NEW c \in last
                   PROVE  draft'.replies[c] = <<>> <=> c \notin O \cup D
        OBVIOUS
      <3>1. c \in Calls /\ O \in SUBSET Calls /\ D \in SUBSET Calls
        BY <1>3
      <3>2. /\ \A d \in Calls : d \notin O \cup D => Reply(draft, O, D)[d] = draft.replies[d]
            /\ \A d \in O \cup D : Reply(draft, O, D)[d] # <<>>
        BY <1>9, <3>1, ReplyAdds
      <3>3. QED
        BY <1>8, <1>9, <3>1, <3>2
    <2>2. QED
      BY <1>2, <2>1 DEF Waiting, Client
  <1> HIDE DEF K
  <1>12. Cardinality(K \ (O \cup D)) = Cardinality(D \ K)
    BY <1>3, <1>4, <1>5, <1>6, <1>7, OpenAfterCount
  <1>13. QED
    BY <1>10, <1>11, <1>12

LEMMA StepsTakenInit == Init => StepsTaken /\ OpenCallsMatchHostedDenials
  BY StopAfterAssumption DEF Init, StepsTaken, OpenCallsMatchHostedDenials

LEMMA StepsTakenNext ==
  ASSUME LoopInv, LoopInv', StepsTaken, OpenCallsMatchHostedDenials, [Next]_vars
  PROVE  StepsTaken' /\ OpenCallsMatchHostedDenials'
  <1> USE StopAfterAssumption
  <1>0. steps \in Nat /\ steps' \in Nat
    BY DEF LoopInv, LoopType
  <1>1. CASE Invoke
    BY <1>1 DEF Invoke, StepsTaken, OpenCallsMatchHostedDenials
  <1>2. CASE Replay
    BY <1>2 DEF Replay, StepsTaken, OpenCallsMatchHostedDenials
  <1>3. CASE Fail
    BY <1>3 DEF Fail, StepsTaken, OpenCallsMatchHostedDenials
  <1>4. CASE ModelAnswers
    BY <1>4 DEF ModelAnswers, StepsTaken, OpenCallsMatchHostedDenials
  <1>5. CASE FinishStep
    <2>1. CASE phase' = "app"
      BY <2>1 DEF StepsTaken, OpenCallsMatchHostedDenials
    <2>2. CASE phase' = "model"
      <3>1. /\ phase = "resolve" /\ steps' = steps + 1 /\ steps' # StopAfter
            /\ kind' = kind /\ last' = last
        BY <1>5, <2>2 DEF FinishStep, StopMet, answer
      <3>2. steps < StopAfter
        BY <3>1 DEF StepsTaken
      <3>3. steps' < StopAfter
        BY <1>0, <3>1, <3>2
      <3>4. Cardinality(Waiting') = Cardinality(HostedDenials')
        BY <1>5, <2>2, StepContinues
      <3>5. QED
        BY <2>2, <3>3, <3>4 DEF StepsTaken, OpenCallsMatchHostedDenials
    <2>3. QED
      BY <1>5, <2>1, <2>2 DEF FinishStep
  <1>6. CASE UNCHANGED vars
    BY <1>6 DEF vars, answer, StepsTaken, OpenCallsMatchHostedDenials, Waiting, HostedDenials, Client
  <1>7. QED
    BY <1>1, <1>2, <1>3, <1>4, <1>5, <1>6
       DEF Next, ReplayRejected, ReplayAborted, ModelFails, StepFails

(* With every answer a policy may give, for the provider's own calls too,  *)
(* the model is asked for another step with exactly as many client calls   *)
(* unanswered as provider calls were denied (LoopState::should_continue,   *)
(* generate_text/run.rs), and never past the stop condition.               *)
THEOREM StepsWaitForAnswers == Spec => []OpenCallsMatchHostedDenials
  <1>1. Init => StepsTaken /\ OpenCallsMatchHostedDenials
    BY StepsTakenInit
  <1>2. /\ LoopInv /\ LoopInv' /\ StepsTaken /\ OpenCallsMatchHostedDenials
        /\ [Next]_vars
        => StepsTaken' /\ OpenCallsMatchHostedDenials'
    BY StepsTakenNext
  <1>3. QED
    BY <1>1, <1>2, LoopAlways, PTL DEF Spec

(* So where no provider call is denied, all calls of the client have their *)
(* output or their denial before the next step.                            *)
COROLLARY NoDenialNoWait ==
  Spec => [](phase = "model" /\ steps > 0 /\ HostedDenials = {} => Waiting = {})
  <1>1. LoopInv /\ OpenCallsMatchHostedDenials
        => (phase = "model" /\ steps > 0 /\ HostedDenials = {} => Waiting = {})
    <2> SUFFICES ASSUME LoopInv, OpenCallsMatchHostedDenials, phase = "model",
                        steps > 0, HostedDenials = {}
                 PROVE  Waiting = {}
      OBVIOUS
    <2>1. Cardinality(Waiting) = 0
      BY FS_EmptySet DEF OpenCallsMatchHostedDenials
    <2>2. IsFiniteSet(Waiting)
      BY CallsAssumption, FS_Subset DEF Waiting, LoopInv, LoopType
    <2>3. QED
      BY <2>1, <2>2, FS_EmptySet
  <1>2. QED
    BY <1>1, StepsWaitForAnswers, LoopAlways, PTL
=============================================================================

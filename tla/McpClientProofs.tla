-------------------------- MODULE McpClientProofs --------------------------
(***************************************************************************)
(* Theorems about McpClient for any number of concurrent requests, any     *)
(* number of input rounds, and a server that may answer in any order.      *)
(***************************************************************************)
EXTENDS McpClient, TLAPS

Places == {"idle", "checked", "registered", "writing", "waiting", "input", "done"}
Results == {"none", "complete", "input"}
Sent == Results \cup {"closed"}
Frames == {"none", "queued", "written", "failed"}

\* The types of what the properties read.
ClientType ==
    /\ at \in [Requests -> Places]
    /\ id \in [Requests -> Nat]
    /\ outcome \in [Requests -> Outcomes]
    /\ nextId \in Nat \ {0}
    /\ slot \in Seq(Sent) /\ answered \in Seq(Results) /\ frame \in Seq(Frames)
    /\ Len(slot) + 1 = nextId /\ Len(answered) + 1 = nextId /\ Len(frame) + 1 = nextId

-----------------------------------------------------------------------------
(* The inductive invariant.  NoLeak and OwnResult are not inductive by      *)
(* themselves: that a result is the request's own needs every id to belong  *)
(* to one request, and what is in a slot to be what the server answered.    *)

\* An id is given to one request, and only after it was made.
IdsOwned ==
    /\ \A r \in Requests : id[r] < nextId
    /\ \A r, q \in Requests : id[r] = id[q] /\ r # q => id[r] = 0
    /\ \A r \in Requests : at[r] \in Sending \cup {"input"} => id[r] # 0

\* A result is in the slot it was given for.
SlotsAnswered ==
    /\ pending \subseteq 1..(nextId - 1)
    /\ \A i \in 1..(nextId - 1) :
         slot[i] \in {"complete", "input"} => answered[i] = slot[i]

\* What a request returned came out of its own slot, and it is done.
Returned ==
    \A r \in Requests : outcome[r] \in {"complete", "input"} =>
        at[r] = "done" /\ id[r] # 0 /\ answered[id[r]] = outcome[r]

ClientInv ==
    /\ ClientType /\ IdsOwned /\ SlotsAnswered /\ Returned /\ NoLeak

-----------------------------------------------------------------------------
LEMMA Grown ==
  ASSUME NEW S, NEW s \in Seq(S), NEW x \in S
  PROVE  /\ Append(s, x) \in Seq(S)
         /\ Len(Append(s, x)) = Len(s) + 1
         /\ \A i \in 1..Len(s) : Append(s, x)[i] = s[i]
         /\ Append(s, x)[Len(s) + 1] = x
  OBVIOUS

LEMMA Entries ==
  ASSUME NEW S, NEW s \in Seq(S)
  PROVE  /\ Len(s) \in Nat /\ DOMAIN s = 1..Len(s)
         /\ \A i \in 1..Len(s) : s[i] \in S
  OBVIOUS

LEMMA Rewritten ==
  ASSUME NEW S, NEW n \in Nat, NEW f \in [1..n -> S]
  PROVE  f \in Seq(S) /\ Len(f) = n
  OBVIOUS

LEMMA ClientInit == Init => ClientInv
  <1> SUFFICES ASSUME Init PROVE ClientInv
    OBVIOUS
  <1>1. Len(<<>>) = 0 /\ \A S : <<>> \in Seq(S)
    OBVIOUS
  <1>2. ClientType
    BY <1>1 DEF Init, ClientType, Places, Outcomes
  <1>3. QED
    BY <1>2 DEF Init, ClientInv, IdsOwned, SlotsAnswered, Returned, NoLeak, Sending

-----------------------------------------------------------------------------
(* Steps that leave the table and what was answered alone, and those that  *)
(* end an exchange.                                                        *)

\* A request that moves on within its exchange.
LEMMA Moving ==
  ASSUME ClientInv, NEW r \in Requests, NEW place \in Places,
         at[r] # "done", place # "done",
         at' = [at EXCEPT ![r] = place],
         place \in Sending \cup {"input"} => id[r] # 0,
         at[r] \in Sending => place \in Sending \/ pending' = pending \ {id[r]},
         pending' = pending \/ pending' = pending \ {id[r]},
         UNCHANGED <<id, outcome, nextId, slot, answered>>,
         frame' \in Seq(Frames), Len(frame') = Len(frame)
  PROVE  ClientInv'
  <1>1. ClientType'
    BY DEF ClientInv, ClientType
  <1>2. /\ at \in [Requests -> Places] /\ at' \in [Requests -> Places]
        /\ at'[r] = place /\ \A q \in Requests \ {r} : at'[q] = at[q]
    BY DEF ClientInv, ClientType
  <1>3. IdsOwned'
    BY <1>2 DEF ClientInv, IdsOwned
  <1>4. SlotsAnswered'
    BY DEF ClientInv, SlotsAnswered
  <1>5. Returned'
    BY <1>2 DEF ClientInv, Returned
  <1>6. NoLeak'
    <2> SUFFICES ASSUME NEW i \in pending'
                 PROVE  \E q \in Requests : at'[q] \in Sending /\ i = id[q]
      BY DEF NoLeak, Sending
    <2>1. PICK q \in Requests : at[q] \in Sending /\ i = id[q]
      BY DEF ClientInv, NoLeak
    <2>2. QED
      BY <1>2, <2>1
  <1>7. QED
    BY <1>1, <1>3, <1>4, <1>5, <1>6 DEF ClientInv

\* A request that returns: nothing stays registered for it, and a result
\* is the one in its slot.
LEMMA Returning ==
  ASSUME ClientInv, NEW r \in Requests, NEW result \in Outcomes, Return(r, result),
         result \in {"complete", "input"} => id[r] # 0 /\ slot[id[r]] = result,
         UNCHANGED <<frame, answered>>
  PROVE  ClientInv'
  <1>1. /\ at \in [Requests -> Places] /\ at' \in [Requests -> Places]
        /\ at'[r] = "done" /\ \A q \in Requests \ {r} : at'[q] = at[q]
        /\ outcome \in [Requests -> Outcomes] /\ outcome' \in [Requests -> Outcomes]
        /\ outcome'[r] = result /\ \A q \in Requests \ {r} : outcome'[q] = outcome[q]
        /\ pending' = pending \ {id[r]}
        /\ UNCHANGED <<id, nextId, slot>>
    BY DEF ClientInv, ClientType, Return, Unregistered, Places
  <1>2. ClientType'
    BY <1>1 DEF ClientInv, ClientType
  <1>3. IdsOwned'
    BY <1>1 DEF ClientInv, IdsOwned, Sending
  <1>4. SlotsAnswered'
    BY <1>1 DEF ClientInv, SlotsAnswered
  <1>5. Returned'
    <2>1. id[r] \in Nat /\ id[r] < nextId /\ nextId \in Nat
      BY DEF ClientInv, ClientType, IdsOwned
    <2>2. result \in {"complete", "input"} => answered[id[r]] = result
      BY <2>1 DEF ClientInv, SlotsAnswered
    <2>3. QED
      BY <1>1, <2>2 DEF ClientInv, Returned
  <1>6. NoLeak'
    <2> SUFFICES ASSUME NEW i \in pending'
                 PROVE  \E q \in Requests : at'[q] \in Sending /\ i = id[q]
      BY <1>1 DEF NoLeak
    <2>1. PICK q \in Requests : at[q] \in Sending /\ i = id[q]
      BY <1>1 DEF ClientInv, NoLeak
    <2>2. QED
      BY <1>1, <2>1
  <1>7. QED
    BY <1>2, <1>3, <1>4, <1>5, <1>6 DEF ClientInv

\* A step of the server, of a task of the transport, or of close, that
\* changes no result: the table may lose its senders or give them a result.
LEMMA Resolving ==
  ASSUME ClientInv, UNCHANGED <<request, nextId, answered>>,
         pending' \subseteq pending,
         slot' \in Seq(Sent), Len(slot') = Len(slot),
         \A i \in 1..(nextId - 1) : slot'[i] \in {slot[i], "closed", answered[i]},
         frame' \in Seq(Frames), Len(frame') = Len(frame)
  PROVE  ClientInv'
  <1>1. ClientType'
    BY DEF ClientInv, ClientType, request
  <1>2. IdsOwned' /\ Returned'
    BY DEF ClientInv, IdsOwned, Returned, request
  <1>3. SlotsAnswered'
    BY DEF ClientInv, SlotsAnswered
  <1>4. NoLeak'
    BY DEF ClientInv, NoLeak, request
  <1>5. QED
    BY <1>1, <1>2, <1>3, <1>4 DEF ClientInv

-----------------------------------------------------------------------------
(* The steps of a request.                                                 *)

LEMMA RegisterKeeps ==
  ASSUME ClientInv, NEW r \in Requests, Register(r)
  PROVE  ClientInv'
  <1>1. /\ at \in [Requests -> Places] /\ at' \in [Requests -> Places]
        /\ at[r] = "checked" /\ at'[r] = "registered"
        /\ \A q \in Requests \ {r} : at'[q] = at[q]
        /\ id \in [Requests -> Nat] /\ id' \in [Requests -> Nat]
        /\ id'[r] = nextId /\ \A q \in Requests \ {r} : id'[q] = id[q]
        /\ nextId \in Nat \ {0} /\ nextId' = nextId + 1
        /\ pending' = pending \union {nextId}
        /\ outcome' = outcome
    BY DEF ClientInv, ClientType, Register, Fresh, Places
  <1>2. /\ slot' = Append(slot, "none") /\ slot \in Seq(Sent) /\ Len(slot) + 1 = nextId
        /\ answered' = Append(answered, "none") /\ answered \in Seq(Results)
        /\ Len(answered) + 1 = nextId
        /\ frame' = Append(frame, "none") /\ frame \in Seq(Frames) /\ Len(frame) + 1 = nextId
        /\ "none" \in Sent /\ "none" \in Results /\ "none" \in Frames
    BY DEF ClientInv, ClientType, Register, Sent, Results, Frames
  <1>3. /\ slot' \in Seq(Sent) /\ Len(slot') + 1 = nextId'
        /\ \A i \in 1..(nextId - 1) : slot'[i] = slot[i]
        /\ slot'[nextId] = "none"
    <2>1. /\ slot' \in Seq(Sent) /\ Len(slot') = Len(slot) + 1
          /\ \A i \in 1..Len(slot) : slot'[i] = slot[i]
          /\ slot'[Len(slot) + 1] = "none"
      BY <1>2, Grown
    <2>2. Len(slot) \in Nat
      BY <1>2, Entries
    <2>3. QED
      BY <1>1, <1>2, <2>1, <2>2
  <1>4. /\ answered' \in Seq(Results) /\ Len(answered') + 1 = nextId'
        /\ \A i \in 1..(nextId - 1) : answered'[i] = answered[i]
    <2>1. /\ answered' \in Seq(Results) /\ Len(answered') = Len(answered) + 1
          /\ \A i \in 1..Len(answered) : answered'[i] = answered[i]
      BY <1>2, Grown
    <2>2. Len(answered) \in Nat
      BY <1>2, Entries
    <2>3. QED
      BY <1>1, <1>2, <2>1, <2>2
  <1>5. frame' \in Seq(Frames) /\ Len(frame') + 1 = nextId'
    <2>1. frame' \in Seq(Frames) /\ Len(frame') = Len(frame) + 1
      BY <1>2, Grown
    <2>2. QED
      BY <1>1, <1>2, <2>1
  <1>6. ClientType'
    BY <1>1, <1>3, <1>4, <1>5 DEF ClientInv, ClientType
  <1>7. IdsOwned'
    <2>1. \A q \in Requests : id[q] < nextId
      BY DEF ClientInv, IdsOwned
    <2>2. QED
      BY <1>1, <2>1 DEF ClientInv, IdsOwned
  <1>8. SlotsAnswered'
    <2>1. \A i \in 1..(nextId' - 1) : i \in 1..(nextId - 1) \/ i = nextId
      BY <1>1
    <2>2. pending' \subseteq 1..(nextId' - 1)
      BY <1>1 DEF ClientInv, SlotsAnswered
    <2>3. \A i \in 1..(nextId - 1) :
             slot[i] \in {"complete", "input"} => answered[i] = slot[i]
      BY DEF ClientInv, SlotsAnswered
    <2>4. QED
      BY <1>3, <1>4, <2>1, <2>2, <2>3 DEF SlotsAnswered
  <1>9. Returned'
    <2> SUFFICES ASSUME NEW q \in Requests, outcome[q] \in {"complete", "input"}
                 PROVE  at'[q] = "done" /\ id'[q] # 0 /\ answered'[id'[q]] = outcome[q]
      BY <1>1 DEF Returned
    <2>1. at[q] = "done" /\ id[q] # 0 /\ answered[id[q]] = outcome[q] /\ id[q] < nextId
      BY DEF ClientInv, Returned, IdsOwned
    <2>2. q # r
      BY <1>1, <2>1
    <2>3. id[q] \in 1..(nextId - 1)
      BY <1>1, <2>1
    <2>4. QED
      BY <1>1, <1>4, <2>1, <2>2, <2>3
  <1>10. NoLeak'
    <2> SUFFICES ASSUME NEW i \in pending'
                 PROVE  \E q \in Requests : at'[q] \in Sending /\ i = id'[q]
      BY DEF NoLeak
    <2>1. CASE i = nextId
      BY <1>1, <2>1 DEF Sending
    <2>2. CASE i \in pending
      <3>1. PICK q \in Requests : at[q] \in Sending /\ i = id[q]
        BY <2>2 DEF ClientInv, NoLeak
      <3>2. q # r
        BY <1>1, <3>1 DEF Sending
      <3>3. QED
        BY <1>1, <3>1, <3>2
    <2>3. QED
      BY <1>1, <2>1, <2>2
  <1>11. QED
    BY <1>6, <1>7, <1>8, <1>9, <1>10 DEF ClientInv

LEMMA RequestSteps ==
  ASSUME ClientInv, NEW r \in Requests, Step(r) \/ GiveUp(r)
  PROVE  ClientInv'
  <1>0. /\ at \in [Requests -> Places] /\ frame \in Seq(Frames) /\ slot \in Seq(Sent)
        /\ id \in [Requests -> Nat] /\ nextId \in Nat \ {0}
        /\ Len(frame) + 1 = nextId /\ Len(slot) + 1 = nextId
        /\ at[r] \in Sending \cup {"input"} => id[r] # 0 /\ id[r] \in 1..(nextId - 1)
    BY DEF ClientInv, ClientType, IdsOwned
  <1>1. CASE Check(r)
    <2>1. CASE closed
      BY <1>1, <2>1, Returning DEF Check, Outcomes
    <2>2. CASE ~closed
      BY <1>0, <1>1, <2>2, Moving DEF Check, Go, table, Places, Sending
    <2>3. QED
      BY <2>1, <2>2
  <1>2. CASE Register(r)
    BY <1>2, RegisterKeeps
  <1>3. CASE Send(r)
    <2>1. CASE frames
      <3>1. /\ at[r] = "registered" /\ Go(r, "writing") /\ UNCHANGED <<table, answered>>
            /\ frame' = [frame EXCEPT ![id[r]] = "queued"]
        BY <1>3, <2>1 DEF Send
      <3>2. frame' \in Seq(Frames) /\ Len(frame') = Len(frame)
        <4>1. /\ Len(frame) \in Nat /\ DOMAIN frame = 1..Len(frame)
              /\ \A i \in 1..Len(frame) : frame[i] \in Frames
          BY <1>0, Entries
        <4>2. frame' \in [1..Len(frame) -> Frames]
          BY <3>1, <4>1 DEF Frames
        <4>3. QED
          BY <4>1, <4>2, Rewritten
      <3>3. id[r] # 0
        BY <1>0, <3>1 DEF Sending
      <3>4. at' = [at EXCEPT ![r] = "writing"]
            /\ UNCHANGED <<id, outcome, nextId, slot, answered, pending>>
        BY <3>1 DEF Go, table
      <3>5. "writing" \in Places /\ "writing" \in Sending /\ at[r] # "done"
        BY <3>1 DEF Places, Sending
      <3>6. QED
        BY <3>2, <3>3, <3>4, <3>5, Moving
    <2>2. CASE ~frames
      BY <1>3, <2>2, Returning DEF Send, Outcomes
    <2>3. QED
      BY <2>1, <2>2
  <1>4. CASE Written(r)
    <2>1. CASE Go(r, "waiting") /\ UNCHANGED table
      <3>1. at' = [at EXCEPT ![r] = "waiting"]
            /\ UNCHANGED <<id, outcome, nextId, slot, answered, pending, frame>>
        BY <1>4, <2>1 DEF Written, Go, table
      <3>2. id[r] # 0 /\ at[r] # "done"
        BY <1>0, <1>4 DEF Written, Sending
      <3>3. "waiting" \in Places /\ "waiting" \in Sending
        BY DEF Places, Sending
      <3>4. QED
        BY <1>0, <3>1, <3>2, <3>3, Moving
    <2>2. CASE Return(r, "failed")
      BY <1>4, <2>2, Returning DEF Written, Outcomes
    <2>3. QED
      BY <1>4, <2>1, <2>2 DEF Written
  <1>5. CASE Receive(r)
    <2>1. at[r] = "waiting" /\ id[r] # 0 /\ id[r] \in 1..(nextId - 1) /\ UNCHANGED <<frame, answered>>
      BY <1>0, <1>5 DEF Receive, Sending
    <2>2. CASE Return(r, slot[id[r]])
      <3>1. slot[id[r]] \in Outcomes
        BY <1>0, <2>1, Entries DEF Sent, Results, Outcomes
      <3>2. QED
        BY <2>1, <2>2, <3>1, Returning
    <2>3. CASE /\ at' = [at EXCEPT ![r] = "input"]
               /\ pending' = Unregistered(r)
               /\ UNCHANGED <<id, outcome, nextId, slot>>
      <3>1. "input" \in Places /\ at[r] # "done" /\ id[r] # 0
        BY <2>1 DEF Places
      <3>2. pending' = pending \ {id[r]}
        BY <2>3 DEF Unregistered
      <3>3. QED
        BY <1>0, <2>1, <2>3, <3>1, <3>2, Moving
    <2>4. QED
      BY <1>5, <2>2, <2>3 DEF Receive
  <1>6. CASE SeeClosed(r)
    BY <1>6, Returning DEF SeeClosed, Outcomes
  <1>7. CASE GiveUp(r)
    BY <1>7, Returning DEF GiveUp, Outcomes
  <1>8. QED
    BY <1>1, <1>2, <1>3, <1>4, <1>5, <1>6, <1>7 DEF Step

-----------------------------------------------------------------------------
(* The steps of the other tasks.                                           *)

\* A step that touches nothing the invariant reads.
LEMMA Elsewhere ==
  ASSUME ClientInv, UNCHANGED <<request, table, frame, answered>>
  PROVE  ClientInv'
  BY DEF request, table, ClientInv, ClientType, IdsOwned, SlotsAnswered, Returned, NoLeak

LEMMA AnswerKeeps ==
  ASSUME ClientInv, NEW i \in DOMAIN frame, NEW result \in {"complete", "input"},
         Answer(i, result)
  PROVE  ClientInv'
  <1>1. /\ answered \in Seq(Results) /\ Len(answered) + 1 = nextId /\ nextId \in Nat \ {0}
        /\ Len(frame) + 1 = nextId /\ frame \in Seq(Frames)
        /\ id \in [Requests -> Nat]
    BY DEF ClientInv, ClientType
  <1>2. /\ answered' = [answered EXCEPT ![i] = result] /\ answered[i] = "none"
        /\ UNCHANGED <<request, table, frame>>
    BY DEF Answer
  <1>3. i \in 1..(nextId - 1)
    BY <1>1
  <1>4. /\ answered' \in Seq(Results) /\ Len(answered') + 1 = nextId
        /\ answered'[i] = result
        /\ \A j \in 1..(nextId - 1) : j # i => answered'[j] = answered[j]
    BY <1>1, <1>2, <1>3 DEF Results
  <1>5. ClientType' /\ IdsOwned' /\ NoLeak'
    BY <1>2, <1>4 DEF ClientInv, ClientType, IdsOwned, NoLeak, request, table
  <1>6. SlotsAnswered'
    BY <1>2, <1>4 DEF ClientInv, SlotsAnswered, table
  <1>7. Returned'
    <2> SUFFICES ASSUME NEW q \in Requests, outcome[q] \in {"complete", "input"}
                 PROVE  at[q] = "done" /\ id[q] # 0 /\ answered'[id[q]] = outcome[q]
      BY <1>2 DEF Returned, request
    <2>1. at[q] = "done" /\ id[q] # 0 /\ answered[id[q]] = outcome[q] /\ id[q] < nextId
      BY DEF ClientInv, Returned, IdsOwned
    <2>2. id[q] # i /\ id[q] \in 1..(nextId - 1)
      BY <1>1, <1>2, <2>1
    <2>3. QED
      BY <1>4, <2>1, <2>2
  <1>8. QED
    BY <1>5, <1>6, <1>7 DEF ClientInv

LEMMA FailPendingKeeps ==
  ASSUME ClientInv, FailPending, UNCHANGED <<request, frame, answered>>
  PROVE  ClientInv'
  <1>1. /\ pending' = {} /\ nextId' = nextId
        /\ slot' = [i \in DOMAIN slot |-> IF i \in pending THEN "closed" ELSE slot[i]]
    BY DEF FailPending
  <1>2. /\ slot \in Seq(Sent) /\ frame \in Seq(Frames)
        /\ Len(slot) + 1 = nextId /\ nextId \in Nat \ {0}
    BY DEF ClientInv, ClientType
  <1>3. Len(slot) \in Nat /\ DOMAIN slot = 1..Len(slot) /\ \A i \in 1..Len(slot) : slot[i] \in Sent
    BY <1>2, Entries
  <1>4. slot' \in [1..Len(slot) -> Sent]
    BY <1>1, <1>3 DEF Sent
  <1>5. slot' \in Seq(Sent) /\ Len(slot') = Len(slot)
    BY <1>3, <1>4, Rewritten
  <1>6. \A i \in 1..(nextId - 1) : slot'[i] \in {slot[i], "closed", answered[i]}
    BY <1>1, <1>2, <1>3
  <1>7. QED
    BY <1>1, <1>2, <1>5, <1>6, Resolving

LEMMA ResolveKeeps ==
  ASSUME ClientInv, NEW i, Resolve(i), UNCHANGED <<request, frame, answered>>
  PROVE  ClientInv'
  <1>1. /\ slot \in Seq(Sent) /\ frame \in Seq(Frames) /\ answered \in Seq(Results)
        /\ Len(slot) + 1 = nextId /\ Len(answered) + 1 = nextId /\ nextId \in Nat \ {0}
        /\ pending \subseteq 1..(nextId - 1)
    BY DEF ClientInv, ClientType, SlotsAnswered
  <1>2. /\ pending' \subseteq pending /\ nextId' = nextId
        /\ slot' = IF i \in pending THEN [slot EXCEPT ![i] = answered[i]] ELSE slot
    BY DEF Resolve
  <1>3. CASE i \in pending
    <2>1. i \in 1..(nextId - 1) /\ slot' = [slot EXCEPT ![i] = answered[i]]
      BY <1>1, <1>2, <1>3
    <2>2. answered[i] \in Sent
      BY <1>1, <2>1, Entries DEF Sent
    <2>3. /\ slot' \in Seq(Sent) /\ Len(slot') = Len(slot)
          /\ \A j \in 1..(nextId - 1) : slot'[j] \in {slot[j], "closed", answered[j]}
      BY <1>1, <2>1, <2>2
    <2>4. QED
      BY <1>1, <1>2, <2>3, Resolving
  <1>4. CASE i \notin pending
    <2>1. slot' = slot
      BY <1>2, <1>4
    <2>2. QED
      BY <1>1, <1>2, <2>1, Resolving
  <1>5. QED
    BY <1>3, <1>4

\* The writer, and close, say what became of the frames.
LEMMA FramesKeep ==
  ASSUME ClientInv, UNCHANGED <<request, table, answered>>,
         frame' \in Seq(Frames), Len(frame') = Len(frame)
  PROVE  ClientInv'
  <1>1. slot \in Seq(Sent)
    BY DEF ClientInv, ClientType
  <1>2. QED
    BY <1>1, Resolving DEF table

LEMMA OtherSteps ==
  ASSUME ClientInv,
         \/ Writer \/ ChildExits \/ ReaderEnds \/ Reader
         \/ Dispatcher \/ DispatchCancelled \/ Close \/ Closer
  PROVE  ClientInv'
  <1>0. frame \in Seq(Frames) /\ Len(frame) \in Nat /\ DOMAIN frame = 1..Len(frame)
        /\ \A i \in 1..Len(frame) : frame[i] \in Frames
    BY Entries DEF ClientInv, ClientType
  <1>1. CASE Writer
    <2>1. PICK i \in DOMAIN frame : Write(i)
      BY <1>1 DEF Writer
    <2>2. /\ frame' = [frame EXCEPT ![i] = IF child = "running" THEN "written" ELSE "failed"]
          /\ UNCHANGED <<request, table, answered>>
      BY <2>1 DEF Write
    <2>3. frame' \in Seq(Frames) /\ Len(frame') = Len(frame)
      <3>1. frame' \in [1..Len(frame) -> Frames]
        BY <1>0, <2>2 DEF Frames
      <3>2. QED
        BY <1>0, <3>1, Rewritten
    <2>4. QED
      BY <2>2, <2>3, FramesKeep
  <1>2. CASE ChildExits \/ ReaderEnds \/ Reader \/ DispatchCancelled \/ Close \/ CancelToken
    BY <1>2, Elsewhere
       DEF ChildExits, ReaderEnds, Reader, ReaderTakesFrames, ReaderTells,
           DispatchCancelled, Close, CancelToken
  <1>3. CASE Dispatch
    BY <1>3, Elsewhere, ResolveKeeps DEF Dispatch
  <1>4. CASE DispatchFails \/ Stop
    BY <1>4, FailPendingKeeps DEF DispatchFails, Stop
  <1>5. CASE CloseTransport
    <2>1. CASE shut
      BY <1>5, <2>1, Elsewhere DEF CloseTransport
    <2>2. CASE ~shut
      <3>1. /\ frame' = [i \in DOMAIN frame |->
                           IF frame[i] = "queued" THEN "failed" ELSE frame[i]]
            /\ UNCHANGED <<request, table, answered>>
        BY <1>5, <2>2 DEF CloseTransport
      <3>2. frame' \in [1..Len(frame) -> Frames]
        BY <1>0, <3>1 DEF Frames
      <3>3. frame' \in Seq(Frames) /\ Len(frame') = Len(frame)
        BY <1>0, <3>2, Rewritten
      <3>4. QED
        BY <3>1, <3>3, FramesKeep
    <2>3. QED
      BY <2>1, <2>2
  <1>6. QED
    BY <1>1, <1>2, <1>3, <1>4, <1>5 DEF Dispatcher, Closer

LEMMA ClientNext == ClientInv /\ [Next]_vars => ClientInv'
  <1> SUFFICES ASSUME ClientInv, [Next]_vars PROVE ClientInv'
    OBVIOUS
  <1>1. CASE \E r \in Requests : Step(r) \/ GiveUp(r)
    BY <1>1, RequestSteps
  <1>2. CASE \E i \in DOMAIN frame, result \in {"complete", "input"} : Answer(i, result)
    BY <1>2, AnswerKeeps
  <1>3. CASE UNCHANGED vars
    BY <1>3, Elsewhere DEF vars
  <1>4. QED
    BY <1>1, <1>2, <1>3, OtherSteps DEF Next

LEMMA ClientAlways == Spec => []ClientInv
  BY ClientInit, ClientNext, PTL DEF Spec

-----------------------------------------------------------------------------
(* The client's tables keep their types: every id made has its oneshot, its *)
(* frame and its answer (client/mod.rs, next_id).                           *)
THEOREM TypeCorrect == Spec => []ClientType
  <1>1. ClientInv => ClientType
    BY DEF ClientInv
  <1>2. QED
    BY <1>1, ClientAlways, PTL

(* A timeout, a cancellation, a failed send, an input round and a result    *)
(* all leave the table without the request's id: what is registered is an  *)
(* exchange under way (PendingRequest::drop of client/request.rs).         *)
THEOREM NothingLeaks == Spec => []NoLeak
  <1>1. ClientInv => NoLeak
    BY DEF ClientInv
  <1>2. QED
    BY <1>1, ClientAlways, PTL

(* Whatever is late, out of order, or meant for an earlier round, a request *)
(* returns only what the server answered to its own last exchange           *)
(* (ClientInner::request_rounds, ClientInner::resolve).                     *)
THEOREM ResultsAreOwn == Spec => []OwnResult
  <1>1. ClientInv => OwnResult
    BY DEF ClientInv, Returned, IdsOwned, OwnResult
  <1>2. QED
    BY <1>1, ClientAlways, PTL
=============================================================================

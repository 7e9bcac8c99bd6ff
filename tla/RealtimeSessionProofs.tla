------------------------ MODULE RealtimeSessionProofs ------------------------
(***************************************************************************)
(* Theorems about RealtimeSession for any set of calls, any number of      *)
(* responses and any size of the buffers: a follow-up response is asked    *)
(* for at most once per response that carried calls, and only when all the *)
(* calls of the turn are answered and the first response they belong to is *)
(* done, whether or not the server starts responses by itself.             *)
(***************************************************************************)
EXTENDS RealtimeSession, FiniteSetTheorems, TLAPS

\* The frames of the server.
Call(c) == <<"call", c>>
Done(r) == <<"done", r>>
Create == <<"create">>

Holds(f, places) == conn.frame = f /\ conn.at \in places
HoldsCall(c) == Holds(Call(c), {"emit", "call"})
HoldsDone(r) == Holds(Done(r), {"emit", "done"})
Arriving(f) == \E i \in DOMAIN wire : wire[i] = f

ConnPlaces == {"select", "emit", "call", "done", "permit", "send", "error", "failed", "ended"}
WorkerPlaces == {"idle", "tool", "run", "send", "record", "ask", "create", "end", "cancelled"}

SessionType ==
    /\ response \in Nat /\ open \in BOOLEAN /\ prompted \in BOOLEAN
    /\ open => response # 0
    /\ of \in [Calls -> 0..response]
    /\ wire \in Seq({Call(c) : c \in Calls} \cup {Done(r) : r \in 1..response})
    /\ conn \in [at : ConnPlaces, frame : {Call(c) : c \in Calls} \cup {Done(r) : r \in 0..response}]
    /\ inResponse \subseteq Calls /\ submitted \subseteq Calls /\ closed \in BOOLEAN
    /\ worker \in [Calls -> WorkerPlaces]
    /\ asked \in Nat

\* The end of response r has not been handled yet.
Pending(r) == (r = response /\ open) \/ Arriving(Done(r)) \/ HoldsDone(r)

\* Frames arrive in the order of their responses, calls before the end.
FramesInOrder ==
    /\ \A i \in DOMAIN wire, c \in Calls : wire[i] = Call(c) =>
         /\ of[c] # 0
         /\ \/ of[c] = response /\ open
            \/ \E j \in DOMAIN wire : j > i /\ wire[j] = Done(of[c])
    /\ \A i, j \in DOMAIN wire, c \in Calls, r \in 1..response :
         i < j /\ wire[i] = Call(c) /\ wire[j] = Done(r) => of[c] <= r
    /\ \A i, j \in DOMAIN wire, r, q \in 1..response :
         i < j /\ wire[i] = Done(r) /\ wire[j] = Done(q) => r < q
    /\ open => ~Arriving(Done(response))

\* The same of the frame the connection task is at.
FrameHeld ==
    /\ \A c \in Calls : HoldsCall(c) =>
         /\ of[c] # 0
         /\ (of[c] = response /\ open) \/ Arriving(Done(of[c]))
         /\ \A r \in 1..response : Arriving(Done(r)) => of[c] <= r
    /\ \A r \in 1..response : HoldsDone(r) =>
         /\ r # response \/ ~open
         /\ \A q \in 1..response : Arriving(Done(q)) => r < q
    /\ conn.at = "call" => \E c \in Calls : conn.frame = Call(c)
    /\ conn.at = "done" => \E r \in 1..response : conn.frame = Done(r)
    /\ conn.at = "emit" => conn.frame # Done(0)

\* The turn: until it is closed its calls are of a response whose end is not
\* handled; once it is, it waits for an output.
TurnInOrder ==
    /\ \A c \in inResponse :
         /\ of[c] # 0
         /\ \A r \in 1..response : Arriving(Done(r)) \/ HoldsDone(r) => of[c] <= r
         /\ ~closed => Pending(of[c])
    /\ closed => ~(inResponse \subseteq submitted)

\* The first response a closed turn has calls of is done.
TurnEnded ==
    closed => \E d \in inResponse :
                ~Pending(of[d]) /\ \A c \in inResponse : of[d] <= of[c]

\* Responses that carried calls and whose end is handled.
Over == {r \in {of[c] : c \in {d \in Calls : of[d] # 0}} : ~Pending(r)}

FollowUpsPaid == asked + (IF closed THEN 1 ELSE 0) <= Cardinality(Over)

Recorded == \A c \in submitted : worker[c] = "end"

TurnInv == /\ SessionType /\ FramesInOrder /\ FrameHeld /\ TurnInOrder
           /\ TurnEnded /\ FollowUpsPaid /\ Recorded

-----------------------------------------------------------------------------
LEMMA FrameFacts ==
  /\ \A c, d : Call(c) = Call(d) => c = d
  /\ \A r, q : Done(r) = Done(q) => r = q
  /\ \A c, r : Call(c) # Done(r)
  /\ \A c : Call(c)[1] = "call" /\ Call(c)[2] = c
  /\ \A r : Done(r)[1] = "done" /\ Done(r)[2] = r
  BY DEF Call, Done

LEMMA Grown ==
  ASSUME NEW S, NEW s \in Seq(S), NEW x \in S
  PROVE  /\ Append(s, x) \in Seq(S)
         /\ DOMAIN Append(s, x) = 1..(Len(s) + 1) /\ DOMAIN s = 1..Len(s) /\ Len(s) \in Nat
         /\ \A k \in 1..Len(s) : Append(s, x)[k] = s[k]
         /\ Append(s, x)[Len(s) + 1] = x
  OBVIOUS

LEMMA Shortened ==
  ASSUME NEW S, NEW s \in Seq(S), s # <<>>
  PROVE  /\ Tail(s) \in Seq(S) /\ Head(s) = s[1] /\ Head(s) \in S
         /\ DOMAIN Tail(s) = 1..(Len(s) - 1) /\ DOMAIN s = 1..Len(s)
         /\ Len(s) \in Nat /\ Len(s) > 0
         /\ \A k \in 1..(Len(s) - 1) : Tail(s)[k] = s[k + 1]
  OBVIOUS

\* The sequences of more frames are sequences of frames.
LEMMA WiderFrames ==
  ASSUME NEW S, NEW T, S \subseteq T, NEW s \in Seq(S)
  PROVE  s \in Seq(T)
  OBVIOUS

FrameSet == {Call(c) : c \in Calls} \cup {Done(r) : r \in 1..response}

LEMMA OverFinite ==
  ASSUME SessionType
  PROVE  IsFiniteSet(Over) /\ Cardinality(Over) \in Nat /\ Over \subseteq 1..response
  <1>1. Over \subseteq 1..response
    BY DEF Over, SessionType
  <1>2. IsFiniteSet(1..response)
    BY FS_Interval DEF SessionType
  <1>3. QED
    BY <1>1, <1>2, FS_Subset, FS_CardinalityType

LEMMA OverFiniteNext ==
  ASSUME SessionType'
  PROVE  (IsFiniteSet(Over) /\ Cardinality(Over) \in Nat /\ Over \subseteq 1..response)'
  <1>1. Over' \subseteq 1..response'
    BY DEF Over, SessionType
  <1>2. IsFiniteSet(1..response')
    BY FS_Interval DEF SessionType
  <1>3. QED
    BY <1>1, <1>2, FS_Subset, FS_CardinalityType

-----------------------------------------------------------------------------
(* Steps that neither answer a call nor end a response.                    *)

LEMMA QuietKept ==
  ASSUME TurnInv, SessionType',
         UNCHANGED <<response, open, of, wire, asked, closed, submitted>>,
         \A r \in Nat : HoldsDone(r)' = HoldsDone(r),
         \A c \in Calls : HoldsCall(c)' => HoldsCall(c),
         conn'.at = "call" => \E c \in Calls : conn'.frame = Call(c),
         conn'.at = "done" => \E r \in 1..response : conn'.frame = Done(r),
         conn'.at = "emit" => conn'.frame # Done(0),
         inResponse \subseteq inResponse',
         \A c \in inResponse' : c \in inResponse \/ (HoldsCall(c) /\ conn'.at \notin {"emit", "call", "done"}),
         \A c \in submitted : worker'[c] = "end"
  PROVE  TurnInv'
  <1>1. SessionType /\ response \in Nat
    BY DEF TurnInv, SessionType
  <1>2. \A f : Arriving(f)' = Arriving(f)
    BY DEF Arriving
  <1>3. \A r \in Nat : Pending(r)' = Pending(r)
    BY <1>2 DEF Pending
  <1>4. FramesInOrder'
    BY <1>2 DEF TurnInv, FramesInOrder
  <1>5. FrameHeld'
    BY <1>1, <1>2 DEF TurnInv, FrameHeld
  <1>6. TurnInOrder'
    <2> SUFFICES ASSUME NEW c \in inResponse'
                 PROVE  /\ of[c] # 0
                        /\ \A r \in 1..response : Arriving(Done(r)) \/ HoldsDone(r) => of[c] <= r
                        /\ ~closed => Pending(of[c])
      BY <1>1, <1>2, <1>3 DEF TurnInv, TurnInOrder, SessionType
    <2>1. CASE c \in inResponse
      BY <2>1 DEF TurnInv, TurnInOrder
    <2>2. CASE HoldsCall(c)
      <3>1. \A r : ~HoldsDone(r)
        BY <2>2, FrameFacts DEF HoldsCall, HoldsDone, Holds
      <3>2. c \in Calls
        BY DEF SessionType
      <3>3. QED
        BY <2>2, <3>1, <3>2 DEF TurnInv, FrameHeld, Pending
    <2>3. QED
      BY <2>1, <2>2
  <1>7. Over' = Over
    BY <1>1, <1>3 DEF Over, SessionType
  <1>8. FollowUpsPaid' /\ Recorded'
    BY <1>7 DEF TurnInv, FollowUpsPaid, Recorded
  <1>9. TurnEnded'
    <2> SUFFICES ASSUME closed
                 PROVE  \E d \in inResponse' : ~Pending(of[d]) /\ \A c \in inResponse' : of[d] <= of[c]
      BY <1>1, <1>3 DEF TurnEnded, SessionType
    <2>1. PICK d \in inResponse : ~Pending(of[d]) /\ \A c \in inResponse : of[d] <= of[c]
      BY DEF TurnInv, TurnEnded
    <2>2. /\ of[d] \in 0..response
          /\ \A r \in 1..response : Arriving(Done(r)) => of[d] <= r
      BY <1>1 DEF TurnInv, TurnInOrder, SessionType
    <2>3. ASSUME NEW c \in Calls, HoldsCall(c) PROVE of[d] <= of[c]
      <3>1. /\ of[c] \in 1..response
            /\ (of[c] = response /\ open) \/ Arriving(Done(of[c]))
        BY <1>1, <2>3 DEF TurnInv, FrameHeld, SessionType
      <3>2. QED
        BY <1>1, <2>2, <3>1
    <2>4. \A c \in inResponse' : of[d] <= of[c]
      BY <2>1, <2>3 DEF SessionType
    <2>5. QED
      BY <2>1, <2>4
  <1>10. QED
    BY <1>4, <1>5, <1>6, <1>8, <1>9 DEF TurnInv

ConnSet == [at : ConnPlaces, frame : {Call(c) : c \in Calls} \cup {Done(r) : r \in 0..response}]

\* The connection task passes the frame on, or is done with it.
LEMMA ConnMoves ==
  ASSUME TurnInv, UNCHANGED response,
         \/ conn' = conn
         \/ /\ conn.at \notin {"emit", "done"}
            /\ conn' \in ConnSet /\ conn'.at \notin {"emit", "call", "done"}
         \/ conn.at = "emit" /\ conn' = [conn EXCEPT !.at = conn.frame[1]]
  PROVE  /\ conn' \in ConnSet
         /\ \A r \in Nat : HoldsDone(r)' = HoldsDone(r)
         /\ \A c \in Calls : HoldsCall(c)' => HoldsCall(c)
         /\ conn'.at = "call" => \E c \in Calls : conn'.frame = Call(c)
         /\ conn'.at = "done" => \E r \in 1..response : conn'.frame = Done(r)
         /\ conn'.at = "emit" => conn'.frame # Done(0)
  <1>1. /\ conn \in ConnSet /\ response \in Nat
        /\ conn.at = "call" => \E c \in Calls : conn.frame = Call(c)
        /\ conn.at = "done" => \E r \in 1..response : conn.frame = Done(r)
        /\ conn.at = "emit" => conn.frame # Done(0)
    BY DEF TurnInv, SessionType, FrameHeld, ConnSet
  <1>2. CASE conn' = conn
    BY <1>1, <1>2 DEF HoldsDone, HoldsCall, Holds
  <1>3. CASE /\ conn.at \notin {"emit", "done"}
             /\ conn' \in ConnSet /\ conn'.at \notin {"emit", "call", "done"}
    BY <1>3 DEF HoldsDone, HoldsCall, Holds
  <1>4. CASE conn.at = "emit" /\ conn' = [conn EXCEPT !.at = conn.frame[1]]
    <2>1. CASE \E c \in Calls : conn.frame = Call(c)
      <3>1. PICK c \in Calls : conn.frame = Call(c)
        BY <2>1
      <3>2. /\ conn' \in ConnSet /\ conn'.at = "call" /\ conn'.frame = Call(c)
        BY <1>1, <1>4, <3>1, FrameFacts DEF ConnSet, ConnPlaces
      <3>3. QED
        BY <1>4, <3>1, <3>2, FrameFacts DEF HoldsDone, HoldsCall, Holds
    <2>2. CASE \E r \in 1..response : conn.frame = Done(r)
      <3>1. PICK r \in 1..response : conn.frame = Done(r)
        BY <2>2
      <3>2. /\ conn' \in ConnSet /\ conn'.at = "done" /\ conn'.frame = Done(r)
        BY <1>1, <1>4, <3>1, FrameFacts DEF ConnSet, ConnPlaces
      <3>3. QED
        BY <1>4, <3>1, <3>2, FrameFacts DEF HoldsDone, HoldsCall, Holds
    <2>3. conn.frame \in {Call(c) : c \in Calls} \cup {Done(r) : r \in 0..response}
      BY <1>1 DEF ConnSet
    <2>4. \A r \in 0..response : r = 0 \/ r \in 1..response
      BY <1>1
    <2>5. QED
      BY <1>1, <1>4, <2>1, <2>2, <2>3, <2>4
  <1>5. QED
    BY <1>2, <1>3, <1>4

\* The same, for a step that adds nothing to the turn.
LEMMA AsideKept ==
  ASSUME TurnInv,
         UNCHANGED <<response, open, of, wire, asked, turn>>, prompted' \in BOOLEAN,
         \/ conn' = conn
         \/ /\ conn.at \notin {"emit", "done"}
            /\ conn' \in ConnSet /\ conn'.at \notin {"emit", "call", "done"}
         \/ conn.at = "emit" /\ conn' = [conn EXCEPT !.at = conn.frame[1]],
         worker' \in [Calls -> WorkerPlaces],
         \A c \in Calls : worker[c] = "end" => worker'[c] = "end"
  PROVE  TurnInv'
  <1>1. SessionType'
    BY ConnMoves DEF TurnInv, SessionType, turn, ConnSet
  <1>2. \A c \in submitted : worker'[c] = "end"
    BY DEF TurnInv, Recorded, SessionType
  <1>3. QED
    BY <1>1, <1>2, ConnMoves, QuietKept DEF turn

\* A task that answers a call goes on.
LEMMA WorkerMoves ==
  ASSUME SessionType, NEW c \in Calls, NEW place \in WorkerPlaces,
         worker' = [worker EXCEPT ![c] = place]
  PROVE  /\ worker' \in [Calls -> WorkerPlaces]
         /\ worker'[c] = place /\ \A d \in Calls \ {c} : worker'[d] = worker[d]
  BY DEF SessionType

LEMMA IdleFrame ==
  ASSUME response \in Nat
  PROVE  Idle \in ConnSet /\ Idle.at = "select" /\ Idle.frame = Done(0)
  BY DEF Idle, ConnSet, ConnPlaces, Done

\* The steps of the connection task that are none of the turn's.
LEMMA ConnectionAside ==
  ASSUME TurnInv,
         \/ Close \/ SocketEnds \/ WriteOut \/ Emit \/ EmitError \/ ConnAcquires \/ ConnSends
         \/ EmitFailure \/ ConnRefused
  PROVE  TurnInv'
  <1>1. /\ SessionType /\ conn \in ConnSet /\ response \in Nat
        /\ worker \in [Calls -> WorkerPlaces] /\ prompted \in BOOLEAN
    BY DEF TurnInv, SessionType, ConnSet
  <1>2. \A place \in ConnPlaces : /\ [conn EXCEPT !.at = place] \in ConnSet
                                  /\ [conn EXCEPT !.at = place].at = place
    BY <1>1 DEF ConnSet
  <1>3. CASE \/ Close \/ SocketEnds \/ ConnAcquires \/ EmitError \/ ConnSends
             \/ EmitFailure \/ ConnRefused
    <2>1. /\ conn.at \in {"select", "permit", "send", "error", "failed"}
          /\ UNCHANGED <<server, turn, worker, asked>>
      BY <1>3 DEF Close, SocketEnds, ConnAcquires, EmitError, ConnSends, EmitFailure, ConnRefused
    <2>2. conn' = Idle \/ \E place \in {"ended", "error", "failed", "send"} :
                              conn' = [conn EXCEPT !.at = place]
      BY <1>3 DEF Close, SocketEnds, ConnAcquires, EmitError, ConnSends, EmitFailure, ConnRefused
    <2>3. conn' \in ConnSet /\ conn'.at \notin {"emit", "call", "done"}
      BY <1>1, <1>2, <2>2, IdleFrame DEF ConnPlaces
    <2>4. QED
      BY <1>1, <2>1, <2>3, AsideKept DEF server
  <1>4. CASE WriteOut
    <2>1. UNCHANGED <<response, open, of, wire, conn, turn, worker, asked>> /\ prompted' \in BOOLEAN
      BY <1>1, <1>4 DEF WriteOut
    <2>2. QED
      BY <1>1, <2>1, AsideKept
  <1>5. CASE Emit
    <2>1. /\ conn.at = "emit" /\ conn' = [conn EXCEPT !.at = conn.frame[1]]
          /\ UNCHANGED <<server, turn, worker, asked>>
      BY <1>5 DEF Emit
    <2>2. QED
      BY <1>1, <2>1, AsideKept DEF server
  <1>6. QED
    BY <1>3, <1>4, <1>5

\* A call joins the turn, or does not, and its task starts.
LEMMA StartCallKept ==
  ASSUME TurnInv, StartCall
  PROVE  TurnInv'
  <1>1. /\ SessionType /\ conn \in ConnSet /\ response \in Nat
        /\ worker \in [Calls -> WorkerPlaces]
    BY DEF TurnInv, SessionType, ConnSet
  <1>2. PICK c \in Calls : conn.at = "call" /\ conn.frame = Call(c) /\ conn.frame[2] = c
    BY FrameFacts DEF TurnInv, FrameHeld, StartCall
  <1>3. HoldsCall(c)
    BY <1>2 DEF HoldsCall, Holds
  <1>4. conn' \in ConnSet /\ conn'.at \in {"select", "error"}
    <2>1. [conn EXCEPT !.at = "error"] \in ConnSet /\ [conn EXCEPT !.at = "error"].at = "error"
      BY <1>1 DEF ConnSet, ConnPlaces
    <2>2. QED
      BY <1>1, <2>1, IdleFrame DEF StartCall
  <1>5. /\ UNCHANGED <<server, submitted, closed, asked>>
        /\ inResponse' \in {inResponse, inResponse \cup {c}}
        /\ worker' \in {worker, [worker EXCEPT ![c] = IF @ = "idle" THEN "tool" ELSE @]}
    BY <1>2 DEF StartCall
  <1>6. /\ worker' \in [Calls -> WorkerPlaces]
        /\ \A d \in Calls : worker[d] = "end" => worker'[d] = "end"
    BY <1>1, <1>5 DEF WorkerPlaces
  <1>7. SessionType'
    BY <1>1, <1>4, <1>5, <1>6 DEF SessionType, ConnSet, server
  <1>8. \A d \in submitted : worker'[d] = "end"
    BY <1>1, <1>6 DEF TurnInv, Recorded, SessionType
  <1>9. \A d \in inResponse' : d \in inResponse \/ (HoldsCall(d) /\ conn'.at \notin {"emit", "call", "done"})
    BY <1>3, <1>4, <1>5
  <1>10. QED
    BY <1>2, <1>4, <1>5, <1>7, <1>8, <1>9, ConnMoves, QuietKept DEF server

\* The steps of the tasks, the application and the session that record nothing.
LEMMA OthersAside ==
  ASSUME TurnInv,
         \/ Read \/ Cancel \/ Drop \/ AudioAcquires \/ AudioSends \/ AudioRefused
         \/ \E c \in Calls : \/ AppAnswers(c) \/ ToolStops(c) \/ Acquire(c) \/ Send(c)
                             \/ GiveUp(c) \/ Refused(c)
  PROVE  TurnInv'
  <1>1. /\ SessionType /\ worker \in [Calls -> WorkerPlaces] /\ prompted \in BOOLEAN
    BY DEF TurnInv, SessionType
  <1>2. CASE Read \/ Cancel \/ Drop \/ AudioAcquires \/ AudioSends \/ AudioRefused
    <2>1. UNCHANGED <<server, conn, turn, worker, asked>>
      BY <1>2 DEF Read, Cancel, Drop, AudioAcquires, AudioSends, AudioRefused
    <2>2. QED
      BY <1>1, <2>1, AsideKept DEF server
  <1>3. ASSUME NEW c \in Calls,
               \/ AppAnswers(c) \/ ToolStops(c) \/ Acquire(c) \/ Send(c)
               \/ GiveUp(c) \/ Refused(c)
        PROVE  TurnInv'
    <2>1. worker[c] # "end" /\ UNCHANGED <<server, conn, turn, asked>>
      BY <1>3 DEF AppAnswers, ToolStops, Acquire, Send, GiveUp, Refused
    <2>2. \E place \in WorkerPlaces : worker' = [worker EXCEPT ![c] = place]
      BY <1>3 DEF AppAnswers, ToolStops, Acquire, Send, GiveUp, Refused, WorkerPlaces
    <2>3. QED
      BY <1>1, <2>1, <2>2, WorkerMoves, AsideKept DEF server
  <1>4. QED
    BY <1>2, <1>3

-----------------------------------------------------------------------------
(* The server's steps.                                                     *)

\* Only responses that were started end.
LEMMA EndsOfStarted ==
  ASSUME SessionType
  PROVE  /\ \A r : Arriving(Done(r)) => r \in 1..response
         /\ \A r : HoldsDone(r) => r \in 0..response
  <1>1. \A i \in DOMAIN wire : wire[i] \in FrameSet
    BY DEF SessionType, FrameSet
  <1>2. conn.frame \in {Call(c) : c \in Calls} \cup {Done(r) : r \in 0..response}
    BY DEF SessionType
  <1>3. QED
    BY <1>1, <1>2, FrameFacts DEF FrameSet, Arriving, HoldsDone, Holds

LEMMA ServerStartsKept ==
  ASSUME TurnInv, ServerStarts
  PROVE  TurnInv'
  <1>1. /\ SessionType /\ response \in Nat /\ response' = response + 1 /\ open = FALSE
        /\ open' = TRUE /\ prompted' = FALSE
        /\ UNCHANGED <<of, wire, conn, turn, worker, asked>>
    BY DEF TurnInv, SessionType, ServerStarts
  <1>2. SessionType'
    <2>1. /\ 1..response \subseteq 1..response' /\ 0..response \subseteq 0..response'
          /\ response' \in Nat /\ response' # 0
      BY <1>1
    <2>2. of' \in [Calls -> 0..response']
      BY <1>1, <2>1 DEF SessionType
    <2>3. wire' \in Seq({Call(c) : c \in Calls} \cup {Done(r) : r \in 1..response'})
      <3>1. FrameSet \subseteq {Call(c) : c \in Calls} \cup {Done(r) : r \in 1..response'}
        BY <2>1 DEF FrameSet
      <3>2. wire \in Seq(FrameSet)
        BY <1>1 DEF SessionType, FrameSet
      <3>3. QED
        BY <1>1, <3>1, <3>2, WiderFrames
    <2>4. conn' \in [at : ConnPlaces,
                     frame : {Call(c) : c \in Calls} \cup {Done(r) : r \in 0..response'}]
      BY <1>1, <2>1 DEF SessionType
    <2>5. QED
      BY <1>1, <2>1, <2>2, <2>3, <2>4 DEF SessionType, turn
  <1>3. /\ \A f : Arriving(f)' = Arriving(f)
        /\ \A r : HoldsDone(r)' = HoldsDone(r) /\ \A c : HoldsCall(c)' = HoldsCall(c)
    BY <1>1 DEF Arriving, HoldsDone, HoldsCall, Holds
  <1>4. /\ ~Arriving(Done(response')) /\ ~HoldsDone(response')
        /\ \A r \in 1..response' : r \in 1..response \/ r = response'
    BY <1>1, EndsOfStarted
  <1>5. \A r \in 1..response : Pending(r)' = Pending(r)
    BY <1>1, <1>3 DEF Pending
  <1>6. FramesInOrder'
    <2>1. \A i \in DOMAIN wire, r \in 1..response' : wire[i] = Done(r) => r \in 1..response
      BY <1>4 DEF Arriving
    <2>2. QED
      BY <1>1, <1>3, <1>4, <2>1 DEF TurnInv, FramesInOrder
  <1>7. FrameHeld'
    BY <1>1, <1>3, <1>4 DEF TurnInv, FrameHeld
  <1>8. TurnInOrder'
    <2>1. \A c \in inResponse : of[c] \in 1..response
      BY <1>1 DEF TurnInv, TurnInOrder, SessionType
    <2>2. QED
      BY <1>1, <1>3, <1>4, <1>5, <2>1 DEF TurnInv, TurnInOrder, turn
  <1>12. TurnEnded'
    <2>1. \A c \in inResponse : of[c] \in 1..response
      BY <1>1 DEF TurnInv, TurnInOrder, SessionType
    <2>2. QED
      BY <1>1, <1>5, <2>1 DEF TurnInv, TurnEnded, turn
  <1>9. Over' = Over
    <2>1. \A c \in Calls : of[c] # 0 => of[c] \in 1..response
      BY <1>1 DEF SessionType
    <2>2. QED
      BY <1>1, <1>5, <2>1 DEF Over
  <1>10. FollowUpsPaid' /\ Recorded'
    BY <1>1, <1>9 DEF TurnInv, FollowUpsPaid, Recorded, turn
  <1>11. QED
    BY <1>2, <1>6, <1>7, <1>8, <1>10, <1>12 DEF TurnInv

LEMMA ServerCallsKept ==
  ASSUME TurnInv, NEW c \in Calls, ServerCalls(c)
  PROVE  TurnInv'
  <1>1. /\ SessionType /\ response \in Nat /\ response # 0 /\ open = TRUE /\ of[c] = 0
        /\ of' = [of EXCEPT ![c] = response] /\ wire' = Append(wire, Call(c))
        /\ UNCHANGED <<response, open, prompted, conn, turn, worker, asked>>
    BY DEF TurnInv, SessionType, ServerCalls, Call
  <1>2. wire \in Seq(FrameSet) /\ Call(c) \in FrameSet
    BY <1>1 DEF SessionType, FrameSet
  <1> DEFINE n == Len(wire)
  <1>3. /\ wire' \in Seq(FrameSet) /\ n \in Nat
        /\ DOMAIN wire' = 1..(n + 1) /\ DOMAIN wire = 1..n
        /\ \A k \in 1..n : wire'[k] = wire[k]
        /\ wire'[n + 1] = Call(c)
    BY <1>1, <1>2, Grown
  <1> HIDE DEF n
  <1>4. /\ of' \in [Calls -> 0..response] /\ of'[c] = response
        /\ \A d \in Calls \ {c} : of'[d] = of[d]
    BY <1>1 DEF SessionType
  <1>5. SessionType'
    BY <1>1, <1>3, <1>4 DEF SessionType, FrameSet, turn
  <1>6. /\ \A r : Arriving(Done(r))' = Arriving(Done(r))
        /\ \A r : HoldsDone(r)' = HoldsDone(r) /\ \A d : HoldsCall(d)' = HoldsCall(d)
    BY <1>1, <1>3, FrameFacts DEF Arriving, HoldsDone, HoldsCall, Holds
  <1>7. \A r : Pending(r)' = Pending(r)
    BY <1>1, <1>6 DEF Pending
  <1>8. FramesInOrder'
    <2>1. ASSUME NEW i \in DOMAIN wire', NEW d \in Calls, wire'[i] = Call(d)
          PROVE  /\ of'[d] # 0
                 /\ \/ of'[d] = response' /\ open'
                    \/ \E j \in DOMAIN wire' : j > i /\ wire'[j] = Done(of'[d])
      <3>1. CASE i = n + 1
        BY <3>1, <2>1, <1>1, <1>3, <1>4, FrameFacts
      <3>2. CASE i \in 1..n
        <4>1. of[d] # 0 /\ d # c
          BY <3>2, <2>1, <1>1, <1>3 DEF TurnInv, FramesInOrder
        <4>2. \/ of[d] = response /\ open
              \/ \E j \in DOMAIN wire : j > i /\ wire[j] = Done(of[d])
          BY <3>2, <2>1, <1>3 DEF TurnInv, FramesInOrder
        <4>3. QED
          BY <4>1, <4>2, <1>1, <1>3, <1>4
      <3>3. QED
        BY <3>1, <3>2, <1>3
    <2>2. ASSUME NEW i \in DOMAIN wire', NEW j \in DOMAIN wire', NEW r, i < j, wire'[j] = Done(r)
          PROVE  i \in DOMAIN wire /\ j \in DOMAIN wire /\ wire'[i] = wire[i] /\ wire'[j] = wire[j]
      BY <2>2, <1>3, FrameFacts
    <2>3. \A i \in DOMAIN wire, d \in Calls : wire[i] = Call(d) => d # c
      BY <1>1 DEF TurnInv, FramesInOrder
    <2>4. \A i, j \in DOMAIN wire', d \in Calls, r \in 1..response' :
             i < j /\ wire'[i] = Call(d) /\ wire'[j] = Done(r) => of'[d] <= r
      BY <2>2, <2>3, <1>1, <1>4 DEF TurnInv, FramesInOrder
    <2>5. \A i, j \in DOMAIN wire', r, q \in 1..response' :
             i < j /\ wire'[i] = Done(r) /\ wire'[j] = Done(q) => r < q
      BY <2>2, <1>1 DEF TurnInv, FramesInOrder
    <2>6. QED
      BY <2>1, <2>4, <2>5, <1>1, <1>6 DEF TurnInv, FramesInOrder
  <1>9. FrameHeld'
    <2>1. \A d \in Calls : HoldsCall(d) => d # c
      BY <1>1 DEF TurnInv, FrameHeld
    <2>2. QED
      BY <1>1, <1>4, <1>6, <2>1 DEF TurnInv, FrameHeld
  <1>10. TurnInOrder'
    <2>1. c \notin inResponse /\ inResponse \subseteq Calls
      BY <1>1 DEF TurnInv, TurnInOrder, SessionType
    <2>2. QED
      BY <1>1, <1>4, <1>6, <1>7, <2>1 DEF TurnInv, TurnInOrder, turn
  <1>14. TurnEnded'
    <2>1. c \notin inResponse /\ inResponse \subseteq Calls
      BY <1>1 DEF TurnInv, TurnInOrder, SessionType
    <2>2. QED
      BY <1>1, <1>4, <1>7, <2>1 DEF TurnInv, TurnEnded, turn
  <1>11. Over' = Over
    <2>1. Pending(response)
      BY <1>1 DEF Pending
    <2>2. QED
      BY <1>1, <1>4, <1>7, <2>1 DEF Over
  <1>12. FollowUpsPaid' /\ Recorded'
    BY <1>1, <1>11 DEF TurnInv, FollowUpsPaid, Recorded, turn
  <1>13. QED
    BY <1>5, <1>8, <1>9, <1>10, <1>12, <1>14 DEF TurnInv

LEMMA ServerDoneKept ==
  ASSUME TurnInv, ServerDone
  PROVE  TurnInv'
  <1>1. /\ SessionType /\ response \in Nat /\ response # 0 /\ open = TRUE /\ open' = FALSE
        /\ wire' = Append(wire, Done(response))
        /\ UNCHANGED <<response, of, prompted, conn, turn, worker, asked>>
    BY DEF TurnInv, SessionType, ServerDone, Done
  <1>2. wire \in Seq(FrameSet) /\ Done(response) \in FrameSet /\ response \in 1..response
    BY <1>1 DEF SessionType, FrameSet
  <1> DEFINE n == Len(wire)
  <1>3. /\ wire' \in Seq(FrameSet) /\ n \in Nat
        /\ DOMAIN wire' = 1..(n + 1) /\ DOMAIN wire = 1..n
        /\ \A k \in 1..n : wire'[k] = wire[k]
        /\ wire'[n + 1] = Done(response)
    BY <1>1, <1>2, Grown
  <1> HIDE DEF n
  <1>4. SessionType'
    BY <1>1, <1>3 DEF SessionType, FrameSet, turn
  <1>5. /\ \A f : Arriving(f)' <=> Arriving(f) \/ f = Done(response)
        /\ \A r : HoldsDone(r)' = HoldsDone(r) /\ \A d : HoldsCall(d)' = HoldsCall(d)
    BY <1>1, <1>3 DEF Arriving, HoldsDone, HoldsCall, Holds
  <1>6. \A r : Arriving(Done(r))' <=> Arriving(Done(r)) \/ r = response
    BY <1>5, FrameFacts
  <1>7. \A r : Pending(r)' = Pending(r)
    BY <1>1, <1>5, <1>6 DEF Pending
  <1>8. \A c \in Calls : of[c] \in 0..response
    BY <1>1 DEF SessionType
  <1>9. ~Arriving(Done(response)) /\ ~HoldsDone(response)
    BY <1>1, <1>2 DEF TurnInv, FramesInOrder, FrameHeld
  <1>10. FramesInOrder'
    <2>1. ASSUME NEW i \in DOMAIN wire', NEW c \in Calls, wire'[i] = Call(c)
          PROVE  of[c] # 0 /\ \E j \in DOMAIN wire' : j > i /\ wire'[j] = Done(of[c])
      <3>1. i \in 1..n /\ wire[i] = Call(c)
        BY <2>1, <1>3, FrameFacts
      <3>2. /\ of[c] # 0
            /\ \/ of[c] = response /\ open
               \/ \E j \in DOMAIN wire : j > i /\ wire[j] = Done(of[c])
        BY <3>1, <1>3 DEF TurnInv, FramesInOrder
      <3>3. CASE of[c] = response
        BY <3>1, <3>2, <3>3, <1>3
      <3>4. CASE \E j \in DOMAIN wire : j > i /\ wire[j] = Done(of[c])
        BY <3>2, <3>4, <1>3
      <3>5. QED
        BY <3>2, <3>3, <3>4
    <2>2. ASSUME NEW i \in DOMAIN wire', NEW j \in DOMAIN wire', NEW c \in Calls,
                 NEW r \in 1..response, i < j, wire'[i] = Call(c), wire'[j] = Done(r)
          PROVE  of[c] <= r
      <3>1. CASE j = n + 1
        BY <3>1, <2>2, <1>1, <1>3, <1>8, FrameFacts
      <3>2. CASE j \in 1..n
        BY <3>2, <2>2, <1>3 DEF TurnInv, FramesInOrder
      <3>3. QED
        BY <3>1, <3>2, <1>3
    <2>3. ASSUME NEW i \in DOMAIN wire', NEW j \in DOMAIN wire', NEW r \in 1..response,
                 NEW q \in 1..response, i < j, wire'[i] = Done(r), wire'[j] = Done(q)
          PROVE  r < q
      <3>1. i \in 1..n /\ wire[i] = Done(r) /\ r # response
        BY <2>3, <1>3, <1>9 DEF Arriving
      <3>2. CASE j = n + 1
        BY <3>1, <3>2, <2>3, <1>1, <1>3, FrameFacts
      <3>3. CASE j \in 1..n
        BY <3>1, <3>3, <2>3, <1>3 DEF TurnInv, FramesInOrder
      <3>4. QED
        BY <3>2, <3>3, <1>3
    <2>4. QED
      BY <2>1, <2>2, <2>3, <1>1 DEF FramesInOrder
  <1>11. FrameHeld'
    BY <1>1, <1>5, <1>6, <1>8, <1>9 DEF TurnInv, FrameHeld
  <1>12. TurnInOrder'
    BY <1>1, <1>5, <1>6, <1>7, <1>8 DEF TurnInv, TurnInOrder, SessionType, turn
  <1>16. TurnEnded'
    BY <1>1, <1>7 DEF TurnInv, TurnEnded, turn
  <1>13. Over' = Over
    BY <1>1, <1>7 DEF Over
  <1>14. FollowUpsPaid' /\ Recorded'
    BY <1>1, <1>13 DEF TurnInv, FollowUpsPaid, Recorded, turn
  <1>15. QED
    BY <1>4, <1>10, <1>11, <1>12, <1>14, <1>16 DEF TurnInv

\* The next frame leaves the socket.
LEMMA ReadFrameKept ==
  ASSUME TurnInv, ReadFrame
  PROVE  TurnInv'
  <1>1. /\ SessionType /\ response \in Nat /\ conn.at = "select" /\ wire # <<>>
        /\ conn' = [at |-> "emit", frame |-> Head(wire)] /\ wire' = Tail(wire)
        /\ UNCHANGED <<response, open, of, prompted, turn, worker, asked>>
    BY DEF TurnInv, SessionType, ReadFrame
  <1>2. wire \in Seq(FrameSet)
    BY <1>1 DEF SessionType, FrameSet
  <1> DEFINE n == Len(wire)
  <1>3. /\ wire' \in Seq(FrameSet) /\ Head(wire) = wire[1] /\ wire[1] \in FrameSet
        /\ DOMAIN wire' = 1..(n - 1) /\ DOMAIN wire = 1..n /\ n \in Nat /\ n > 0
        /\ \A k \in 1..(n - 1) : wire'[k] = wire[k + 1]
    BY <1>1, <1>2, Shortened
  <1> HIDE DEF n
  <1>4. conn'.at = "emit" /\ conn'.frame = wire[1]
    BY <1>1, <1>3
  <1>5. SessionType'
    <2>1. wire[1] \in {Call(c) : c \in Calls} \cup {Done(r) : r \in 0..response}
      BY <1>1, <1>3 DEF FrameSet
    <2>2. conn' \in ConnSet
      BY <1>1, <1>3, <2>1 DEF ConnSet, ConnPlaces
    <2>3. QED
      BY <1>1, <1>3, <2>2 DEF SessionType, FrameSet, ConnSet, turn
  <1>6. \A f : Arriving(f) <=> Arriving(f)' \/ f = wire[1]
    <2>1. ASSUME NEW f, Arriving(f) PROVE Arriving(f)' \/ f = wire[1]
      <3>1. PICK k \in 1..n : wire[k] = f
        BY <2>1, <1>3 DEF Arriving
      <3>2. CASE k = 1
        BY <3>1, <3>2
      <3>3. CASE k # 1
        <4>1. k - 1 \in 1..(n - 1) /\ (k - 1) + 1 = k
          BY <3>1, <3>3, <1>3
        <4>2. QED
          BY <3>1, <4>1, <1>3 DEF Arriving
      <3>4. QED
        BY <3>2, <3>3
    <2>2. ASSUME NEW f, Arriving(f)' PROVE Arriving(f)
      BY <2>2, <1>3 DEF Arriving
    <2>3. Arriving(wire[1])
      BY <1>3 DEF Arriving
    <2>4. QED
      BY <2>1, <2>2, <2>3
  <1>7. /\ \A r : HoldsDone(r)' <=> Done(r) = wire[1]
        /\ \A c : HoldsCall(c)' <=> Call(c) = wire[1]
        /\ \A r : ~HoldsDone(r)
    BY <1>1, <1>4 DEF HoldsDone, HoldsCall, Holds
  <1>8. \A r : Pending(r)' = Pending(r)
    BY <1>1, <1>6, <1>7 DEF Pending
  <1>9. \A i \in DOMAIN wire' : i + 1 \in DOMAIN wire /\ wire'[i] = wire[i + 1] /\ i + 1 > 1
    BY <1>3
  <1>10. FramesInOrder'
    <2>1. ASSUME NEW i \in DOMAIN wire', NEW c \in Calls, wire'[i] = Call(c)
          PROVE  /\ of[c] # 0
                 /\ \/ of[c] = response /\ open
                    \/ \E j \in DOMAIN wire' : j > i /\ wire'[j] = Done(of[c])
      <3>1. /\ of[c] # 0
            /\ \/ of[c] = response /\ open
               \/ \E j \in DOMAIN wire : j > i + 1 /\ wire[j] = Done(of[c])
        BY <2>1, <1>9 DEF TurnInv, FramesInOrder
      <3>2. ASSUME NEW j \in DOMAIN wire, j > i + 1
            PROVE  j - 1 \in DOMAIN wire' /\ j - 1 > i /\ wire'[j - 1] = wire[j]
        BY <3>2, <1>3
      <3>3. QED
        BY <3>1, <3>2
    <2>2. \A i, j \in DOMAIN wire' : i < j => i + 1 < j + 1
      BY <1>3
    <2>3. \A i, j \in DOMAIN wire', c \in Calls, r \in 1..response :
             i < j /\ wire'[i] = Call(c) /\ wire'[j] = Done(r) => of[c] <= r
      BY <2>2, <1>9 DEF TurnInv, FramesInOrder
    <2>4. \A i, j \in DOMAIN wire', r, q \in 1..response :
             i < j /\ wire'[i] = Done(r) /\ wire'[j] = Done(q) => r < q
      BY <2>2, <1>9 DEF TurnInv, FramesInOrder
    <2>5. open => ~Arriving(Done(response))'
      BY <1>1, <1>6 DEF TurnInv, FramesInOrder
    <2>6. QED
      BY <2>1, <2>3, <2>4, <2>5, <1>1 DEF FramesInOrder
  <1>11. FrameHeld'
    <2>1. ASSUME NEW c \in Calls, wire[1] = Call(c)
          PROVE  /\ of[c] # 0
                 /\ (of[c] = response /\ open) \/ Arriving(Done(of[c]))'
                 /\ \A r \in 1..response : Arriving(Done(r))' => of[c] <= r
      <3>1. /\ of[c] # 0
            /\ (of[c] = response /\ open) \/ Arriving(Done(of[c]))
        BY <2>1, <1>3 DEF TurnInv, FramesInOrder, Arriving
      <3>2. \A r \in 1..response : Arriving(Done(r))' => of[c] <= r
        BY <2>1, <1>3, <1>9 DEF TurnInv, FramesInOrder, Arriving
      <3>3. QED
        BY <2>1, <3>1, <3>2, <1>1, <1>6, FrameFacts
    <2>2. ASSUME NEW r \in 1..response, wire[1] = Done(r)
          PROVE  /\ r # response \/ ~open
                 /\ \A q \in 1..response : Arriving(Done(q))' => r < q
      <3>1. r # response \/ ~open
        BY <2>2, <1>3 DEF TurnInv, FramesInOrder, Arriving
      <3>2. \A q \in 1..response : Arriving(Done(q))' => r < q
        BY <2>2, <1>3, <1>9 DEF TurnInv, FramesInOrder, Arriving
      <3>3. QED
        BY <3>1, <3>2
    <2>3. wire[1] # Done(0)
      BY <1>3, FrameFacts DEF FrameSet
    <2>4. QED
      BY <2>1, <2>2, <2>3, <1>1, <1>4, <1>7 DEF FrameHeld
  <1>12. TurnInOrder'
    BY <1>1, <1>6, <1>7, <1>8 DEF TurnInv, TurnInOrder, turn
  <1>16. TurnEnded'
    BY <1>1, <1>8 DEF TurnInv, TurnEnded, turn
  <1>13. Over' = Over
    BY <1>1, <1>8 DEF Over
  <1>14. FollowUpsPaid' /\ Recorded'
    BY <1>1, <1>13 DEF TurnInv, FollowUpsPaid, Recorded, turn
  <1>15. QED
    BY <1>5, <1>10, <1>11, <1>12, <1>14, <1>16 DEF TurnInv

\* The calls of a turn that is not closed are those of the response whose end
\* the connection task is at.
LEMMA OneResponse ==
  ASSUME TurnInv, ~closed, NEW r \in 1..response, conn.at = "done", conn.frame = Done(r)
  PROVE  \A c \in inResponse : of[c] = r
  <1> SUFFICES ASSUME NEW c \in inResponse PROVE of[c] = r
    OBVIOUS
  <1>1. HoldsDone(r) /\ \A q : HoldsDone(q) => q = r
    BY FrameFacts DEF HoldsDone, Holds
  <1>2. (r # response \/ ~open) /\ \A q \in 1..response : Arriving(Done(q)) => r < q
    BY <1>1 DEF TurnInv, FrameHeld
  <1>3. response \in Nat /\ of[c] \in 1..response /\ Pending(of[c]) /\ of[c] <= r
    BY <1>1 DEF TurnInv, TurnInOrder, SessionType
  <1>4. CASE of[c] = response /\ open
    BY <1>2, <1>3, <1>4
  <1>5. CASE Arriving(Done(of[c]))
    <2>1. r < of[c]
      BY <1>2, <1>3, <1>5
    <2>2. QED
      BY <2>1, <1>3
  <1>6. CASE HoldsDone(of[c])
    BY <1>1, <1>6
  <1>7. QED
    BY <1>3, <1>4, <1>5, <1>6 DEF Pending

\* The end of a response is handled: the turn is closed, answered, or unused.
LEMMA ResponseDoneKept ==
  ASSUME TurnInv, ResponseDone
  PROVE  TurnInv'
  <1>1. /\ SessionType /\ response \in Nat /\ conn \in ConnSet /\ conn.at = "done" /\ asked \in Nat
        /\ UNCHANGED <<response, open, of, prompted, wire, worker>>
        /\ inResponse \subseteq Calls /\ submitted \subseteq Calls
    BY DEF TurnInv, SessionType, ResponseDone, ConnSet, server
  <1>2. PICK r \in 1..response : conn.frame = Done(r)
    BY <1>1 DEF TurnInv, FrameHeld
  <1>3. \A q : HoldsDone(q) <=> q = r
    BY <1>1, <1>2, FrameFacts DEF HoldsDone, Holds
  <1>4. (r # response \/ ~open) /\ ~Arriving(Done(r))
    BY <1>1, <1>2, <1>3 DEF TurnInv, FrameHeld
  <1>5. conn' \in ConnSet /\ conn'.at \in {"select", "permit"}
    <2>1. /\ [conn EXCEPT !.at = "permit"] \in ConnSet
          /\ [conn EXCEPT !.at = "permit"].at = "permit"
      BY <1>1 DEF ConnSet, ConnPlaces
    <2>2. QED
      BY <1>1, <2>1, IdleFrame DEF ResponseDone
  <1>6. /\ \A f : Arriving(f)' = Arriving(f)
        /\ \A q : ~HoldsDone(q)' /\ \A c : ~HoldsCall(c)'
    BY <1>1, <1>5 DEF Arriving, HoldsDone, HoldsCall, Holds
  <1>7. \A q : Pending(q)' <=> Pending(q) /\ q # r
    BY <1>1, <1>3, <1>4, <1>6 DEF Pending
  <1>8. FramesInOrder'
    BY <1>1, <1>6 DEF TurnInv, FramesInOrder
  <1>9. FrameHeld'
    BY <1>5, <1>6 DEF FrameHeld
  <1>10. Over \subseteq Over' /\ (r \in Over' => r \notin Over)
    BY <1>1, <1>3, <1>7 DEF Over, Pending
  <1>11. CASE inResponse = {}
    <2>1. UNCHANGED <<turn, asked>>
      BY <1>11 DEF ResponseDone
    <2>2. SessionType'
      BY <1>1, <1>5, <2>1 DEF SessionType, ConnSet, turn
    <2>3. closed = FALSE
      BY <1>1, <1>11 DEF TurnInv, TurnInOrder, SessionType
    <2>4. TurnInOrder'
      BY <1>11, <2>1, <2>3 DEF TurnInOrder, turn
    <2>5. Cardinality(Over) <= Cardinality(Over')
      BY <1>10, <1>1, <2>2, OverFinite, OverFiniteNext, FS_Subset
    <2>6. FollowUpsPaid'
      BY <2>1, <2>3, <2>5, <1>1, <2>2, OverFinite, OverFiniteNext DEF TurnInv, FollowUpsPaid, turn
    <2>7. Recorded'
      BY <1>1, <2>1 DEF TurnInv, Recorded, turn
    <2>8. TurnEnded'
      BY <2>1, <2>3 DEF TurnEnded, turn
    <2>9. QED
      BY <1>8, <1>9, <2>2, <2>4, <2>6, <2>7, <2>8 DEF TurnInv
  <1>12. CASE inResponse # {}
    <2>1. Turn(inResponse, submitted, TRUE)
      BY <1>12 DEF ResponseDone
    <2>2. \/ /\ inResponse \subseteq submitted /\ asked' = asked + 1
             /\ inResponse' = {} /\ submitted' = {} /\ closed' = FALSE
          \/ /\ ~(inResponse \subseteq submitted) /\ asked' = asked /\ closed' = TRUE
             /\ inResponse' = inResponse /\ submitted' = submitted
      BY <1>12, <2>1 DEF Turn, Follows
    <2>3. SessionType'
      <3>1. inResponse' \subseteq Calls /\ submitted' \subseteq Calls /\ closed' \in BOOLEAN
        BY <1>1, <2>2
      <3>2. asked' \in Nat
        BY <1>1, <2>2
      <3>3. QED
        BY <1>1, <1>5, <3>1, <3>2 DEF SessionType, ConnSet
    <2>4. TurnInOrder'
      <3>1. closed' => ~(inResponse' \subseteq submitted')
        BY <2>2
      <3>2. inResponse' \subseteq inResponse /\ (inResponse' # {} => closed')
        BY <2>2
      <3>3. QED
        BY <1>1, <1>6, <3>1, <3>2 DEF TurnInv, TurnInOrder
    <2>5. Cardinality(Over) <= Cardinality(Over')
      BY <1>10, <1>1, <2>3, OverFinite, OverFiniteNext, FS_Subset
    <2>6. closed \/ Cardinality(Over) + 1 <= Cardinality(Over')
      <3> SUFFICES ASSUME ~closed PROVE Cardinality(Over) + 1 <= Cardinality(Over')
        OBVIOUS
      <3>1. PICK c \in inResponse : TRUE
        BY <1>12
      <3>2. c \in Calls /\ of[c] # 0 /\ Pending(of[c]) /\ of[c] = r
        BY <1>1, <1>2, <3>1, OneResponse DEF TurnInv, TurnInOrder
      <3>3. r \in Over'
        BY <1>1, <1>7, <3>2 DEF Over
      <3>4. r \notin Over /\ Over \cup {r} \subseteq Over'
        BY <1>10, <3>3
      <3>5. /\ IsFiniteSet(Over \cup {r})
            /\ Cardinality(Over \cup {r}) = Cardinality(Over) + 1
        BY <1>1, <3>4, OverFinite, FS_AddElement
      <3>6. QED
        BY <3>4, <3>5, <2>3, OverFiniteNext, FS_Subset
    <2>7. FollowUpsPaid'
      <3>1. /\ asked' + (IF closed' THEN 1 ELSE 0) = asked + 1
        BY <1>1, <2>2
      <3>2. asked + (IF closed THEN 1 ELSE 0) <= Cardinality(Over)
        BY DEF TurnInv, FollowUpsPaid
      <3>3. Cardinality(Over) \in Nat /\ Cardinality(Over') \in Nat
        BY <1>1, <2>3, OverFinite, OverFiniteNext
      <3>4. asked + 1 <= Cardinality(Over')
        <4>1. CASE closed
          BY <4>1, <1>1, <2>5, <3>2, <3>3
        <4>2. CASE ~closed
          BY <4>2, <1>1, <2>6, <3>2, <3>3
        <4>3. QED
          BY <4>1, <4>2
      <3>5. QED
        BY <3>1, <3>4 DEF FollowUpsPaid
    <2>8. Recorded'
      <3>1. submitted' \subseteq submitted
        BY <2>2
      <3>2. QED
        BY <1>1, <3>1 DEF TurnInv, Recorded
    <2>9. TurnEnded'
      <3> SUFFICES ASSUME closed'
                   PROVE  \E d \in inResponse :
                            ~Pending(of[d])' /\ \A c \in inResponse : of[d] <= of[c]
        BY <1>1, <2>2 DEF TurnEnded
      <3>1. CASE closed
        BY <1>1, <1>7, <3>1 DEF TurnInv, TurnEnded
      <3>2. CASE ~closed
        <4>1. \A c \in inResponse : of[c] = r
          BY <1>1, <1>2, <3>2, OneResponse
        <4>2. QED
          BY <1>1, <1>2, <1>7, <1>12, <4>1
      <3>3. QED
        BY <3>1, <3>2
    <2>10. QED
      BY <1>8, <1>9, <2>3, <2>4, <2>7, <2>8, <2>9 DEF TurnInv
  <1>13. QED
    BY <1>11, <1>12

\* An output is recorded, and the turn starts over or goes on.
LEMMA RecordKept ==
  ASSUME TurnInv, NEW c \in Calls, Record(c)
  PROVE  TurnInv'
  <1>1. /\ SessionType /\ response \in Nat /\ asked \in Nat
        /\ worker \in [Calls -> WorkerPlaces] /\ worker[c] = "record"
        /\ Turn(inResponse, submitted \cup {c}, closed)
        /\ worker' = [worker EXCEPT ![c] = IF asked' # asked THEN "ask" ELSE "end"]
        /\ UNCHANGED <<response, open, of, prompted, wire, conn>>
        /\ inResponse \subseteq Calls /\ submitted \subseteq Calls /\ closed \in BOOLEAN
    BY DEF TurnInv, SessionType, Record, server
  <1>2. \/ /\ closed /\ inResponse \subseteq submitted \cup {c} /\ asked' = asked + 1
           /\ inResponse' = {} /\ submitted' = {} /\ closed' = FALSE
        \/ /\ ~(closed /\ inResponse # {} /\ inResponse \subseteq submitted \cup {c})
           /\ asked' = asked /\ closed' = closed
           /\ inResponse' = inResponse /\ submitted' = submitted \cup {c}
    BY <1>1 DEF Turn, Follows
  <1>3. /\ worker' \in [Calls -> WorkerPlaces]
        /\ worker'[c] = IF asked' # asked THEN "ask" ELSE "end"
        /\ \A d \in Calls \ {c} : worker'[d] = worker[d]
    BY <1>1 DEF WorkerPlaces
  <1>4. SessionType'
    <2>1. inResponse' \subseteq Calls /\ submitted' \subseteq Calls /\ closed' \in BOOLEAN
      BY <1>1, <1>2
    <2>2. asked' \in Nat
      BY <1>1, <1>2
    <2>3. QED
      BY <1>1, <1>3, <2>1, <2>2 DEF SessionType
  <1>5. /\ \A f : Arriving(f)' = Arriving(f)
        /\ \A q : HoldsDone(q)' = HoldsDone(q) /\ \A d : HoldsCall(d)' = HoldsCall(d)
    BY <1>1 DEF Arriving, HoldsDone, HoldsCall, Holds
  <1>6. \A q : Pending(q)' = Pending(q)
    BY <1>1, <1>5 DEF Pending
  <1>7. FramesInOrder'
    BY <1>1, <1>5 DEF TurnInv, FramesInOrder
  <1>8. FrameHeld'
    BY <1>1, <1>5 DEF TurnInv, FrameHeld
  <1>9. TurnInOrder'
    <2>1. inResponse' \subseteq inResponse /\ (inResponse' # {} => closed' = closed)
      BY <1>2
    <2>2. closed' => ~(inResponse' \subseteq submitted')
      BY <1>2 DEF TurnInv, TurnInOrder
    <2>3. QED
      BY <1>1, <1>5, <1>6, <2>1, <2>2 DEF TurnInv, TurnInOrder
  <1>14. TurnEnded'
    BY <1>1, <1>2, <1>6 DEF TurnInv, TurnEnded
  <1>10. Over' = Over
    BY <1>1, <1>6 DEF Over
  <1>11. FollowUpsPaid'
    <2>1. asked' + (IF closed' THEN 1 ELSE 0) = asked + (IF closed THEN 1 ELSE 0)
      BY <1>1, <1>2
    <2>2. QED
      BY <1>10, <2>1 DEF TurnInv, FollowUpsPaid
  <1>12. Recorded'
    <2>1. CASE asked' = asked
      BY <2>1, <1>1, <1>2, <1>3 DEF TurnInv, Recorded
    <2>2. CASE asked' # asked
      BY <2>2, <1>2 DEF Recorded
    <2>3. QED
      BY <2>1, <2>2
  <1>13. QED
    BY <1>4, <1>7, <1>8, <1>9, <1>11, <1>12, <1>14 DEF TurnInv

LEMMA TurnStarts == Init => TurnInv
  <1> SUFFICES ASSUME Init PROVE TurnInv
    OBVIOUS
  <1>1. /\ response = 0 /\ open = FALSE /\ of = [c \in Calls |-> 0] /\ prompted = TRUE
        /\ wire = <<>> /\ DOMAIN wire = {} /\ conn = Idle /\ inResponse = {} /\ submitted = {}
        /\ closed = FALSE /\ worker = [c \in Calls |-> "idle"] /\ asked = 0
    BY DEF Init
  <1>2. conn \in ConnSet /\ conn.at = "select"
    BY <1>1, IdleFrame
  <1>3. SessionType
    <2>1. wire \in Seq({Call(c) : c \in Calls} \cup {Done(r) : r \in 1..response})
      BY <1>1
    <2>2. of \in [Calls -> 0..response] /\ worker \in [Calls -> WorkerPlaces]
      BY <1>1 DEF WorkerPlaces
    <2>3. QED
      BY <1>1, <1>2, <2>1, <2>2 DEF SessionType, ConnSet
  <1>4. FramesInOrder /\ FrameHeld /\ TurnInOrder /\ TurnEnded /\ Recorded
    BY <1>1, <1>2 DEF FramesInOrder, FrameHeld, TurnInOrder, TurnEnded, Recorded, Arriving, HoldsCall, HoldsDone, Holds
  <1>5. FollowUpsPaid
    BY <1>1, <1>3, OverFinite DEF FollowUpsPaid
  <1>6. QED
    BY <1>3, <1>4, <1>5 DEF TurnInv

LEMMA TurnStep == TurnInv /\ [Next]_vars => TurnInv'
  <1> SUFFICES ASSUME TurnInv, [Next]_vars PROVE TurnInv'
    OBVIOUS
  <1>1. CASE Server
    BY <1>1, ServerStartsKept, ServerCallsKept, ServerDoneKept DEF Server
  <1>2. CASE Connection \/ SocketEnds \/ ConnRefused
    BY <1>2, ConnectionAside, StartCallKept, ReadFrameKept, ResponseDoneKept DEF Connection
  <1>3. CASE Read \/ Cancel \/ Drop \/ AudioAcquires \/ AudioSends \/ AudioRefused
    BY <1>3, OthersAside
  <1>4. ASSUME NEW c \in Calls, AppAnswers(c) \/ ToolStops(c) \/ Worker(c) \/ Refused(c)
        PROVE  TurnInv'
    BY <1>4, OthersAside, RecordKept DEF Worker
  <1>6. CASE UNCHANGED vars
    <2>1. UNCHANGED <<response, open, of, wire, asked, turn, prompted, conn, worker>>
      BY <1>6 DEF vars, server
    <2>2. prompted \in BOOLEAN /\ worker \in [Calls -> WorkerPlaces]
      BY DEF TurnInv, SessionType
    <2>3. QED
      BY <2>1, <2>2, AsideKept
  <1>7. QED
    BY <1>1, <1>2, <1>3, <1>4, <1>6 DEF Next

THEOREM TurnInvariant == Spec => []TurnInv
  BY TurnStarts, TurnStep, PTL DEF Spec

(* However the outputs of the tools and the ends of the responses          *)
(* interleave, and even when the server starts responses by itself, the    *)
(* session asks for at most one follow-up per response that carried calls  *)
(* (ToolTurn::maybe_request_response).                                     *)
THEOREM FollowUpsOnce == Spec => []OneFollowUpPerResponse
  <1>1. TurnInv => OneFollowUpPerResponse
    <2> SUFFICES ASSUME TurnInv PROVE OneFollowUpPerResponse
      OBVIOUS
    <2> DEFINE Carried == {of[c] : c \in {d \in Calls : of[d] # 0}}
    <2>1. SessionType /\ response \in Nat /\ asked \in Nat
      BY DEF TurnInv, SessionType
    <2>2. Carried \subseteq 1..response
      BY <2>1 DEF SessionType
    <2>3. IsFiniteSet(Carried) /\ Cardinality(Carried) \in Nat
      <3>1. IsFiniteSet(1..response)
        BY <2>1, FS_Interval
      <3>2. QED
        BY <2>2, <3>1, FS_Subset, FS_CardinalityType
    <2>4. Over \subseteq Carried
      BY DEF Over
    <2>5. Cardinality(Over) <= Cardinality(Carried)
      BY <2>3, <2>4, FS_Subset
    <2>6. asked + (IF closed THEN 1 ELSE 0) <= Cardinality(Over) /\ Cardinality(Over) \in Nat
      BY <2>1, OverFinite DEF TurnInv, FollowUpsPaid
    <2> HIDE DEF Carried
    <2>7. asked <= Cardinality(Carried)
      BY <2>1, <2>3, <2>5, <2>6
    <2>8. QED
      BY <2>7 DEF OneFollowUpPerResponse, Carried
  <1>2. QED
    BY TurnInvariant, <1>1, PTL

-----------------------------------------------------------------------------
(* Responses that start only because a follow-up was asked for.            *)

\* Who the conversation waits for: the server, to start or to end a response,
\* the connection task, to read the end or to handle it, an output, or the task
\* that asks for the follow-up, until it is written.
Waits(k) ==
    \/ k = 1 /\ prompted
    \/ k = 2 /\ open
    \/ k = 3 /\ \E r \in 1..response : Arriving(Done(r))
    \/ k = 4 /\ \E r \in 1..response : HoldsDone(r)
    \/ k = 5 /\ closed
    \/ k = 6 /\ conn.at \in {"permit", "send"}
    \/ k = 7 /\ \E c \in Calls : worker[c] \in {"ask", "create"}
    \/ k = 8 /\ \E i \in DOMAIN outbound : outbound[i] = Create

\* It waits for one thing at a time, which is there once.
OneWait ==
    /\ outbound \in Seq(Messages)
    /\ \A k, l \in 1..8 : Waits(k) /\ Waits(l) => k = l
    /\ \A c, d \in Calls :
         worker[c] \in {"ask", "create"} /\ worker[d] \in {"ask", "create"} => c = d
    /\ \A i, j \in DOMAIN outbound : outbound[i] = Create /\ outbound[j] = Create => i = j
    /\ \A i, j \in DOMAIN wire, r, q \in 1..response :
         wire[i] = Done(r) /\ wire[j] = Done(q) => i = j

Rests == \A k \in 1..8 : Waits(k)' => Waits(k)
Passes(from, to) == Waits(from) /\ \A k \in 1..8 : Waits(k)' => k = to \/ (Waits(k) /\ k # from)

LEMMA OneAtATime ==
  ASSUME OneWait, NEW from \in 1..8, NEW to \in 1..8, Rests \/ Passes(from, to)
  PROVE  \A k, l \in 1..8 : Waits(k)' /\ Waits(l)' => k = l
  <1>1. CASE Rests
    BY <1>1 DEF OneWait, Rests
  <1>2. CASE Passes(from, to)
    <2>1. \A k \in 1..8 : Waits(k)' => k = to
      BY <1>2 DEF OneWait, Passes
    <2>2. QED
      BY <2>1
  <1>3. QED
    BY <1>1, <1>2

\* The cases of Waits that a proof names.
LEMMA Awaited ==
  /\ Waits(1) <=> prompted
  /\ Waits(2) <=> open
  /\ Waits(3) <=> \E r \in 1..response : Arriving(Done(r))
  /\ Waits(4) <=> \E r \in 1..response : HoldsDone(r)
  /\ Waits(5) <=> closed
  /\ Waits(6) <=> conn.at \in {"permit", "send"}
  /\ Waits(7) <=> \E c \in Calls : worker[c] \in {"ask", "create"}
  /\ Waits(8) <=> \E i \in DOMAIN outbound : outbound[i] = Create
  BY DEF Waits

LEMMA AwaitedNext ==
  /\ Waits(1)' <=> prompted'
  /\ Waits(2)' <=> open'
  /\ Waits(3)' <=> \E r \in 1..response' : Arriving(Done(r))'
  /\ Waits(4)' <=> \E r \in 1..response' : HoldsDone(r)'
  /\ Waits(5)' <=> closed'
  /\ Waits(6)' <=> conn'.at \in {"permit", "send"}
  /\ Waits(7)' <=> \E c \in Calls : worker'[c] \in {"ask", "create"}
  /\ Waits(8)' <=> \E i \in DOMAIN outbound' : outbound'[i] = Create
  BY DEF Waits

LEMMA EightCases == \A k \in 1..8 : k = 1 \/ k = 2 \/ k = 3 \/ k = 4 \/ k = 5 \/ k = 6 \/ k = 7 \/ k = 8
  OBVIOUS

\* A step that neither writes to the outbound queue nor reads the socket.
LEMMA InsideOne ==
  ASSUME OneWait, UNCHANGED <<response, outbound, wire>>,
         NEW from \in 1..8, NEW to \in 1..8, Rests \/ Passes(from, to),
         \A c, d \in Calls : worker'[c] \in {"ask", "create"} /\ worker'[d] \in {"ask", "create"} => c = d
  PROVE  OneWait'
  BY OneAtATime DEF OneWait

\* The connection task, but for what it reads, writes and decides.
LEMMA ConnectionOne ==
  ASSUME TurnInv, OneWait,
         \/ Close \/ EmitError \/ ConnAcquires \/ StartCall
         \/ EmitFailure \/ ConnRefused \/ Emit
  PROVE  OneWait'
  <1>1. /\ SessionType /\ conn \in ConnSet /\ response \in Nat
        /\ worker \in [Calls -> WorkerPlaces]
    BY DEF TurnInv, SessionType, ConnSet
  <1>2. \A place \in ConnPlaces : /\ [conn EXCEPT !.at = place] \in ConnSet
                                  /\ [conn EXCEPT !.at = place].at = place
    BY <1>1 DEF ConnSet
  <1>3. UNCHANGED <<response, open, prompted, wire, closed, outbound>>
    BY DEF Emit, Close, EmitError, ConnAcquires, StartCall, EmitFailure, ConnRefused, server, turn
  <1>4. \A c \in Calls : worker'[c] \in {"ask", "create"} => worker[c] \in {"ask", "create"}
    BY <1>1 DEF Emit, Close, EmitError, ConnAcquires, StartCall, EmitFailure, ConnRefused, WorkerPlaces
  <1>5. /\ \A r \in Nat : HoldsDone(r)' = HoldsDone(r)
        /\ conn'.at \in {"permit", "send"} => conn.at \in {"permit", "send"}
    <2>1. CASE Emit
      <3>1. conn.at = "emit" /\ conn' = [conn EXCEPT !.at = conn.frame[1]]
        BY <2>1 DEF Emit
      <3>2. conn.frame[1] \in {"call", "done"}
        BY <1>1, FrameFacts DEF ConnSet
      <3>3. conn'.at \in {"call", "done"}
        BY <1>2, <3>1, <3>2 DEF ConnPlaces
      <3>4. QED
        BY <1>3, <3>1, <3>3, ConnMoves
    <2>2. CASE Close \/ EmitError \/ ConnAcquires \/ StartCall \/ EmitFailure \/ ConnRefused
      <3>1. \/ /\ conn.at \in {"select", "error", "permit", "call", "failed", "send"}
               /\ \/ conn' = Idle
                  \/ conn' = [conn EXCEPT !.at = "ended"]
                  \/ conn' = [conn EXCEPT !.at = "error"]
            \/ conn.at = "permit" /\ conn' = [conn EXCEPT !.at = "send"]
        BY <2>2 DEF Close, EmitError, ConnAcquires, StartCall, EmitFailure, ConnRefused
      <3>2. /\ conn.at \in {"select", "error", "permit", "call", "failed", "send"}
            /\ conn' \in ConnSet /\ conn'.at \in {"select", "ended", "error", "send"}
            /\ conn'.at = "send" => conn.at = "permit"
        BY <1>1, <1>2, <3>1, IdleFrame DEF ConnPlaces
      <3>3. QED
        BY <1>3, <3>2, ConnMoves
    <2>3. QED
      BY <2>1, <2>2
  <1>6. Rests
    <2>1. (\E r \in 1..response' : Arriving(Done(r))') => \E r \in 1..response : Arriving(Done(r))
      BY <1>3 DEF Arriving
    <2>2. (\E r \in 1..response' : HoldsDone(r)') => \E r \in 1..response : HoldsDone(r)
      BY <1>1, <1>3, <1>5
    <2>3. (\E i \in DOMAIN outbound' : outbound'[i] = Create)
          => \E i \in DOMAIN outbound : outbound[i] = Create
      BY <1>3
    <2>4. QED
      BY <1>3, <1>4, <1>5, <2>1, <2>2, <2>3, Awaited, AwaitedNext, EightCases DEF Rests
  <1>7. QED
    BY <1>3, <1>4, <1>6, InsideOne DEF OneWait

\* The end of a response: an output is waited for, or the follow-up begins.
LEMMA ResponseDoneOne ==
  ASSUME TurnInv, OneWait, ResponseDone
  PROVE  OneWait'
  <1>1. /\ SessionType /\ conn \in ConnSet /\ response \in Nat /\ conn.at = "done" /\ asked \in Nat
        /\ UNCHANGED <<response, open, prompted, wire, worker, outbound>>
    BY DEF TurnInv, SessionType, ConnSet, ResponseDone, server
  <1>2. PICK r \in 1..response : HoldsDone(r)
    BY <1>1 DEF TurnInv, FrameHeld, HoldsDone, Holds
  <1>3. conn'.at \in {"select", "permit"} /\ (conn'.at = "permit" => asked' # asked)
    <2>1. [conn EXCEPT !.at = "permit"].at = "permit"
      BY <1>1 DEF ConnSet, ConnPlaces
    <2>2. QED
      BY <1>1, <2>1, IdleFrame DEF ResponseDone
  <1>4. \A q : ~HoldsDone(q)'
    BY <1>3 DEF HoldsDone, Holds
  <1>5. /\ asked' # asked => closed' = FALSE
        /\ inResponse = {} => closed' = closed
    BY <1>1 DEF ResponseDone, Turn, turn
  <1>6. /\ Waits(4) /\ ~Waits(4)' /\ (Waits(1)' => Waits(1)) /\ (Waits(2)' => Waits(2))
        /\ Waits(3)' => Waits(3)
        /\ Waits(7)' => Waits(7)
        /\ Waits(8)' => Waits(8)
    <2>1. (\E q \in 1..response' : Arriving(Done(q))') => \E q \in 1..response : Arriving(Done(q))
      BY <1>1 DEF Arriving
    <2>2. QED
      BY <1>1, <1>2, <1>4, <2>1, Awaited, AwaitedNext
  <1>7. Passes(4, 5) \/ Passes(4, 6)
    <2>1. CASE asked' # asked
      BY <1>5, <1>6, <2>1, AwaitedNext, EightCases DEF Passes
    <2>2. CASE asked' = asked
      BY <1>3, <1>6, <2>2, AwaitedNext, EightCases DEF Passes
    <2>3. QED
      BY <2>1, <2>2
  <1>8. QED
    BY <1>1, <1>7, InsideOne DEF OneWait

\* An output is recorded: the one waited for makes its task ask.
LEMMA RecordOne ==
  ASSUME TurnInv, OneWait, NEW c \in Calls, Record(c)
  PROVE  OneWait'
  <1>1. /\ SessionType /\ asked \in Nat /\ closed \in BOOLEAN
        /\ worker \in [Calls -> WorkerPlaces] /\ worker[c] = "record"
        /\ UNCHANGED <<response, open, prompted, wire, conn, outbound>>
    BY DEF TurnInv, SessionType, Record, server
  <1>2. /\ asked' # asked => closed /\ closed' = FALSE
        /\ asked' = asked => closed' = closed
    BY <1>1 DEF Record, Turn, Follows
  <1>3. /\ asked' # asked => worker'[c] = "ask"
        /\ asked' = asked => worker'[c] = "end"
        /\ \A d \in Calls \ {c} : worker'[d] = worker[d]
    BY <1>1 DEF Record
  <1>4. /\ Waits(1)' => Waits(1)
        /\ Waits(2)' => Waits(2)
        /\ Waits(3)' => Waits(3)
        /\ Waits(4)' => Waits(4)
        /\ Waits(6)' => Waits(6)
        /\ Waits(8)' => Waits(8)
    <2>1. (\E q \in 1..response' : Arriving(Done(q))') => \E q \in 1..response : Arriving(Done(q))
      BY <1>1 DEF Arriving
    <2>2. (\E q \in 1..response' : HoldsDone(q)') => \E q \in 1..response : HoldsDone(q)
      BY <1>1 DEF HoldsDone, Holds
    <2>3. QED
      BY <1>1, <2>1, <2>2, Awaited, AwaitedNext
  <1>5. CASE asked' # asked
    <2>1. Waits(5) /\ ~Waits(5)'
      BY <1>2, <1>5, Awaited, AwaitedNext
    <2>2. \A d \in Calls : worker[d] \notin {"ask", "create"}
      <3>1. ~Waits(7)
        BY <2>1 DEF OneWait
      <3>2. QED
        BY <3>1, Awaited
    <2>3. Passes(5, 7)
      BY <1>4, <2>1, EightCases DEF Passes
    <2>4. \A d \in Calls : worker'[d] \in {"ask", "create"} => d = c
      BY <1>3, <2>2
    <2>5. QED
      BY <1>1, <2>3, <2>4, InsideOne
  <1>6. CASE asked' = asked
    <2>1. \A d \in Calls : worker'[d] \in {"ask", "create"} => worker[d] \in {"ask", "create"}
      BY <1>3, <1>6
    <2>2. (Waits(5)' => Waits(5)) /\ (Waits(7)' => Waits(7))
      BY <1>2, <1>6, <2>1, Awaited, AwaitedNext
    <2>3. Rests
      BY <1>4, <2>2, EightCases DEF Rests
    <2>4. QED
      BY <1>1, <2>1, <2>3, InsideOne DEF OneWait
  <1>7. QED
    BY <1>5, <1>6

\* What the outbound queue holds besides the requests for a response.
LEMMA OtherMessages ==
  /\ Create \in Messages /\ <<"audio">> \in Messages /\ <<"audio">> # Create
  /\ \A c \in Calls : <<"output", c>> \in Messages /\ <<"output", c>> # Create
  BY DEF Create, Messages

\* A message is queued; a request only when none is there.
LEMMA QueuedOne ==
  ASSUME OneWait, NEW m \in Messages, outbound' = Append(outbound, m),
         UNCHANGED <<response, wire>>, m = Create => ~Waits(8),
         NEW from \in 1..8, NEW to \in 1..8, Rests \/ Passes(from, to),
         \A c, d \in Calls : worker'[c] \in {"ask", "create"} /\ worker'[d] \in {"ask", "create"} => c = d
  PROVE  OneWait'
  <1> DEFINE n == Len(outbound)
  <1>1. outbound \in Seq(Messages)
    BY DEF OneWait
  <1>2. /\ outbound' \in Seq(Messages) /\ n \in Nat
        /\ DOMAIN outbound' = 1..(n + 1) /\ DOMAIN outbound = 1..n
        /\ \A k \in 1..n : outbound'[k] = outbound[k]
        /\ outbound'[n + 1] = m
    BY <1>1, Grown
  <1> HIDE DEF n
  <1>3. m = Create => \A i \in DOMAIN outbound : outbound[i] # Create
    BY Awaited
  <1>4. \A i, j \in DOMAIN outbound' : outbound'[i] = Create /\ outbound'[j] = Create => i = j
    <2> SUFFICES ASSUME NEW i \in DOMAIN outbound', NEW j \in DOMAIN outbound',
                        outbound'[i] = Create, outbound'[j] = Create
                 PROVE  i = j
      OBVIOUS
    <2>1. CASE m = Create
      <3>1. \A k \in DOMAIN outbound' : outbound'[k] = Create => k = n + 1
        BY <2>1, <1>2, <1>3
      <3>2. QED
        BY <3>1
    <2>2. CASE m # Create
      <3>1. i \in 1..n /\ j \in 1..n
        BY <2>2, <1>2
      <3>2. QED
        BY <3>1, <1>2 DEF OneWait
    <2>3. QED
      BY <2>1, <2>2
  <1>5. QED
    BY <1>2, <1>4, OneAtATime DEF OneWait

\* The same requests are there when another message is queued.
LEMMA OtherQueued ==
  ASSUME OneWait, NEW m \in Messages, m # Create, outbound' = Append(outbound, m)
  PROVE  Waits(8)' => Waits(8)
  <1>1. outbound \in Seq(Messages)
    BY DEF OneWait
  <1>2. /\ DOMAIN outbound' = 1..(Len(outbound) + 1) /\ DOMAIN outbound = 1..Len(outbound)
        /\ Len(outbound) \in Nat
        /\ \A k \in 1..Len(outbound) : outbound'[k] = outbound[k]
        /\ outbound'[Len(outbound) + 1] = m
    BY <1>1, Grown
  <1>3. QED
    BY <1>2, Awaited, AwaitedNext

LEMMA ConnSendsOne ==
  ASSUME TurnInv, OneWait, ConnSends
  PROVE  OneWait'
  <1>1. /\ SessionType /\ conn.at = "send" /\ conn' = Idle /\ outbound' = Append(outbound, Create)
        /\ UNCHANGED <<response, open, prompted, wire, closed, worker>> /\ response \in Nat
    BY DEF TurnInv, SessionType, ConnSends, Create, server, turn
  <1>2. Waits(6) /\ ~Waits(8)
    <2>1. Waits(6)
      BY <1>1, Awaited
    <2>2. QED
      BY <2>1 DEF OneWait
  <1>3. Passes(6, 8)
    <2>1. /\ (Waits(1)' => Waits(1)) /\ (Waits(2)' => Waits(2))
          /\ (Waits(5)' => Waits(5)) /\ (Waits(7)' => Waits(7))
      BY <1>1, Awaited, AwaitedNext
    <2>2. Waits(3)' => Waits(3)
      BY <1>1, Awaited, AwaitedNext DEF Arriving
    <2>3. ~Waits(4)' /\ ~Waits(6)'
      BY <1>1, IdleFrame, AwaitedNext DEF HoldsDone, Holds
    <2>4. QED
      BY <1>2, <2>1, <2>2, <2>3, EightCases DEF Passes
  <1>4. QED
    BY <1>1, <1>2, <1>3, OtherMessages, QueuedOne DEF OneWait

LEMMA SendOne ==
  ASSUME TurnInv, OneWait, NEW c \in Calls, Send(c)
  PROVE  OneWait'
  <1>1. /\ SessionType /\ worker \in [Calls -> WorkerPlaces]
        /\ UNCHANGED <<response, open, prompted, wire, conn, closed>>
    BY DEF TurnInv, SessionType, Send, server, turn
  <1>2. /\ Waits(1)' => Waits(1)
        /\ Waits(2)' => Waits(2)
        /\ Waits(3)' => Waits(3)
        /\ Waits(4)' => Waits(4)
        /\ Waits(5)' => Waits(5)
        /\ Waits(6)' => Waits(6)
    <2>1. (\E q \in 1..response' : Arriving(Done(q))') => \E q \in 1..response : Arriving(Done(q))
      BY <1>1 DEF Arriving
    <2>2. (\E q \in 1..response' : HoldsDone(q)') => \E q \in 1..response : HoldsDone(q)
      BY <1>1 DEF HoldsDone, Holds
    <2>3. QED
      BY <1>1, <2>1, <2>2, Awaited, AwaitedNext
  <1>3. CASE worker[c] = "send"
    <2>1. /\ outbound' = Append(outbound, <<"output", c>>)
          /\ worker' = [worker EXCEPT ![c] = "record"]
      BY <1>3 DEF Send
    <2>2. \A d \in Calls : worker'[d] \in {"ask", "create"} => worker[d] \in {"ask", "create"}
      BY <1>1, <2>1
    <2>3. (Waits(7)' => Waits(7)) /\ (Waits(8)' => Waits(8))
      BY <2>1, <2>2, Awaited, AwaitedNext, OtherQueued, OtherMessages
    <2>4. Rests \/ Passes(1, 1)
      BY <1>2, <2>3, EightCases DEF Rests
    <2>5. \A d, e \in Calls : worker'[d] \in {"ask", "create"} /\ worker'[e] \in {"ask", "create"} => d = e
      BY <2>2 DEF OneWait
    <2>6. ASSUME NEW m \in Messages, m = <<"output", c>>, m # Create PROVE OneWait'
      BY <2>6, <1>1, <2>1, <2>4, <2>5, QueuedOne
    <2>7. QED
      BY <2>6, OtherMessages
  <1>4. CASE worker[c] = "create"
    <2>1. /\ outbound' = Append(outbound, Create)
          /\ worker' = [worker EXCEPT ![c] = "end"]
      BY <1>4 DEF Send, Create
    <2>2. Waits(7) /\ ~Waits(8)
      <3>1. Waits(7)
        BY <1>4, Awaited
      <3>2. QED
        BY <3>1 DEF OneWait
    <2>3. \A d \in Calls : worker'[d] \notin {"ask", "create"}
      BY <1>1, <1>4, <2>1 DEF OneWait
    <2>4. Passes(7, 8)
      BY <1>2, <2>2, <2>3, AwaitedNext, EightCases DEF Passes
    <2>5. QED
      BY <1>1, <2>1, <2>2, <2>3, <2>4, OtherMessages, QueuedOne
  <1>5. QED
    BY <1>3, <1>4 DEF Send

LEMMA AudioSendsOne ==
  ASSUME TurnInv, OneWait, AudioSends
  PROVE  OneWait'
  <1>1. /\ UNCHANGED <<response, open, prompted, wire, conn, closed, worker>>
        /\ outbound' = Append(outbound, <<"audio">>)
    BY DEF AudioSends, server, turn
  <1>2. /\ Waits(1)' => Waits(1)
        /\ Waits(2)' => Waits(2)
        /\ Waits(3)' => Waits(3)
        /\ Waits(4)' => Waits(4)
        /\ Waits(5)' => Waits(5)
        /\ Waits(6)' => Waits(6)
        /\ Waits(7)' => Waits(7)
    <2>1. (\E q \in 1..response' : Arriving(Done(q))') => \E q \in 1..response : Arriving(Done(q))
      BY <1>1 DEF Arriving
    <2>2. (\E q \in 1..response' : HoldsDone(q)') => \E q \in 1..response : HoldsDone(q)
      BY <1>1 DEF HoldsDone, Holds
    <2>3. QED
      BY <1>1, <2>1, <2>2, Awaited, AwaitedNext
  <1>3. Waits(8)' => Waits(8)
    BY <1>1, OtherMessages, OtherQueued
  <1>4. Rests \/ Passes(1, 1)
    BY <1>2, <1>3, EightCases DEF Rests
  <1>5. \A d, e \in Calls : worker'[d] \in {"ask", "create"} /\ worker'[e] \in {"ask", "create"} => d = e
    BY <1>1 DEF OneWait
  <1>6. QED
    BY <1>1, <1>4, <1>5, OtherMessages, QueuedOne

\* A message is written: a request for a response reaches the server.
LEMMA WriteOutOne ==
  ASSUME TurnInv, OneWait, WriteOut
  PROVE  OneWait'
  <1>1. /\ UNCHANGED <<response, open, wire, conn, closed, worker>>
        /\ outbound # <<>> /\ outbound' = Tail(outbound) /\ outbound \in Seq(Messages)
        /\ prompted' = TRUE \/ prompted' = prompted
        /\ Head(outbound) # Create => prompted' = prompted
    BY DEF WriteOut, turn, OneWait, Create
  <1> DEFINE n == Len(outbound)
  <1>2. /\ outbound' \in Seq(Messages) /\ Head(outbound) = outbound[1]
        /\ DOMAIN outbound' = 1..(n - 1) /\ DOMAIN outbound = 1..n /\ n \in Nat /\ n > 0
        /\ \A k \in 1..(n - 1) : outbound'[k] = outbound[k + 1]
    BY <1>1, Shortened
  <1> HIDE DEF n
  <1>3. /\ Waits(2)' => Waits(2)
        /\ Waits(3)' => Waits(3)
        /\ Waits(4)' => Waits(4)
        /\ Waits(5)' => Waits(5)
        /\ Waits(6)' => Waits(6)
        /\ Waits(7)' => Waits(7)
    <2>1. (\E q \in 1..response' : Arriving(Done(q))') => \E q \in 1..response : Arriving(Done(q))
      BY <1>1 DEF Arriving
    <2>2. (\E q \in 1..response' : HoldsDone(q)') => \E q \in 1..response : HoldsDone(q)
      BY <1>1 DEF HoldsDone, Holds
    <2>3. QED
      BY <1>1, <2>1, <2>2, Awaited, AwaitedNext
  <1>4. \A i, j \in DOMAIN outbound' : outbound'[i] = Create /\ outbound'[j] = Create => i = j
    <2>1. ASSUME NEW i \in DOMAIN outbound', NEW j \in DOMAIN outbound',
                 outbound'[i] = Create, outbound'[j] = Create
          PROVE  i = j
      <3>1. /\ i + 1 \in DOMAIN outbound /\ j + 1 \in DOMAIN outbound
            /\ outbound[i + 1] = Create /\ outbound[j + 1] = Create
        BY <2>1, <1>2
      <3>2. i + 1 = j + 1 /\ i \in Nat /\ j \in Nat
        BY <3>1, <2>1, <1>2 DEF OneWait
      <3>3. QED
        BY <3>2
    <2>2. QED
      BY <2>1
  <1>5. Waits(8)' => Waits(8)
    <2> SUFFICES ASSUME NEW i \in DOMAIN outbound', outbound'[i] = Create PROVE Waits(8)
      BY AwaitedNext
    <2>1. i + 1 \in DOMAIN outbound /\ outbound[i + 1] = Create
      BY <1>2
    <2>2. QED
      BY <2>1, Awaited
  <1>6. CASE Head(outbound) = Create
    <2>1. 1 \in DOMAIN outbound /\ outbound[1] = Create
      BY <1>2, <1>6
    <2>2. ~Waits(8)'
      <3> SUFFICES ASSUME NEW i \in DOMAIN outbound', outbound'[i] = Create PROVE FALSE
        BY AwaitedNext
      <3>1. i + 1 \in DOMAIN outbound /\ outbound[i + 1] = Create /\ i + 1 # 1
        BY <1>2
      <3>2. QED
        BY <2>1, <3>1 DEF OneWait
    <2>3. Waits(8)
      BY <2>1, Awaited
    <2>4. Passes(8, 1)
      BY <1>3, <2>2, <2>3, EightCases DEF Passes
    <2>5. QED
      BY <1>1, <1>2, <1>4, <2>4, OneAtATime DEF OneWait
  <1>7. CASE Head(outbound) # Create
    <2>1. Waits(1)' => Waits(1)
      BY <1>1, <1>7, Awaited, AwaitedNext
    <2>2. Rests
      BY <1>3, <1>5, <2>1, EightCases DEF Rests
    <2>3. QED
      BY <1>1, <1>2, <1>4, <2>2, OneAtATime DEF OneWait
  <1>8. QED
    BY <1>6, <1>7

-----------------------------------------------------------------------------
\* What the server sends and the connection task reads.

LEMMA ServerStartsOne ==
  ASSUME TurnInv, OneWait, ~detection, ServerStarts
  PROVE  OneWait'
  <1>1. /\ SessionType /\ response \in Nat /\ prompted /\ ~open /\ response' = response + 1 /\ prompted' = FALSE
        /\ UNCHANGED <<of, wire, conn, turn, worker, asked, outbound>>
    BY DEF TurnInv, SessionType, ServerStarts
  <1>2. ~Arriving(Done(response')) /\ ~HoldsDone(response')
    BY <1>1, EndsOfStarted
  <1>3. \A r \in 1..response' : r \in 1..response \/ r = response'
    BY <1>1
  <1>4. /\ \A f : Arriving(f)' = Arriving(f)
        /\ \A r : HoldsDone(r)' = HoldsDone(r)
    BY <1>1 DEF Arriving, HoldsDone, Holds
  <1>5. Passes(1, 2)
    <2>1. Waits(1) /\ ~Waits(1)'
      BY <1>1, Awaited, AwaitedNext
    <2>2. (Waits(3)' => Waits(3)) /\ (Waits(4)' => Waits(4))
      BY <1>2, <1>3, <1>4, Awaited, AwaitedNext
    <2>3. /\ (Waits(5)' => Waits(5)) /\ (Waits(6)' => Waits(6))
          /\ (Waits(7)' => Waits(7)) /\ (Waits(8)' => Waits(8))
      BY <1>1, Awaited, AwaitedNext DEF turn
    <2>4. QED
      BY <2>1, <2>2, <2>3, EightCases DEF Passes
  <1>6. \A k, l \in 1..8 : Waits(k)' /\ Waits(l)' => k = l
    BY <1>5, OneAtATime
  <1>7. \A i, j \in DOMAIN wire', r, q \in 1..response' :
           wire'[i] = Done(r) /\ wire'[j] = Done(q) => i = j
    <2>1. \A i \in DOMAIN wire, r \in 1..response' : wire[i] = Done(r) => r \in 1..response
      BY <1>2, <1>3 DEF Arriving
    <2>2. QED
      BY <1>1, <2>1 DEF OneWait
  <1>8. QED
    BY <1>1, <1>6, <1>7 DEF OneWait

LEMMA ServerSendsOne ==
  ASSUME TurnInv, OneWait, ServerDone \/ \E c \in Calls : ServerCalls(c)
  PROVE  OneWait'
  <1>1. /\ SessionType /\ response \in Nat /\ response # 0 /\ open = TRUE
        /\ UNCHANGED <<response, prompted, conn, closed, worker, outbound>>
        /\ wire \in Seq(FrameSet) /\ response \in 1..response
    BY DEF TurnInv, SessionType, ServerDone, ServerCalls, turn, FrameSet
  <1>2. Waits(2) /\ ~Waits(3)
    <2>1. Waits(2)
      BY <1>1, Awaited
    <2>2. QED
      BY <2>1 DEF OneWait
  <1>3. \A r \in 1..response : ~Arriving(Done(r))
    BY <1>2, Awaited
  <1>4. /\ Waits(1)' => Waits(1)
        /\ Waits(4)' => Waits(4)
        /\ Waits(5)' => Waits(5)
        /\ Waits(6)' => Waits(6)
        /\ Waits(7)' => Waits(7)
        /\ Waits(8)' => Waits(8)
    <2>1. (\E q \in 1..response' : HoldsDone(q)') => \E q \in 1..response : HoldsDone(q)
      BY <1>1 DEF HoldsDone, Holds
    <2>2. QED
      BY <1>1, <2>1, Awaited, AwaitedNext
  <1>5. CASE ServerDone
    <2>1. wire' = Append(wire, Done(response)) /\ open' = FALSE /\ Done(response) \in FrameSet
      BY <1>1, <1>5 DEF ServerDone, Done, FrameSet
    <2>2. /\ DOMAIN wire' = 1..(Len(wire) + 1) /\ DOMAIN wire = 1..Len(wire) /\ Len(wire) \in Nat
          /\ \A k \in 1..Len(wire) : wire'[k] = wire[k]
      BY <1>1, <2>1, Grown
    <2>3. Passes(2, 3)
      BY <1>2, <1>4, <2>1, AwaitedNext, EightCases DEF Passes
    <2>4. \A i \in DOMAIN wire', r \in 1..response' : wire'[i] = Done(r) => i = Len(wire) + 1
      <3> SUFFICES ASSUME NEW i \in DOMAIN wire', NEW r \in 1..response, wire'[i] = Done(r)
                   PROVE  i \notin 1..Len(wire)
        BY <1>1, <2>2
      <3>1. QED
        BY <1>3, <2>2 DEF Arriving
    <2>5. QED
      BY <1>1, <2>3, <2>4, OneAtATime DEF OneWait
  <1>6. ASSUME NEW c \in Calls, ServerCalls(c) PROVE OneWait'
    <2>1. wire' = Append(wire, Call(c)) /\ open' = open /\ Call(c) \in FrameSet
      BY <1>1, <1>6 DEF ServerCalls, Call, FrameSet
    <2>2. /\ DOMAIN wire' = 1..(Len(wire) + 1) /\ DOMAIN wire = 1..Len(wire) /\ Len(wire) \in Nat
          /\ \A k \in 1..Len(wire) : wire'[k] = wire[k]
          /\ wire'[Len(wire) + 1] = Call(c)
      BY <1>1, <2>1, Grown
    <2>3. \A i \in DOMAIN wire', r \in 1..response' : wire'[i] # Done(r)
      <3> SUFFICES ASSUME NEW i \in DOMAIN wire', NEW r \in 1..response, wire'[i] = Done(r)
                   PROVE  FALSE
        BY <1>1
      <3>1. i \in 1..Len(wire)
        BY <2>2, FrameFacts
      <3>2. QED
        BY <3>1, <1>3, <2>2 DEF Arriving
    <2>4. ~Waits(3)' /\ (Waits(2)' => Waits(2))
      BY <1>2, <2>3, AwaitedNext DEF Arriving
    <2>5. Rests \/ Passes(1, 1)
      BY <1>4, <2>4, EightCases DEF Rests
    <2>6. QED
      BY <1>1, <2>3, <2>5, OneAtATime DEF OneWait
  <1>7. QED
    BY <1>5, <1>6

LEMMA ReadFrameOne ==
  ASSUME TurnInv, OneWait, ReadFrame
  PROVE  OneWait'
  <1>1. /\ SessionType /\ response \in Nat /\ conn.at = "select" /\ wire # <<>>
        /\ conn' = [at |-> "emit", frame |-> Head(wire)] /\ wire' = Tail(wire)
        /\ UNCHANGED <<response, open, prompted, closed, worker, outbound>>
        /\ wire \in Seq(FrameSet)
    BY DEF TurnInv, SessionType, ReadFrame, turn, FrameSet
  <1> DEFINE n == Len(wire)
  <1>2. /\ Head(wire) = wire[1] /\ wire[1] \in FrameSet
        /\ DOMAIN wire' = 1..(n - 1) /\ DOMAIN wire = 1..n /\ n \in Nat /\ n > 0
        /\ \A k \in 1..(n - 1) : wire'[k] = wire[k + 1]
    BY <1>1, Shortened
  <1> HIDE DEF n
  <1>3. \A i \in DOMAIN wire' : i + 1 \in DOMAIN wire /\ wire'[i] = wire[i + 1] /\ i \in Nat /\ i > 0
    BY <1>2
  <1>4. /\ Waits(1)' => Waits(1)
        /\ Waits(2)' => Waits(2)
        /\ Waits(5)' => Waits(5)
        /\ ~Waits(6)'
        /\ Waits(7)' => Waits(7)
        /\ Waits(8)' => Waits(8)
    BY <1>1, Awaited, AwaitedNext
  <1>5. Waits(3)' => Waits(3)
    <2> SUFFICES ASSUME NEW r \in 1..response, NEW i \in DOMAIN wire', wire'[i] = Done(r)
                 PROVE  Arriving(Done(r))
      BY <1>1, Awaited, AwaitedNext DEF Arriving
    <2>1. QED
      BY <1>3 DEF Arriving
  <1>6. \A i, j \in DOMAIN wire', r, q \in 1..response' :
           wire'[i] = Done(r) /\ wire'[j] = Done(q) => i = j
    <2> SUFFICES ASSUME NEW i \in DOMAIN wire', NEW j \in DOMAIN wire',
                        NEW r \in 1..response, NEW q \in 1..response,
                        wire'[i] = Done(r), wire'[j] = Done(q)
                 PROVE  i = j
      BY <1>1
    <2>1. i + 1 = j + 1
      BY <1>3 DEF OneWait
    <2>2. QED
      BY <2>1, <1>3
  <1>7. CASE \E r \in 1..response : wire[1] = Done(r)
    <2>1. PICK r \in 1..response : wire[1] = Done(r)
      BY <1>7
    <2>2. 1 \in DOMAIN wire
      BY <1>2
    <2>3. Waits(3)
      BY <2>1, <2>2, Awaited DEF Arriving
    <2>4. ~Waits(3)'
      <3> SUFFICES ASSUME NEW q \in 1..response, NEW i \in DOMAIN wire', wire'[i] = Done(q)
                   PROVE  FALSE
        BY <1>1, AwaitedNext DEF Arriving
      <3>1. i + 1 = 1
        BY <1>3, <2>1, <2>2 DEF OneWait
      <3>2. QED
        BY <3>1, <1>3
    <2>5. Passes(3, 4)
      BY <1>4, <2>3, <2>4, EightCases DEF Passes
    <2>6. QED
      BY <1>1, <1>6, <2>5, OneAtATime DEF OneWait
  <1>8. CASE ~\E r \in 1..response : wire[1] = Done(r)
    <2>1. ~Waits(4)'
      BY <1>1, <1>2, <1>8, AwaitedNext DEF HoldsDone, Holds
    <2>2. Rests \/ Passes(1, 1)
      BY <1>4, <1>5, <2>1, EightCases DEF Rests
    <2>3. QED
      BY <1>1, <1>6, <2>2, OneAtATime DEF OneWait
  <1>9. QED
    BY <1>7, <1>8

LEMMA OthersOne ==
  ASSUME TurnInv, OneWait,
         \/ Read \/ Cancel \/ AudioAcquires \/ AudioRefused
         \/ \E c \in Calls : \/ AppAnswers(c) \/ ToolStops(c) \/ Acquire(c)
                             \/ GiveUp(c) \/ Refused(c)
         \/ UNCHANGED vars
  PROVE  OneWait'
  <1>1. /\ UNCHANGED <<response, open, prompted, wire, conn, closed, outbound>>
        /\ worker \in [Calls -> WorkerPlaces]
    BY DEF Read, Cancel, AudioAcquires, AudioRefused, AppAnswers, ToolStops, Acquire, GiveUp, Refused, vars, 
           server, turn, TurnInv, SessionType
  <1>2. \A c \in Calls : worker'[c] \in {"ask", "create"} => worker[c] \in {"ask", "create"}
    BY <1>1 DEF Read, Cancel, AudioAcquires, AudioRefused, AppAnswers, ToolStops, Acquire, GiveUp, Refused, vars
  <1>3. /\ Waits(1)' => Waits(1)
        /\ Waits(2)' => Waits(2)
        /\ Waits(3)' => Waits(3)
        /\ Waits(4)' => Waits(4)
        /\ Waits(5)' => Waits(5)
        /\ Waits(6)' => Waits(6)
        /\ Waits(7)' => Waits(7)
        /\ Waits(8)' => Waits(8)
    <2>1. (\E q \in 1..response' : Arriving(Done(q))') => \E q \in 1..response : Arriving(Done(q))
      BY <1>1 DEF Arriving
    <2>2. (\E q \in 1..response' : HoldsDone(q)') => \E q \in 1..response : HoldsDone(q)
      BY <1>1 DEF HoldsDone, Holds
    <2>3. QED
      BY <1>1, <1>2, <2>1, <2>2, Awaited, AwaitedNext
  <1>4. Rests \/ Passes(1, 1)
    BY <1>3, EightCases DEF Rests
  <1>5. QED
    BY <1>1, <1>2, <1>4, InsideOne DEF OneWait

\* Messages are lost with the queue, or with the socket.
LEMMA LostOne ==
  ASSUME TurnInv, OneWait, SocketEnds \/ Drop
  PROVE  OneWait'
  <1>1. /\ UNCHANGED <<response, open, prompted, wire, closed, worker>>
        /\ conn \in ConnSet /\ (conn.at = "select" \/ conn' = conn)
        /\ outbound \in Seq(Messages)
    BY DEF SocketEnds, Drop, server, turn, OneWait, TurnInv, SessionType, ConnSet
  <1>2. conn' = conn \/ (conn'.at \in {"ended", "failed"} /\ conn'.frame = conn.frame)
    BY <1>1 DEF SocketEnds, Drop, ConnSet, ConnPlaces
  <1>3. outbound' = <<>> \/ (outbound # <<>> /\ outbound' = Tail(outbound))
    BY DEF SocketEnds, Drop
  <1>4. /\ outbound' \in Seq(Messages)
        /\ \E k \in {0, 1} : \A i \in DOMAIN outbound' :
             i \in Nat /\ i + k \in DOMAIN outbound /\ outbound'[i] = outbound[i + k]
    <2>1. CASE outbound' = <<>>
      BY <2>1
    <2>2. CASE outbound # <<>> /\ outbound' = Tail(outbound)
      <3>1. /\ outbound' \in Seq(Messages) /\ DOMAIN outbound' = 1..(Len(outbound) - 1)
            /\ DOMAIN outbound = 1..Len(outbound) /\ Len(outbound) \in Nat
            /\ \A k \in 1..(Len(outbound) - 1) : outbound'[k] = outbound[k + 1]
        BY <1>1, <2>2, Shortened
      <3>2. \A i \in DOMAIN outbound' :
               i \in Nat /\ i + 1 \in DOMAIN outbound /\ outbound'[i] = outbound[i + 1]
        BY <3>1
      <3>3. QED
        BY <3>1, <3>2
    <2>3. QED
      BY <1>3, <2>1, <2>2
  <1>5. PICK k \in {0, 1} : \A i \in DOMAIN outbound' :
           i \in Nat /\ i + k \in DOMAIN outbound /\ outbound'[i] = outbound[i + k]
    BY <1>4
  <1>6. \A i, j \in DOMAIN outbound' : outbound'[i] = Create /\ outbound'[j] = Create => i = j
    <2> SUFFICES ASSUME NEW i \in DOMAIN outbound', NEW j \in DOMAIN outbound',
                        outbound'[i] = Create, outbound'[j] = Create
                 PROVE  i = j
      OBVIOUS
    <2>1. i + k = j + k
      BY <1>5 DEF OneWait
    <2>2. QED
      BY <1>5, <2>1
  <1>7. /\ Waits(1)' => Waits(1)
        /\ Waits(2)' => Waits(2)
        /\ Waits(3)' => Waits(3)
        /\ Waits(4)' => Waits(4)
        /\ Waits(5)' => Waits(5)
        /\ Waits(6)' => Waits(6)
        /\ Waits(7)' => Waits(7)
        /\ Waits(8)' => Waits(8)
    <2>1. (\E q \in 1..response' : Arriving(Done(q))') => \E q \in 1..response : Arriving(Done(q))
      BY <1>1 DEF Arriving
    <2>2. (\E q \in 1..response' : HoldsDone(q)') => \E q \in 1..response : HoldsDone(q)
      BY <1>1, <1>2 DEF HoldsDone, Holds
    <2>3. (\E i \in DOMAIN outbound' : outbound'[i] = Create)
          => \E i \in DOMAIN outbound : outbound[i] = Create
      BY <1>5
    <2>4. conn'.at \in {"permit", "send"} => conn.at \in {"permit", "send"}
      BY <1>2
    <2>5. QED
      BY <1>1, <2>1, <2>2, <2>3, <2>4, Awaited, AwaitedNext
  <1>8. Rests \/ Passes(1, 1)
    BY <1>7, EightCases DEF Rests
  <1>9. \A l, m \in 1..8 : Waits(l)' /\ Waits(m)' => l = m
    BY <1>8, OneAtATime
  <1>10. QED
    BY <1>1, <1>4, <1>6, <1>9 DEF OneWait

LEMMA OneWaitStarts == Init => OneWait
  <1> SUFFICES ASSUME Init PROVE OneWait
    OBVIOUS
  <1>1. /\ open = FALSE /\ wire = <<>> /\ DOMAIN wire = {} /\ conn = Idle /\ closed = FALSE
        /\ worker = [c \in Calls |-> "idle"] /\ outbound = <<>> /\ DOMAIN outbound = {} /\ response = 0
    BY DEF Init
  <1>2. conn.at = "select"
    BY <1>1, IdleFrame
  <1>3. \A k \in 1..8 : Waits(k) => k = 1
    BY <1>1, <1>2, Awaited, EightCases DEF Arriving, HoldsDone, Holds
  <1>4. \A k, l \in 1..8 : Waits(k) /\ Waits(l) => k = l
    BY <1>3
  <1>5. QED
    BY <1>1, <1>4 DEF OneWait

LEMMA OneWaitStep == ~detection /\ TurnInv /\ OneWait /\ [Next]_vars => OneWait'
  <1> SUFFICES ASSUME ~detection, TurnInv, OneWait, [Next]_vars PROVE OneWait'
    OBVIOUS
  <1>1. CASE Server
    BY <1>1, ServerStartsOne, ServerSendsOne DEF Server
  <1>2. CASE Connection \/ SocketEnds \/ ConnRefused
    BY <1>2, ConnectionOne, WriteOutOne, ReadFrameOne, ResponseDoneOne, ConnSendsOne, LostOne
       DEF Connection
  <1>3. CASE \/ Read \/ Cancel \/ Drop \/ AudioAcquires \/ AudioSends \/ AudioRefused
             \/ UNCHANGED vars
    BY <1>3, OthersOne, AudioSendsOne, LostOne
  <1>4. ASSUME NEW c \in Calls, AppAnswers(c) \/ ToolStops(c) \/ Worker(c) \/ Refused(c)
        PROVE  OneWait'
    BY <1>4, OthersOne, SendOne, RecordOne DEF Worker
  <1>5. QED
    BY <1>1, <1>2, <1>3, <1>4 DEF Next

\* Whether the server starts responses by itself does not change.
LEMMA DetectionKept == [Next]_vars => detection' = detection
  BY DEF Next, Server, Connection, Worker, vars, server, ServerStarts, ServerDone, SocketEnds, Read,
         Cancel, Drop, AudioAcquires, AudioSends, AudioRefused, ServerCalls, AppAnswers, ToolStops,
         Close, WriteOut, ReadFrame, Emit, StartCall, EmitError, EmitFailure, ResponseDone,
         ConnAcquires, ConnSends, ConnRefused, Acquire, Send, Record, GiveUp, Refused

SessionInv == TurnInv /\ (~detection => OneWait)

\* What has been done and is done with has been handled.
LEMMA DoneIsHandled ==
  ASSUME TurnInv, NEW r \in 1..response,
         ~Pending(r) \/ (conn.at = "done" /\ conn.frame = Done(r))
  PROVE  Handled(r)
  <1>1. response \in Nat /\ (conn.frame = Done(r) => conn.frame = <<"done", r>>)
    BY DEF TurnInv, SessionType, Done
  <1>2. CASE ~Pending(r)
    BY <1>1, <1>2 DEF Pending, Handled, Arriving, HoldsDone, Holds, Done
  <1>3. CASE conn.at = "done" /\ conn.frame = Done(r)
    <2>1. /\ r # response \/ ~open
          /\ \A q \in 1..response : Arriving(Done(q)) => r < q
      BY <1>3 DEF TurnInv, FrameHeld, HoldsDone, Holds
    <2>2. ~Arriving(Done(r))
      BY <1>1, <2>1
    <2>3. QED
      BY <1>1, <1>3, <2>1, <2>2 DEF Handled, Arriving, Done
  <1>4. QED
    BY <1>2, <1>3

\* When a follow-up is decided on, each call of the turn has an output, and
\* the first response among theirs is done.
LEMMA FollowUpStep ==
  ASSUME SessionInv, [Next]_vars, asked' # asked
  PROVE  /\ \A c \in inResponse : Answered(c)
         /\ \E d \in inResponse :
              /\ Handled(of[d])
              /\ \A c \in inResponse : Handled(of[c]) \/ (detection /\ of[c] > of[d])
  <1>1. /\ TurnInv /\ response \in Nat
        /\ inResponse \subseteq Calls /\ submitted \subseteq Calls /\ closed \in BOOLEAN
    BY DEF SessionInv, TurnInv, SessionType
  <1>2. \A c \in inResponse : of[c] \in 1..response
    BY <1>1 DEF TurnInv, TurnInOrder, SessionType
  <1>3. ResponseDone \/ \E d \in Calls : Record(d)
    BY DEF Next, Server, Connection, Worker, vars, ServerStarts, ServerDone, SocketEnds, Read,
           Cancel, Drop, AudioAcquires, AudioSends, AudioRefused, ServerCalls, AppAnswers,
           ToolStops, Close, WriteOut, ReadFrame, Emit, StartCall, EmitError, EmitFailure,
           ConnAcquires, ConnSends, ConnRefused, Acquire, Send, GiveUp, Refused
  <1>4. /\ inResponse # {}
        /\ \A c \in inResponse : Answered(c)
        /\ closed \/ (conn.at = "done" /\ ResponseDone)
    <2>1. CASE ResponseDone
      BY <1>1, <2>1 DEF ResponseDone, Turn, Follows, TurnInv, Recorded, Answered
    <2>2. ASSUME NEW d \in Calls, Record(d)
          PROVE  inResponse # {} /\ closed /\ \A c \in inResponse : Answered(c)
      BY <1>1, <2>2 DEF Record, Turn, Follows, TurnInv, Recorded, Answered
    <2>3. QED
      BY <1>3, <2>1, <2>2
  <1>5. \E d \in inResponse : Handled(of[d]) /\ \A c \in inResponse : of[d] <= of[c]
    <2>1. CASE closed
      BY <1>1, <1>2, <2>1, DoneIsHandled DEF TurnInv, TurnEnded
    <2>2. CASE ~closed
      <3>1. PICK r \in 1..response : conn.at = "done" /\ conn.frame = Done(r)
        BY <1>1, <1>4, <2>2 DEF TurnInv, FrameHeld
      <3>2. \A c \in inResponse : of[c] = r
        BY <1>1, <2>2, <3>1, OneResponse
      <3>3. Handled(r)
        BY <1>1, <3>1, DoneIsHandled
      <3>4. QED
        BY <1>4, <3>1, <3>2, <3>3
    <2>3. QED
      BY <2>1, <2>2
  <1>6. PICK d \in inResponse : Handled(of[d]) /\ \A c \in inResponse : of[d] <= of[c]
    BY <1>5
  <1>7. CASE detection
    BY <1>2, <1>4, <1>6, <1>7
  <1>8. CASE ~detection
    <2>1. \A q \in 1..response : ~Pending(q) \/ (conn.at = "done" /\ conn.frame = Done(q))
      <3>1. Waits(4) \/ Waits(5)
        BY <1>1, <1>4, Awaited DEF TurnInv, FrameHeld, HoldsDone, Holds
      <3>2. ~Waits(2) /\ ~Waits(3)
        BY <1>8, <3>1 DEF SessionInv, OneWait
      <3>3. conn.at # "done" => closed /\ ~Waits(4)
        BY <1>4, <1>8, Awaited DEF SessionInv, OneWait
      <3>4. \A q \in 1..response : HoldsDone(q) => conn.at = "done" /\ conn.frame = Done(q)
        BY <3>3, Awaited, <1>4 DEF HoldsDone, Holds
      <3>5. QED
        BY <3>2, <3>4, Awaited DEF Pending
    <2>2. \A c \in inResponse : Handled(of[c])
      BY <1>1, <1>2, <2>1, DoneIsHandled
    <2>3. QED
      BY <1>4, <1>6, <2>2
  <1>9. QED
    BY <1>7, <1>8

(* A follow-up is asked for only once each call of the turn has its output *)
(* and the end of the first response among theirs has been read, whichever *)
(* of the connection task and the tasks of the tools comes last            *)
(* (realtime/tools.rs:54).  When responses start only because they were    *)
(* asked for, the responses of all of them are done; with turn detection   *)
(* the turn may hold calls of a later response that is not.                *)
THEOREM FollowUpsFollow == Spec => FollowUpAfterDone
  <1>1. Init => SessionInv
    BY TurnStarts, OneWaitStarts DEF SessionInv
  <1>2. SessionInv /\ [Next]_vars => SessionInv'
    BY TurnStep, OneWaitStep, DetectionKept DEF SessionInv
  <1>3. SessionInv /\ [Next]_vars =>
          [asked' # asked =>
             /\ \A c \in inResponse : Answered(c)
             /\ \E d \in inResponse :
                  /\ Handled(of[d])
                  /\ \A c \in inResponse :
                       Handled(of[c]) \/ (detection /\ of[c] > of[d])]_vars
    BY FollowUpStep
  <1>4. QED
    BY <1>1, <1>2, <1>3, PTL DEF Spec, FollowUpAfterDone
=============================================================================

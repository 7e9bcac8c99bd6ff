------------------------ MODULE StreamAttemptProofs ------------------------
(***************************************************************************)
(* Theorems about StreamAttempt for every number of retries, every set of  *)
(* tool calls and every setting.                                           *)
(*                                                                         *)
(* The argument: reader and processor map the same parts with separate     *)
(* code, and between them stand the events held back.  SentInv says that   *)
(* what the processor will have built once those are delivered mirrors     *)
(* what the attempt keeps (Mirrors: the same content, every open part of   *)
(* the attempt linked to the same part at the processor), that no event    *)
(* held back will be rejected, that the parts the reader tracks as open    *)
(* are those open at the processor, and that nothing of a tool has left    *)
(* the reader while the attempt may still be retried.  CallInv says which  *)
(* errors the callback has heard of.                                       *)
(*                                                                         *)
(* First the recursive functions of the model, Delivered and its           *)
(* companions: each is determined by its value on a prefix and one more    *)
(* element.  Induction over the length of the prefix is by a least         *)
(* counterexample.                                                         *)
(***************************************************************************)
EXTENDS StreamAttempt, FiniteSetTheorems, NaturalsInduction, WellFoundedInduction,
        SequenceTheorems, TLAPS

LEMMA Least ==
    ASSUME NEW S, S \subseteq Nat, S # {}
    PROVE  \E n \in S : \A m \in S : n <= m
<1>1. PICK n \in S : \A m \in S : ~(m < n)
  <2>. DEFINE R == OpToRel(<, Nat)
  <2>1. IsWellFoundedOn(R, Nat)  BY NatLessThanWellFounded
  <2>2. \E x \in S : \A y \in S : ~(<<y, x>> \in R)  BY <2>1, WFMin
  <2>. QED  BY <2>2 DEF OpToRel
<1>. QED  BY <1>1

LEMMA UpTo ==
    ASSUME NEW m \in Nat, NEW S, 0 \in S,
           \A n \in 0..(m - 1) : n \in S => n + 1 \in S
    PROVE  \A n \in 0..m : n \in S
<1>. DEFINE Bad == (0..m) \ S
<1>1. SUFFICES ASSUME Bad # {} PROVE FALSE  OBVIOUS
<1>2. PICK n \in Bad : \A k \in Bad : n <= k
  <2>1. Bad \subseteq Nat  OBVIOUS
  <2>. QED  BY <1>1, <2>1, Least
<1>3. n # 0 /\ n - 1 \in 0..(m - 1) /\ n - 1 \notin Bad  BY <1>2
<1>4. n - 1 \in S  BY <1>2, <1>3
<1>. QED  BY <1>2, <1>3, <1>4

-----------------------------------------------------------------------------
(* Delivered on a prefix.                                                  *)

After(a, events, m) ==
    LET after[n \in 0..m] == IF n = 0 THEN a ELSE handle(after[n - 1], events[n])
    IN  after[m]

AfterRun(r, a, events, m) ==
    r = [n \in 0..m |-> IF n = 0 THEN a ELSE handle(r[n - 1], events[n])]

LEMMA DeliveredAfter ==
    ASSUME NEW a, NEW events
    PROVE  Delivered(a, events) = After(a, events, Len(events))
BY DEF Delivered, After

LEMMA AfterExists ==
    ASSUME NEW a, NEW events, NEW m \in Nat
    PROVE  \E r : AfterRun(r, a, events, m)
<1>. DEFINE S == {n \in Nat : \E r : AfterRun(r, a, events, n)}
<1>1. 0 \in S
  <2>1. AfterRun([k \in 0..0 |-> a], a, events, 0)  BY DEF AfterRun
  <2>. QED  BY <2>1
<1>2. ASSUME NEW n \in 0..(m - 1), n \in S PROVE n + 1 \in S
  <2>1. PICK r : AfterRun(r, a, events, n)  BY <1>2
  <2>. DEFINE s == [k \in 0..(n + 1) |-> IF k = n + 1 THEN handle(r[n], events[n + 1]) ELSE r[k]]
  <2>2. \A k \in 0..n : r[k] = IF k = 0 THEN a ELSE handle(r[k - 1], events[k])  BY <2>1 DEF AfterRun
  <2>3. AfterRun(s, a, events, n + 1)  BY <2>2 DEF AfterRun
  <2>. QED  BY <2>3
<1>3. m \in S
  <2>. HIDE DEF S
  <2>. QED  BY <1>1, <1>2, UpTo
<1>. QED  BY <1>3

LEMMA AfterIsRun ==
    ASSUME NEW a, NEW events, NEW m \in Nat
    PROVE  \E r : AfterRun(r, a, events, m) /\ After(a, events, m) = r[m]
<1>. DEFINE P(r) == AfterRun(r, a, events, m)
<1>. DEFINE c == CHOOSE r : P(r)
<1>1. P(c)
  <2>1. \E r : P(r)  BY AfterExists
  <2>. QED  BY <2>1
<1>2. After(a, events, m) = c[m]  BY DEF After, AfterRun
<1>. QED  BY <1>1, <1>2

LEMMA AfterPrefixOfRun ==
    ASSUME NEW a, NEW events, NEW m \in Nat, NEW k \in 0..m,
           NEW r, AfterRun(r, a, events, m)
    PROVE  r[k] = After(a, events, k)
<1>1. PICK q : AfterRun(q, a, events, k) /\ After(a, events, k) = q[k]  BY AfterIsRun
<1>. DEFINE S == {n \in 0..k : r[n] = q[n]}
<1>2. 0 \in S  BY <1>1 DEF AfterRun
<1>3. ASSUME NEW n \in 0..(k - 1), n \in S PROVE n + 1 \in S
  <2>1. r[n + 1] = handle(r[n], events[n + 1])  BY DEF AfterRun
  <2>2. q[n + 1] = handle(q[n], events[n + 1])  BY <1>1 DEF AfterRun
  <2>. QED  BY <1>3, <2>1, <2>2
<1>4. k \in S
  <2>. HIDE DEF S
  <2>. QED  BY <1>2, <1>3, UpTo
<1>. QED  BY <1>1, <1>4

LEMMA AfterStep ==
    ASSUME NEW a, NEW events, NEW n \in Nat
    PROVE  /\ After(a, events, 0) = a
           /\ After(a, events, n + 1) = handle(After(a, events, n), events[n + 1])
<1>1. PICK r : AfterRun(r, a, events, n + 1) /\ After(a, events, n + 1) = r[n + 1]  BY AfterIsRun
<1>2. r[0] = a /\ r[n + 1] = handle(r[n], events[n + 1])  BY <1>1 DEF AfterRun
<1>3. r[0] = After(a, events, 0) /\ r[n] = After(a, events, n)  BY <1>1, AfterPrefixOfRun
<1>. QED  BY <1>1, <1>2, <1>3

LEMMA AfterConcat ==
    ASSUME NEW a, NEW E, NEW s \in Seq(E), NEW t \in Seq(E)
    PROVE  Delivered(a, s \o t) = Delivered(Delivered(a, s), t)
<1>. DEFINE u == s \o t
            b == Delivered(a, s)
            S == {n \in 0..Len(s) : After(a, u, n) = After(a, s, n)}
            T == {n \in 0..Len(t) : After(a, u, Len(s) + n) = After(b, t, n)}
<1>0. /\ Len(s) \in Nat /\ Len(t) \in Nat /\ Len(u) = Len(s) + Len(t)
      /\ \A n \in 1..Len(s) : u[n] = s[n]
      /\ \A n \in 1..Len(t) : u[Len(s) + n] = t[n]
  OBVIOUS
<1>. HIDE DEF u, b
<1>1. \A n \in 0..Len(s) : n \in S
  <2>1. 0 \in S  BY <1>0, AfterStep
  <2>2. ASSUME NEW n \in 0..(Len(s) - 1), n \in S PROVE n + 1 \in S
    <3>1. u[n + 1] = s[n + 1]  BY <1>0
    <3>2. After(a, s, n + 1) = handle(After(a, s, n), s[n + 1])  BY AfterStep
    <3>3. After(a, u, n + 1) = handle(After(a, u, n), u[n + 1])  BY AfterStep
    <3>. QED  BY <1>0, <2>2, <3>1, <3>2, <3>3
  <2>. HIDE DEF S
  <2>. QED  BY <1>0, <2>1, <2>2, UpTo
<1>2. \A n \in 0..Len(t) : n \in T
  <2>1. 0 \in T
    <3>1. After(a, u, Len(s) + 0) = After(a, s, Len(s))  BY <1>0, <1>1
    <3>2. After(b, t, 0) = b  BY AfterStep
    <3>. QED  BY <1>0, <3>1, <3>2, DeliveredAfter DEF b
  <2>2. ASSUME NEW n \in 0..(Len(t) - 1), n \in T PROVE n + 1 \in T
    <3>. DEFINE p == Len(s) + n
    <3>1. u[p + 1] = t[n + 1] /\ p \in Nat /\ p + 1 = Len(s) + (n + 1)  BY <1>0
    <3>2. After(b, t, n + 1) = handle(After(b, t, n), t[n + 1])  BY AfterStep
    <3>3. After(a, u, p + 1) = handle(After(a, u, p), u[p + 1])
      <4>. HIDE DEF p
      <4>. QED  BY <3>1, AfterStep
    <3>. QED  BY <1>0, <2>2, <3>1, <3>2, <3>3
  <2>. HIDE DEF T
  <2>. QED  BY <1>0, <2>1, <2>2, UpTo
<1>3. After(a, u, Len(s) + Len(t)) = After(b, t, Len(t))  BY <1>0, <1>2
<1>4. Delivered(a, u) = After(a, u, Len(u)) /\ Delivered(b, t) = After(b, t, Len(t))
  BY DeliveredAfter
<1>. QED  BY <1>0, <1>3, <1>4 DEF u, b

LEMMA DeliveredNone == ASSUME NEW a PROVE Delivered(a, <<>>) = a
BY DeliveredAfter, AfterStep

LEMMA DeliveredOne == ASSUME NEW a, NEW e PROVE Delivered(a, <<e>>) = handle(a, e)
<1>1. After(a, <<e>>, 0 + 1) = handle(After(a, <<e>>, 0), <<e>>[0 + 1])  BY AfterStep
<1>2. Len(<<e>>) = 1 /\ <<e>>[0 + 1] = e  OBVIOUS
<1>. QED  BY <1>1, <1>2, DeliveredAfter, AfterStep

-----------------------------------------------------------------------------
(* OpenAfter on a prefix.                                                  *)

TrackedAfter(a, events, m) ==
    LET after[n \in 0..m] == IF n = 0 THEN a ELSE Tracked(after[n - 1], events[n])
    IN  after[m]

TrackedRun(r, a, events, m) ==
    r = [n \in 0..m |-> IF n = 0 THEN a ELSE Tracked(r[n - 1], events[n])]

LEMMA OpenAfterTracked ==
    ASSUME NEW a, NEW events
    PROVE  OpenAfter(a, events) = TrackedAfter(a, events, Len(events))
BY DEF OpenAfter, TrackedAfter

LEMMA TrackedRunExists ==
    ASSUME NEW a, NEW events, NEW m \in Nat
    PROVE  \E r : TrackedRun(r, a, events, m)
<1>. DEFINE S == {n \in Nat : \E r : TrackedRun(r, a, events, n)}
<1>1. 0 \in S
  <2>1. TrackedRun([k \in 0..0 |-> a], a, events, 0)  BY DEF TrackedRun
  <2>. QED  BY <2>1
<1>2. ASSUME NEW n \in 0..(m - 1), n \in S PROVE n + 1 \in S
  <2>1. PICK r : TrackedRun(r, a, events, n)  BY <1>2
  <2>. DEFINE s == [k \in 0..(n + 1) |-> IF k = n + 1 THEN Tracked(r[n], events[n + 1]) ELSE r[k]]
  <2>2. \A k \in 0..n : r[k] = IF k = 0 THEN a ELSE Tracked(r[k - 1], events[k])  BY <2>1 DEF TrackedRun
  <2>3. TrackedRun(s, a, events, n + 1)  BY <2>2 DEF TrackedRun
  <2>. QED  BY <2>3
<1>3. m \in S
  <2>. HIDE DEF S
  <2>. QED  BY <1>1, <1>2, UpTo
<1>. QED  BY <1>3

LEMMA TrackedAfterIsRun ==
    ASSUME NEW a, NEW events, NEW m \in Nat
    PROVE  \E r : TrackedRun(r, a, events, m) /\ TrackedAfter(a, events, m) = r[m]
<1>. DEFINE P(r) == TrackedRun(r, a, events, m)
<1>. DEFINE c == CHOOSE r : P(r)
<1>1. P(c)
  <2>1. \E r : P(r)  BY TrackedRunExists
  <2>. QED  BY <2>1
<1>2. TrackedAfter(a, events, m) = c[m]  BY DEF TrackedAfter, TrackedRun
<1>. QED  BY <1>1, <1>2

LEMMA TrackedPrefixOfRun ==
    ASSUME NEW a, NEW events, NEW m \in Nat, NEW k \in 0..m,
           NEW r, TrackedRun(r, a, events, m)
    PROVE  r[k] = TrackedAfter(a, events, k)
<1>1. PICK q : TrackedRun(q, a, events, k) /\ TrackedAfter(a, events, k) = q[k]  BY TrackedAfterIsRun
<1>. DEFINE S == {n \in 0..k : r[n] = q[n]}
<1>2. 0 \in S  BY <1>1 DEF TrackedRun
<1>3. ASSUME NEW n \in 0..(k - 1), n \in S PROVE n + 1 \in S
  <2>1. r[n + 1] = Tracked(r[n], events[n + 1])  BY DEF TrackedRun
  <2>2. q[n + 1] = Tracked(q[n], events[n + 1])  BY <1>1 DEF TrackedRun
  <2>. QED  BY <1>3, <2>1, <2>2
<1>4. k \in S
  <2>. HIDE DEF S
  <2>. QED  BY <1>2, <1>3, UpTo
<1>. QED  BY <1>1, <1>4

LEMMA TrackedAfterStep ==
    ASSUME NEW a, NEW events, NEW n \in Nat
    PROVE  /\ TrackedAfter(a, events, 0) = a
           /\ TrackedAfter(a, events, n + 1) = Tracked(TrackedAfter(a, events, n), events[n + 1])
<1>1. PICK r : TrackedRun(r, a, events, n + 1) /\ TrackedAfter(a, events, n + 1) = r[n + 1]  BY TrackedAfterIsRun
<1>2. r[0] = a /\ r[n + 1] = Tracked(r[n], events[n + 1])  BY <1>1 DEF TrackedRun
<1>3. r[0] = TrackedAfter(a, events, 0) /\ r[n] = TrackedAfter(a, events, n)  BY <1>1, TrackedPrefixOfRun
<1>. QED  BY <1>1, <1>2, <1>3

-----------------------------------------------------------------------------
(* Kept on a prefix.                                                       *)

KeptStep(kept, s, n, I) == IF n \in I THEN Append(kept, s[n]) ELSE kept

KeptTo(s, I, m) ==
    LET after[n \in 0..m] == IF n = 0 THEN <<>> ELSE KeptStep(after[n - 1], s, n, I)
    IN  after[m]

KeptRun(r, s, I, m) ==
    r = [n \in 0..m |-> IF n = 0 THEN <<>> ELSE KeptStep(r[n - 1], s, n, I)]

LEMMA KeptKeptTo ==
    ASSUME NEW s, NEW I
    PROVE  Kept(s, I) = KeptTo(s, I, Len(s))
BY DEF Kept, KeptTo, KeptStep

LEMMA KeptRunExists ==
    ASSUME NEW s, NEW I, NEW m \in Nat
    PROVE  \E r : KeptRun(r, s, I, m)
<1>. DEFINE S == {n \in Nat : \E r : KeptRun(r, s, I, n)}
<1>1. 0 \in S
  <2>1. KeptRun([k \in 0..0 |-> <<>>], s, I, 0)  BY DEF KeptRun
  <2>. QED  BY <2>1
<1>2. ASSUME NEW n \in 0..(m - 1), n \in S PROVE n + 1 \in S
  <2>1. PICK r : KeptRun(r, s, I, n)  BY <1>2
  <2>. DEFINE z == [k \in 0..(n + 1) |-> IF k = n + 1 THEN KeptStep(r[n], s, n + 1, I) ELSE r[k]]
  <2>2. \A k \in 0..n : r[k] = IF k = 0 THEN <<>> ELSE KeptStep(r[k - 1], s, k, I)  BY <2>1 DEF KeptRun
  <2>3. KeptRun(z, s, I, n + 1)  BY <2>2 DEF KeptRun
  <2>. QED  BY <2>3
<1>3. m \in S
  <2>. HIDE DEF S
  <2>. QED  BY <1>1, <1>2, UpTo
<1>. QED  BY <1>3

LEMMA KeptToIsRun ==
    ASSUME NEW s, NEW I, NEW m \in Nat
    PROVE  \E r : KeptRun(r, s, I, m) /\ KeptTo(s, I, m) = r[m]
<1>. DEFINE P(r) == KeptRun(r, s, I, m)
<1>. DEFINE c == CHOOSE r : P(r)
<1>1. P(c)
  <2>1. \E r : P(r)  BY KeptRunExists
  <2>. QED  BY <2>1
<1>2. KeptTo(s, I, m) = c[m]  BY DEF KeptTo, KeptRun
<1>. QED  BY <1>1, <1>2

LEMMA KeptPrefixOfRun ==
    ASSUME NEW s, NEW I, NEW m \in Nat, NEW k \in 0..m,
           NEW r, KeptRun(r, s, I, m)
    PROVE  r[k] = KeptTo(s, I, k)
<1>1. PICK q : KeptRun(q, s, I, k) /\ KeptTo(s, I, k) = q[k]  BY KeptToIsRun
<1>. DEFINE S == {n \in 0..k : r[n] = q[n]}
<1>2. 0 \in S  BY <1>1 DEF KeptRun
<1>3. ASSUME NEW n \in 0..(k - 1), n \in S PROVE n + 1 \in S
  <2>1. r[n + 1] = KeptStep(r[n], s, n + 1, I)  BY DEF KeptRun
  <2>2. q[n + 1] = KeptStep(q[n], s, n + 1, I)  BY <1>1 DEF KeptRun
  <2>. QED  BY <1>3, <2>1, <2>2
<1>4. k \in S
  <2>. HIDE DEF S
  <2>. QED  BY <1>2, <1>3, UpTo
<1>. QED  BY <1>1, <1>4

LEMMA KeptToStep ==
    ASSUME NEW s, NEW I, NEW n \in Nat
    PROVE  /\ KeptTo(s, I, 0) = <<>>
           /\ KeptTo(s, I, n + 1) = IF n + 1 \in I THEN Append(KeptTo(s, I, n), s[n + 1])
                                    ELSE KeptTo(s, I, n)
<1>1. PICK r : KeptRun(r, s, I, n + 1) /\ KeptTo(s, I, n + 1) = r[n + 1]  BY KeptToIsRun
<1>2. r[0] = <<>> /\ r[n + 1] = KeptStep(r[n], s, n + 1, I)  BY <1>1 DEF KeptRun
<1>3. r[0] = KeptTo(s, I, 0) /\ r[n] = KeptTo(s, I, n)  BY <1>1, KeptPrefixOfRun
<1>. QED  BY <1>1, <1>2, <1>3 DEF KeptStep

LEMMA KeptToType ==
    ASSUME NEW E, NEW s \in Seq(E), NEW I
    PROVE  \A n \in 0..Len(s) : KeptTo(s, I, n) \in Seq(E)
<1>. DEFINE S == {n \in 0..Len(s) : KeptTo(s, I, n) \in Seq(E)}
<1>0. Len(s) \in Nat /\ 0 \in 0..Len(s) /\ <<>> \in Seq(E)  OBVIOUS
<1>1. 0 \in S
  <2>1. KeptTo(s, I, 0) = <<>>  BY KeptToStep
  <2>2. KeptTo(s, I, 0) \in Seq(E)  BY <1>0, <2>1, Zenon
  <2>. QED  BY <1>0, <2>2
<1>2. ASSUME NEW n \in 0..(Len(s) - 1), n \in S PROVE n + 1 \in S
  <2>. DEFINE k == KeptTo(s, I, n)
  <2>1. k \in Seq(E) /\ n + 1 \in 0..Len(s)  BY <1>2
  <2>2. KeptTo(s, I, n + 1) = IF n + 1 \in I THEN Append(k, s[n + 1]) ELSE k  BY KeptToStep
  <2>. HIDE DEF k
  <2>3. Append(k, s[n + 1]) \in Seq(E)
    <3>1. s[n + 1] \in E  OBVIOUS
    <3>. QED  BY <2>1, <3>1
  <2>4. KeptTo(s, I, n + 1) \in Seq(E)  BY <2>1, <2>2, <2>3, Zenon
  <2>. QED  BY <2>1, <2>4
<1>. HIDE DEF S
<1>3. \A n \in 0..Len(s) : n \in S  BY <1>0, <1>1, <1>2, UpTo
<1>. QED  BY <1>3 DEF S

RangeOf(s) == {s[i] : i \in DOMAIN s}

LEMMA RangeOfAppend ==
    ASSUME NEW E, NEW k \in Seq(E), NEW x \in E
    PROVE  RangeOf(Append(k, x)) = RangeOf(k) \cup {x}
<1>. DEFINE a == Append(k, x)
<1>1. /\ DOMAIN k = 1..Len(k) /\ DOMAIN a = 1..(Len(k) + 1) /\ Len(k) \in Nat
      /\ a[Len(k) + 1] = x /\ \A i \in 1..Len(k) : a[i] = k[i]
  OBVIOUS
<1>. HIDE DEF a
<1>2. ASSUME NEW i \in DOMAIN a PROVE a[i] \in {k[j] : j \in DOMAIN k} \cup {x}
  <2>1. i = Len(k) + 1 \/ i \in 1..Len(k)  BY <1>1
  <2>. QED  BY <1>1, <2>1
<1>3. ASSUME NEW i \in DOMAIN k PROVE k[i] \in {a[j] : j \in DOMAIN a}
  <2>1. i \in DOMAIN a /\ a[i] = k[i]  BY <1>1
  <2>. QED  BY <2>1
<1>4. x \in {a[j] : j \in DOMAIN a}
  <2>1. Len(k) + 1 \in DOMAIN a  BY <1>1
  <2>. QED  BY <1>1, <2>1
<1>5. {a[i] : i \in DOMAIN a} = {k[i] : i \in DOMAIN k} \cup {x}  BY <1>2, <1>3, <1>4
<1>. QED  BY <1>5 DEF a, RangeOf

(* What is kept of an initial segment: the elements at the positions I.    *)
LEMMA KeptToRange ==
    ASSUME NEW E, NEW s \in Seq(E), NEW I
    PROVE  \A n \in 0..Len(s) :
              RangeOf(KeptTo(s, I, n)) = {s[j] : j \in (1..n) \cap I}
<1>. DEFINE S == {n \in 0..Len(s) :
              RangeOf(KeptTo(s, I, n)) = {s[j] : j \in (1..n) \cap I}}
<1>1. 0 \in S
  <2>1. KeptTo(s, I, 0) = <<>>  BY KeptToStep
  <2>2. RangeOf(<<>>) = {} /\ {s[j] : j \in (1..0) \cap I} = {}  BY DEF RangeOf
  <2>3. RangeOf(KeptTo(s, I, 0)) = {s[j] : j \in (1..0) \cap I}  BY <2>1, <2>2, Zenon
  <2>. QED  BY <2>3
<1>2. ASSUME NEW n \in 0..(Len(s) - 1), n \in S PROVE n + 1 \in S
  <2>. DEFINE k == KeptTo(s, I, n)
  <2>1. k \in Seq(E) /\ s[n + 1] \in E  BY KeptToType
  <2>2. KeptTo(s, I, n + 1) = (IF n + 1 \in I THEN Append(k, s[n + 1]) ELSE k)  BY KeptToStep
  <2>3. RangeOf(k) = {s[j] : j \in (1..n) \cap I}  BY <1>2
  <2>0. n + 1 \in 0..Len(s)  OBVIOUS
  <2>. HIDE DEF k
  <2>4. CASE n + 1 \in I
    <3>1. RangeOf(Append(k, s[n + 1])) = RangeOf(k) \cup {s[n + 1]}  BY <2>1, RangeOfAppend
    <3>2. (1..(n + 1)) \cap I = ((1..n) \cap I) \cup {n + 1}  BY <2>4
    <3>3. {s[j] : j \in (1..(n + 1)) \cap I} = {s[j] : j \in (1..n) \cap I} \cup {s[n + 1]}
      BY <3>2
    <3>4. RangeOf(KeptTo(s, I, n + 1)) = {s[j] : j \in (1..(n + 1)) \cap I}
      BY <2>2, <2>3, <2>4, <3>1, <3>3, Zenon
    <3>. QED  BY <2>0, <3>4
  <2>5. CASE n + 1 \notin I
    <3>1. (1..(n + 1)) \cap I = (1..n) \cap I  BY <2>5
    <3>2. RangeOf(KeptTo(s, I, n + 1)) = {s[j] : j \in (1..(n + 1)) \cap I}
      BY <2>2, <2>3, <2>5, <3>1, Zenon
    <3>. QED  BY <2>0, <3>2
  <2>. QED  BY <2>4, <2>5
<1>. HIDE DEF S
<1>3. \A n \in 0..Len(s) : n \in S  BY <1>1, <1>2, UpTo, Len(s) \in Nat
<1>. QED  BY <1>3 DEF S

Distinct(s) == \A i, j \in DOMAIN s : i # j => s[i] # s[j]

LEMMA KeptToDistinct ==
    ASSUME NEW E, NEW s \in Seq(E), NEW I, Distinct(s)
    PROVE  \A n \in 0..Len(s) : Distinct(KeptTo(s, I, n))
<1>. DEFINE S == {n \in 0..Len(s) : Distinct(KeptTo(s, I, n))}
<1>1. 0 \in S  BY KeptToStep DEF Distinct
<1>2. ASSUME NEW n \in 0..(Len(s) - 1), n \in S PROVE n + 1 \in S
  <2>. DEFINE k == KeptTo(s, I, n)
  <2>1. k \in Seq(E) /\ s[n + 1] \in E  BY KeptToType
  <2>2. KeptTo(s, I, n + 1) = (IF n + 1 \in I THEN Append(k, s[n + 1]) ELSE k)  BY KeptToStep
  <2>3. RangeOf(k) = {s[j] : j \in (1..n) \cap I}  BY KeptToRange
  <2>4. Distinct(k)  BY <1>2
  <2>. HIDE DEF k
  <2>5. \A i \in DOMAIN k : k[i] # s[n + 1]
    <3>1. \A i \in DOMAIN k : \E j \in (1..n) \cap I : k[i] = s[j]  BY <2>3 DEF RangeOf
    <3>. QED  BY <3>1 DEF Distinct
  <2>6. Distinct(Append(k, s[n + 1]))  BY <2>1, <2>4, <2>5 DEF Distinct
  <2>. QED  BY <2>2, <2>4, <2>6
<1>. HIDE DEF S
<1>3. \A n \in 0..Len(s) : n \in S  BY <1>1, <1>2, UpTo, Len(s) \in Nat
<1>. QED  BY <1>3 DEF S

LEMMA KeptToSame ==
    ASSUME NEW m \in Nat, NEW s, NEW t, NEW I, NEW J,
           \A j \in 1..m : s[j] = t[j] /\ (j \in I <=> j \in J)
    PROVE  KeptTo(s, I, m) = KeptTo(t, J, m)
<1>. DEFINE S == {n \in 0..m : KeptTo(s, I, n) = KeptTo(t, J, n)}
<1>1. 0 \in S  BY KeptToStep
<1>2. ASSUME NEW n \in 0..(m - 1), n \in S PROVE n + 1 \in S
  <2>1. KeptTo(s, I, n + 1) = (IF n + 1 \in I THEN Append(KeptTo(s, I, n), s[n + 1]) ELSE KeptTo(s, I, n))
    BY KeptToStep
  <2>2. KeptTo(t, J, n + 1) = (IF n + 1 \in J THEN Append(KeptTo(t, J, n), t[n + 1]) ELSE KeptTo(t, J, n))
    BY KeptToStep
  <2>. QED  BY <1>2, <2>1, <2>2
<1>. HIDE DEF S
<1>3. \A n \in 0..m : n \in S  BY <1>1, <1>2, UpTo
<1>. QED  BY <1>3 DEF S

(* The element kept from position p stands where the kept prefix ends.     *)
LEMMA KeptToAt ==
    ASSUME NEW E, NEW s \in Seq(E), NEW I, NEW p \in (1..Len(s)) \cap I
    PROVE  \A n \in p..Len(s) :
              /\ Len(KeptTo(s, I, p)) \in 1..Len(KeptTo(s, I, n))
              /\ KeptTo(s, I, n)[Len(KeptTo(s, I, p))] = s[p]
<1>. DEFINE P(n) == /\ Len(KeptTo(s, I, p)) \in 1..Len(KeptTo(s, I, n))
                    /\ KeptTo(s, I, n)[Len(KeptTo(s, I, p))] = s[p]
            S == {n \in 0..Len(s) : n >= p => P(n)}
<1>1. 0 \in S  OBVIOUS
<1>2. ASSUME NEW n \in 0..(Len(s) - 1), n \in S PROVE n + 1 \in S
  <2>. DEFINE k == KeptTo(s, I, n)
  <2>1. k \in Seq(E) /\ s[n + 1] \in E  BY KeptToType
  <2>2. KeptTo(s, I, n + 1) = (IF n + 1 \in I THEN Append(k, s[n + 1]) ELSE k)  BY KeptToStep
  <2>3. CASE n + 1 < p  BY <2>3
  <2>4. CASE n + 1 = p
    <3>1. KeptTo(s, I, p) = Append(k, s[p])  BY <2>2, <2>4
    <3>. HIDE DEF k
    <3>2. /\ Len(Append(k, s[p])) \in 1..Len(Append(k, s[p]))
          /\ Append(k, s[p])[Len(Append(k, s[p]))] = s[p]
      BY <2>1, <2>4
    <3>. QED  BY <2>4, <3>1, <3>2
  <2>5. CASE n + 1 > p
    <3>1. P(n)  BY <1>2, <2>5
    <3>. DEFINE r == Len(KeptTo(s, I, p))
    <3>2. r \in 1..Len(k) /\ k[r] = s[p]  BY <3>1
    <3>. HIDE DEF k, r
    <3>3. r \in 1..Len(Append(k, s[n + 1])) /\ Append(k, s[n + 1])[r] = s[p]  BY <2>1, <3>2
    <3>4. P(n + 1)  BY <2>2, <3>2, <3>3 DEF r
    <3>. QED  BY <3>4
  <2>. QED  BY <2>3, <2>4, <2>5
<1>. HIDE DEF S
<1>3. \A n \in 0..Len(s) : n \in S  BY <1>1, <1>2, UpTo, Len(s) \in Nat
<1>. QED  BY <1>3 DEF S

LEMMA AppendUpdate ==
    ASSUME NEW E, NEW k \in Seq(E), NEW x \in E, NEW y \in E, NEW r \in 1..Len(k)
    PROVE  Append([k EXCEPT ![r] = x], y) = [Append(k, y) EXCEPT ![r] = x]
<1>. DEFINE c == [k EXCEPT ![r] = x]
            d == Append(k, y)
<1>1. /\ c \in Seq(E) /\ Len(c) = Len(k) /\ c[r] = x /\ \A i \in 1..Len(k) : i # r => c[i] = k[i]
      /\ d \in Seq(E) /\ Len(d) = Len(k) + 1 /\ d[Len(k) + 1] = y /\ \A i \in 1..Len(k) : d[i] = k[i]
      /\ Len(k) \in Nat
  OBVIOUS
<1>. HIDE DEF c, d
<1>. DEFINE a == Append(c, y)
            b == [d EXCEPT ![r] = x]
<1>2. /\ a \in Seq(E) /\ Len(a) = Len(k) + 1 /\ a[Len(k) + 1] = y /\ \A i \in 1..Len(k) : a[i] = c[i]
      /\ b \in Seq(E) /\ Len(b) = Len(k) + 1 /\ b[r] = x
      /\ \A i \in 1..(Len(k) + 1) : i # r => b[i] = d[i]
  BY <1>1
<1>. HIDE DEF a, b
<1>3. ASSUME NEW i \in 1..(Len(k) + 1) PROVE a[i] = b[i]
  <2>1. CASE i = Len(k) + 1  BY <1>1, <1>2, <2>1
  <2>2. CASE i = r  BY <1>1, <1>2, <2>2
  <2>3. CASE i # r /\ i \in 1..Len(k)  BY <1>1, <1>2, <2>3
  <2>. QED  BY <1>1, <2>1, <2>2, <2>3
<1>4. a = b  BY <1>2, <1>3
<1>. QED  BY <1>4 DEF a, b, c, d

LEMMA AppendUpdateLast ==
    ASSUME NEW E, NEW k \in Seq(E), NEW x \in E, NEW y \in E
    PROVE  [Append(k, y) EXCEPT ![Len(k) + 1] = x] = Append(k, x)
<1>. DEFINE d == Append(k, y)
            a == Append(k, x)
<1>1. /\ a \in Seq(E) /\ Len(a) = Len(k) + 1 /\ a[Len(k) + 1] = x /\ \A i \in 1..Len(k) : a[i] = k[i]
      /\ d \in Seq(E) /\ Len(d) = Len(k) + 1 /\ \A i \in 1..Len(k) : d[i] = k[i]
      /\ Len(k) \in Nat
  OBVIOUS
<1>. HIDE DEF a, d
<1>. DEFINE b == [d EXCEPT ![Len(k) + 1] = x]
<1>2. /\ b \in Seq(E) /\ Len(b) = Len(k) + 1 /\ b[Len(k) + 1] = x
      /\ \A i \in 1..Len(k) : b[i] = d[i]
  BY <1>1
<1>. HIDE DEF b
<1>3. ASSUME NEW i \in 1..(Len(k) + 1) PROVE a[i] = b[i]  BY <1>1, <1>2
<1>4. a = b  BY <1>1, <1>2, <1>3
<1>. QED  BY <1>4 DEF a, b, d

(* An element that is kept may be changed before or after.                 *)
LEMMA KeptToUpdate ==
    ASSUME NEW E, NEW s \in Seq(E), NEW I, NEW p \in (1..Len(s)) \cap I, NEW x \in E
    PROVE  LET t == [s EXCEPT ![p] = x]
               r == Len(KeptTo(s, I, p)) IN
           \A n \in 0..Len(s) :
              KeptTo(t, I, n) = IF n < p THEN KeptTo(s, I, n)
                                ELSE [KeptTo(s, I, n) EXCEPT ![r] = x]
<1>. DEFINE t == [s EXCEPT ![p] = x]
            r == Len(KeptTo(s, I, p))
            S == {n \in 0..Len(s) : KeptTo(t, I, n) = IF n < p THEN KeptTo(s, I, n)
                                                  ELSE [KeptTo(s, I, n) EXCEPT ![r] = x]}
<1>0. t \in Seq(E) /\ Len(t) = Len(s) /\ t[p] = x /\ \A j \in 1..Len(s) : j # p => t[j] = s[j]
  OBVIOUS
<1>. HIDE DEF t
<1>1. 0 \in S  BY KeptToStep
<1>2. ASSUME NEW n \in 0..(Len(s) - 1), n \in S PROVE n + 1 \in S
  <2>. DEFINE k == KeptTo(s, I, n)
              l == KeptTo(t, I, n)
  <2>1. k \in Seq(E) /\ s[n + 1] \in E /\ t[n + 1] \in E /\ l \in Seq(E)  BY <1>0, KeptToType
  <2>2. KeptTo(s, I, n + 1) = (IF n + 1 \in I THEN Append(k, s[n + 1]) ELSE k)  BY KeptToStep
  <2>3. KeptTo(t, I, n + 1) = (IF n + 1 \in I THEN Append(l, t[n + 1]) ELSE l)  BY KeptToStep
  <2>4. l = IF n < p THEN k ELSE [k EXCEPT ![r] = x]  BY <1>2
  <2>5. CASE n + 1 < p
    <3>1. l = k /\ t[n + 1] = s[n + 1]  BY <1>0, <2>4, <2>5
    <3>. QED  BY <2>2, <2>3, <2>5, <3>1
  <2>6. CASE n + 1 = p
    <3>1. l = k /\ t[n + 1] = x  BY <1>0, <2>4, <2>6
    <3>2. KeptTo(s, I, p) = Append(k, s[p]) /\ KeptTo(t, I, p) = Append(k, x)  BY <2>2, <2>3, <2>6, <3>1
    <3>3. r = Len(k) + 1  BY <2>1, <2>6, <3>2
    <3>. HIDE DEF k, l, r
    <3>4. [Append(k, s[p]) EXCEPT ![Len(k) + 1] = x] = Append(k, x)  BY <2>1, AppendUpdateLast
    <3>. QED  BY <2>6, <3>2, <3>3, <3>4
  <2>7. CASE n + 1 > p
    <3>1. l = [k EXCEPT ![r] = x] /\ t[n + 1] = s[n + 1]  BY <1>0, <2>4, <2>7
    <3>2. r \in 1..Len(k)  BY <2>7, KeptToAt
    <3>. HIDE DEF k, l, r
    <3>3. Append([k EXCEPT ![r] = x], s[n + 1]) = [Append(k, s[n + 1]) EXCEPT ![r] = x]
      BY <2>1, <3>2, AppendUpdate
    <3>4. KeptTo(t, I, n + 1) = [KeptTo(s, I, n + 1) EXCEPT ![r] = x]
      BY <2>2, <2>3, <3>1, <3>3, Zenon
    <3>. QED  BY <2>7, <3>4
  <2>. QED  BY <2>5, <2>6, <2>7
<1>. HIDE DEF S
<1>3. \A n \in 0..Len(s) : n \in S  BY <1>1, <1>2, UpTo, Len(s) \in Nat
<1>. QED  BY <1>3 DEF S, t

-----------------------------------------------------------------------------
(* The processor, one event at a time.                                     *)

Refs == Seq(Nat) \cup Calls
Sides == Kinds \cup {"step", "client", "provider"}
Items == [type : ToolTypes \cup {"content", "part"}, kind : Sides, ref : Refs, n : Nat]
PartTypes == {"part-start", "part-delta", "part-end"}

PartEvents == [type : PartTypes, kind : Kinds, ref : Refs, att : Nat]
OtherEvents == [type : ToolTypes \cup {"content"}, kind : Sides, ref : Refs, att : Nat]
MappedEvents == PartEvents \cup OtherEvents     \* what map_part returns

IsAcc(a) ==
    /\ a = [current |-> a.current, content |-> a.content, open |-> a.open,
            rejected |-> a.rejected, toolsFrom |-> a.toolsFrom]
    /\ a.current \in BOOLEAN /\ a.rejected \in BOOLEAN
    /\ a.content \in Seq(Items)
    /\ a.open = [k \in Kinds |-> a.open[k]]
    /\ \A k \in Kinds : \A r \in DOMAIN a.open[k] :
          /\ a.open[k][r] \in 1..Len(a.content)
          /\ a.content[a.open[k][r]].type = "part"

LEMMA HandleRejected ==
    ASSUME NEW a, NEW e, a.rejected PROVE handle(a, e) = a
BY DEF handle

LEMMA HandleStartStep ==
    ASSUME NEW a, NEW e, IsAcc(a), ~a.rejected, e.type = "start-step"
    PROVE  LET b == handle(a, e) IN
           /\ IsAcc(b) /\ ~b.rejected /\ b.current
           /\ b.content = <<>> /\ b.open = NoParts /\ b.toolsFrom = a.toolsFrom
<1>1. handle(a, e) = [reset(a) EXCEPT !.current = TRUE]
  BY DEF handle, IsToolEvent, ToolTypes
<1>2. handle(a, e) = [current |-> TRUE, content |-> <<>>, open |-> NoParts,
                      rejected |-> a.rejected, toolsFrom |-> a.toolsFrom]
  BY <1>1 DEF reset, IsAcc
<1>. QED  BY <1>2 DEF IsAcc, NoParts

LEMMA HandleRetryAttempt ==
    ASSUME NEW a, NEW e, IsAcc(a), ~a.rejected, a.current, e.type = "retry-attempt"
    PROVE  LET b == handle(a, e) IN
           /\ IsAcc(b) /\ ~b.rejected /\ b.current
           /\ b.content = <<>> /\ b.open = NoParts /\ b.toolsFrom = a.toolsFrom
<1>1. handle(a, e) = reset(a)
  BY DEF handle, IsToolEvent, ToolTypes
<1>2. handle(a, e) = [current |-> a.current, content |-> <<>>, open |-> NoParts,
                      rejected |-> a.rejected, toolsFrom |-> a.toolsFrom]
  BY <1>1 DEF reset, IsAcc
<1>. QED  BY <1>2 DEF IsAcc, NoParts

LEMMA HandleOther ==
    ASSUME NEW a, NEW e \in OtherEvents, IsAcc(a), ~a.rejected
    PROVE  LET b == handle(a, e) IN
           /\ IsAcc(b) /\ ~b.rejected /\ b.current = a.current
           /\ b.content = IF e.type \in {"tool-preliminary", "tool-input-start",
                                         "tool-input-delta", "tool-input-end"}
                          THEN a.content ELSE Append(a.content, Item(e.type, e.kind, e.ref))
           /\ b.open = a.open
           /\ b.toolsFrom = IF IsToolEvent(e) THEN a.toolsFrom \cup {e.att} ELSE a.toolsFrom
<1>. DEFINE quiet == {"tool-preliminary", "tool-input-start", "tool-input-delta", "tool-input-end"}
            tools == IF IsToolEvent(e) THEN a.toolsFrom \cup {e.att} ELSE a.toolsFrom
            c == IF e.type \in quiet THEN a.content ELSE Append(a.content, Item(e.type, e.kind, e.ref))
<1>1. e.type \notin {"start-step", "retry-attempt"} \cup PartTypes
  BY DEF OtherEvents, ToolTypes, PartTypes
<1>2. handle(a, e) = [current |-> a.current, content |-> c, open |-> a.open,
                      rejected |-> a.rejected, toolsFrom |-> tools]
  BY <1>1 DEF handle, IsAcc, PartTypes
<1>3. c \in Seq(Items) /\ Len(c) >= Len(a.content) /\ \A i \in 1..Len(a.content) : c[i] = a.content[i]
  <2>1. Item(e.type, e.kind, e.ref) \in Items  BY DEF Item, Items, OtherEvents
  <2>2. a.content \in Seq(Items)  BY DEF IsAcc
  <2>. HIDE DEF quiet
  <2>. QED  BY <2>1, <2>2
<1>. HIDE DEF c, tools, quiet
<1>4. IsAcc(handle(a, e))  BY <1>2, <1>3 DEF IsAcc
<1>. QED  BY <1>2, <1>4 DEF c, tools, quiet

LEMMA HandlePartStart ==
    ASSUME NEW a, NEW e \in PartEvents, IsAcc(a), ~a.rejected, a.current, e.type = "part-start"
    PROVE  LET b == handle(a, e) IN
           /\ IsAcc(b) /\ ~b.rejected /\ b.current
           /\ b.content = Append(a.content, Item("part", e.kind, NoRef))
           /\ b.open = [a.open EXCEPT ![e.kind] = Put(@, e.ref, Len(a.content) + 1)]
           /\ b.toolsFrom = a.toolsFrom
<1>. DEFINE c == Append(a.content, Item("part", e.kind, NoRef))
            o == [a.open EXCEPT ![e.kind] = Put(@, e.ref, Len(a.content) + 1)]
            b == handle(a, e)
<1>0. e.kind \in Kinds /\ e.kind \in Sides  BY DEF PartEvents, Sides
<1>1. b = start_part(a, e)  BY DEF handle, IsToolEvent, ToolTypes
<1>2. b = [current |-> a.current, content |-> c, open |-> o,
           rejected |-> a.rejected, toolsFrom |-> a.toolsFrom]
  BY <1>1 DEF start_part, IsAcc
<1>3. /\ c \in Seq(Items) /\ Len(c) = Len(a.content) + 1 /\ c[Len(c)].type = "part"
      /\ \A i \in 1..Len(a.content) : c[i] = a.content[i]
      /\ Len(a.content) \in Nat
  <2>1. Item("part", e.kind, NoRef) \in Items
    <3>1. NoRef \in Refs  BY DEF NoRef, Refs
    <3>. QED  BY <1>0, <3>1 DEF Item, Items
  <2>2. a.content \in Seq(Items)  BY DEF IsAcc
  <2>3. Item("part", e.kind, NoRef).type = "part"  BY DEF Item
  <2>. QED  BY <2>1, <2>2, <2>3
<1>4. \A k \in Kinds : \A r \in DOMAIN o[k] :
         o[k][r] \in 1..Len(c) /\ c[o[k][r]].type = "part"
  <2>. SUFFICES ASSUME NEW k \in Kinds, NEW r \in DOMAIN o[k]
                PROVE  o[k][r] \in 1..Len(c) /\ c[o[k][r]].type = "part"
    OBVIOUS
  <2>1. CASE k = e.kind /\ r = e.ref
    <3>1. o[k][r] = Len(c)  BY <1>3, <2>1 DEF Put, IsAcc
    <3>. QED  BY <1>3, <3>1
  <2>2. CASE ~(k = e.kind /\ r = e.ref)
    <3>1. r \in DOMAIN a.open[k] /\ o[k][r] = a.open[k][r]  BY <2>2 DEF Put, IsAcc
    <3>. QED  BY <1>3, <3>1 DEF IsAcc
  <2>. QED  BY <2>1, <2>2
<1>5. o = [k \in Kinds |-> o[k]]  BY DEF IsAcc
<1>. HIDE DEF c, o, b
<1>6. IsAcc(b)  BY <1>2, <1>3, <1>4, <1>5 DEF IsAcc
<1>. QED  BY <1>2, <1>6 DEF c, o, b

LEMMA MoreDeltas ==
    ASSUME NEW y \in Items
    PROVE  LET x == [y EXCEPT !.n = @ + 1] IN
           x \in Items /\ x.type = y.type /\ x.kind = y.kind
<1>1. [y EXCEPT !.n = @ + 1] = [type |-> y.type, kind |-> y.kind, ref |-> y.ref, n |-> y.n + 1]
  BY DEF Items
<1>2. y.n + 1 \in Nat /\ y.type \in ToolTypes \cup {"content", "part"} /\ y.kind \in Sides /\ y.ref \in Refs
  BY DEF Items
<1>. QED  BY <1>1, <1>2 DEF Items

LEMMA HandlePartDelta ==
    ASSUME NEW a, NEW e \in PartEvents, IsAcc(a), ~a.rejected, a.current, e.type = "part-delta",
           e.ref \in DOMAIN a.open[e.kind]
    PROVE  LET b == handle(a, e)
               p == a.open[e.kind][e.ref] IN
           /\ IsAcc(b) /\ ~b.rejected /\ b.current
           /\ b.content = [a.content EXCEPT ![p] = [a.content[p] EXCEPT !.n = @ + 1]]
           /\ b.open = a.open
           /\ b.toolsFrom = a.toolsFrom
<1>. DEFINE p == a.open[e.kind][e.ref]
            x == [a.content[p] EXCEPT !.n = @ + 1]
            c == [a.content EXCEPT ![p] = x]
            b == handle(a, e)
<1>0. e.kind \in Kinds  BY DEF PartEvents
<1>1. b = update_part(a, e)  BY DEF handle, IsToolEvent, ToolTypes
<1>2. b = [a EXCEPT !.content[p].n = @ + 1]  BY <1>1 DEF update_part
<1>3. b = [current |-> a.current, content |-> c, open |-> a.open,
           rejected |-> a.rejected, toolsFrom |-> a.toolsFrom]
  BY <1>2 DEF IsAcc
<1>4. p \in 1..Len(a.content) /\ a.content[p] \in Items /\ a.content \in Seq(Items)  BY <1>0 DEF IsAcc
<1>5. x \in Items /\ x.type = a.content[p].type
  <2>. HIDE DEF p
  <2>. QED  BY <1>4, MoreDeltas
<1>. HIDE DEF x, p
<1>6. /\ c \in Seq(Items) /\ Len(c) = Len(a.content)
      /\ \A i \in 1..Len(a.content) : c[i].type = a.content[i].type
  BY <1>4, <1>5
<1>. HIDE DEF c, b
<1>7. IsAcc(b)  BY <1>3, <1>6 DEF IsAcc
<1>8. /\ ~b.rejected /\ b.current /\ b.content = c /\ b.open = a.open /\ b.toolsFrom = a.toolsFrom
  BY <1>3
<1>9. c = [a.content EXCEPT ![p] = [a.content[p] EXCEPT !.n = @ + 1]]  BY DEF c, x
<1>. QED  BY <1>7, <1>8, <1>9 DEF b, p

LEMMA HandlePartEnd ==
    ASSUME NEW a, NEW e \in PartEvents, IsAcc(a), ~a.rejected, a.current, e.type = "part-end",
           e.ref \in DOMAIN a.open[e.kind]
    PROVE  LET b == handle(a, e) IN
           /\ IsAcc(b) /\ ~b.rejected /\ b.current
           /\ b.content = a.content
           /\ b.open = [a.open EXCEPT ![e.kind] = Without(@, e.ref)]
           /\ b.toolsFrom = a.toolsFrom
<1>. DEFINE o == [a.open EXCEPT ![e.kind] = Without(@, e.ref)]
            b == handle(a, e)
<1>0. e.kind \in Kinds  BY DEF PartEvents
<1>1. b = update_part(a, e)  BY DEF handle, IsToolEvent, ToolTypes
<1>2. b = [current |-> a.current, content |-> a.content, open |-> o,
           rejected |-> a.rejected, toolsFrom |-> a.toolsFrom]
  BY <1>1 DEF update_part, IsAcc
<1>3. \A k \in Kinds : \A r \in DOMAIN o[k] : r \in DOMAIN a.open[k] /\ o[k][r] = a.open[k][r]
  BY DEF Without, IsAcc
<1>4. o = [k \in Kinds |-> o[k]]  BY DEF IsAcc
<1>. HIDE DEF o, b
<1>5. IsAcc(b)  BY <1>2, <1>3, <1>4 DEF IsAcc
<1>. QED  BY <1>2, <1>5 DEF o, b

(* Any event of a part: what it leaves alone, accepted or not.             *)
LEMMA HandleMapped ==
    ASSUME NEW a, NEW e \in MappedEvents, IsAcc(a)
    PROVE  LET b == handle(a, e) IN
           /\ IsAcc(b) /\ b.current = a.current
           /\ a.toolsFrom \subseteq b.toolsFrom
           /\ b.toolsFrom \subseteq a.toolsFrom \cup {e.att}
<1>1. CASE a.rejected  BY <1>1, HandleRejected
<1>2. CASE ~a.rejected /\ e \in OtherEvents  BY <1>2, HandleOther
<1>3. CASE ~a.rejected /\ e \in PartEvents /\ ~a.current
  <2>1. handle(a, e) = [a EXCEPT !.rejected = TRUE]
    BY <1>3 DEF handle, IsToolEvent, ToolTypes, PartEvents, PartTypes
  <2>2. handle(a, e) = [current |-> a.current, content |-> a.content, open |-> a.open,
                        rejected |-> TRUE, toolsFrom |-> a.toolsFrom]
    BY <2>1 DEF IsAcc
  <2>. QED  BY <2>2 DEF IsAcc
<1>4. CASE ~a.rejected /\ e \in PartEvents /\ a.current
  <2>1. CASE e.type = "part-start"  BY <1>4, <2>1, HandlePartStart
  <2>2. CASE e.type \in {"part-delta", "part-end"} /\ e.ref \in DOMAIN a.open[e.kind]
    BY <1>4, <2>2, HandlePartDelta, HandlePartEnd
  <2>3. CASE e.type \in {"part-delta", "part-end"} /\ e.ref \notin DOMAIN a.open[e.kind]
    <3>1. handle(a, e) = [a EXCEPT !.rejected = TRUE]
      BY <1>4, <2>3 DEF handle, update_part, IsToolEvent, ToolTypes
    <3>2. handle(a, e) = [current |-> a.current, content |-> a.content, open |-> a.open,
                          rejected |-> TRUE, toolsFrom |-> a.toolsFrom]
      BY <3>1 DEF IsAcc
    <3>. QED  BY <3>2 DEF IsAcc
  <2>. QED  BY <1>4, <2>1, <2>2, <2>3 DEF PartEvents, PartTypes
<1>. QED  BY <1>1, <1>2, <1>3, <1>4 DEF MappedEvents

LEMMA DeliveredMapped ==
    ASSUME NEW a, IsAcc(a), NEW events \in Seq(MappedEvents), NEW T,
           \A i \in 1..Len(events) : events[i].att \in T
    PROVE  LET b == Delivered(a, events) IN
           /\ IsAcc(b) /\ b.current = a.current
           /\ a.toolsFrom \subseteq b.toolsFrom
           /\ b.toolsFrom \subseteq a.toolsFrom \cup T
<1>. DEFINE P(b) == /\ IsAcc(b) /\ b.current = a.current
                    /\ a.toolsFrom \subseteq b.toolsFrom
                    /\ b.toolsFrom \subseteq a.toolsFrom \cup T
            S == {n \in 0..Len(events) : P(After(a, events, n))}
<1>0. Len(events) \in Nat  OBVIOUS
<1>1. 0 \in S
  <2>1. After(a, events, 0) = a  BY AfterStep
  <2>2. P(a)  OBVIOUS
  <2>. QED  BY <1>0, <2>1, <2>2
<1>2. ASSUME NEW n \in 0..(Len(events) - 1), n \in S PROVE n + 1 \in S
  <2>. DEFINE b == After(a, events, n)
              e == events[n + 1]
  <2>1. After(a, events, n + 1) = handle(b, e)  BY AfterStep
  <2>2. P(b) /\ e \in MappedEvents /\ e.att \in T  BY <1>2
  <2>. HIDE DEF b, e
  <2>3. P(handle(b, e))  BY <2>2, HandleMapped
  <2>4. P(After(a, events, n + 1))  BY <2>1, <2>3
  <2>. QED  BY <1>0, <2>4
<1>. HIDE DEF S
<1>3. \A n \in 0..Len(events) : n \in S  BY <1>0, <1>1, <1>2, UpTo
<1>4. Len(events) \in S  BY <1>0, <1>3
<1>5. P(Delivered(a, events))  BY <1>4, DeliveredAfter DEF S
<1>. QED  BY <1>5

-----------------------------------------------------------------------------
(* What content reports, and where.                                        *)

ModelItems(c) == {n \in 1..Len(c) : FromModel(c[n])}
Rank(c, p) == Len(KeptTo(c, ModelItems(c), p))
ClientItems(c, type) == {i \in DOMAIN c : c[i].type = type /\ c[i].kind = "client"}

LEMMA ReportedKept == ASSUME NEW c PROVE Reported(c) = KeptTo(c, ModelItems(c), Len(c))
BY KeptKeptTo DEF Reported, ModelItems

LEMMA ReportedAppend ==
    ASSUME NEW c \in Seq(Items), NEW x \in Items
    PROVE  LET d == Append(c, x) IN
           /\ Reported(d) = IF FromModel(x) THEN Append(Reported(c), x) ELSE Reported(c)
           /\ \A p \in 1..Len(c) : Rank(d, p) = Rank(c, p)
           /\ FromModel(x) => Rank(d, Len(c) + 1) = Len(Reported(c)) + 1
<1>. DEFINE d == Append(c, x)
<1>1. /\ d \in Seq(Items) /\ Len(d) = Len(c) + 1 /\ Len(c) \in Nat /\ d[Len(c) + 1] = x
      /\ \A p \in 1..Len(c) : d[p] = c[p]
  OBVIOUS
<1>. HIDE DEF d
<1>2. \A p \in 1..Len(c) : p \in ModelItems(d) <=> p \in ModelItems(c)  BY <1>1 DEF ModelItems
<1>3. \A p \in 0..Len(c) : KeptTo(d, ModelItems(d), p) = KeptTo(c, ModelItems(c), p)
  <2>. TAKE p \in 0..Len(c)
  <2>1. p \in Nat /\ \A j \in 1..p : d[j] = c[j] /\ (j \in ModelItems(d) <=> j \in ModelItems(c))
    BY <1>1, <1>2
  <2>. QED  BY <2>1, KeptToSame
<1>4. KeptTo(d, ModelItems(d), Len(c) + 1)
         = IF Len(c) + 1 \in ModelItems(d) THEN Append(KeptTo(d, ModelItems(d), Len(c)), d[Len(c) + 1])
           ELSE KeptTo(d, ModelItems(d), Len(c))
  BY <1>1, KeptToStep
<1>5. Len(c) + 1 \in ModelItems(d) <=> FromModel(x)  BY <1>1 DEF ModelItems
<1>6. KeptTo(d, ModelItems(d), Len(c)) = Reported(c)  BY <1>1, <1>3, ReportedKept
<1>7. Reported(d) = KeptTo(d, ModelItems(d), Len(c) + 1)  BY <1>1, ReportedKept
<1>8. Reported(d) = IF FromModel(x) THEN Append(Reported(c), x) ELSE Reported(c)
  BY <1>1, <1>4, <1>5, <1>6, <1>7, Zenon
<1>9. \A p \in 1..Len(c) : Rank(d, p) = Rank(c, p)  BY <1>3 DEF Rank
<1>10. ASSUME FromModel(x) PROVE Rank(d, Len(c) + 1) = Len(Reported(c)) + 1
  <2>1. KeptTo(d, ModelItems(d), Len(c) + 1) = Append(Reported(c), x)  BY <1>7, <1>8, <1>10
  <2>2. Reported(c) \in Seq(Items)  BY <1>1, KeptToType, ReportedKept
  <2>3. Len(Append(Reported(c), x)) = Len(Reported(c)) + 1  BY <2>2
  <2>. QED  BY <2>1, <2>3 DEF Rank
<1>. QED  BY <1>8, <1>9, <1>10 DEF d

LEMMA KeptToPart ==
    ASSUME NEW c \in Seq(Items), NEW p \in 1..Len(c), c[p].type = "part"
    PROVE  Rank(c, p) \in 1..Len(Reported(c)) /\ Reported(c)[Rank(c, p)] = c[p]
<1>. DEFINE I == ModelItems(c)
            r == Rank(c, p)
<1>1. p \in (1..Len(c)) \cap I  BY DEF ModelItems, FromModel
<1>2. \A n \in p..Len(c) : r \in 1..Len(KeptTo(c, I, n)) /\ KeptTo(c, I, n)[r] = c[p]
  <2>. HIDE DEF I
  <2>. QED  BY <1>1, KeptToAt DEF Rank, I
<1>3. Len(c) \in p..Len(c)  OBVIOUS
<1>. QED  BY <1>2, <1>3, ReportedKept

(* A part of the content is replaced by another.                           *)
LEMMA KeptToReplaced ==
    ASSUME NEW c \in Seq(Items), NEW p \in 1..Len(c), c[p].type = "part",
           NEW x \in Items, x.type = "part", NEW n \in 0..Len(c)
    PROVE  LET d == [c EXCEPT ![p] = x] IN
           KeptTo(d, ModelItems(d), n) = IF n < p THEN KeptTo(c, ModelItems(c), n)
                                         ELSE [KeptTo(c, ModelItems(c), n) EXCEPT ![Rank(c, p)] = x]
<1>. DEFINE d == [c EXCEPT ![p] = x]
            I == ModelItems(c)
<1>1. /\ d \in Seq(Items) /\ Len(d) = Len(c) /\ Len(c) \in Nat /\ d[p] = x
      /\ \A q \in 1..Len(c) : q # p => d[q] = c[q]
  OBVIOUS
<1>2. ModelItems(d) = I
  <2>1. FromModel(c[p]) /\ FromModel(x)  BY DEF FromModel
  <2>. HIDE DEF d
  <2>. QED  BY <1>1, <2>1 DEF ModelItems
<1>3. p \in (1..Len(c)) \cap I  BY DEF ModelItems, FromModel
<1>4. KeptTo(d, I, n) = IF n < p THEN KeptTo(c, I, n) ELSE [KeptTo(c, I, n) EXCEPT ![Rank(c, p)] = x]
  <2>. HIDE DEF I
  <2>. QED  BY <1>3, KeptToUpdate DEF Rank, I
<1>. HIDE DEF d, I
<1>. QED  BY <1>2, <1>4, Zenon DEF d, I

Replaced(c, p, x) == [c EXCEPT ![p] = x]

LEMMA ReportedUpdate ==
    ASSUME NEW c \in Seq(Items), NEW p \in 1..Len(c), c[p].type = "part",
           NEW x \in Items, x.type = "part"
    PROVE  Reported(Replaced(c, p, x)) = Replaced(Reported(c), Rank(c, p), x)
<1>. DEFINE d == [c EXCEPT ![p] = x]
<1>1. Len(d) = Len(c) /\ Len(c) \in 0..Len(c) /\ ~(Len(c) < p)  OBVIOUS
<1>2. KeptTo(d, ModelItems(d), Len(c))
         = IF Len(c) < p THEN KeptTo(c, ModelItems(c), Len(c))
           ELSE [KeptTo(c, ModelItems(c), Len(c)) EXCEPT ![Rank(c, p)] = x]
  <2>. DEFINE n == Len(c)
  <2>1. n \in 0..Len(c)  BY <1>1
  <2>. HIDE DEF n
  <2>2. KeptTo(d, ModelItems(d), n)
           = IF n < p THEN KeptTo(c, ModelItems(c), n)
             ELSE [KeptTo(c, ModelItems(c), n) EXCEPT ![Rank(c, p)] = x]
    BY <2>1, KeptToReplaced
  <2>. QED  BY <2>2 DEF n
<1>3. Reported(c) = KeptTo(c, ModelItems(c), Len(c)) /\ Reported(d) = KeptTo(d, ModelItems(d), Len(d))
  BY ReportedKept
<1>. HIDE DEF d
<1>4. Reported(d) = [Reported(c) EXCEPT ![Rank(c, p)] = x]  BY <1>1, <1>2, <1>3, Zenon
<1>. QED  BY <1>4 DEF d, Replaced

LEMMA RankUpdate ==
    ASSUME NEW c \in Seq(Items), NEW p \in 1..Len(c), c[p].type = "part",
           NEW x \in Items, x.type = "part", NEW q \in 1..Len(c)
    PROVE  Rank(Replaced(c, p, x), q) = Rank(c, q)
<1>. DEFINE d == [c EXCEPT ![p] = x]
            k == KeptTo(c, ModelItems(c), q)
<1>1. q \in 0..Len(c)  OBVIOUS
<1>2. KeptTo(d, ModelItems(d), q) = IF q < p THEN k ELSE [k EXCEPT ![Rank(c, p)] = x]
  BY <1>1, KeptToReplaced
<1>3. k \in Seq(Items)  BY <1>1, KeptToType
<1>. HIDE DEF d, k
<1>4. Len([k EXCEPT ![Rank(c, p)] = x]) = Len(k)  BY <1>3
<1>5. Len(KeptTo(d, ModelItems(d), q)) = Len(k)  BY <1>2, <1>4, Zenon
<1>. QED  BY <1>5 DEF Rank, d, k, Replaced

LEMMA TypesUpdate ==
    ASSUME NEW c \in Seq(Items), NEW p \in 1..Len(c), c[p].type = "part",
           NEW x \in Items, x.type = "part"
    PROVE  /\ Len(Replaced(c, p, x)) = Len(c)
           /\ \A i \in 1..Len(c) : Replaced(c, p, x)[i].type = c[i].type
BY DEF Replaced

LEMMA ClientItemsAppend ==
    ASSUME NEW c \in Seq(Items), NEW x \in Items, NEW type
    PROVE  /\ IsFiniteSet(ClientItems(c, type)) /\ Cardinality(ClientItems(c, type)) \in Nat
           /\ Cardinality(ClientItems(Append(c, x), type))
                = Cardinality(ClientItems(c, type))
                  + (IF x.type = type /\ x.kind = "client" THEN 1 ELSE 0)
<1>. DEFINE d == Append(c, x)
            S == ClientItems(c, type)
<1>1. /\ Len(c) \in Nat /\ DOMAIN c = 1..Len(c) /\ DOMAIN d = 1..(Len(c) + 1)
      /\ d[Len(c) + 1] = x /\ \A p \in 1..Len(c) : d[p] = c[p]
  OBVIOUS
<1>. HIDE DEF d
<1>2. ClientItems(d, type) = S \cup (IF x.type = type /\ x.kind = "client" THEN {Len(c) + 1} ELSE {})
  BY <1>1 DEF ClientItems
<1>3. S \subseteq 1..Len(c) /\ Len(c) + 1 \notin S  BY <1>1 DEF ClientItems
<1>. HIDE DEF S
<1>4. IsFiniteSet(S) /\ Cardinality(S) \in Nat
  <2>1. 1 \in Int /\ Len(c) \in Int  BY <1>1
  <2>2. IsFiniteSet(1..Len(c))  BY <2>1, FS_Interval
  <2>3. IsFiniteSet(S)  BY <1>3, <2>2, FS_Subset
  <2>. QED  BY <2>3, FS_CardinalityType
<1>5. Cardinality(S \cup {Len(c) + 1}) = Cardinality(S) + 1  BY <1>3, <1>4, FS_AddElement
<1>6. S \cup {} = S  OBVIOUS
<1>7. Cardinality(ClientItems(d, type)) = Cardinality(S) + (IF x.type = type /\ x.kind = "client" THEN 1 ELSE 0)
  <2>1. CASE x.type = type /\ x.kind = "client"  BY <1>2, <1>5, <2>1
  <2>2. CASE ~(x.type = type /\ x.kind = "client")
    <3>1. ClientItems(d, type) = S  BY <1>2, <1>6, <2>2
    <3>. QED  BY <1>4, <2>2, <3>1
  <2>. QED  BY <2>1, <2>2
<1>. QED  BY <1>4, <1>7 DEF d, S

LEMMA ClientItemsUpdate ==
    ASSUME NEW c \in Seq(Items), NEW p \in 1..Len(c), c[p].type = "part",
           NEW x \in Items, x.type = "part", NEW type, x.kind = c[p].kind
    PROVE  ClientItems(Replaced(c, p, x), type) = ClientItems(c, type)
BY DEF ClientItems, Replaced

LEMMA OthersUpdate ==
    ASSUME NEW c \in Seq(Items), NEW p \in 1..Len(c), c[p].type = "part",
           NEW x, NEW i \in DOMAIN c, i # p
    PROVE  Replaced(c, p, x)[i] = c[i]
BY DEF Replaced

-----------------------------------------------------------------------------
(* What the attempt keeps (s) and what the processor has built from the    *)
(* events mapped so far (v) say the same; u are the reserved part ids.     *)

IsStateRecord(s) ==
    s = [ids |-> s.ids, open |-> s.open, content |-> s.content, index |-> s.index,
         calls |-> s.calls, queued |-> s.queued, resultIds |-> s.resultIds,
         clientOutputs |-> s.clientOutputs, denied |-> s.denied, output |-> s.output,
         buffer |-> s.buffer]

IsState(s) ==
    /\ IsStateRecord(s)
    /\ s.ids = [k \in Kinds |-> s.ids[k]]
    /\ s.open \in [Kinds -> Seq(Refs)]
    /\ s.content \in Seq(Items)
    /\ s.clientOutputs \in Nat /\ s.denied \in Nat
    /\ s.buffer \in Seq(MappedEvents)

Linked(s, v, k, ref) ==
    /\ ref \in DOMAIN v.open[k] /\ ref \in DOMAIN s.index
    /\ s.index[ref] \in 1..Len(s.content) /\ s.content[s.index[ref]].type = "part"
    /\ Rank(v.content, v.open[k][ref]) = Rank(s.content, s.index[ref])

Mirrors(s, v, u) ==
    /\ \A k \in Kinds : \A id \in DOMAIN s.ids[k] :
          s.ids[k][id] \in u /\ Linked(s, v, k, s.ids[k][id])
    /\ \A k \in Kinds : \A i, j \in DOMAIN s.ids[k] : i # j => s.ids[k][i] # s.ids[k][j]
    /\ Reported(v.content) = Reported(s.content)
    /\ \A c \in s.queued : \E i \in ClientItems(v.content, "tool-call") : v.content[i].ref = c
    /\ s.clientOutputs = Cardinality(ClientItems(v.content, "tool-error"))
    /\ s.denied = Cardinality(ClientItems(v.content, "denied"))

(* An item x of something other than a part is added to the content of the *)
(* attempt, to what the processor has, or to both.                         *)
LEMMA MirrorsContent ==
    ASSUME NEW s, NEW v, NEW t, NEW w, NEW u, IsState(s), IsAcc(v), Mirrors(s, v, u),
           NEW x \in Items, x.type # "part", NEW inS \in BOOLEAN, NEW inV \in BOOLEAN,
           FromModel(x) => inS /\ inV,
           t.ids = s.ids, t.index = s.index, w.open = v.open,
           t.content = IF inS THEN Append(s.content, x) ELSE s.content,
           w.content = IF inV THEN Append(v.content, x) ELSE v.content,
           \A c \in t.queued : \/ c \in s.queued
                               \/ inV /\ x.type = "tool-call" /\ x.kind = "client" /\ x.ref = c,
           t.clientOutputs = s.clientOutputs
               + (IF inV /\ x.type = "tool-error" /\ x.kind = "client" THEN 1 ELSE 0),
           t.denied = s.denied + (IF inV /\ x.type = "denied" /\ x.kind = "client" THEN 1 ELSE 0)
    PROVE  Mirrors(t, w, u)
<1>1. s.content \in Seq(Items) /\ v.content \in Seq(Items)  BY DEF IsState, IsAcc
<1>2. /\ Len(s.content) \in Nat /\ Len(t.content) >= Len(s.content)
      /\ \A p \in 1..Len(s.content) : t.content[p] = s.content[p] /\ Rank(t.content, p) = Rank(s.content, p)
      /\ Reported(t.content) = IF FromModel(x) THEN Append(Reported(s.content), x) ELSE Reported(s.content)
  <2>1. CASE inS
    <3>1. t.content = Append(s.content, x)  BY <2>1
    <3>2. /\ Len(s.content) \in Nat /\ Len(t.content) >= Len(s.content)
          /\ \A p \in 1..Len(s.content) : t.content[p] = s.content[p]
      BY <1>1, <3>1
    <3>3. /\ \A p \in 1..Len(s.content) : Rank(t.content, p) = Rank(s.content, p)
          /\ Reported(t.content) = IF FromModel(x) THEN Append(Reported(s.content), x) ELSE Reported(s.content)
      BY <1>1, <3>1, ReportedAppend
    <3>. QED  BY <3>2, <3>3
  <2>2. CASE ~inS  BY <1>1, <2>2
  <2>. QED  BY <2>1, <2>2
<1>3. /\ Len(v.content) \in Nat /\ DOMAIN v.content \subseteq DOMAIN w.content
      /\ DOMAIN v.content = 1..Len(v.content)
      /\ \A p \in 1..Len(v.content) : w.content[p] = v.content[p] /\ Rank(w.content, p) = Rank(v.content, p)
      /\ Reported(w.content) = IF FromModel(x) THEN Append(Reported(v.content), x) ELSE Reported(v.content)
  <2>1. CASE inV
    <3>1. w.content = Append(v.content, x)  BY <2>1
    <3>2. /\ Len(v.content) \in Nat /\ DOMAIN v.content \subseteq DOMAIN w.content
          /\ DOMAIN v.content = 1..Len(v.content)
          /\ \A p \in 1..Len(v.content) : w.content[p] = v.content[p]
      BY <1>1, <3>1
    <3>3. /\ \A p \in 1..Len(v.content) : Rank(w.content, p) = Rank(v.content, p)
          /\ Reported(w.content) = IF FromModel(x) THEN Append(Reported(v.content), x) ELSE Reported(v.content)
      BY <1>1, <3>1, ReportedAppend
    <3>. QED  BY <3>2, <3>3
  <2>2. CASE ~inV  BY <1>1, <2>2
  <2>. QED  BY <2>1, <2>2
<1>4. \A k \in Kinds : \A id \in DOMAIN t.ids[k] : t.ids[k][id] \in u /\ Linked(t, w, k, t.ids[k][id])
  BY <1>2, <1>3 DEF Mirrors, Linked, IsAcc
<1>5. \A k \in Kinds : \A i, j \in DOMAIN t.ids[k] : i # j => t.ids[k][i] # t.ids[k][j]  BY DEF Mirrors
<1>6. Reported(w.content) = Reported(t.content)  BY <1>2, <1>3 DEF Mirrors
<1>7. \A c \in t.queued : \E i \in ClientItems(w.content, "tool-call") : w.content[i].ref = c
  <2>. SUFFICES ASSUME NEW c \in t.queued
                PROVE  \E i \in ClientItems(w.content, "tool-call") : w.content[i].ref = c
    OBVIOUS
  <2>1. CASE c \in s.queued
    <3>1. PICK i \in ClientItems(v.content, "tool-call") : v.content[i].ref = c  BY <2>1 DEF Mirrors
    <3>2. i \in ClientItems(w.content, "tool-call") /\ w.content[i].ref = c
      BY <1>3, <3>1 DEF ClientItems
    <3>. QED  BY <3>2
  <2>2. CASE inV /\ x.type = "tool-call" /\ x.kind = "client" /\ x.ref = c
    <3>1. Len(v.content) + 1 \in DOMAIN w.content /\ w.content[Len(v.content) + 1] = x  BY <1>1, <2>2
    <3>2. Len(v.content) + 1 \in ClientItems(w.content, "tool-call")  BY <2>2, <3>1 DEF ClientItems
    <3>. QED  BY <2>2, <3>1, <3>2
  <2>. QED  BY <2>1, <2>2
<1>8. t.clientOutputs = Cardinality(ClientItems(w.content, "tool-error"))
  <2>1. CASE inV  BY <1>1, <2>1, ClientItemsAppend DEF Mirrors
  <2>2. CASE ~inV  BY <2>2 DEF Mirrors, IsState
  <2>. QED  BY <2>1, <2>2
<1>9. t.denied = Cardinality(ClientItems(w.content, "denied"))
  <2>1. CASE inV  BY <1>1, <2>1, ClientItemsAppend DEF Mirrors
  <2>2. CASE ~inV  BY <2>2 DEF Mirrors, IsState
  <2>. QED  BY <2>1, <2>2
<1>. QED  BY <1>4, <1>5, <1>6, <1>7, <1>8, <1>9 DEF Mirrors

LEMMA PutAt ==
    ASSUME NEW f, NEW x, NEW y, NEW g, g = Put(f, x, y)
    PROVE  \A i \in DOMAIN g : IF i = x THEN g[i] = y ELSE i \in DOMAIN f /\ g[i] = f[i]
BY DEF Put

(* A part starts under an id that was never used.                          *)
SameCounts(s, t) ==
    t.queued = s.queued /\ t.clientOutputs = s.clientOutputs /\ t.denied = s.denied

StartKept(s, t, k, id, ref, x) ==
    /\ t.ids = [s.ids EXCEPT ![k] = Put(@, id, ref)]
    /\ t.index = Put(s.index, ref, Len(s.content) + 1)
    /\ t.content = Append(s.content, x) /\ SameCounts(s, t)

StartSeen(v, w, k, ref, x) ==
    /\ w.content = Append(v.content, x)
    /\ w.open = [v.open EXCEPT ![k] = Put(@, ref, Len(v.content) + 1)]

LEMMA MirrorsStart ==
    ASSUME NEW s, NEW v, NEW t, NEW w, NEW u, IsState(s), IsAcc(v), Mirrors(s, v, u),
           NEW k \in Kinds, NEW id, NEW ref, ref \notin u, NEW x \in Items, x.type = "part",
           StartKept(s, t, k, id, ref, x), StartSeen(v, w, k, ref, x)
    PROVE  Mirrors(t, w, u \cup {ref})
<1>. USE DEF StartKept, StartSeen, SameCounts
<1>1. s.content \in Seq(Items) /\ v.content \in Seq(Items) /\ FromModel(x)  BY DEF IsState, IsAcc, FromModel
<1>2. /\ Len(s.content) \in Nat /\ Len(t.content) = Len(s.content) + 1
      /\ t.content[Len(s.content) + 1] = x
      /\ \A p \in 1..Len(s.content) : t.content[p] = s.content[p] /\ Rank(t.content, p) = Rank(s.content, p)
      /\ Reported(t.content) = Append(Reported(s.content), x)
      /\ Rank(t.content, Len(s.content) + 1) = Len(Reported(s.content)) + 1
  BY <1>1, ReportedAppend
<1>3. /\ Len(v.content) \in Nat /\ DOMAIN w.content = DOMAIN v.content \cup {Len(v.content) + 1}
      /\ w.content[Len(v.content) + 1] = x /\ DOMAIN v.content = 1..Len(v.content)
      /\ \A p \in 1..Len(v.content) : w.content[p] = v.content[p] /\ Rank(w.content, p) = Rank(v.content, p)
      /\ Reported(w.content) = Append(Reported(v.content), x)
      /\ Rank(w.content, Len(v.content) + 1) = Len(Reported(v.content)) + 1
  BY <1>1, ReportedAppend
<1>4. Reported(v.content) = Reported(s.content)  BY DEF Mirrors
<1>5. s.ids = [j \in Kinds |-> s.ids[j]] /\ v.open = [j \in Kinds |-> v.open[j]]  BY DEF IsState, IsAcc
<1>6. Linked(t, w, k, ref)
  <2>1. w.open[k] = Put(v.open[k], ref, Len(v.content) + 1)  BY <1>5
  <2>2. ref \in DOMAIN w.open[k] /\ w.open[k][ref] = Len(v.content) + 1  BY <2>1 DEF Put
  <2>3. ref \in DOMAIN t.index /\ t.index[ref] = Len(s.content) + 1  BY DEF Put
  <2>. QED  BY <1>2, <1>3, <1>4, <2>2, <2>3 DEF Linked
<1>7. ASSUME NEW j \in Kinds, NEW r \in u, Linked(s, v, j, r) PROVE Linked(t, w, j, r)
  <2>1. r # ref  OBVIOUS
  <2>2. r \in DOMAIN w.open[j] /\ w.open[j][r] = v.open[j][r]  BY <1>5, <1>7, <2>1 DEF Put, Linked
  <2>3. r \in DOMAIN t.index /\ t.index[r] = s.index[r]  BY <1>7, <2>1 DEF Put, Linked
  <2>. QED  BY <1>2, <1>3, <1>7, <2>2, <2>3 DEF Linked, IsAcc
<1>8. \A j \in Kinds : \A i \in DOMAIN t.ids[j] :
         t.ids[j][i] = ref \/ (i \in DOMAIN s.ids[j] /\ t.ids[j][i] = s.ids[j][i])
  <2>1. \A j \in Kinds : j # k => t.ids[j] = s.ids[j]  BY <1>5
  <2>2. t.ids[k] = Put(s.ids[k], id, ref)  BY <1>5
  <2>3. \A i \in DOMAIN t.ids[k] : t.ids[k][i] = ref \/ (i \in DOMAIN s.ids[k] /\ t.ids[k][i] = s.ids[k][i])
    <3>. DEFINE f == s.ids[k]
                g == t.ids[k]
    <3>1. g = Put(f, id, ref)  BY <2>2
    <3>. HIDE DEF f, g
    <3>2. \A i \in DOMAIN g : g[i] = ref \/ (i \in DOMAIN f /\ g[i] = f[i])
      BY <3>1, PutAt
    <3>. QED  BY <3>2 DEF f, g
  <2>. QED  BY <2>1, <2>3
<1>9. \A j \in Kinds : \A i \in DOMAIN t.ids[j] : t.ids[j][i] = ref => j = k /\ i = id
  BY <1>5, <1>8 DEF Put, Mirrors
<1>10. \A j \in Kinds : \A i \in DOMAIN t.ids[j] :
          t.ids[j][i] \in u \cup {ref} /\ Linked(t, w, j, t.ids[j][i])
  BY <1>6, <1>7, <1>8, <1>9 DEF Mirrors
<1>11. \A j \in Kinds : \A i, h \in DOMAIN t.ids[j] : i # h => t.ids[j][i] # t.ids[j][h]
  BY <1>8, <1>9 DEF Mirrors
<1>12. \A c \in t.queued : \E i \in ClientItems(w.content, "tool-call") : w.content[i].ref = c
  <2>. SUFFICES ASSUME NEW c \in s.queued
                PROVE  \E i \in ClientItems(w.content, "tool-call") : w.content[i].ref = c
    OBVIOUS
  <2>1. PICK i \in ClientItems(v.content, "tool-call") : v.content[i].ref = c  BY DEF Mirrors
  <2>2. i \in ClientItems(w.content, "tool-call") /\ w.content[i].ref = c  BY <1>3, <2>1 DEF ClientItems
  <2>. QED  BY <2>2
<1>13. /\ t.clientOutputs = Cardinality(ClientItems(w.content, "tool-error"))
       /\ t.denied = Cardinality(ClientItems(w.content, "denied"))
  BY <1>1, ClientItemsAppend DEF Mirrors
<1>14. Reported(w.content) = Reported(t.content)  BY <1>2, <1>3, <1>4
<1>. QED  BY <1>10, <1>11, <1>12, <1>13, <1>14 DEF Mirrors

(* A delta: the same part of both grows.                                   *)
DeltaKept(s, t, p, x) ==
    /\ t.ids = s.ids /\ t.index = s.index
    /\ t.content = Replaced(s.content, p, x) /\ SameCounts(s, t)

DeltaSeen(v, w, q, y) == w.open = v.open /\ w.content = Replaced(v.content, q, y)

LEMMA MirrorsDelta ==
    ASSUME NEW s, NEW v, NEW t, NEW w, NEW u, IsState(s), IsAcc(v), Mirrors(s, v, u),
           NEW k \in Kinds, NEW id \in DOMAIN s.ids[k], NEW p, NEW q,
           p = s.index[s.ids[k][id]], q = v.open[k][s.ids[k][id]],
           NEW x \in Items, x.type = "part", NEW y \in Items, y.type = "part",
           y.kind = v.content[q].kind, s.content[p] = v.content[q] => x = y,
           DeltaKept(s, t, p, x), DeltaSeen(v, w, q, y)
    PROVE  Mirrors(t, w, u)
<1>. USE DEF DeltaKept, DeltaSeen, SameCounts
<1>. DEFINE c == s.content
            d == v.content
            c2 == t.content
            d2 == w.content
<1>1. c \in Seq(Items) /\ d \in Seq(Items)  BY DEF IsState, IsAcc
<1>2. Linked(s, v, k, s.ids[k][id])  BY DEF Mirrors
<1>3. /\ p \in 1..Len(c) /\ q \in 1..Len(d) /\ Rank(d, q) = Rank(c, p)
      /\ c[p].type = "part" /\ d[q].type = "part"
  BY <1>2 DEF Linked, IsAcc
<1>4. Reported(d) = Reported(c)  BY DEF Mirrors
<1>5. c2 = Replaced(c, p, x) /\ d2 = Replaced(d, q, y) /\ y.kind = d[q].kind /\ (c[p] = d[q] => x = y)
  OBVIOUS
<1>6. /\ Reported(d2) = Reported(c2)
      /\ \A i \in 1..Len(c) : Rank(c2, i) = Rank(c, i)
      /\ \A i \in 1..Len(d) : Rank(d2, i) = Rank(d, i)
      /\ Len(c2) = Len(c) /\ \A i \in 1..Len(c) : c2[i].type = c[i].type
      /\ \A type : ClientItems(d2, type) = ClientItems(d, type)
      /\ \A i \in ClientItems(d, "tool-call") : d2[i] = d[i]
  <2>. HIDE DEF c, d, c2, d2
  <2>0. /\ c \in Seq(Items) /\ d \in Seq(Items) /\ Reported(d) = Reported(c) /\ p \in 1..Len(c)
        /\ c[p].type = "part" /\ q \in 1..Len(d) /\ d[q].type = "part"
        /\ Rank(d, q) = Rank(c, p) /\ y.kind = d[q].kind /\ (c[p] = d[q] => x = y)
        /\ c2 = Replaced(c, p, x) /\ d2 = Replaced(d, q, y) /\ x \in Items /\ y \in Items
        /\ x.type = "part" /\ y.type = "part"
    BY <1>1, <1>3, <1>4, <1>5
  <2>1. Reported(d2) = Reported(c2)
    <3>1. Reported(c)[Rank(c, p)] = c[p] /\ Reported(d)[Rank(d, q)] = d[q]  BY <2>0, KeptToPart
    <3>2. Reported(c2) = Replaced(Reported(c), Rank(c, p), x)  BY <2>0, ReportedUpdate
    <3>3. Reported(d2) = Replaced(Reported(d), Rank(d, q), y)  BY <2>0, ReportedUpdate
    <3>4. x = y  BY <2>0, <3>1
    <3>. QED  BY <2>0, <3>2, <3>3, <3>4, Zenon
  <2>2. ASSUME NEW i \in 1..Len(c) PROVE Rank(c2, i) = Rank(c, i)  BY <2>0, RankUpdate
  <2>3. ASSUME NEW i \in 1..Len(d) PROVE Rank(d2, i) = Rank(d, i)  BY <2>0, RankUpdate
  <2>4. Len(c2) = Len(c) /\ \A i \in 1..Len(c) : c2[i].type = c[i].type  BY <2>0, TypesUpdate
  <2>5. ASSUME NEW type PROVE ClientItems(d2, type) = ClientItems(d, type)  BY <2>0, ClientItemsUpdate
  <2>6. ASSUME NEW i \in ClientItems(d, "tool-call") PROVE d2[i] = d[i]
    <3>1. i \in DOMAIN d /\ i # q  BY <2>0 DEF ClientItems
    <3>. QED  BY <2>0, <3>1, OthersUpdate
  <2>. QED  BY <2>1, <2>2, <2>3, <2>4, <2>5, <2>6
<1>7. \A j \in Kinds : \A i \in DOMAIN t.ids[j] : t.ids[j][i] \in u /\ Linked(t, w, j, t.ids[j][i])
  <2>. SUFFICES ASSUME NEW j \in Kinds, NEW i \in DOMAIN s.ids[j]
                PROVE  s.ids[j][i] \in u /\ Linked(t, w, j, s.ids[j][i])
    OBVIOUS
  <2>. DEFINE r == s.ids[j][i]
  <2>1. r \in u /\ Linked(s, v, j, r)  BY DEF Mirrors
  <2>. HIDE DEF r
  <2>2. v.open[j][r] \in 1..Len(v.content)  BY <2>1 DEF Linked, IsAcc
  <2>3. Linked(t, w, j, r)  BY <1>6, <2>1, <2>2 DEF Linked
  <2>. QED  BY <2>1, <2>3 DEF r
<1>8. \A a \in t.queued : \E i \in ClientItems(w.content, "tool-call") : w.content[i].ref = a
  <2>. SUFFICES ASSUME NEW a \in s.queued
                PROVE  \E i \in ClientItems(w.content, "tool-call") : w.content[i].ref = a
    OBVIOUS
  <2>1. PICK i \in ClientItems(v.content, "tool-call") : v.content[i].ref = a  BY DEF Mirrors
  <2>2. i \in ClientItems(w.content, "tool-call") /\ w.content[i].ref = a
    <3>1. d2[i] = d[i] /\ ClientItems(d2, "tool-call") = ClientItems(d, "tool-call")  BY <1>6, <2>1
    <3>. HIDE DEF c2, d2
    <3>2. i \in ClientItems(d2, "tool-call") /\ d2[i].ref = a  BY <2>1, <3>1
    <3>. QED  BY <3>2 DEF d2
  <2>. QED  BY <2>2
<1>9. /\ t.clientOutputs = Cardinality(ClientItems(w.content, "tool-error"))
      /\ t.denied = Cardinality(ClientItems(w.content, "denied"))
  BY <1>6, Zenon DEF Mirrors
<1>10. \A j \in Kinds : \A i, h \in DOMAIN t.ids[j] : i # h => t.ids[j][i] # t.ids[j][h]
  <2>1. \A j \in Kinds : \A i, h \in DOMAIN s.ids[j] : i # h => s.ids[j][i] # s.ids[j][h]  BY DEF Mirrors
  <2>. QED  BY <2>1
<1>11. Reported(w.content) = Reported(t.content)  BY <1>6
<1>. QED  BY <1>7, <1>8, <1>9, <1>10, <1>11 DEF Mirrors

(* A part ends: it is forgotten on both sides.                             *)
EndKept(s, t, k, id) ==
    /\ t.ids = [s.ids EXCEPT ![k] = Without(@, id)]
    /\ t.index = s.index /\ t.content = s.content /\ SameCounts(s, t)

EndSeen(v, w, k, ref) ==
    w.content = v.content /\ w.open = [v.open EXCEPT ![k] = Without(@, ref)]

LEMMA MirrorsEnd ==
    ASSUME NEW s, NEW v, NEW t, NEW w, NEW u, IsState(s), IsAcc(v), Mirrors(s, v, u),
           NEW k \in Kinds, NEW id \in DOMAIN s.ids[k],
           EndKept(s, t, k, id), EndSeen(v, w, k, s.ids[k][id])
    PROVE  Mirrors(t, w, u)
<1>. USE DEF EndKept, EndSeen, SameCounts
<1>1. s.ids = [j \in Kinds |-> s.ids[j]] /\ v.open = [j \in Kinds |-> v.open[j]]  BY DEF IsState, IsAcc
<1>2. t.ids[k] = Without(s.ids[k], id) /\ w.open[k] = Without(v.open[k], s.ids[k][id])  BY <1>1
<1>3. \A j \in Kinds : j # k => t.ids[j] = s.ids[j] /\ w.open[j] = v.open[j]  BY <1>1
<1>4. \A i \in DOMAIN t.ids[k] : i \in DOMAIN s.ids[k] /\ i # id /\ t.ids[k][i] = s.ids[k][i]
  BY <1>2 DEF Without
<1>5. \A j \in Kinds : \A i \in DOMAIN t.ids[j] : i \in DOMAIN s.ids[j] /\ t.ids[j][i] = s.ids[j][i]
  BY <1>3, <1>4
<1>6. ASSUME NEW j \in Kinds, NEW i \in DOMAIN t.ids[j] PROVE Linked(t, w, j, t.ids[j][i])
  <2>. DEFINE r == s.ids[j][i]
  <2>1. Linked(s, v, j, r) /\ t.ids[j][i] = r  BY <1>5 DEF Mirrors
  <2>2. j = k => r # s.ids[k][id]  BY <1>4 DEF Mirrors
  <2>3. r \in DOMAIN w.open[j] /\ w.open[j][r] = v.open[j][r]
    <3>1. CASE j = k  BY <1>2, <2>1, <2>2, <3>1 DEF Without, Linked
    <3>2. CASE j # k  BY <1>3, <2>1, <3>2 DEF Linked
    <3>. QED  BY <3>1, <3>2
  <2>. QED  BY <2>1, <2>3 DEF Linked
<1>. QED  BY <1>5, <1>6 DEF Mirrors

-----------------------------------------------------------------------------
(* The parts the reader tracks as open are those open at the processor.    *)

Opens == [Kinds -> Seq(Refs)]

OpenMatches(open, a) ==
    \A k \in Kinds : RangeOf(open[k]) = DOMAIN a.open[k] /\ Distinct(open[k])

LEMMA KeptOthers ==
    ASSUME NEW E, NEW s \in Seq(E), NEW ref
    PROVE  LET k == Kept(s, Others(s, ref)) IN
           /\ k \in Seq(E)
           /\ RangeOf(k) = RangeOf(s) \ {ref}
           /\ Distinct(s) => Distinct(k)
<1>. DEFINE I == Others(s, ref)
            k == Kept(s, I)
<1>1. Len(s) \in 0..Len(s) /\ DOMAIN s = 1..Len(s)  OBVIOUS
<1>2. k = KeptTo(s, I, Len(s))  BY KeptKeptTo
<1>3. k \in Seq(E)
  <2>. HIDE DEF I, k
  <2>. QED  BY <1>1, <1>2, KeptToType
<1>4. RangeOf(k) = {s[j] : j \in (1..Len(s)) \cap I}
  <2>. HIDE DEF I, k
  <2>. QED  BY <1>1, <1>2, KeptToRange
<1>5. {s[j] : j \in (1..Len(s)) \cap I} = RangeOf(s) \ {ref}  BY <1>1 DEF RangeOf, Others
<1>6. ASSUME Distinct(s) PROVE Distinct(k)
  <2>. HIDE DEF I, k
  <2>. QED  BY <1>1, <1>2, <1>6, KeptToDistinct
<1>. QED  BY <1>3, <1>4, <1>5, <1>6

LEMMA TrackedMatches ==
    ASSUME NEW open \in Opens, NEW e \in MappedEvents, NEW a,
           IsAcc(a), ~a.rejected, a.current, OpenMatches(open, a),
           e.type = "part-start" => e.ref \notin DOMAIN a.open[e.kind],
           e.type \in {"part-delta", "part-end"} => e.ref \in DOMAIN a.open[e.kind]
    PROVE  Tracked(open, e) \in Opens /\ OpenMatches(Tracked(open, e), handle(a, e))
<1>1. CASE e \in OtherEvents
  <2>1. Tracked(open, e) = open  BY <1>1 DEF OtherEvents, Tracked, ToolTypes
  <2>2. handle(a, e).open = a.open  BY <1>1, HandleOther
  <2>. QED  BY <2>1, <2>2 DEF OpenMatches
<1>2. CASE e \in PartEvents /\ e.type = "part-delta"
  <2>1. Tracked(open, e) = open  BY <1>2 DEF Tracked
  <2>2. handle(a, e).open = a.open  BY <1>2, HandlePartDelta
  <2>. QED  BY <2>1, <2>2 DEF OpenMatches
<1>3. CASE e \in PartEvents /\ e.type = "part-start"
  <2>. DEFINE k == e.kind
              o == Append(open[k], e.ref)
  <2>1. k \in Kinds /\ e.ref \in Refs /\ open[k] \in Seq(Refs)  BY <1>3 DEF PartEvents, Opens
  <2>2. Tracked(open, e) = [open EXCEPT ![k] = o]  BY <1>3 DEF Tracked
  <2>3. handle(a, e).open = [a.open EXCEPT ![k] = Put(@, e.ref, Len(a.content) + 1)]
    BY <1>3, HandlePartStart
  <2>4. a.open = [j \in Kinds |-> a.open[j]]  BY DEF IsAcc
  <2>5. DOMAIN Put(a.open[k], e.ref, Len(a.content) + 1) = DOMAIN a.open[k] \cup {e.ref}  BY DEF Put
  <2>6. RangeOf(open[k]) = DOMAIN a.open[k] /\ Distinct(open[k])  BY <2>1 DEF OpenMatches
  <2>7. o \in Seq(Refs) /\ RangeOf(o) = RangeOf(open[k]) \cup {e.ref}  BY <2>1, RangeOfAppend
  <2>8. Distinct(o)
    <3>1. \A i \in DOMAIN open[k] : open[k][i] # e.ref  BY <1>3, <2>6 DEF RangeOf
    <3>. QED  BY <2>1, <2>6, <3>1 DEF Distinct
  <2>. HIDE DEF o
  <2>9. Tracked(open, e) \in Opens  BY <2>1, <2>2, <2>7 DEF Opens
  <2>10. ASSUME NEW j \in Kinds
         PROVE  /\ RangeOf(Tracked(open, e)[j]) = DOMAIN handle(a, e).open[j]
                /\ Distinct(Tracked(open, e)[j])
    <3>1. CASE j = k
      <4>1. Tracked(open, e)[j] = o  BY <2>1, <2>2, <3>1 DEF Opens
      <4>2. handle(a, e).open[j] = Put(a.open[k], e.ref, Len(a.content) + 1)  BY <2>1, <2>3, <2>4, <3>1
      <4>. QED  BY <2>5, <2>6, <2>7, <2>8, <4>1, <4>2
    <3>2. CASE j # k
      <4>1. Tracked(open, e)[j] = open[j]  BY <2>1, <2>2, <3>2 DEF Opens
      <4>2. handle(a, e).open[j] = a.open[j]  BY <2>1, <2>3, <2>4, <3>2
      <4>. QED  BY <4>1, <4>2 DEF OpenMatches
    <3>. QED  BY <3>1, <3>2
  <2>. QED  BY <2>9, <2>10 DEF OpenMatches
<1>4. CASE e \in PartEvents /\ e.type = "part-end"
  <2>. DEFINE k == e.kind
              o == Kept(open[k], Others(open[k], e.ref))
  <2>1. k \in Kinds /\ e.ref \in Refs /\ open[k] \in Seq(Refs)  BY <1>4 DEF PartEvents, Opens
  <2>2. Tracked(open, e) = [open EXCEPT ![k] = o]  BY <1>4 DEF Tracked
  <2>3. handle(a, e).open = [a.open EXCEPT ![k] = Without(@, e.ref)]  BY <1>4, HandlePartEnd
  <2>4. a.open = [j \in Kinds |-> a.open[j]]  BY DEF IsAcc
  <2>5. DOMAIN Without(a.open[k], e.ref) = DOMAIN a.open[k] \ {e.ref}  BY DEF Without
  <2>6. RangeOf(open[k]) = DOMAIN a.open[k] /\ Distinct(open[k])  BY <2>1 DEF OpenMatches
  <2>7. o \in Seq(Refs) /\ RangeOf(o) = RangeOf(open[k]) \ {e.ref} /\ Distinct(o)
    BY <2>1, <2>6, KeptOthers
  <2>. HIDE DEF o
  <2>9. Tracked(open, e) \in Opens  BY <2>1, <2>2, <2>7 DEF Opens
  <2>10. ASSUME NEW j \in Kinds
         PROVE  /\ RangeOf(Tracked(open, e)[j]) = DOMAIN handle(a, e).open[j]
                /\ Distinct(Tracked(open, e)[j])
    <3>1. CASE j = k
      <4>1. Tracked(open, e)[j] = o  BY <2>1, <2>2, <3>1 DEF Opens
      <4>2. handle(a, e).open[j] = Without(a.open[k], e.ref)  BY <2>1, <2>3, <2>4, <3>1
      <4>. QED  BY <2>5, <2>6, <2>7, <4>1, <4>2
    <3>2. CASE j # k
      <4>1. Tracked(open, e)[j] = open[j]  BY <2>1, <2>2, <3>2 DEF Opens
      <4>2. handle(a, e).open[j] = a.open[j]  BY <2>1, <2>3, <2>4, <3>2
      <4>. QED  BY <4>1, <4>2 DEF OpenMatches
    <3>. QED  BY <3>1, <3>2
  <2>. QED  BY <2>9, <2>10 DEF OpenMatches
<1>. QED  BY <1>1, <1>2, <1>3, <1>4 DEF MappedEvents, PartEvents, PartTypes

LEMMA OpenAfterOne == ASSUME NEW open, NEW e PROVE OpenAfter(open, <<e>>) = Tracked(open, e)
<1>1. TrackedAfter(open, <<e>>, 0 + 1) = Tracked(TrackedAfter(open, <<e>>, 0), <<e>>[0 + 1])
  BY TrackedAfterStep
<1>2. Len(<<e>>) = 1 /\ <<e>>[0 + 1] = e  OBVIOUS
<1>. QED  BY <1>1, <1>2, OpenAfterTracked, TrackedAfterStep

LEMMA OpenAfterOther ==
    ASSUME NEW open, NEW events \in Seq(OtherEvents)
    PROVE  OpenAfter(open, events) = open
<1>. DEFINE S == {n \in 0..Len(events) : TrackedAfter(open, events, n) = open}
<1>0. Len(events) \in Nat  OBVIOUS
<1>1. 0 \in S  BY <1>0, TrackedAfterStep
<1>2. ASSUME NEW n \in 0..(Len(events) - 1), n \in S PROVE n + 1 \in S
  <2>1. TrackedAfter(open, events, n + 1) = Tracked(TrackedAfter(open, events, n), events[n + 1])
    BY TrackedAfterStep
  <2>2. events[n + 1] \in OtherEvents  OBVIOUS
  <2>3. Tracked(open, events[n + 1]) = open  BY <2>2 DEF OtherEvents, Tracked, ToolTypes
  <2>. QED  BY <1>2, <2>1, <2>3
<1>. HIDE DEF S
<1>3. \A n \in 0..Len(events) : n \in S  BY <1>0, <1>1, <1>2, UpTo
<1>4. Len(events) \in S  BY <1>0, <1>3
<1>. QED  BY <1>4, OpenAfterTracked DEF S

LEMMA DeliveredOther ==
    ASSUME NEW a, IsAcc(a), ~a.rejected, NEW events \in Seq(OtherEvents)
    PROVE  LET b == Delivered(a, events) IN
           IsAcc(b) /\ ~b.rejected /\ b.current = a.current /\ b.open = a.open
<1>. DEFINE P(b) == IsAcc(b) /\ ~b.rejected /\ b.current = a.current /\ b.open = a.open
            S == {n \in 0..Len(events) : P(After(a, events, n))}
<1>0. Len(events) \in Nat  OBVIOUS
<1>1. 0 \in S
  <2>1. After(a, events, 0) = a  BY AfterStep
  <2>2. P(a)  OBVIOUS
  <2>. QED  BY <1>0, <2>1, <2>2
<1>2. ASSUME NEW n \in 0..(Len(events) - 1), n \in S PROVE n + 1 \in S
  <2>. DEFINE b == After(a, events, n)
              e == events[n + 1]
  <2>1. After(a, events, n + 1) = handle(b, e)  BY AfterStep
  <2>2. P(b) /\ e \in OtherEvents  BY <1>2
  <2>. HIDE DEF b, e
  <2>3. P(handle(b, e))  BY <2>2, HandleOther
  <2>4. P(After(a, events, n + 1))  BY <2>1, <2>3
  <2>. QED  BY <1>0, <2>4
<1>. HIDE DEF S
<1>3. \A n \in 0..Len(events) : n \in S  BY <1>0, <1>1, <1>2, UpTo
<1>4. Len(events) \in S  BY <1>0, <1>3
<1>5. P(Delivered(a, events))  BY <1>4, DeliveredAfter DEF S
<1>. QED  BY <1>5

(* Ending each of a set of open parts once.                                *)
LEMMA DeliveredEnds ==
    ASSUME NEW a, IsAcc(a), ~a.rejected, a.current, NEW k \in Kinds,
           NEW refs \in Seq(Refs), Distinct(refs), RangeOf(refs) \subseteq DOMAIN a.open[k],
           NEW events \in Seq(PartEvents), Len(events) = Len(refs),
           \A i \in 1..Len(refs) : /\ events[i].type = "part-end" /\ events[i].kind = k
                                   /\ events[i].ref = refs[i]
    PROVE  LET b == Delivered(a, events) IN
           /\ IsAcc(b) /\ ~b.rejected /\ b.current /\ b.toolsFrom = a.toolsFrom
           /\ DOMAIN b.open[k] = DOMAIN a.open[k] \ RangeOf(refs)
           /\ \A j \in Kinds : j # k => b.open[j] = a.open[j]
<1>. DEFINE P(b, n) == /\ IsAcc(b) /\ ~b.rejected /\ b.current /\ b.toolsFrom = a.toolsFrom
                       /\ DOMAIN b.open[k] = DOMAIN a.open[k] \ {refs[i] : i \in 1..n}
                       /\ \A j \in Kinds : j # k => b.open[j] = a.open[j]
            S == {n \in 0..Len(refs) : P(After(a, events, n), n)}
<1>0. Len(refs) \in Nat /\ DOMAIN refs = 1..Len(refs)  OBVIOUS
<1>1. 0 \in S
  <2>1. After(a, events, 0) = a  BY AfterStep
  <2>2. P(a, 0)  OBVIOUS
  <2>. QED  BY <1>0, <2>1, <2>2
<1>2. ASSUME NEW n \in 0..(Len(refs) - 1), n \in S PROVE n + 1 \in S
  <2>. DEFINE b == After(a, events, n)
              e == events[n + 1]
  <2>1. After(a, events, n + 1) = handle(b, e)  BY AfterStep
  <2>2. P(b, n) /\ e \in PartEvents /\ e.type = "part-end" /\ e.kind = k /\ e.ref = refs[n + 1]
    BY <1>2
  <2>3. e.ref \in DOMAIN b.open[k]
    <3>1. \A i \in 1..n : refs[i] # refs[n + 1]  BY <1>0 DEF Distinct
    <3>2. refs[n + 1] \in DOMAIN a.open[k]  BY <1>0 DEF RangeOf
    <3>. QED  BY <2>2, <3>1, <3>2
  <2>. HIDE DEF b, e
  <2>4. LET h == handle(b, e) IN
        /\ IsAcc(h) /\ ~h.rejected /\ h.current /\ h.toolsFrom = b.toolsFrom
        /\ h.open = [b.open EXCEPT ![k] = Without(@, e.ref)]
    <3>. DEFINE h == handle(b, e)
    <3>1. IsAcc(b) /\ ~b.rejected /\ b.current /\ e \in PartEvents /\ e.type = "part-end"
          /\ e.ref \in DOMAIN b.open[e.kind] /\ e.kind = k
      BY <2>2, <2>3
    <3>2. IsAcc(h) /\ ~h.rejected /\ h.current /\ h.toolsFrom = b.toolsFrom  BY <3>1, HandlePartEnd
    <3>3. h.open = [b.open EXCEPT ![e.kind] = Without(@, e.ref)]  BY <3>1, HandlePartEnd
    <3>. QED  BY <3>1, <3>2, <3>3
  <2>5. b.open = [j \in Kinds |-> b.open[j]]  BY <2>2 DEF IsAcc
  <2>6. DOMAIN handle(b, e).open[k] = DOMAIN b.open[k] \ {e.ref}  BY <2>4, <2>5 DEF Without
  <2>7. \A j \in Kinds : j # k => handle(b, e).open[j] = b.open[j]  BY <2>4, <2>5
  <2>8. {refs[i] : i \in 1..(n + 1)} = {refs[i] : i \in 1..n} \cup {refs[n + 1]}
    <3>1. 1..(n + 1) = (1..n) \cup {n + 1}  OBVIOUS
    <3>. QED  BY <3>1
  <2>9. DOMAIN handle(b, e).open[k] = DOMAIN a.open[k] \ {refs[i] : i \in 1..(n + 1)}
    BY <2>2, <2>6, <2>8
  <2>10. P(handle(b, e), n + 1)  BY <2>2, <2>4, <2>7, <2>9
  <2>11. P(After(a, events, n + 1), n + 1)  BY <2>1, <2>10
  <2>. QED  BY <1>0, <2>11
<1>. HIDE DEF S
<1>3. \A n \in 0..Len(refs) : n \in S  BY <1>0, <1>1, <1>2, UpTo
<1>4. Len(refs) \in S  BY <1>0, <1>3
<1>5. P(Delivered(a, events), Len(refs))  BY <1>4, DeliveredAfter DEF S
<1>. QED  BY <1>0, <1>5 DEF RangeOf

-----------------------------------------------------------------------------
(* A reserved part id is new: one of the suffixes 1, 2, ... is free.       *)

LEMMA SuffixIsFree ==
    ASSUME NEW ids, IsFiniteSet(ids), NEW id \in Seq(Nat)
    PROVE  \E n \in 1..(Cardinality(ids) + 1) : Append(id, n) \notin ids
<1>. DEFINE m == Cardinality(ids) + 1
            T == {Append(id, n) : n \in 1..m}
<1>1. Cardinality(ids) \in Nat  BY FS_CardinalityType
<1>2. SUFFICES ASSUME T \subseteq ids PROVE FALSE  OBVIOUS
<1>3. IsFiniteSet(1..m) /\ Cardinality(1..m) = m
  <2>1. 1 \in Int /\ m \in Int /\ ~(1 > m) /\ m - 1 + 1 = m  BY <1>1
  <2>. HIDE DEF m
  <2>2. IsFiniteSet(1..m) /\ Cardinality(1..m) = IF 1 > m THEN 0 ELSE m - 1 + 1
    BY <2>1, FS_Interval
  <2>. QED  BY <2>1, <2>2
<1>4. [n \in 1..m |-> Append(id, n)] \in Bijection(1..m, T)
  <2>. DEFINE f == [n \in 1..m |-> Append(id, n)]
  <2>1. f \in [1..m -> T]  OBVIOUS
  <2>2. ASSUME NEW i \in 1..m, NEW j \in 1..m, f[i] = f[j] PROVE i = j
    <3>1. Append(id, i) = Append(id, j)  BY <2>2
    <3>2. Append(id, i)[Len(id) + 1] = i /\ Append(id, j)[Len(id) + 1] = j  OBVIOUS
    <3>. QED  BY <3>1, <3>2
  <2>3. \A t \in T : \E i \in 1..m : f[i] = t  OBVIOUS
  <2>. HIDE DEF f, T
  <2>4. f \in Injection(1..m, T)  BY <2>1, <2>2 DEF Injection, IsInjective
  <2>5. f \in Surjection(1..m, T)  BY <2>1, <2>3 DEF Surjection
  <2>. QED  BY <2>4, <2>5 DEF Bijection, f
<1>5. Cardinality(T) = m
  <2>. HIDE DEF T, m
  <2>1. ExistsBijection(1..m, T)  BY <1>4 DEF ExistsBijection
  <2>. QED  BY <1>3, <2>1, FS_Bijection
<1>6. Cardinality(T) <= Cardinality(ids)
  <2>. HIDE DEF T
  <2>. QED  BY <1>2, FS_Subset
<1>. QED  BY <1>1, <1>5, <1>6

LEMMA ReservedIsNew ==
    ASSUME NEW ids, IsFiniteSet(ids), NEW id \in Seq(Nat)
    PROVE  reserve_part_id(ids, id) \notin ids /\ reserve_part_id(ids, id) \in Seq(Nat)
<1>1. CASE id \notin ids  BY <1>1 DEF reserve_part_id
<1>2. CASE id \in ids
  <2>. DEFINE m == Cardinality(ids) + 1
              S == {n \in 1..m : Append(id, n) \notin ids}
              P(n) == Append(id, n) \notin ids /\ \A i \in 1..(n - 1) : Append(id, i) \in ids
  <2>0. m \in Nat  BY FS_CardinalityType
  <2>. HIDE DEF m
  <2>1. S # {} /\ S \subseteq Nat
    <3>1. \E n \in 1..m : Append(id, n) \notin ids  BY SuffixIsFree DEF m
    <3>. QED  BY <3>1
  <2>2. PICK n \in S : \A i \in S : n <= i
    <3>. HIDE DEF S
    <3>. QED  BY <2>1, Least
  <2>3. n \in 1..m /\ P(n)
    <3>1. ASSUME NEW i \in 1..(n - 1) PROVE Append(id, i) \in ids
      <4>1. i \in 1..m /\ ~(n <= i)  BY <2>0, <2>2
      <4>. QED  BY <2>2, <4>1
    <3>. QED  BY <2>2, <3>1
  <2>. DEFINE c == CHOOSE i \in 1..m : P(i)
  <2>4. c \in 1..m /\ P(c)
    <3>. HIDE DEF P
    <3>. QED  BY <2>3
  <2>5. reserve_part_id(ids, id) = Append(id, c)  BY <1>2 DEF reserve_part_id, m
  <2>6. c \in Nat  BY <2>0, <2>4
  <2>. HIDE DEF c
  <2>7. Append(id, c) \in Seq(Nat)  BY <2>6
  <2>. QED  BY <2>4, <2>5, <2>7
<1>. QED  BY <1>1, <1>2

-----------------------------------------------------------------------------
(* The inductive invariant.  n is the attempt and r whether retries are    *)
(* possible.  While an attempt is read, what the processor will have built *)
(* once the held-back events are delivered mirrors what the attempt keeps; *)
(* while retries are possible nothing of a tool has left the reader.       *)

OpenParts(open, a, u) ==
    open \in Opens /\ OpenMatches(open, a) /\ \A k \in Kinds : RangeOf(open[k]) \subseteq u

ToolsOf(a, n, r) == a.toolsFrom \subseteq {n} /\ (r => a.toolsFrom = {})

Consistent(s, a, u, n, r) ==
    /\ IsState(s) /\ IsAcc(a) /\ ~a.rejected
    /\ OpenParts(s.open, a, u) /\ ToolsOf(a, n, r)
    /\ ~r => s.buffer = <<>>
    /\ \A i \in DOMAIN s.buffer : s.buffer[i].att = n
    /\ ~Delivered(a, s.buffer).rejected
    /\ Mirrors(s, Delivered(a, s.buffer), u)

ReadingInv ==
    IF pendingBoundary
    THEN /\ startedStep /\ st = AttemptState
         /\ IsAcc(acc) /\ acc.current /\ acc.toolsFrom = {}
    ELSE /\ Consistent(st, acc, used, attempt, retries_possible)
         /\ acc.current = startedStep
         /\ ~startedStep => st = AttemptState /\ acc = StepAccumulator

RetryingInv ==
    /\ startedStep /\ ~pendingBoundary
    /\ IsAcc(acc) /\ acc.current /\ acc.toolsFrom = {}
    /\ \A k \in Kinds : DOMAIN acc.open[k] = {}

SentInv ==
    /\ settings \in Settings /\ attempt \in Nat /\ automatic \in Nat
    /\ pendingBoundary \in BOOLEAN /\ startedStep \in BOOLEAN
    /\ used \subseteq Seq(Nat) /\ IsFiniteSet(used)
    /\ ~acc.rejected /\ acc.toolsFrom \subseteq {attempt}
    /\ phase = "reading" => ReadingInv
    /\ phase = "retrying" => RetryingInv
    /\ phase = "finished" => Mirrors(st, acc, used)

LEMMA MirrorsSame ==
    ASSUME NEW s, NEW t, NEW v, NEW u, NEW u2, Mirrors(s, v, u), u \subseteq u2,
           t.ids = s.ids, t.index = s.index, t.content = s.content, t.queued = s.queued,
           t.clientOutputs = s.clientOutputs, t.denied = s.denied
    PROVE  Mirrors(t, v, u2)
BY DEF Mirrors, Linked

LEMMA NoClientItems == ASSUME NEW type PROVE Cardinality(ClientItems(<<>>, type)) = 0
<1>1. ClientItems(<<>>, type) = {}  BY DEF ClientItems
<1>. QED  BY <1>1, FS_EmptySet

(* A new attempt, before any of its parts.                                 *)
LEMMA FreshConsistent ==
    ASSUME NEW a, IsAcc(a), ~a.rejected, a.content = <<>>, a.open = NoParts,
           NEW u, NEW n, NEW r \in BOOLEAN, a.toolsFrom \subseteq {n}, r => a.toolsFrom = {}
    PROVE  Consistent(AttemptState, a, u, n, r)
<1>. DEFINE s == AttemptState
<1>1. /\ s.ids = NoParts /\ s.open = NoParts /\ s.content = <<>> /\ s.buffer = <<>>
      /\ s.queued = {} /\ s.clientOutputs = 0 /\ s.denied = 0
  BY DEF AttemptState
<1>2. IsState(s)
  <2>1. <<>> \in Seq(Refs) /\ <<>> \in Seq(Items) /\ <<>> \in Seq(MappedEvents)  OBVIOUS
  <2>2. NoParts \in [Kinds -> Seq(Refs)] /\ NoParts = [k \in Kinds |-> NoParts[k]]  BY <2>1 DEF NoParts
  <2>. QED  BY <2>1, <2>2 DEF IsState, IsStateRecord, AttemptState
<1>3. \A k \in Kinds : NoParts[k] = <<>> /\ DOMAIN NoParts[k] = {} /\ RangeOf(NoParts[k]) = {} /\ Distinct(NoParts[k])
  BY DEF NoParts, RangeOf, Distinct
<1>4. Delivered(a, s.buffer) = a  BY <1>1, DeliveredNone
<1>. HIDE DEF s
<1>5. Mirrors(s, a, u)  BY <1>1, <1>3, NoClientItems DEF Mirrors
<1>6. OpenMatches(s.open, a)  BY <1>1, <1>3 DEF OpenMatches
<1>7. \A k \in Kinds : RangeOf(s.open[k]) \subseteq u  BY <1>1, <1>3
<1>8. \A i \in DOMAIN s.buffer : s.buffer[i].att = n  BY <1>1
<1>9. OpenParts(s.open, a, u) /\ ToolsOf(a, n, r)
  BY <1>2, <1>6, <1>7 DEF OpenParts, ToolsOf, IsState, Opens
<1>10. Consistent(s, a, u, n, r)  BY <1>1, <1>2, <1>4, <1>5, <1>8, <1>9 DEF Consistent
<1>. QED  BY <1>10 DEF s

LEMMA StepAccumulatorIsAcc ==
    /\ IsAcc(StepAccumulator) /\ ~StepAccumulator.rejected /\ StepAccumulator.current = FALSE
    /\ StepAccumulator.content = <<>> /\ StepAccumulator.open = NoParts
    /\ StepAccumulator.toolsFrom = {}
BY DEF StepAccumulator, IsAcc, NoParts

(* The boundary and the step start leave the attempt and the processor     *)
(* consistent, and the step started.                                       *)
LEMMA PrefixConsistent ==
    ASSUME SentInv, phase = "reading"
    PROVE  LET a == Delivered(acc, Prefix(FALSE)) IN
           /\ Consistent(st, a, used, attempt, retries_possible) /\ a.current
<1>. DEFINE a == Delivered(acc, Prefix(FALSE))
            b == Event("retry-attempt", "step", NoRef)
            e == Event("start-step", "step", NoRef)
<1>0. /\ ReadingInv /\ ~acc.rejected /\ acc.toolsFrom \subseteq {attempt}
      /\ pendingBoundary \in BOOLEAN /\ startedStep \in BOOLEAN /\ retries_possible \in BOOLEAN
  BY DEF SentInv, retries_possible
<1>1. CASE pendingBoundary
  <2>1. st = AttemptState /\ IsAcc(acc) /\ acc.current /\ acc.toolsFrom = {} /\ startedStep
    BY <1>0, <1>1 DEF ReadingInv
  <2>2. Prefix(FALSE) = <<b>>  BY <1>1, <2>1 DEF Prefix
  <2>3. a = handle(acc, b)  BY <2>2, DeliveredOne
  <2>4. b.type = "retry-attempt"  BY DEF Event
  <2>. HIDE DEF b, a
  <2>5. /\ IsAcc(a) /\ ~a.rejected /\ a.current /\ a.content = <<>> /\ a.open = NoParts
        /\ a.toolsFrom = acc.toolsFrom
    BY <1>0, <2>1, <2>3, <2>4, HandleRetryAttempt
  <2>6. Consistent(AttemptState, a, used, attempt, retries_possible)
    BY <1>0, <2>1, <2>5, FreshConsistent
  <2>. QED  BY <2>1, <2>5, <2>6 DEF a
<1>2. CASE ~pendingBoundary /\ ~startedStep
  <2>1. st = AttemptState /\ acc = StepAccumulator  BY <1>0, <1>2 DEF ReadingInv
  <2>2. Prefix(FALSE) = <<e>>  BY <1>2 DEF Prefix
  <2>3. a = handle(acc, e)  BY <2>2, DeliveredOne
  <2>4. e.type = "start-step"  BY DEF Event
  <2>5. IsAcc(acc) /\ acc.toolsFrom = {}  BY <2>1, StepAccumulatorIsAcc
  <2>. HIDE DEF e, a
  <2>6. /\ IsAcc(a) /\ ~a.rejected /\ a.current /\ a.content = <<>> /\ a.open = NoParts
        /\ a.toolsFrom = acc.toolsFrom
    BY <1>0, <2>3, <2>4, <2>5, HandleStartStep
  <2>7. Consistent(AttemptState, a, used, attempt, retries_possible)
    BY <1>0, <2>5, <2>6, FreshConsistent
  <2>. QED  BY <2>1, <2>6, <2>7 DEF a
<1>3. CASE ~pendingBoundary /\ startedStep
  <2>1. Prefix(FALSE) = <<>>  BY <1>3 DEF Prefix
  <2>2. a = acc  BY <2>1, DeliveredNone
  <2>. QED  BY <1>0, <1>3, <2>2 DEF ReadingInv
<1>. QED  BY <1>0, <1>1, <1>2, <1>3

(* What may leave the reader as it is mapped: several events only of a     *)
(* tool call; a part event fits what was sent before it.                   *)
Fits(events, v, u) ==
    \/ /\ events \in Seq(OtherEvents)
       /\ Len(events) > 1 => is_tool_part(Head(events))
    \/ \E e \in PartEvents :
          /\ events = <<e>>
          /\ e.type = "part-start" => e.ref \notin u
          /\ e.type \in {"part-delta", "part-end"} => e.ref \in DOMAIN v.open[e.kind]

LEMMA FitsMapped ==
    ASSUME NEW events, NEW v, NEW u, Fits(events, v, u)
    PROVE  events \in Seq(MappedEvents)
<1>1. CASE events \in Seq(OtherEvents)  BY <1>1 DEF MappedEvents
<1>2. ASSUME NEW e \in PartEvents, events = <<e>> PROVE events \in Seq(MappedEvents)
  BY <1>2 DEF MappedEvents
<1>. QED  BY <1>1, <1>2 DEF Fits

LEMMA OneElement ==
    ASSUME NEW E, NEW s \in Seq(E), Len(s) = 1
    PROVE  s = <<s[1]>> /\ s[1] \in E /\ Head(s) = s[1]
OBVIOUS

(* Events sent at once: the open parts still agree, and no tool has left   *)
(* while retries are possible.                                             *)
Labelled(events, n, u) ==
    \A i \in DOMAIN events :
        events[i].att = n /\ (events[i].type = "part-start" => events[i].ref \in u)

Sendable(events) == retries_possible => events = <<>> \/ ~is_tool_part(Head(events))

LEMMA SentAtOnce ==
    ASSUME NEW a, IsAcc(a), ~a.rejected, a.current, NEW open, NEW u, NEW u2, u \subseteq u2,
           OpenParts(open, a, u), ToolsOf(a, attempt, retries_possible),
           NEW events, Fits(events, a, u), Labelled(events, attempt, u2), Sendable(events),
           NEW w, w = Delivered(a, events), NEW o, o = OpenAfter(open, events)
    PROVE  OpenParts(o, w, u2) /\ ToolsOf(w, attempt, retries_possible)
<1>. USE DEF OpenParts, ToolsOf, Labelled, Sendable
<1>0. DOMAIN events = 1..Len(events) /\ Len(events) \in Nat /\ events \in Seq(MappedEvents)
  BY FitsMapped
<1>1. w.toolsFrom \subseteq {attempt}
  <2>1. w.toolsFrom \subseteq a.toolsFrom \cup {attempt}  BY <1>0, DeliveredMapped
  <2>. QED  BY <2>1
<1>2. CASE events \in Seq(OtherEvents) /\ (Len(events) > 1 => is_tool_part(Head(events)))
  <2>1. o = open /\ w.open = a.open  BY <1>2, OpenAfterOther, DeliveredOther
  <2>2. ASSUME retries_possible PROVE w.toolsFrom = {}
    <3>1. CASE events = <<>>  BY <2>2, <3>1, DeliveredNone
    <3>2. CASE events # <<>>
      <4>1. Len(events) = 1 /\ ~is_tool_part(Head(events))  BY <1>0, <1>2, <2>2, <3>2
      <4>. DEFINE e == events[1]
      <4>2. events = <<e>> /\ e \in OtherEvents /\ ~IsToolEvent(e)
        <5>1. events = <<e>> /\ e \in OtherEvents /\ Head(events) = e  BY <1>2, <4>1, OneElement
        <5>. QED  BY <4>1, <5>1 DEF is_tool_part, IsToolEvent
      <4>. HIDE DEF e
      <4>3. w = handle(a, e)  BY <4>2, DeliveredOne
      <4>4. handle(a, e).toolsFrom = a.toolsFrom  BY <4>2, HandleOther
      <4>. QED  BY <2>2, <4>3, <4>4
    <3>. QED  BY <3>1, <3>2
  <2>3. OpenMatches(o, w)  BY <2>1 DEF OpenMatches
  <2>. QED  BY <1>1, <2>1, <2>2, <2>3
<1>3. ASSUME NEW e \in PartEvents, events = <<e>>, e.type = "part-start" => e.ref \notin u,
             e.type \in {"part-delta", "part-end"} => e.ref \in DOMAIN a.open[e.kind]
      PROVE  /\ o \in Opens /\ OpenMatches(o, w) /\ \A k \in Kinds : RangeOf(o[k]) \subseteq u2
             /\ retries_possible => w.toolsFrom = {}
  <2>1. w = handle(a, e) /\ o = Tracked(open, e)  BY <1>3, DeliveredOne, OpenAfterOne
  <2>2. e.kind \in Kinds /\ e \in MappedEvents  BY DEF PartEvents, MappedEvents
  <2>3. e.type = "part-start" => e.ref \in u2 /\ e.ref \notin DOMAIN a.open[e.kind]
    <3>1. events[1] = e /\ 1 \in DOMAIN events  BY <1>3
    <3>. QED  BY <1>3, <2>2, <3>1 DEF OpenMatches
  <2>4. o \in Opens /\ OpenMatches(o, w)  BY <1>3, <2>1, <2>2, <2>3, TrackedMatches
  <2>5. \A k \in Kinds : RangeOf(o[k]) = DOMAIN w.open[k] /\ RangeOf(open[k]) = DOMAIN a.open[k]
    BY <2>4 DEF OpenMatches
  <2>6. ASSUME NEW k \in Kinds PROVE DOMAIN w.open[k] \subseteq u2
    <3>0. DOMAIN a.open[k] \subseteq u2 /\ a.open = [j \in Kinds |-> a.open[j]]  BY <2>5 DEF IsAcc
    <3>1. CASE e.type = "part-start"
      <4>1. w.open = [a.open EXCEPT ![e.kind] = Put(@, e.ref, Len(a.content) + 1)]
        BY <2>1, <3>1, HandlePartStart
      <4>2. DOMAIN w.open[k] \subseteq DOMAIN a.open[k] \cup {e.ref}
        <5>1. CASE k = e.kind  BY <2>2, <3>0, <4>1, <5>1 DEF Put
        <5>2. CASE k # e.kind  BY <2>2, <3>0, <4>1, <5>2
        <5>. QED  BY <5>1, <5>2
      <4>. QED  BY <2>3, <3>0, <3>1, <4>2
    <3>2. CASE e.type = "part-delta"
      <4>0. e.ref \in DOMAIN a.open[e.kind]  BY <1>3, <3>2
      <4>1. handle(a, e).open = a.open  BY <3>2, <4>0, HandlePartDelta
      <4>. QED  BY <2>1, <3>0, <4>1
    <3>3. CASE e.type = "part-end"
      <4>1. w.open = [a.open EXCEPT ![e.kind] = Without(@, e.ref)]
        BY <1>3, <2>1, <3>3, HandlePartEnd
      <4>2. DOMAIN w.open[k] \subseteq DOMAIN a.open[k]
        <5>1. CASE k = e.kind  BY <2>2, <3>0, <4>1, <5>1 DEF Without
        <5>2. CASE k # e.kind  BY <2>2, <3>0, <4>1, <5>2
        <5>. QED  BY <5>1, <5>2
      <4>. QED  BY <3>0, <4>2
    <3>. QED  BY <3>1, <3>2, <3>3 DEF PartEvents, PartTypes
  <2>7. w.toolsFrom = a.toolsFrom
    <3>1. CASE e.type = "part-start"
      <4>1. handle(a, e).toolsFrom = a.toolsFrom  BY <3>1, HandlePartStart
      <4>. QED  BY <2>1, <4>1
    <3>2. CASE e.type = "part-delta"
      <4>1. e.ref \in DOMAIN a.open[e.kind]  BY <1>3, <3>2
      <4>2. handle(a, e).toolsFrom = a.toolsFrom  BY <3>2, <4>1, HandlePartDelta
      <4>. QED  BY <2>1, <4>2
    <3>3. CASE e.type = "part-end"
      <4>1. e.ref \in DOMAIN a.open[e.kind]  BY <1>3, <3>3
      <4>2. handle(a, e).toolsFrom = a.toolsFrom  BY <3>3, <4>1, HandlePartEnd
      <4>. QED  BY <2>1, <4>2
    <3>. QED  BY <3>1, <3>2, <3>3 DEF PartEvents, PartTypes
  <2>. QED  BY <2>4, <2>5, <2>6, <2>7
<1>. QED  BY <1>1, <1>2, <1>3 DEF Fits

(* Fields of the attempt state after emit.                                 *)
LEMMA SetBuffer ==
    ASSUME NEW s, IsState(s), NEW x \in Seq(MappedEvents), NEW t, t = [s EXCEPT !.buffer = x]
    PROVE  /\ t.ids = s.ids /\ t.open = s.open /\ t.content = s.content /\ t.index = s.index
           /\ t.queued = s.queued /\ t.clientOutputs = s.clientOutputs /\ t.denied = s.denied
           /\ IsState(t) /\ t.buffer = x
<1>1. IsStateRecord(s)  BY DEF IsState
<1>2. t = [ids |-> s.ids, open |-> s.open, content |-> s.content, index |-> s.index,
           calls |-> s.calls, queued |-> s.queued, resultIds |-> s.resultIds,
           clientOutputs |-> s.clientOutputs, denied |-> s.denied, output |-> s.output,
           buffer |-> x]
  BY <1>1 DEF IsStateRecord
<1>3. /\ t.ids = s.ids /\ t.open = s.open /\ t.content = s.content /\ t.index = s.index
      /\ t.queued = s.queued /\ t.clientOutputs = s.clientOutputs /\ t.denied = s.denied /\ t.buffer = x
  BY <1>2
<1>4. IsState(t)  BY <1>2, <1>3 DEF IsState, IsStateRecord
<1>. QED  BY <1>3, <1>4

LEMMA SetOpen ==
    ASSUME NEW s, IsState(s), NEW x \in Opens, NEW t, t = [s EXCEPT !.open = x]
    PROVE  /\ t.ids = s.ids /\ t.content = s.content /\ t.index = s.index /\ t.queued = s.queued
           /\ t.clientOutputs = s.clientOutputs /\ t.denied = s.denied /\ t.buffer = s.buffer
           /\ IsState(t) /\ t.open = x
<1>1. IsStateRecord(s)  BY DEF IsState
<1>2. t = [ids |-> s.ids, open |-> x, content |-> s.content, index |-> s.index,
           calls |-> s.calls, queued |-> s.queued, resultIds |-> s.resultIds,
           clientOutputs |-> s.clientOutputs, denied |-> s.denied, output |-> s.output,
           buffer |-> s.buffer]
  BY <1>1 DEF IsStateRecord
<1>3. /\ t.ids = s.ids /\ t.content = s.content /\ t.index = s.index /\ t.queued = s.queued
      /\ t.clientOutputs = s.clientOutputs /\ t.denied = s.denied /\ t.buffer = s.buffer /\ t.open = x
  BY <1>2
<1>4. IsState(t)  BY <1>2, <1>3 DEF IsState, IsStateRecord, Opens
<1>. QED  BY <1>3, <1>4

LEMMA SetOutput ==
    ASSUME NEW s, IsState(s), NEW x, NEW t, t = [s EXCEPT !.output = @ \/ x]
    PROVE  /\ t.ids = s.ids /\ t.open = s.open /\ t.content = s.content /\ t.index = s.index
           /\ t.queued = s.queued /\ t.clientOutputs = s.clientOutputs /\ t.denied = s.denied /\ t.buffer = s.buffer
           /\ IsState(t)
<1>1. IsStateRecord(s)  BY DEF IsState
<1>2. t = [ids |-> s.ids, open |-> s.open, content |-> s.content, index |-> s.index,
           calls |-> s.calls, queued |-> s.queued, resultIds |-> s.resultIds,
           clientOutputs |-> s.clientOutputs, denied |-> s.denied, output |-> s.output \/ x,
           buffer |-> s.buffer]
  BY <1>1 DEF IsStateRecord
<1>3. /\ t.ids = s.ids /\ t.open = s.open /\ t.content = s.content /\ t.index = s.index
      /\ t.queued = s.queued /\ t.clientOutputs = s.clientOutputs /\ t.denied = s.denied /\ t.buffer = s.buffer
  BY <1>2
<1>4. IsState(t)  BY <1>2, <1>3 DEF IsState, IsStateRecord
<1>. QED  BY <1>3, <1>4

LEMMA EmitConsistent ==
    ASSUME NEW a, NEW s, NEW t, NEW u, NEW u2, u \subseteq u2, a.current,
           Consistent(s, a, u, attempt, retries_possible),
           IsState(t), t.open = s.open, t.buffer = s.buffer,
           NEW events, Fits(events, Delivered(a, s.buffer), u), Labelled(events, attempt, u2),
           NEW w, w = Delivered(Delivered(a, s.buffer), events), ~w.rejected, Mirrors(t, w, u2)
    PROVE  IF HeldBack(t, events)
           THEN Consistent([t EXCEPT !.buffer = @ \o events], a, u2, attempt, retries_possible)
           ELSE /\ Consistent(send_tracked(t, events), Delivered(a, events), u2, attempt, retries_possible)
                /\ Delivered(a, events).current
<1>1. /\ IsAcc(a) /\ ~a.rejected /\ IsState(s)
      /\ OpenParts(s.open, a, u) /\ ToolsOf(a, attempt, retries_possible)
      /\ ~retries_possible => s.buffer = <<>>
      /\ \A i \in DOMAIN s.buffer : s.buffer[i].att = attempt
  BY DEF Consistent
<1>2. events \in Seq(MappedEvents) /\ s.buffer \in Seq(MappedEvents) /\ s.open \in Opens
  BY <1>1, FitsMapped DEF IsState, Opens
<1>3. CASE HeldBack(t, events)
  <2>. DEFINE b == s.buffer \o events
              t2 == [t EXCEPT !.buffer = b]
  <2>1. b \in Seq(MappedEvents) /\ \A i \in DOMAIN b : b[i].att = attempt
    <3>1. b \in Seq(MappedEvents)  BY <1>2
    <3>2. ASSUME NEW i \in DOMAIN b PROVE b[i].att = attempt
      <4>1. CASE i \in DOMAIN s.buffer
        <5>1. b[i] = s.buffer[i]  BY <1>2, <4>1
        <5>. QED  BY <1>1, <4>1, <5>1
      <4>2. CASE i \notin DOMAIN s.buffer
        <5>1. b[i] = events[i - Len(s.buffer)] /\ i - Len(s.buffer) \in DOMAIN events
          BY <1>2, <4>2
        <5>. QED  BY <5>1 DEF Labelled
      <4>. QED  BY <4>1, <4>2
    <3>. QED  BY <3>1, <3>2
  <2>2. Delivered(a, b) = w  BY <1>2, AfterConcat
  <2>. HIDE DEF b
  <2>3. /\ IsState(t2) /\ t2.buffer = b /\ t2.open = s.open
        /\ t2.ids = t.ids /\ t2.content = t.content /\ t2.index = t.index
        /\ t2.queued = t.queued /\ t2.clientOutputs = t.clientOutputs /\ t2.denied = t.denied
    BY <2>1, SetBuffer
  <2>. HIDE DEF t2
  <2>4. Mirrors(t2, w, u2)  BY <2>3, MirrorsSame
  <2>5. retries_possible  BY <1>3 DEF HeldBack
  <2>6. OpenParts(s.open, a, u2)  BY <1>1 DEF OpenParts
  <2>7. Consistent(t2, a, u2, attempt, retries_possible)
    BY <1>1, <2>1, <2>2, <2>3, <2>4, <2>5, <2>6 DEF Consistent
  <2>8. t2 = [t EXCEPT !.buffer = @ \o events]  BY DEF t2, b
  <2>. QED  BY <1>3, <2>7, <2>8
<1>4. CASE ~HeldBack(t, events)
  <2>. DEFINE o == OpenAfter(s.open, events)
              t2 == [t EXCEPT !.open = o]
  <2>1. s.buffer = <<>> /\ (retries_possible => events = <<>> \/ ~is_tool_part(Head(events)))
    BY <1>1, <1>4 DEF HeldBack
  <2>2. Delivered(a, s.buffer) = a /\ w = Delivered(a, events)  BY <2>1, DeliveredNone
  <2>3. Fits(events, a, u)  BY <2>2
  <2>4. OpenParts(o, w, u2) /\ ToolsOf(w, attempt, retries_possible)
    <3>1. o = OpenAfter(s.open, events) /\ w = Delivered(a, events)  BY <2>2
    <3>. HIDE DEF o
    <3>2. Sendable(events)  BY <2>1 DEF Sendable
    <3>. QED  BY <1>1, <2>3, <3>1, <3>2, SentAtOnce
  <2>5. IsAcc(w) /\ w.current
    <3>1. \A i \in 1..Len(events) : events[i].att \in {attempt}  BY <1>2 DEF Labelled
    <3>2. IsAcc(Delivered(a, events)) /\ Delivered(a, events).current = a.current
      BY <1>1, <1>2, <3>1, DeliveredMapped
    <3>. QED  BY <2>2, <3>2
  <2>. HIDE DEF o
  <2>6. /\ IsState(t2) /\ t2.buffer = <<>> /\ t2.open = o
        /\ t2.ids = t.ids /\ t2.content = t.content /\ t2.index = t.index
        /\ t2.queued = t.queued /\ t2.clientOutputs = t.clientOutputs /\ t2.denied = t.denied
    BY <2>1, <2>4, SetOpen DEF OpenParts
  <2>. HIDE DEF t2
  <2>7. Mirrors(t2, w, u2)  BY <2>6, MirrorsSame
  <2>8. Delivered(w, t2.buffer) = w /\ \A i \in DOMAIN t2.buffer : t2.buffer[i].att = attempt
    BY <2>6, DeliveredNone
  <2>9. Consistent(t2, w, u2, attempt, retries_possible)
    BY <2>4, <2>5, <2>6, <2>7, <2>8 DEF Consistent
  <2>10. t2 = send_tracked(t, events)  BY DEF t2, o, send_tracked
  <2>. QED  BY <1>4, <2>2, <2>5, <2>9, <2>10
<1>. QED  BY <1>3, <1>4

-----------------------------------------------------------------------------
(* A part that is mapped keeps the invariant when the attempt, with what   *)
(* the part changes, mirrors the processor after the part's events.        *)

LEMMA AfterPrefix ==
    ASSUME NEW events, NEW E, events \in Seq(E)
    PROVE  Delivered(acc, Prefix(FALSE) \o events) = Delivered(Delivered(acc, Prefix(FALSE)), events)
<1>. DEFINE b == Event("retry-attempt", "step", NoRef)
            e == Event("start-step", "step", NoRef)
            X == E \cup {b, e}
            p == IF pendingBoundary THEN <<b>> ELSE <<>>
            q == IF ~startedStep /\ ~FALSE THEN <<e>> ELSE <<>>
            z == Prefix(FALSE)
<1>1. z = p \o q  BY DEF Prefix
<1>. HIDE DEF b, e, z
<1>2. <<b>> \in Seq(X) /\ <<e>> \in Seq(X) /\ <<>> \in Seq(X)  OBVIOUS
<1>3. events \in Seq(X)
  <2>1. \A i \in 1..Len(events) : events[i] \in X  OBVIOUS
  <2>. HIDE DEF X
  <2>. QED  BY <2>1
<1>. HIDE DEF X
<1>4. p \in Seq(X) /\ q \in Seq(X)  BY <1>2
<1>. HIDE DEF p, q
<1>5. z \in Seq(X)  BY <1>1, <1>4
<1>6. Delivered(acc, z \o events) = Delivered(Delivered(acc, z), events)  BY <1>3, <1>5, AfterConcat
<1>. QED  BY <1>6 DEF z

LEMMA RetriesUnchanged == settings' = settings => retries_possible' = retries_possible
BY DEF retries_possible, HasOnError

MappedParts(s, events, v, w, u, u2) ==
    /\ IsState(s) /\ s.open = st.open /\ s.buffer = st.buffer
    /\ v = Delivered(Delivered(acc, Prefix(FALSE)), st.buffer) /\ w = Delivered(v, events)
    /\ Fits(events, v, u) /\ Labelled(events, attempt, u2)
    /\ ~w.rejected /\ Mirrors(s, w, u2)

LEMMA MappedKeeps ==
    ASSUME SentInv, phase = "reading", settings' = settings, Ends,
           NEW s, NEW events, NEW isOutput, Mapped(s, events, isOutput),
           used \subseteq used', used' \subseteq Seq(Nat), IsFiniteSet(used'),
           NEW v, NEW w, MappedParts(s, events, v, w, used, used')
    PROVE  SentInv'
<1>. DEFINE a == Delivered(acc, Prefix(FALSE))
            t == [s EXCEPT !.output = @ \/ isOutput]
<1>1. Consistent(st, a, used, attempt, retries_possible) /\ a.current  BY PrefixConsistent
<1>2. /\ v = Delivered(a, st.buffer) /\ w = Delivered(v, events) /\ ~w.rejected /\ Mirrors(s, w, used')
      /\ Fits(events, v, used) /\ Labelled(events, attempt, used')
      /\ IsState(s) /\ s.open = st.open /\ s.buffer = st.buffer
  BY DEF MappedParts
<1>3. emit(t, events)  BY DEF Mapped
<1>. HIDE DEF a
<1>4. /\ t.ids = s.ids /\ t.open = st.open /\ t.content = s.content /\ t.index = s.index
      /\ t.queued = s.queued /\ t.clientOutputs = s.clientOutputs /\ t.denied = s.denied
      /\ t.buffer = st.buffer /\ IsState(t)
  <2>1. t = [s EXCEPT !.output = @ \/ isOutput]  OBVIOUS
  <2>. HIDE DEF t
  <2>. QED  BY <1>2, <2>1, SetOutput
<1>. HIDE DEF t
<1>5. Mirrors(t, w, used')  BY <1>2, <1>4, MirrorsSame
<1>6. IF HeldBack(t, events)
      THEN Consistent([t EXCEPT !.buffer = @ \o events], a, used', attempt, retries_possible)
      ELSE /\ Consistent(send_tracked(t, events), Delivered(a, events), used', attempt, retries_possible)
           /\ Delivered(a, events).current
  BY <1>1, <1>2, <1>4, <1>5, EmitConsistent
<1>7. events \in Seq(MappedEvents)  BY <1>2, FitsMapped
<1>8. Consistent(st', acc', used', attempt, retries_possible) /\ acc'.current
  <2>1. CASE HeldBack(t, events)
    <3>1. st' = [t EXCEPT !.buffer = @ \o events] /\ acc' = a  BY <1>3, <2>1 DEF emit, a
    <3>. QED  BY <1>1, <1>6, <2>1, <3>1
  <2>2. CASE ~HeldBack(t, events)
    <3>1. st' = send_tracked(t, events) /\ acc' = Delivered(acc, Prefix(FALSE) \o events)
      BY <1>3, <2>2 DEF emit
    <3>2. acc' = Delivered(a, events)  BY <1>7, <3>1, AfterPrefix DEF a
    <3>. QED  BY <1>6, <2>2, <3>1, <3>2
  <2>. QED  BY <2>1, <2>2
<1>9. /\ phase' = "reading" /\ pendingBoundary' = FALSE /\ startedStep' = TRUE
      /\ attempt' = attempt /\ automatic' = automatic
  BY DEF Mapped, Ends, NoRetryStep
<1>10. retries_possible' = retries_possible  BY RetriesUnchanged
<1>11. ReadingInv'  BY <1>8, <1>9, <1>10 DEF ReadingInv
<1>12. ~acc'.rejected /\ acc'.toolsFrom \subseteq {attempt}  BY <1>8 DEF Consistent, ToolsOf
<1>. QED  BY <1>9, <1>11, <1>12 DEF SentInv

LEMMA Ready ==
    ASSUME SentInv, phase = "reading",
           NEW v, v = Delivered(Delivered(acc, Prefix(FALSE)), st.buffer)
    PROVE  /\ IsState(st) /\ IsAcc(v) /\ ~v.rejected /\ v.current /\ Mirrors(st, v, used)
           /\ attempt \in Nat /\ used \subseteq Seq(Nat) /\ IsFiniteSet(used)
<1>. DEFINE a == Delivered(acc, Prefix(FALSE))
<1>1. Consistent(st, a, used, attempt, retries_possible) /\ a.current  BY PrefixConsistent
<1>. HIDE DEF a
<1>2. IsState(st) /\ IsAcc(a) /\ ~v.rejected /\ Mirrors(st, v, used)
  <2>1. v = Delivered(a, st.buffer)  BY DEF a
  <2>. QED  BY <1>1, <2>1 DEF Consistent
<1>3. st.buffer \in Seq(MappedEvents)  BY <1>2 DEF IsState
<1>4. \A i \in 1..Len(st.buffer) : st.buffer[i].att \in {attempt}  BY <1>1, <1>3 DEF Consistent
<1>5. IsAcc(Delivered(a, st.buffer)) /\ Delivered(a, st.buffer).current = a.current
  BY <1>2, <1>3, <1>4, DeliveredMapped
<1>6. IsAcc(v) /\ v.current  BY <1>1, <1>5 DEF a
<1>. QED  BY <1>2, <1>6 DEF SentInv

LEMMA PartEvent ==
    ASSUME NEW type \in PartTypes, NEW kind \in Kinds, NEW ref \in Refs, attempt \in Nat,
           NEW e, e = Event(type, kind, ref)
    PROVE  e \in PartEvents /\ e.type = type /\ e.kind = kind /\ e.ref = ref /\ e.att = attempt
BY DEF Event, PartEvents

LEMMA OtherEvent ==
    ASSUME NEW type \in ToolTypes \cup {"content"}, NEW kind \in Sides, NEW ref \in Refs,
           attempt \in Nat, NEW e, e = Event(type, kind, ref)
    PROVE  e \in OtherEvents /\ e.type = type /\ e.kind = kind /\ e.ref = ref /\ e.att = attempt
BY DEF Event, OtherEvents

LEMMA ItemFields ==
    ASSUME NEW type \in ToolTypes \cup {"content", "part"}, NEW kind \in Sides, NEW ref \in Refs,
           NEW x, x = Item(type, kind, ref)
    PROVE  x \in Items /\ x.type = type /\ x.kind = kind /\ x.ref = ref
BY DEF Item, Items

Quiet == {"tool-preliminary", "tool-input-start", "tool-input-delta", "tool-input-end"}

(* One event of something other than a part, and what it adds to both.     *)
Adds(s, t, e, inS) ==
    LET x == Item(e.type, e.kind, e.ref) IN
    /\ FromModel(x) => inS /\ e.type \notin Quiet
    /\ t.ids = s.ids /\ t.index = s.index
    /\ t.content = IF inS THEN Append(s.content, x) ELSE s.content
    /\ \A c \in t.queued :
          c \in s.queued \/ (e.type = "tool-call" /\ e.kind = "client" /\ e.ref = c)
    /\ t.clientOutputs = s.clientOutputs
           + (IF e.type = "tool-error" /\ e.kind = "client" THEN 1 ELSE 0)
    /\ t.denied = s.denied + (IF e.type = "denied" /\ e.kind = "client" THEN 1 ELSE 0)

LEMMA MirrorsEvent ==
    ASSUME NEW s, NEW v, NEW t, NEW w, NEW u, IsState(s), IsAcc(v), ~v.rejected, Mirrors(s, v, u),
           NEW e \in OtherEvents, w = handle(v, e), NEW inS \in BOOLEAN, Adds(s, t, e, inS)
    PROVE  Mirrors(t, w, u) /\ IsAcc(w) /\ ~w.rejected /\ w.current = v.current
<1>. DEFINE x == Item(e.type, e.kind, e.ref)
<1>0. /\ FromModel(x) => inS /\ e.type \notin Quiet
      /\ t.ids = s.ids /\ t.index = s.index
      /\ t.content = IF inS THEN Append(s.content, x) ELSE s.content
      /\ \A c \in t.queued : c \in s.queued \/ (e.type = "tool-call" /\ e.kind = "client" /\ e.ref = c)
      /\ t.clientOutputs = s.clientOutputs
             + (IF e.type = "tool-error" /\ e.kind = "client" THEN 1 ELSE 0)
      /\ t.denied = s.denied + (IF e.type = "denied" /\ e.kind = "client" THEN 1 ELSE 0)
  BY DEF Adds
<1>1. /\ e.type \in ToolTypes \cup {"content"} /\ e.kind \in Sides /\ e.ref \in Refs
  BY DEF OtherEvents
<1>2. x \in Items /\ x.type = e.type /\ x.kind = e.kind /\ x.ref = e.ref  BY <1>1, ItemFields
<1>3. x.type # "part"  BY <1>1, <1>2 DEF ToolTypes
<1>4. /\ IsAcc(w) /\ ~w.rejected /\ w.current = v.current /\ w.open = v.open
      /\ w.content = IF e.type \in Quiet THEN v.content ELSE Append(v.content, x)
  BY HandleOther DEF Quiet
<1>. HIDE DEF x
<1>. DEFINE inV == e.type \notin Quiet
<1>5. inV \in BOOLEAN /\ (FromModel(x) => inS /\ inV)  BY <1>0
<1>6. e.type \in {"tool-call", "tool-error", "denied"} => inV  BY DEF Quiet
<1>7. w.content = IF inV THEN Append(v.content, x) ELSE v.content  BY <1>4
<1>. HIDE DEF inV
<1>8. /\ \A c \in t.queued : \/ c \in s.queued
                             \/ inV /\ x.type = "tool-call" /\ x.kind = "client" /\ x.ref = c
      /\ t.clientOutputs = s.clientOutputs
             + (IF inV /\ x.type = "tool-error" /\ x.kind = "client" THEN 1 ELSE 0)
      /\ t.denied = s.denied + (IF inV /\ x.type = "denied" /\ x.kind = "client" THEN 1 ELSE 0)
  BY <1>0, <1>2, <1>6
<1>9. Mirrors(t, w, u)  BY <1>0, <1>2, <1>3, <1>4, <1>5, <1>7, <1>8, MirrorsContent
<1>. QED  BY <1>4, <1>9

LEMMA OneEvent ==
    ASSUME NEW e, NEW u, e.att = attempt, e.type = "part-start" => e.ref \in u
    PROVE  Labelled(<<e>>, attempt, u)
BY DEF Labelled

LEMMA OtherParts ==
    ASSUME SentInv, phase = "reading",
           NEW v, v = Delivered(Delivered(acc, Prefix(FALSE)), st.buffer),
           NEW type \in ToolTypes \cup {"content"}, NEW kind \in Sides, NEW ref \in Refs,
           kind = "client" => type \notin {"tool-error", "denied"},
           NEW inS \in BOOLEAN, FromModel(Item(type, kind, ref)) => inS /\ type \notin Quiet,
           NEW s, IsState(s), s.ids = st.ids, s.index = st.index, s.open = st.open,
           s.buffer = st.buffer, s.queued = st.queued, s.clientOutputs = st.clientOutputs,
           s.denied = st.denied,
           s.content = IF inS THEN Append(st.content, Item(type, kind, ref)) ELSE st.content
    PROVE  LET events == <<Event(type, kind, ref)>> IN
           MappedParts(s, events, v, Delivered(v, events), used, used)
<1>. DEFINE e == Event(type, kind, ref)
            w == Delivered(v, <<e>>)
<1>1. /\ IsState(st) /\ IsAcc(v) /\ ~v.rejected /\ v.current /\ Mirrors(st, v, used)
      /\ attempt \in Nat
  BY Ready
<1>2. e \in OtherEvents /\ e.type = type /\ e.kind = kind /\ e.ref = ref /\ e.att = attempt
  BY <1>1, OtherEvent
<1>3. w = handle(v, e)  BY DeliveredOne
<1>4. Adds(st, s, e, inS)
  <2>1. st.clientOutputs \in Nat /\ st.denied \in Nat  BY <1>1 DEF IsState
  <2>. HIDE DEF e
  <2>. QED  BY <1>2, <2>1 DEF Adds
<1>. HIDE DEF e, w
<1>9. Mirrors(s, w, used) /\ ~w.rejected  BY <1>1, <1>2, <1>3, <1>4, MirrorsEvent
<1>10. <<e>> \in Seq(OtherEvents) /\ ~(Len(<<e>>) > 1)  BY <1>2
<1>11. Fits(<<e>>, v, used)  BY <1>10 DEF Fits
<1>12. e.type # "part-start"  BY <1>2 DEF ToolTypes
<1>13. Labelled(<<e>>, attempt, used)  BY <1>2, <1>12, OneEvent
<1>14. MappedParts(s, <<e>>, v, w, used, used)
  BY <1>9, <1>11, <1>13 DEF MappedParts, w
<1>. QED  BY <1>14 DEF e, w

LEMMA SilentKeeps ==
    ASSUME SentInv, settings' = settings, phase = "reading", Ends, Mapped(st, <<>>, FALSE), used' = used
    PROVE  SentInv'
<1>. DEFINE v == Delivered(Delivered(acc, Prefix(FALSE)), st.buffer)
<1>2. /\ IsState(st) /\ ~v.rejected /\ Mirrors(st, v, used)
      /\ used \subseteq Seq(Nat) /\ IsFiniteSet(used)
  BY Ready
<1>3. Delivered(v, <<>>) = v  BY DeliveredNone
<1>4. <<>> \in Seq(OtherEvents) /\ ~(Len(<<>>) > 1)  OBVIOUS
<1>5. Fits(<<>>, v, used) /\ Labelled(<<>>, attempt, used)  BY <1>4 DEF Fits, Labelled
<1>6. MappedParts(st, <<>>, v, v, used, used)  BY <1>2, <1>3, <1>5 DEF MappedParts
<1>. HIDE DEF v
<1>. QED  BY <1>2, <1>6, MappedKeeps

LEMMA MetadataKeeps ==
    ASSUME SentInv, settings' = settings, ReadMetadata PROVE SentInv'
<1>1. /\ phase = "reading" /\ Ends /\ Mapped(st, <<>>, FALSE) /\ used' = used
  BY DEF ReadMetadata, Ends, Reading
<1>. QED  BY <1>1, SilentKeeps

LEMMA PartStartKeeps ==
    ASSUME SentInv, settings' = settings, NEW k \in Kinds, NEW id \in ProviderIds, ReadPartStart(k, id)
    PROVE  SentInv'
<1>. DEFINE mapped == reserve_part_id(used, id)
            x == Item("part", k, NoRef)
            s == [st EXCEPT !.content = Append(@, x), !.index = Put(@, mapped, Len(st.content) + 1),
                            !.ids[k] = Put(@, id, mapped)]
            e == Event("part-start", k, mapped)
            v == Delivered(Delivered(acc, Prefix(FALSE)), st.buffer)
            w == Delivered(v, <<e>>)
<1>1. /\ phase = "reading" /\ Ends /\ Mapped(s, <<e>>, FALSE) /\ used' = used \cup {mapped}
  BY DEF ReadPartStart, Arrive, Ends, Reading
<1>2. /\ IsState(st) /\ IsAcc(v) /\ ~v.rejected /\ v.current /\ Mirrors(st, v, used)
      /\ attempt \in Nat /\ used \subseteq Seq(Nat) /\ IsFiniteSet(used)
  BY <1>1, Ready
<1>3. mapped \notin used /\ mapped \in Seq(Nat)
  <2>1. id \in Seq(Nat)  BY StreamAttemptAssumption DEF SentInv, ProviderIds
  <2>. QED  BY <1>2, <2>1, ReservedIsNew
<1>. HIDE DEF mapped
<1>4. x \in Items /\ x.type = "part"
  <2>1. NoRef \in Refs /\ k \in Sides  BY DEF NoRef, Refs, Sides
  <2>. QED  BY <2>1, ItemFields
<1>5. e \in PartEvents /\ e.type = "part-start" /\ e.kind = k /\ e.ref = mapped /\ e.att = attempt
  <2>1. mapped \in Refs /\ "part-start" \in PartTypes  BY <1>3 DEF Refs, PartTypes
  <2>. QED  BY <1>2, <2>1, PartEvent
<1>6. /\ IsState(s) /\ s.ids = [st.ids EXCEPT ![k] = Put(@, id, mapped)] /\ s.open = st.open
      /\ s.content = Append(st.content, x) /\ s.index = Put(st.index, mapped, Len(st.content) + 1)
      /\ s.queued = st.queued /\ s.clientOutputs = st.clientOutputs /\ s.denied = st.denied
      /\ s.buffer = st.buffer
  <2>. DEFINE ids == [st.ids EXCEPT ![k] = Put(@, id, mapped)]
              content == Append(st.content, x)
              index == Put(st.index, mapped, Len(st.content) + 1)
  <2>1. IsStateRecord(st) /\ st.clientOutputs \in Nat /\ st.denied \in Nat  BY <1>2 DEF IsState
  <2>2. ids = [j \in Kinds |-> ids[j]]  BY <1>2 DEF IsState
  <2>3. content \in Seq(Items)  BY <1>2, <1>4 DEF IsState
  <2>4. s = [st EXCEPT !.content = content, !.index = index, !.ids = ids]  OBVIOUS
  <2>. HIDE DEF s, ids, content, index
  <2>5. s = [ids |-> ids, open |-> st.open, content |-> content, index |-> index,
             calls |-> st.calls, queued |-> st.queued, resultIds |-> st.resultIds,
             clientOutputs |-> st.clientOutputs, denied |-> st.denied, output |-> st.output,
             buffer |-> st.buffer]
    BY <2>1, <2>4 DEF IsStateRecord
  <2>6. /\ s.ids = ids /\ s.open = st.open /\ s.content = content /\ s.index = index
        /\ s.queued = st.queued /\ s.clientOutputs = st.clientOutputs /\ s.denied = st.denied
        /\ s.buffer = st.buffer
    BY <2>5
  <2>7. IsStateRecord(s)  BY <2>5 DEF IsStateRecord
  <2>8. IsState(s)  BY <1>2, <2>1, <2>2, <2>3, <2>6, <2>7 DEF IsState
  <2>. QED  BY <2>6, <2>8 DEF ids, content, index
<1>7. w = handle(v, e)  BY DeliveredOne
<1>8. x = Item("part", e.kind, NoRef)  BY <1>5
<1>. HIDE DEF x, s, e, w
<1>9. ~w.rejected /\ w.content = Append(v.content, x)  BY <1>2, <1>5, <1>7, <1>8, HandlePartStart
<1>10. w.open = [v.open EXCEPT ![k] = Put(@, mapped, Len(v.content) + 1)]
  <2>1. w.open = [v.open EXCEPT ![e.kind] = Put(@, e.ref, Len(v.content) + 1)]
    BY <1>2, <1>5, <1>7, HandlePartStart
  <2>. QED  BY <1>5, <2>1
<1>. HIDE DEF v
<1>11. Mirrors(s, w, used \cup {mapped})
  <2>1. StartKept(st, s, k, id, mapped, x)  BY <1>6 DEF StartKept, SameCounts
  <2>2. StartSeen(v, w, k, mapped, x)  BY <1>9, <1>10 DEF StartSeen
  <2>. QED  BY <1>2, <1>3, <1>4, <1>6, <2>1, <2>2, MirrorsStart
<1>12. Fits(<<e>>, v, used) /\ Labelled(<<e>>, attempt, used')
  <2>1. Fits(<<e>>, v, used)  BY <1>3, <1>5 DEF Fits
  <2>2. Labelled(<<e>>, attempt, used')  BY <1>1, <1>5, OneEvent
  <2>. QED  BY <2>1, <2>2
<1>13. MappedParts(s, <<e>>, v, w, used, used')
  BY <1>1, <1>6, <1>9, <1>11, <1>12 DEF MappedParts, v, w
<1>14. used \subseteq used' /\ used' \subseteq Seq(Nat) /\ IsFiniteSet(used')
  BY <1>1, <1>2, <1>3, FS_AddElement
<1>. QED  BY <1>1, <1>13, <1>14, MappedKeeps

LEMMA StopKeeps ==
    ASSUME SentInv, settings' = settings, phase' \in {"failed", "reported"}, used' = used,
           attempt' = attempt, automatic' = automatic,
           pendingBoundary' \in BOOLEAN, startedStep' \in BOOLEAN,
           ~acc'.rejected, acc'.toolsFrom \subseteq {attempt}
    PROVE  SentInv'
BY DEF SentInv

LEMMA FailKeeps ==
    ASSUME SentInv, phase = "reading", settings' = settings, Ends, NEW why, Fail(why),
           acc' = Delivered(acc, Prefix(FALSE))
    PROVE  SentInv'
<1>. DEFINE a == Delivered(acc, Prefix(FALSE))
<1>1. Consistent(st, a, used, attempt, retries_possible)  BY PrefixConsistent
<1>. HIDE DEF a
<1>2. ~a.rejected /\ a.toolsFrom \subseteq {attempt}  BY <1>1 DEF Consistent, ToolsOf
<1>3. acc' = a  BY DEF a
<1>. QED  BY <1>2, <1>3, StopKeeps DEF Fail, Ends, NoRetryStep

LEMMA PartDeltaKeeps ==
    ASSUME SentInv, settings' = settings, NEW k \in Kinds, NEW id \in ProviderIds,
           NEW delta \in Deltas, ReadPartDelta(k, id, delta)
    PROVE  SentInv'
<1>1. phase = "reading" /\ Ends  BY DEF ReadPartDelta, Arrive, Ends, Reading
<1>2. CASE id \in DOMAIN st.ids[k] /\ delta # "empty"
  <2>. DEFINE mapped == st.ids[k][id]
              out == delta = "text"
              p == st.index[mapped]
              x == [st.content[p] EXCEPT !.n = @ + 1]
              s == [st EXCEPT !.content[p].n = @ + 1]
              e == Event("part-delta", k, mapped)
              v == Delivered(Delivered(acc, Prefix(FALSE)), st.buffer)
              w == Delivered(v, <<e>>)
              q == v.open[k][mapped]
              y == [v.content[q] EXCEPT !.n = @ + 1]
  <2>1. Mapped(s, <<e>>, out) /\ used' = used  BY <1>2 DEF ReadPartDelta
  <2>2. /\ IsState(st) /\ IsAcc(v) /\ ~v.rejected /\ v.current /\ Mirrors(st, v, used)
        /\ attempt \in Nat /\ used \subseteq Seq(Nat) /\ IsFiniteSet(used)
    BY <1>1, Ready
  <2>. HIDE DEF v, out
  <2>3. mapped \in used /\ Linked(st, v, k, mapped)  BY <1>2, <2>2 DEF Mirrors
  <2>4. e \in PartEvents /\ e.type = "part-delta" /\ e.kind = k /\ e.ref = mapped /\ e.att = attempt
    <3>1. mapped \in Refs /\ "part-delta" \in PartTypes  BY <2>2, <2>3 DEF Refs, PartTypes
    <3>. QED  BY <2>2, <3>1, PartEvent
  <2>. HIDE DEF mapped
  <2>5. /\ p \in 1..Len(st.content) /\ q \in 1..Len(v.content)
        /\ st.content \in Seq(Items) /\ v.content \in Seq(Items)
        /\ st.content[p].type = "part" /\ v.content[q].type = "part"
    BY <2>2, <2>3 DEF Linked, IsState, IsAcc
  <2>6. x \in Items /\ x.type = "part" /\ y \in Items /\ y.type = "part" /\ y.kind = v.content[q].kind
    <3>1. st.content[p] \in Items /\ v.content[q] \in Items  BY <2>5
    <3>. QED  BY <2>5, <3>1, MoreDeltas
  <2>7. st.content[p] = v.content[q] => x = y  OBVIOUS
  <2>8. /\ IsState(s) /\ s.ids = st.ids /\ s.open = st.open
        /\ s.content = Replaced(st.content, p, x) /\ s.index = st.index
        /\ s.queued = st.queued /\ s.clientOutputs = st.clientOutputs /\ s.denied = st.denied
        /\ s.buffer = st.buffer
    <3>. DEFINE content == [st.content EXCEPT ![p] = x]
    <3>1. IsStateRecord(st)  BY <2>2 DEF IsState
    <3>2. content \in Seq(Items)
      <4>. HIDE DEF x, p
      <4>. QED  BY <2>5, <2>6
    <3>3. s = [st EXCEPT !.content = content]  OBVIOUS
    <3>4. content = Replaced(st.content, p, x)  BY DEF Replaced
    <3>. HIDE DEF s, content
    <3>5. s = [ids |-> st.ids, open |-> st.open, content |-> content, index |-> st.index,
               calls |-> st.calls, queued |-> st.queued, resultIds |-> st.resultIds,
               clientOutputs |-> st.clientOutputs, denied |-> st.denied, output |-> st.output,
               buffer |-> st.buffer]
      BY <3>1, <3>3 DEF IsStateRecord
    <3>6. /\ s.ids = st.ids /\ s.open = st.open /\ s.content = content /\ s.index = st.index
          /\ s.queued = st.queued /\ s.clientOutputs = st.clientOutputs /\ s.denied = st.denied
          /\ s.buffer = st.buffer
      BY <3>5
    <3>7. IsStateRecord(s)  BY <3>5 DEF IsStateRecord
    <3>8. IsState(s)  BY <2>2, <3>2, <3>6, <3>7 DEF IsState
    <3>. QED  BY <3>4, <3>6, <3>8
  <2>9. w = handle(v, e)  BY DeliveredOne
  <2>10. mapped \in DOMAIN v.open[k] /\ e.ref \in DOMAIN v.open[e.kind]
    BY <2>3, <2>4 DEF Linked
  <2>11. q = v.open[e.kind][e.ref]  BY <2>4
  <2>. HIDE DEF s, e, w
  <2>12. ~w.rejected /\ w.open = v.open  BY <2>2, <2>4, <2>9, <2>10, HandlePartDelta
  <2>13. w.content = Replaced(v.content, q, y)
    <3>. DEFINE q2 == v.open[e.kind][e.ref]
    <3>1. w.content = [v.content EXCEPT ![q2] = [v.content[q2] EXCEPT !.n = @ + 1]]
      BY <2>2, <2>4, <2>9, <2>10, HandlePartDelta
    <3>. QED  BY <2>11, <3>1 DEF Replaced
  <2>14. Mirrors(s, w, used)
    <3>1. DeltaKept(st, s, p, x)  BY <2>8 DEF DeltaKept, SameCounts
    <3>2. DeltaSeen(v, w, q, y)  BY <2>12, <2>13 DEF DeltaSeen
    <3>3. p = st.index[st.ids[k][id]] /\ q = v.open[k][st.ids[k][id]]  BY DEF mapped
    <3>. HIDE DEF p, q, x, y
    <3>. QED  BY <1>2, <2>2, <2>6, <2>7, <3>1, <3>2, <3>3, MirrorsDelta
  <2>15. Fits(<<e>>, v, used)
    <3>1. e.type # "part-start"  BY <2>4
    <3>. QED  BY <2>4, <2>10, <3>1 DEF Fits
  <2>16. Labelled(<<e>>, attempt, used)  BY <2>4, OneEvent
  <2>17. MappedParts(s, <<e>>, v, w, used, used)
    BY <2>8, <2>12, <2>14, <2>15, <2>16 DEF MappedParts, v, w
  <2>. QED  BY <1>1, <2>1, <2>2, <2>17, MappedKeeps
<1>3. CASE id \notin DOMAIN st.ids[k]
  <2>1. Fail("invalid_part") /\ acc' = Delivered(acc, Prefix(FALSE))
    BY <1>3 DEF ReadPartDelta, InvalidPart
  <2>. QED  BY <1>1, <2>1, FailKeeps
<1>4. CASE id \in DOMAIN st.ids[k] /\ delta = "empty"
  <2>1. Mapped(st, <<>>, FALSE) /\ used' = used  BY <1>4 DEF ReadPartDelta
  <2>. QED  BY <1>1, <2>1, SilentKeeps
<1>. QED  BY <1>2, <1>3, <1>4

LEMMA PartEndKeeps ==
    ASSUME SentInv, settings' = settings, NEW k \in Kinds, NEW id \in ProviderIds, ReadPartEnd(k, id)
    PROVE  SentInv'
<1>1. phase = "reading" /\ Ends  BY DEF ReadPartEnd, Arrive, Ends, Reading
<1>2. CASE id \in DOMAIN st.ids[k]
  <2>. DEFINE mapped == st.ids[k][id]
              s == [st EXCEPT !.ids[k] = Without(@, id)]
              e == Event("part-end", k, mapped)
              v == Delivered(Delivered(acc, Prefix(FALSE)), st.buffer)
              w == Delivered(v, <<e>>)
  <2>1. Mapped(s, <<e>>, FALSE) /\ used' = used  BY <1>2 DEF ReadPartEnd
  <2>2. /\ IsState(st) /\ IsAcc(v) /\ ~v.rejected /\ v.current /\ Mirrors(st, v, used)
        /\ attempt \in Nat /\ used \subseteq Seq(Nat) /\ IsFiniteSet(used)
    BY <1>1, Ready
  <2>. HIDE DEF v
  <2>3. mapped \in used /\ Linked(st, v, k, mapped)  BY <1>2, <2>2 DEF Mirrors
  <2>4. e \in PartEvents /\ e.type = "part-end" /\ e.kind = k /\ e.ref = mapped /\ e.att = attempt
    <3>1. mapped \in Refs /\ "part-end" \in PartTypes  BY <2>2, <2>3 DEF Refs, PartTypes
    <3>. QED  BY <2>2, <3>1, PartEvent
  <2>. HIDE DEF mapped
  <2>8. /\ IsState(s) /\ s.ids = [st.ids EXCEPT ![k] = Without(@, id)] /\ s.open = st.open
        /\ s.content = st.content /\ s.index = st.index
        /\ s.queued = st.queued /\ s.clientOutputs = st.clientOutputs /\ s.denied = st.denied
        /\ s.buffer = st.buffer
    <3>. DEFINE ids == [st.ids EXCEPT ![k] = Without(@, id)]
    <3>1. IsStateRecord(st)  BY <2>2 DEF IsState
    <3>2. ids = [j \in Kinds |-> ids[j]]  BY <2>2 DEF IsState
    <3>3. s = [st EXCEPT !.ids = ids]  OBVIOUS
    <3>. HIDE DEF s, ids
    <3>5. s = [ids |-> ids, open |-> st.open, content |-> st.content, index |-> st.index,
               calls |-> st.calls, queued |-> st.queued, resultIds |-> st.resultIds,
               clientOutputs |-> st.clientOutputs, denied |-> st.denied, output |-> st.output,
               buffer |-> st.buffer]
      BY <3>1, <3>3 DEF IsStateRecord
    <3>6. /\ s.ids = ids /\ s.open = st.open /\ s.content = st.content /\ s.index = st.index
          /\ s.queued = st.queued /\ s.clientOutputs = st.clientOutputs /\ s.denied = st.denied
          /\ s.buffer = st.buffer
      BY <3>5
    <3>7. IsStateRecord(s)  BY <3>5 DEF IsStateRecord
    <3>8. IsState(s)  BY <2>2, <3>2, <3>6, <3>7 DEF IsState
    <3>. QED  BY <3>6, <3>8 DEF ids
  <2>9. w = handle(v, e)  BY DeliveredOne
  <2>10. e.ref \in DOMAIN v.open[e.kind]  BY <2>3, <2>4 DEF Linked
  <2>. HIDE DEF s, e, w
  <2>11. ~w.rejected /\ w.content = v.content  BY <2>2, <2>4, <2>9, <2>10, HandlePartEnd
  <2>12. EndSeen(v, w, k, mapped)
    <3>1. w.open = [v.open EXCEPT ![e.kind] = Without(@, e.ref)]
      BY <2>2, <2>4, <2>9, <2>10, HandlePartEnd
    <3>. QED  BY <2>4, <2>11, <3>1 DEF EndSeen
  <2>13. EndKept(st, s, k, id)  BY <2>8 DEF EndKept, SameCounts
  <2>14. Mirrors(s, w, used)
    BY <1>2, <2>2, <2>12, <2>13, MirrorsEnd DEF mapped
  <2>15. Fits(<<e>>, v, used)
    <3>1. e.type # "part-start"  BY <2>4
    <3>. QED  BY <2>4, <2>10, <3>1 DEF Fits
  <2>16. Labelled(<<e>>, attempt, used)  BY <2>4, OneEvent
  <2>17. MappedParts(s, <<e>>, v, w, used, used)
    BY <2>8, <2>11, <2>14, <2>15, <2>16 DEF MappedParts, v, w
  <2>. QED  BY <1>1, <2>1, <2>2, <2>17, MappedKeeps
<1>3. CASE id \notin DOMAIN st.ids[k]
  <2>1. Fail("invalid_part") /\ acc' = Delivered(acc, Prefix(FALSE))
    BY <1>3 DEF ReadPartEnd, InvalidPart
  <2>. QED  BY <1>1, <2>1, FailKeeps
<1>. QED  BY <1>2, <1>3

(* The attempt with one more item, and a new set of provider results.      *)
Extended(s, x, r) == [s EXCEPT !.content = Append(@, x), !.resultIds = r]

LEMMA WithItem ==
    ASSUME NEW s, IsState(s), NEW x \in Items, NEW r, NEW t, t = Extended(s, x, r)
    PROVE  /\ IsState(t) /\ t.ids = s.ids /\ t.open = s.open /\ t.content = Append(s.content, x)
           /\ t.index = s.index /\ t.queued = s.queued /\ t.clientOutputs = s.clientOutputs
           /\ t.denied = s.denied /\ t.buffer = s.buffer
<1>. DEFINE content == Append(s.content, x)
<1>1. IsStateRecord(s)  BY DEF IsState
<1>2. content \in Seq(Items)  BY DEF IsState
<1>3. t = [s EXCEPT !.content = content, !.resultIds = r]  BY DEF Extended
<1>. HIDE DEF content
<1>4. t = [ids |-> s.ids, open |-> s.open, content |-> content, index |-> s.index,
           calls |-> s.calls, queued |-> s.queued, resultIds |-> r,
           clientOutputs |-> s.clientOutputs, denied |-> s.denied, output |-> s.output,
           buffer |-> s.buffer]
  BY <1>1, <1>3 DEF IsStateRecord
<1>5. /\ t.ids = s.ids /\ t.open = s.open /\ t.content = content /\ t.index = s.index
      /\ t.queued = s.queued /\ t.clientOutputs = s.clientOutputs /\ t.denied = s.denied
      /\ t.buffer = s.buffer
  BY ONLY <1>4
<1>6. IsStateRecord(t)  BY ONLY <1>4 DEF IsStateRecord
<1>7. IsState(t)  BY <1>2, <1>5, <1>6 DEF IsState
<1>. QED  BY <1>5, <1>7 DEF content

LEMMA SameResults ==
    ASSUME NEW s, IsState(s), NEW x
    PROVE  [s EXCEPT !.content = Append(@, x)] = Extended(s, x, s.resultIds)
<1>1. IsStateRecord(s)  BY DEF IsState
<1>. QED  BY <1>1 DEF IsStateRecord, Extended

(* One event that adds its item to both sides.                             *)
LEMMA ItemKeeps ==
    ASSUME SentInv, settings' = settings, phase = "reading", Ends, used' = used,
           NEW type \in ToolTypes \cup {"content"}, NEW kind \in Sides, NEW ref \in Refs,
           kind # "client", type \in Quiet => type = "tool-preliminary",
           NEW r, NEW isOutput, NEW s,
           s = Extended(st, Item(type, kind, ref), r),
           Mapped(s, <<Event(type, kind, ref)>>, isOutput)
    PROVE  SentInv'
<1>. DEFINE v == Delivered(Delivered(acc, Prefix(FALSE)), st.buffer)
            events == <<Event(type, kind, ref)>>
            w == Delivered(v, events)
            x == Item(type, kind, ref)
<1>1. IsState(st) /\ used \subseteq Seq(Nat) /\ IsFiniteSet(used)  BY Ready
<1>2. x \in Items /\ x.type = type /\ x.kind = kind  BY ItemFields
<1>3. /\ IsState(s) /\ s.ids = st.ids /\ s.open = st.open /\ s.content = Append(st.content, x)
      /\ s.index = st.index /\ s.queued = st.queued /\ s.clientOutputs = st.clientOutputs
      /\ s.denied = st.denied /\ s.buffer = st.buffer
  <2>1. s = Extended(st, x, r)  OBVIOUS
  <2>. HIDE DEF x
  <2>. QED  BY <1>1, <1>2, <2>1, WithItem
<1>4. FromModel(x) => TRUE /\ type \notin Quiet
  <2>. HIDE DEF x
  <2>. QED  BY <1>2 DEF FromModel, Quiet
<1>5. s.content = IF TRUE THEN Append(st.content, x) ELSE st.content  BY <1>3
<1>6. v = Delivered(Delivered(acc, Prefix(FALSE)), st.buffer)  OBVIOUS
<1>. HIDE DEF v
<1>7. MappedParts(s, events, v, w, used, used)
  BY <1>3, <1>4, <1>5, <1>6, OtherParts
<1>8. Mapped(s, events, isOutput)  OBVIOUS
<1>. HIDE DEF events, w
<1>. QED  BY <1>1, <1>7, <1>8, MappedKeeps

LEMMA ContentKeeps ==
    ASSUME SentInv, settings' = settings, NEW isFile \in BOOLEAN, ReadContent(isFile) PROVE SentInv'
<1>. DEFINE s == [st EXCEPT !.content = Append(@, Item("content", "step", NoRef))]
<1>1. /\ phase = "reading" /\ Ends /\ used' = used
      /\ Mapped(s, <<Event("content", "step", NoRef)>>, isFile)
  BY DEF ReadContent, Arrive, Ends, Reading
<1>2. IsState(st)  BY <1>1, Ready
<1>3. "step" \in Sides /\ NoRef \in Refs /\ "content" \notin Quiet  BY DEF Sides, NoRef, Refs, Quiet
<1>4. s = Extended(st, Item("content", "step", NoRef), st.resultIds)
  BY <1>2, SameResults
<1>. HIDE DEF s
<1>. QED  BY <1>1, <1>3, <1>4, ItemKeeps

LEMMA ToolInputKeeps ==
    ASSUME SentInv, settings' = settings,
           NEW type \in {"tool-input-start", "tool-input-delta", "tool-input-end"}, NEW c \in Calls,
           NEW full \in BOOLEAN, ReadToolInput(type, c, full)
    PROVE  SentInv'
<1>. DEFINE v == Delivered(Delivered(acc, Prefix(FALSE)), st.buffer)
            events == <<Event(type, "client", c)>>
            w == Delivered(v, events)
            out == type = "tool-input-delta" /\ full
<1>1. phase = "reading" /\ Ends /\ used' = used /\ Mapped(st, events, out)
  BY DEF ReadToolInput, Arrive, Ends, Reading
<1>2. IsState(st) /\ used \subseteq Seq(Nat) /\ IsFiniteSet(used)  BY <1>1, Ready
<1>3. /\ "client" \in Sides /\ c \in Refs /\ type \in ToolTypes /\ type \in Quiet
      /\ type \notin {"tool-error", "denied"}
  BY DEF Sides, Refs, ToolTypes, Quiet
<1>4. ~FromModel(Item(type, "client", c))  BY DEF FromModel, Item
<1>5. st.content = IF FALSE THEN Append(st.content, Item(type, "client", c)) ELSE st.content  OBVIOUS
<1>6. v = Delivered(Delivered(acc, Prefix(FALSE)), st.buffer)  OBVIOUS
<1>. HIDE DEF v, out
<1>7. MappedParts(st, events, v, w, used, used)
  BY <1>1, <1>2, <1>3, <1>4, <1>5, <1>6, OtherParts
<1>. HIDE DEF events, w
<1>. QED  BY <1>1, <1>2, <1>7, MappedKeeps

LEMMA ToolResultKeeps ==
    ASSUME SentInv, settings' = settings, NEW c \in Calls,
           NEW type \in {"tool-result", "tool-preliminary", "tool-error"}, ReadToolResult(c, type)
    PROVE  SentInv'
<1>. DEFINE r == st.resultIds \cup {c}
            s == [st EXCEPT !.content = Append(@, Item(type, "provider", c)), !.resultIds = r]
<1>1. /\ phase = "reading" /\ Ends /\ used' = used
      /\ Mapped(s, <<Event(type, "provider", c)>>, FALSE)
  BY DEF ReadToolResult, Arrive, Ends, Reading
<1>2. /\ "provider" \in Sides /\ c \in Refs /\ type \in ToolTypes
      /\ (type \in Quiet => type = "tool-preliminary")
  BY DEF Sides, Refs, ToolTypes, Quiet
<1>3. s = Extended(st, Item(type, "provider", c), r)  BY DEF Extended
<1>. HIDE DEF s, r
<1>. QED  BY <1>1, <1>2, <1>3, ItemKeeps

LEMMA ProviderApprovalKeeps ==
    ASSUME SentInv, settings' = settings, NEW c \in Calls, ReadProviderApproval(c) PROVE SentInv'
<1>. DEFINE s == [st EXCEPT !.content = Append(@, Item("approval-request", "provider", c))]
<1>1. phase = "reading" /\ Ends  BY DEF ReadProviderApproval, Arrive, Ends, Reading
<1>2. CASE c \in st.calls
  <2>1. used' = used /\ Mapped(s, <<Event("approval-request", "provider", c)>>, FALSE)
    BY <1>2 DEF ReadProviderApproval
  <2>2. IsState(st)  BY <1>1, Ready
  <2>3. /\ "provider" \in Sides /\ c \in Refs /\ "approval-request" \in ToolTypes
        /\ "approval-request" \notin Quiet
    BY DEF Sides, Refs, ToolTypes, Quiet
  <2>4. s = Extended(st, Item("approval-request", "provider", c), st.resultIds)
    BY <2>2, SameResults
  <2>. HIDE DEF s
  <2>. QED  BY <1>1, <2>1, <2>3, <2>4, ItemKeeps
<1>3. CASE c \notin st.calls
  <2>1. Fail("approval_without_call") /\ acc' = Delivered(acc, Prefix(FALSE))
    BY <1>3 DEF ReadProviderApproval
  <2>. QED  BY <1>1, <2>1, FailKeeps
<1>. QED  BY <1>2, <1>3

LEMMA ConcatNone == ASSUME NEW e PROVE <<e>> \o <<>> = <<e>>
<1>1. <<e>> \in Seq({e})  OBVIOUS
<1>. QED  BY <1>1

LEMMA ConcatOne == ASSUME NEW e, NEW f PROVE <<e>> \o <<f>> = <<e, f>>
<1>. DEFINE E == {e, f}
            s == <<e>> \o <<f>>
            t == <<e, f>>
<1>1. <<e>> \in Seq(E) /\ <<f>> \in Seq(E) /\ t \in Seq(E)  OBVIOUS
<1>2. s \in Seq(E)  BY <1>1
<1>3. Len(s) = 2 /\ s[1] = e /\ s[2] = f  BY <1>1
<1>4. Len(t) = 2 /\ t[1] = e /\ t[2] = f  OBVIOUS
<1>. HIDE DEF s, t, E
<1>5. \A i \in 1..Len(s) : s[i] = t[i]  BY <1>3, <1>4
<1>6. s = t  BY <1>1, <1>2, <1>3, <1>4, <1>5, SeqEqual
<1>. QED  BY <1>6 DEF s, t

LEMMA ConcatTwo == ASSUME NEW e, NEW f, NEW g PROVE <<e>> \o <<f, g>> = <<e, f, g>>
<1>. DEFINE E == {e, f, g}
            s == <<e>> \o <<f, g>>
            t == <<e, f, g>>
<1>1. <<e>> \in Seq(E) /\ <<f, g>> \in Seq(E) /\ t \in Seq(E)  OBVIOUS
<1>2. s \in Seq(E)  BY <1>1
<1>3. Len(s) = 3 /\ s[1] = e /\ s[2] = f /\ s[3] = g  BY <1>1
<1>4. Len(t) = 3 /\ t[1] = e /\ t[2] = f /\ t[3] = g  OBVIOUS
<1>. HIDE DEF s, t, E
<1>5. \A i \in 1..Len(s) : s[i] = t[i]  BY <1>3, <1>4
<1>6. s = t  BY <1>1, <1>2, <1>3, <1>4, <1>5, SeqEqual
<1>. QED  BY <1>6 DEF s, t

LEMMA DeliveredTwo ==
    ASSUME NEW a, NEW e, NEW f
    PROVE  Delivered(a, <<e, f>>) = handle(handle(a, e), f)
<1>. DEFINE t == <<e, f>>
<1>1. Len(t) = 2 /\ t[1] = e /\ t[2] = f  OBVIOUS
<1>. HIDE DEF t
<1>2. After(a, t, 0) = a  BY AfterStep
<1>3. After(a, t, 0 + 1) = handle(After(a, t, 0), t[0 + 1])  BY AfterStep
<1>4. After(a, t, 1 + 1) = handle(After(a, t, 1), t[1 + 1])  BY AfterStep
<1>5. After(a, t, 1) = handle(a, e)
  <2>1. 0 + 1 = 1  OBVIOUS
  <2>. QED  BY <1>1, <1>2, <1>3, <2>1, Zenon
<1>6. After(a, t, 2) = handle(handle(a, e), f)
  <2>1. 1 + 1 = 2  OBVIOUS
  <2>. QED  BY <1>1, <1>4, <1>5, <2>1, Zenon
<1>7. Delivered(a, t) = handle(handle(a, e), f)  BY <1>1, <1>6, DeliveredAfter, Zenon
<1>. QED  BY <1>7 DEF t

LEMMA DeliveredThree ==
    ASSUME NEW a, NEW e, NEW f, NEW g
    PROVE  Delivered(a, <<e, f, g>>) = handle(handle(handle(a, e), f), g)
<1>. DEFINE t == <<e, f, g>>
<1>1. Len(t) = 3 /\ t[1] = e /\ t[2] = f /\ t[3] = g  OBVIOUS
<1>. HIDE DEF t
<1>2. After(a, t, 0) = a  BY AfterStep
<1>3. After(a, t, 0 + 1) = handle(After(a, t, 0), t[0 + 1])  BY AfterStep
<1>4. After(a, t, 1 + 1) = handle(After(a, t, 1), t[1 + 1])  BY AfterStep
<1>5. After(a, t, 2 + 1) = handle(After(a, t, 2), t[2 + 1])  BY AfterStep
<1>6. After(a, t, 1) = handle(a, e)
  <2>1. 0 + 1 = 1  OBVIOUS
  <2>. QED  BY <1>1, <1>2, <1>3, <2>1, Zenon
<1>7. After(a, t, 2) = handle(handle(a, e), f)
  <2>1. 1 + 1 = 2  OBVIOUS
  <2>. QED  BY <1>1, <1>4, <1>6, <2>1, Zenon
<1>8. After(a, t, 3) = handle(handle(handle(a, e), f), g)
  <2>1. 2 + 1 = 3  OBVIOUS
  <2>. QED  BY <1>1, <1>5, <1>7, <2>1, Zenon
<1>9. Delivered(a, t) = handle(handle(handle(a, e), f), g)  BY <1>1, <1>8, DeliveredAfter, Zenon
<1>. QED  BY <1>9 DEF t

(* The attempt with a tool call.                                           *)
Called(s, x, c, m, d, q) ==
    [s EXCEPT !.content = Append(@, x), !.calls = @ \cup {c}, !.clientOutputs = m, !.denied = d,
              !.queued = q]

CallKept(s, t, x, m, d, q) ==
    /\ IsState(t) /\ t.ids = s.ids /\ t.open = s.open /\ t.content = Append(s.content, x)
    /\ t.index = s.index /\ t.queued = q /\ t.clientOutputs = m
    /\ t.denied = d /\ t.buffer = s.buffer

LEMMA WithCall ==
    ASSUME NEW s, IsState(s), NEW x, x \in Items, NEW c, NEW m, m \in Nat, NEW d, d \in Nat, NEW q,
           NEW t, t = Called(s, x, c, m, d, q)
    PROVE  CallKept(s, t, x, m, d, q)
<1>. DEFINE content == Append(s.content, x)
            calls == s.calls \cup {c}
<1>1. IsStateRecord(s)  BY DEF IsState
<1>2. content \in Seq(Items)  BY DEF IsState
<1>3. t = [s EXCEPT !.content = content, !.calls = calls, !.clientOutputs = m, !.denied = d,
                    !.queued = q]
  BY DEF Called
<1>. HIDE DEF content, calls
<1>4. t = [ids |-> s.ids, open |-> s.open, content |-> content, index |-> s.index,
           calls |-> calls, queued |-> q, resultIds |-> s.resultIds,
           clientOutputs |-> m, denied |-> d, output |-> s.output, buffer |-> s.buffer]
  BY <1>1, <1>3 DEF IsStateRecord
<1>5. /\ t.ids = s.ids /\ t.open = s.open /\ t.content = content /\ t.index = s.index
      /\ t.queued = q /\ t.clientOutputs = m /\ t.denied = d /\ t.buffer = s.buffer
  BY ONLY <1>4
<1>6. IsStateRecord(t)  BY ONLY <1>4 DEF IsStateRecord
<1>7. IsState(t)  BY <1>2, <1>5, <1>6 DEF IsState
<1>. QED  BY <1>5, <1>7 DEF content, CallKept

LEMMA ToolCallKeeps ==
    ASSUME SentInv, settings' = settings, NEW c \in Calls, NEW o \in ToolCallOutcomes, ReadToolCall(c, o)
    PROVE  SentInv'
<1>. DEFINE x == Item("tool-call", o.side, c)
            q == IF o.executable /\ o.approval \in {"none", "approved"} THEN st.queued \cup {c} ELSE st.queued
            m == IF countsAsOutput(o) THEN st.clientOutputs + 1 ELSE st.clientOutputs
            d == IF o.approval = "denied" THEN st.denied + 1 ELSE st.denied
            s == Called(st, x, c, m, d, q)
            t == Called(st, x, c, st.clientOutputs, st.denied, q)
            call == Event("tool-call", o.side, c)
            failed == Event("tool-error", "client", c)
            request == Event("approval-request", "client", c)
            decided == Event(o.approval, "client", c)
            events == <<call>> \o (IF o.invalid /\ o.side = "client" THEN <<failed>> ELSE <<>>)
                               \o ApprovalEvents(c, o.approval)
            v == Delivered(Delivered(acc, Prefix(FALSE)), st.buffer)
            w == Delivered(v, events)
<1>1. /\ phase = "reading" /\ Ends /\ used' = used /\ Mapped(s, events, TRUE)
  <2>1. phase = "reading" /\ Ends /\ used' = used  BY DEF ReadToolCall, Arrive, Ends, Reading
  <2>2. Mapped(s, events, TRUE)  BY DEF ReadToolCall, Called
  <2>. QED  BY <2>1, <2>2
<1>2. /\ IsState(st) /\ IsAcc(v) /\ ~v.rejected /\ v.current /\ Mirrors(st, v, used)
      /\ attempt \in Nat /\ used \subseteq Seq(Nat) /\ IsFiniteSet(used)
  BY <1>1, Ready
<1>3. /\ o.side \in {"client", "provider"} /\ o.invalid \in BOOLEAN /\ o.approval \in Approvals
      /\ o.executable => o.side = "client"
      /\ o.invalid => o.approval = "none"
  BY DEF ToolCallOutcomes, Approvals
<1>4. /\ o.side \in Sides /\ "client" \in Sides /\ c \in Refs
      /\ {"tool-call", "tool-error", "approval-request", "approved", "denied"} \subseteq ToolTypes
  BY <1>3 DEF Sides, Refs, ToolTypes
<1>5. x \in Items  BY <1>4, ItemFields
<1>6. st.clientOutputs \in Nat /\ st.denied \in Nat  BY <1>2 DEF IsState
<1>7. m \in Nat /\ d \in Nat  BY <1>6
<1>8. call \in OtherEvents /\ call.type = "tool-call" /\ call.kind = o.side /\ call.ref = c /\ call.att = attempt
  BY <1>2, <1>4, OtherEvent
<1>9. failed \in OtherEvents /\ failed.type = "tool-error" /\ failed.kind = "client" /\ failed.ref = c /\ failed.att = attempt
  BY <1>2, <1>4, OtherEvent
<1>10. request \in OtherEvents /\ request.type = "approval-request" /\ request.kind = "client" /\ request.ref = c /\ request.att = attempt
  BY <1>2, <1>4, OtherEvent
<1>11. ASSUME o.approval \in {"approved", "denied"}
       PROVE  decided \in OtherEvents /\ decided.type = o.approval /\ decided.kind = "client" /\ decided.ref = c /\ decided.att = attempt
  <2>1. o.approval \in ToolTypes \cup {"content"}  BY <1>4, <1>11
  <2>. QED  BY <1>2, <1>4, <2>1, OtherEvent
<1>12. x = Item(call.type, call.kind, call.ref)  BY <1>8
<1>13. \A y \in q : y \in st.queued \/ (o.side = "client" /\ y = c)  BY <1>3
<1>14. countsAsOutput(o) <=> o.invalid /\ o.side = "client"  BY DEF countsAsOutput
<1>15. \/ /\ events = <<call>> /\ m = st.clientOutputs /\ d = st.denied
       \/ /\ events = <<call, failed>> /\ m = st.clientOutputs + 1 /\ d = st.denied
       \/ /\ events = <<call, request>> /\ m = st.clientOutputs /\ d = st.denied
       \/ /\ events = <<call, request, decided>> /\ m = st.clientOutputs
          /\ o.approval \in {"approved", "denied"}
  <2>. DEFINE e1 == IF o.invalid /\ o.side = "client" THEN <<failed>> ELSE <<>>
              e2 == ApprovalEvents(c, o.approval)
  <2>1. CASE o.approval = "none"
    <3>1. e2 = <<>>  BY <2>1 DEF ApprovalEvents
    <3>2. events = <<call>> \o e1  BY <3>1
    <3>3. CASE o.invalid /\ o.side = "client"
      <4>1. events = <<call, failed>>  BY <3>2, <3>3, ConcatOne
      <4>. QED  BY <1>14, <2>1, <3>3, <4>1
    <3>4. CASE ~(o.invalid /\ o.side = "client")
      <4>0. events = <<call>> \o <<>>  BY <3>2, <3>4
      <4>1. events = <<call>>  BY <4>0, ConcatNone
      <4>. QED  BY <1>14, <2>1, <3>4, <4>1
    <3>. QED  BY <3>3, <3>4
  <2>2. CASE o.approval = "request"
    <3>1. e2 = <<request>> /\ e1 = <<>>  BY <1>3, <2>2 DEF ApprovalEvents
    <3>2. events = <<call>> \o <<request>>  BY <3>1
    <3>3. events = <<call, request>>  BY <3>2, ConcatOne
    <3>. QED  BY <1>3, <1>14, <2>2, <3>3
  <2>3. CASE o.approval \in {"approved", "denied"}
    <3>1. e2 = <<request, decided>> /\ e1 = <<>>  BY <1>3, <2>3 DEF ApprovalEvents
    <3>2. events = <<call>> \o <<request, decided>>  BY <3>1
    <3>3. events = <<call, request, decided>>  BY <3>2, ConcatTwo
    <3>. QED  BY <1>3, <1>14, <2>3, <3>3
  <2>. QED  BY <1>3, <2>1, <2>2, <2>3 DEF Approvals
<1>16. d = st.denied + (IF o.approval = "denied" THEN 1 ELSE 0)  BY <1>6
<1>17. s = Called(st, x, c, m, d, q) /\ t = Called(st, x, c, st.clientOutputs, st.denied, q)
  OBVIOUS
<1>18. w = Delivered(v, events) /\ v = Delivered(Delivered(acc, Prefix(FALSE)), st.buffer)  OBVIOUS
<1>. HIDE DEF x, q, m, d, s, t, call, failed, request, decided, events, v, w
<1>19. /\ IsState(s) /\ s.ids = st.ids /\ s.open = st.open /\ s.content = Append(st.content, x)
       /\ s.index = st.index /\ s.queued = q /\ s.clientOutputs = m
       /\ s.denied = d /\ s.buffer = st.buffer
  <2>1. CallKept(st, s, x, m, d, q)  BY <1>2, <1>5, <1>7, <1>17, WithCall
  <2>. QED  BY <2>1 DEF CallKept
<1>20. /\ IsState(t) /\ t.ids = st.ids /\ t.open = st.open /\ t.content = Append(st.content, x)
       /\ t.index = st.index /\ t.queued = q /\ t.clientOutputs = st.clientOutputs
       /\ t.denied = st.denied /\ t.buffer = st.buffer
  <2>1. CallKept(st, t, x, st.clientOutputs, st.denied, q)  BY <1>2, <1>5, <1>6, <1>17, WithCall
  <2>. QED  BY <2>1 DEF CallKept
<1>. DEFINE w1 == handle(v, call)
<1>21. Mirrors(t, w1, used) /\ IsAcc(w1) /\ ~w1.rejected
  <2>1. Adds(st, t, call, TRUE)
    <3>1. call.type \notin Quiet  BY <1>8 DEF Quiet
    <3>. QED  BY <1>6, <1>8, <1>12, <1>13, <1>20, <3>1 DEF Adds
  <2>. QED  BY <1>2, <1>8, <2>1, MirrorsEvent
<1>. HIDE DEF w1
<1>22. ASSUME NEW e, e \in {failed, request} PROVE ~FromModel(Item(e.type, e.kind, e.ref))
  BY <1>9, <1>10, <1>22 DEF FromModel, Item
<1>23. /\ Mirrors(s, w, used) /\ ~w.rejected
       /\ events \in Seq(OtherEvents) /\ Head(events) = call
       /\ \A i \in DOMAIN events : events[i].att = attempt /\ events[i].type # "part-start"
  <2>0. /\ call.type # "part-start" /\ failed.type # "part-start" /\ request.type # "part-start"
    BY <1>8, <1>9, <1>10
  <2>1. CASE events = <<call>> /\ m = st.clientOutputs /\ d = st.denied
    <3>1. w = w1  BY <1>18, <2>1, DeliveredOne DEF w1
    <3>2. s = t  BY <1>17, <2>1
    <3>. QED  BY <1>8, <1>21, <2>0, <2>1, <3>1, <3>2
  <2>2. CASE events = <<call, failed>> /\ m = st.clientOutputs + 1 /\ d = st.denied
    <3>1. w = handle(w1, failed)
      <4>1. Delivered(v, <<call, failed>>) = handle(handle(v, call), failed)  BY DeliveredTwo
      <4>. QED  BY <1>18, <2>2, <4>1 DEF w1
    <3>2. Adds(t, s, failed, FALSE)
      BY <1>6, <1>9, <1>19, <1>20, <1>22, <2>2 DEF Adds
    <3>3. Mirrors(s, w, used) /\ ~w.rejected  BY <1>9, <1>20, <1>21, <3>1, <3>2, MirrorsEvent
    <3>. QED  BY <1>8, <1>9, <2>0, <2>2, <3>3
  <2>3. CASE events = <<call, request>> /\ m = st.clientOutputs /\ d = st.denied
    <3>1. w = handle(w1, request)
      <4>1. Delivered(v, <<call, request>>) = handle(handle(v, call), request)  BY DeliveredTwo
      <4>. QED  BY <1>18, <2>3, <4>1 DEF w1
    <3>2. Adds(t, s, request, FALSE)
      BY <1>6, <1>10, <1>19, <1>20, <1>22, <2>3 DEF Adds
    <3>3. Mirrors(s, w, used) /\ ~w.rejected  BY <1>10, <1>20, <1>21, <3>1, <3>2, MirrorsEvent
    <3>. QED  BY <1>8, <1>10, <2>0, <2>3, <3>3
  <2>4. CASE events = <<call, request, decided>> /\ m = st.clientOutputs /\ o.approval \in {"approved", "denied"}
    <3>. DEFINE w2 == handle(w1, request)
    <3>1. w = handle(w2, decided)
      <4>1. Delivered(v, <<call, request, decided>>) = handle(handle(handle(v, call), request), decided)
        BY DeliveredThree
      <4>. QED  BY <1>18, <2>4, <4>1 DEF w1
    <3>2. Adds(t, t, request, FALSE)
      BY <1>6, <1>10, <1>20, <1>22 DEF Adds
    <3>3. Mirrors(t, w2, used) /\ IsAcc(w2) /\ ~w2.rejected
      BY <1>10, <1>20, <1>21, <3>2, MirrorsEvent
    <3>. HIDE DEF w2
    <3>4. /\ decided \in OtherEvents /\ decided.type = o.approval /\ decided.kind = "client"
          /\ decided.ref = c /\ decided.att = attempt
      BY <1>11, <2>4
    <3>5. ~FromModel(Item(decided.type, decided.kind, decided.ref))
      BY <2>4, <3>4 DEF FromModel, Item
    <3>6. Adds(t, s, decided, FALSE)
      <4>1. decided.type \notin {"tool-error", "tool-call"}  BY <2>4, <3>4
      <4>. QED  BY <1>6, <1>16, <1>19, <1>20, <2>4, <3>4, <3>5, <4>1 DEF Adds
    <3>7. Mirrors(s, w, used) /\ ~w.rejected  BY <1>20, <3>1, <3>3, <3>4, <3>6, MirrorsEvent
    <3>8. decided.type # "part-start"  BY <2>4, <3>4
    <3>. QED  BY <1>8, <1>10, <2>0, <2>4, <3>4, <3>7, <3>8
  <2>. QED  BY <1>15, <2>1, <2>2, <2>3, <2>4
<1>24. is_tool_part(call)  BY <1>4, <1>8 DEF is_tool_part
<1>25. Fits(events, v, used)  BY <1>23, <1>24 DEF Fits
<1>26. Labelled(events, attempt, used)  BY <1>23 DEF Labelled
<1>27. MappedParts(s, events, v, w, used, used)
  BY <1>18, <1>19, <1>23, <1>25, <1>26 DEF MappedParts
<1>. QED  BY <1>1, <1>2, <1>27, MappedKeeps

LEMMA ToolFailsKeeps ==
    ASSUME SentInv, settings' = settings, ReadToolInputFails \/ ReadToolCallFails PROVE SentInv'
<1>1. /\ phase = "reading" /\ Ends /\ Fail("tool")
      /\ acc' = Delivered(acc, Prefix(FALSE))
  BY DEF ReadToolInputFails, ReadToolCallFails, Arrive, Ends, Reading
<1>. QED  BY <1>1, FailKeeps

-----------------------------------------------------------------------------
(* The ends of an attempt, and what happens between attempts.              *)

LEMMA ReadyTools ==
    ASSUME SentInv, phase = "reading"
    PROVE  Delivered(Delivered(acc, Prefix(FALSE)), st.buffer).toolsFrom \subseteq {attempt}
<1>. DEFINE a == Delivered(acc, Prefix(FALSE))
            b == Delivered(a, st.buffer)
<1>1. Consistent(st, a, used, attempt, retries_possible)  BY PrefixConsistent
<1>. HIDE DEF a
<1>2. /\ IsAcc(a) /\ a.toolsFrom \subseteq {attempt} /\ st.buffer \in Seq(MappedEvents)
      /\ \A i \in 1..Len(st.buffer) : st.buffer[i].att \in {attempt}
  BY <1>1 DEF Consistent, ToolsOf, IsState
<1>3. b.toolsFrom \subseteq a.toolsFrom \cup {attempt}  BY <1>2, DeliveredMapped
<1>4. b.toolsFrom \subseteq {attempt}  BY <1>2, <1>3
<1>. QED  BY <1>4 DEF a

(* What a flush leaves with the processor.                                 *)
LEMMA Flushed ==
    ASSUME SentInv, phase = "reading", NEW v, v = Delivered(acc, Prefix(FALSE) \o st.buffer)
    PROVE  ~v.rejected /\ v.toolsFrom \subseteq {attempt} /\ Mirrors(st, v, used)
<1>. DEFINE b == Delivered(Delivered(acc, Prefix(FALSE)), st.buffer)
<1>1. ~b.rejected /\ Mirrors(st, b, used) /\ IsState(st)  BY Ready
<1>2. b.toolsFrom \subseteq {attempt}  BY ReadyTools
<1>3. st.buffer \in Seq(MappedEvents)  BY <1>1 DEF IsState
<1>4. v = b  BY <1>3, AfterPrefix
<1>. HIDE DEF b
<1>. QED  BY <1>1, <1>2, <1>4

LEMMA FinishKeeps ==
    ASSUME SentInv, settings' = settings, NEW choiceOk \in BOOLEAN, ReadFinish(choiceOk) PROVE SentInv'
<1>1. /\ phase = "reading" /\ Ends /\ used' = used /\ attempt' = attempt /\ automatic' = automatic
      /\ acc' = Delivered(acc, Prefix(FALSE) \o st.buffer) /\ phase' \in {"finished", "failed"}
      /\ st' = [send_tracked(st, st.buffer) EXCEPT !.buffer = <<>>]
  BY DEF ReadFinish, Ends, Reading, NoRetryStep, flush_buffer
<1>2. ~acc'.rejected /\ acc'.toolsFrom \subseteq {attempt} /\ Mirrors(st, acc', used)
  BY <1>1, Flushed
<1>3. CASE phase' = "failed"
  BY <1>1, <1>2, <1>3, StopKeeps DEF Ends
<1>4. CASE phase' = "finished"
  <2>1. IsStateRecord(st)  BY <1>1, Ready DEF IsState
  <2>2. /\ st'.ids = st.ids /\ st'.index = st.index /\ st'.content = st.content
        /\ st'.queued = st.queued /\ st'.clientOutputs = st.clientOutputs /\ st'.denied = st.denied
    <3>. DEFINE o == OpenAfter(st.open, st.buffer)
    <3>1. st' = [[st EXCEPT !.open = o] EXCEPT !.buffer = <<>>]  BY <1>1 DEF send_tracked
    <3>. HIDE DEF o
    <3>2. st' = [ids |-> st.ids, open |-> o, content |-> st.content, index |-> st.index,
                 calls |-> st.calls, queued |-> st.queued, resultIds |-> st.resultIds,
                 clientOutputs |-> st.clientOutputs, denied |-> st.denied, output |-> st.output,
                 buffer |-> <<>>]
      BY <2>1, <3>1 DEF IsStateRecord
    <3>. QED  BY <3>2
  <2>3. Mirrors(st', acc', used')
    <3>1. Mirrors(st, acc', used) /\ used \subseteq used  BY <1>2
    <3>2. Mirrors(st', acc', used)  BY <2>2, <3>1, MirrorsSame
    <3>. QED  BY <1>1, <3>2
  <2>4. pendingBoundary' \in BOOLEAN /\ startedStep' \in BOOLEAN  BY <1>1 DEF Ends
  <2>. QED  BY <1>1, <1>2, <1>4, <2>3, <2>4 DEF SentInv
<1>. QED  BY <1>1, <1>3, <1>4

LEMMA BoundaryOnly ==
    ASSUME SentInv, phase = "reading"
    PROVE  /\ Prefix(TRUE) = IF pendingBoundary THEN Prefix(FALSE) ELSE <<>>
           /\ Prefix(TRUE) = IF pendingBoundary THEN <<Event("retry-attempt", "step", NoRef)>> ELSE <<>>
           /\ pendingBoundary => st.buffer = <<>>
<1>1. pendingBoundary \in BOOLEAN /\ (pendingBoundary => startedStep /\ st = AttemptState)
  BY DEF SentInv, ReadingInv
<1>2. AttemptState.buffer = <<>>  BY DEF AttemptState
<1>3. /\ Prefix(TRUE) = IF pendingBoundary THEN <<Event("retry-attempt", "step", NoRef)>> ELSE <<>>
      /\ pendingBoundary => Prefix(FALSE) = <<Event("retry-attempt", "step", NoRef)>>
  <2>. DEFINE b == Event("retry-attempt", "step", NoRef)
  <2>1. <<>> \o <<>> = <<>>  OBVIOUS
  <2>2. <<b>> \o <<>> = <<b>>  BY ConcatNone
  <2>. HIDE DEF b
  <2>3. Prefix(TRUE) = (IF pendingBoundary THEN <<b>> ELSE <<>>) \o <<>>  BY DEF Prefix, b
  <2>4. pendingBoundary => Prefix(FALSE) = (IF pendingBoundary THEN <<b>> ELSE <<>>) \o <<>>
    BY <1>1 DEF Prefix, b
  <2>5. CASE pendingBoundary  BY <2>2, <2>3, <2>4, <2>5 DEF b
  <2>6. CASE ~pendingBoundary  BY <2>1, <2>3, <2>6
  <2>. QED  BY <1>1, <2>5, <2>6
<1>. QED  BY <1>1, <1>2, <1>3

LEMMA StreamStartKeeps ==
    ASSUME SentInv, settings' = settings, ReadStreamStart PROVE SentInv'
<1>1. /\ phase = "reading" /\ acc' = Delivered(acc, Prefix(TRUE)) /\ pendingBoundary' = FALSE
      /\ phase' = phase /\ st' = st /\ used' = used /\ startedStep' = startedStep
      /\ attempt' = attempt /\ automatic' = automatic
  BY DEF ReadStreamStart, Reading, NoRetryStep
<1>2. retries_possible' = retries_possible  BY RetriesUnchanged
<1>3. ReadingInv  BY <1>1 DEF SentInv
<1>4. CASE pendingBoundary
  <2>1. acc' = Delivered(acc, Prefix(FALSE))  BY <1>1, <1>4, BoundaryOnly
  <2>2. Consistent(st, acc', used, attempt, retries_possible) /\ acc'.current
    BY <1>1, <2>1, PrefixConsistent
  <2>3. ~acc'.rejected /\ acc'.toolsFrom \subseteq {attempt}  BY <2>2 DEF Consistent, ToolsOf
  <2>4. ReadingInv'
    BY <1>1, <1>2, <1>3, <1>4, <2>2 DEF ReadingInv, SentInv
  <2>. QED  BY <1>1, <2>3, <2>4 DEF SentInv
<1>5. CASE ~pendingBoundary
  <2>1. Prefix(TRUE) = <<>>  BY <1>1, <1>5, BoundaryOnly
  <2>2. acc' = acc  BY <1>1, <2>1, DeliveredNone
  <2>3. ReadingInv'  BY <1>1, <1>2, <1>3, <1>5, <2>2 DEF ReadingInv
  <2>. QED  BY <1>1, <2>2, <2>3 DEF SentInv
<1>. QED  BY <1>4, <1>5

LEMMA EofKeeps ==
    ASSUME SentInv, settings' = settings, ReadEof PROVE SentInv'
<1>. DEFINE boundary == IF pendingBoundary THEN <<Event("retry-attempt", "step", NoRef)>> ELSE <<>>
<1>1. /\ phase = "reading" /\ acc' = Delivered(acc, boundary \o st.buffer) /\ pendingBoundary' = FALSE
      /\ phase' = "failed" /\ used' = used /\ startedStep' = startedStep
      /\ attempt' = attempt /\ automatic' = automatic
  BY DEF ReadEof, Reading, NoRetryStep
<1>2. boundary = Prefix(TRUE)  BY <1>1, BoundaryOnly
<1>. HIDE DEF boundary
<1>3. startedStep \in BOOLEAN  BY DEF SentInv
<1>4. ~acc'.rejected /\ acc'.toolsFrom \subseteq {attempt}
  <2>1. CASE pendingBoundary
    <3>1. boundary = Prefix(FALSE)  BY <1>1, <1>2, <2>1, BoundaryOnly
    <3>2. acc' = Delivered(acc, Prefix(FALSE) \o st.buffer)  BY <1>1, <3>1
    <3>. QED  BY <1>1, <3>2, Flushed
  <2>2. CASE ~pendingBoundary
    <3>1. Consistent(st, acc, used, attempt, retries_possible)  BY <1>1, <2>2 DEF SentInv, ReadingInv
    <3>2. /\ IsAcc(acc) /\ acc.toolsFrom \subseteq {attempt} /\ st.buffer \in Seq(MappedEvents)
          /\ \A i \in 1..Len(st.buffer) : st.buffer[i].att \in {attempt}
          /\ ~Delivered(acc, st.buffer).rejected
      BY <3>1 DEF Consistent, ToolsOf, IsState
    <3>3. boundary = <<>>  BY <1>1, <1>2, <2>2, BoundaryOnly
    <3>4. <<>> \o st.buffer = st.buffer  BY <3>2
    <3>5. acc' = Delivered(acc, st.buffer)  BY <1>1, <3>3, <3>4
    <3>6. Delivered(acc, st.buffer).toolsFrom \subseteq acc.toolsFrom \cup {attempt}
      BY <3>2, DeliveredMapped
    <3>. QED  BY <3>2, <3>5, <3>6
  <2>. QED  BY <2>1, <2>2
<1>. QED  BY <1>1, <1>3, <1>4, StopKeeps

LEMMA RetryIsConfigured ==
    ASSUME SentInv, NEW decision, automatic_retry \/ callback_retry(decision)
    PROVE  retries_possible
<1>1. ASSUME automatic_retry PROVE retries_possible
  <2>1. PICK max \in StreamRetries : automatic < max  BY <1>1 DEF automatic_retry
  <2>2. max \in Nat /\ automatic \in Nat  BY <2>1, StreamAttemptAssumption DEF SentInv
  <2>. QED  BY <2>1, <2>2 DEF retries_possible
<1>2. ASSUME callback_retry(decision) PROVE retries_possible
  BY <1>2 DEF callback_retry, retries_possible
<1>. QED  BY <1>1, <1>2

(* The parts an abandoned attempt left open are ended.                     *)
LEMMA PartsClosed ==
    ASSUME NEW a, IsAcc(a), ~a.rejected, a.current, NEW s, s.open \in Opens, OpenMatches(s.open, a),
           attempt \in Nat, NEW b, b = Delivered(a, close_open_parts(s))
    PROVE  /\ IsAcc(b) /\ ~b.rejected /\ b.current /\ b.toolsFrom = a.toolsFrom
           /\ \A k \in Kinds : DOMAIN b.open[k] = {}
           /\ close_open_parts(s) \in Seq(PartEvents)
<1>. DEFINE refs(k) == s.open[k]
            ends(k) == [i \in DOMAIN s.open[k] |-> Event("part-end", k, s.open[k][i])]
<1>1. ASSUME NEW k \in Kinds
      PROVE  /\ refs(k) \in Seq(Refs) /\ Distinct(refs(k)) /\ RangeOf(refs(k)) = DOMAIN a.open[k]
             /\ ends(k) \in Seq(PartEvents) /\ Len(ends(k)) = Len(refs(k))
             /\ \A i \in 1..Len(refs(k)) : /\ ends(k)[i].type = "part-end" /\ ends(k)[i].kind = k
                                           /\ ends(k)[i].ref = refs(k)[i]
  <2>1. refs(k) \in Seq(Refs) /\ Distinct(refs(k)) /\ RangeOf(refs(k)) = DOMAIN a.open[k]
    BY DEF Opens, OpenMatches
  <2>2. DOMAIN s.open[k] = 1..Len(s.open[k]) /\ Len(s.open[k]) \in Nat  BY <2>1
  <2>3. ASSUME NEW i \in 1..Len(s.open[k])
        PROVE  LET e == Event("part-end", k, s.open[k][i]) IN
               e \in PartEvents /\ e.type = "part-end" /\ e.kind = k /\ e.ref = s.open[k][i]
    <3>1. s.open[k][i] \in Refs /\ "part-end" \in PartTypes  BY <2>1, <2>2 DEF PartTypes
    <3>. QED  BY <3>1, PartEvent
  <2>4. \A i \in 1..Len(refs(k)) : ends(k)[i] = Event("part-end", k, s.open[k][i])  BY <2>2
  <2>5. ends(k) \in Seq(PartEvents) /\ Len(ends(k)) = Len(refs(k))  BY <2>2, <2>3
  <2>. QED  BY <2>1, <2>3, <2>4, <2>5
<1>2. "text" \in Kinds /\ "reasoning" \in Kinds /\ \A k \in Kinds : k = "text" \/ k = "reasoning"
  BY DEF Kinds
<1>3. close_open_parts(s) = ends("text") \o ends("reasoning")  BY DEF close_open_parts
<1>. HIDE DEF refs, ends
<1>. DEFINE c == Delivered(a, ends("text"))
            d == Delivered(c, ends("reasoning"))
<1>4. /\ IsAcc(c) /\ ~c.rejected /\ c.current /\ c.toolsFrom = a.toolsFrom
      /\ DOMAIN c.open["text"] = DOMAIN a.open["text"] \ RangeOf(refs("text"))
      /\ \A j \in Kinds : j # "text" => c.open[j] = a.open[j]
  BY <1>1, <1>2, DeliveredEnds
<1>. HIDE DEF c
<1>5. RangeOf(refs("reasoning")) = DOMAIN c.open["reasoning"]  BY <1>1, <1>2, <1>4
<1>6. /\ IsAcc(d) /\ ~d.rejected /\ d.current /\ d.toolsFrom = c.toolsFrom
      /\ DOMAIN d.open["reasoning"] = DOMAIN c.open["reasoning"] \ RangeOf(refs("reasoning"))
      /\ \A j \in Kinds : j # "reasoning" => d.open[j] = c.open[j]
  <2>. DEFINE k == "reasoning"
              rs == refs(k)
              es == ends(k)
  <2>1. /\ k \in Kinds /\ rs \in Seq(Refs) /\ Distinct(rs) /\ RangeOf(rs) \subseteq DOMAIN c.open[k]
        /\ es \in Seq(PartEvents) /\ Len(es) = Len(rs)
    BY <1>1, <1>2, <1>5
  <2>2. \A i \in 1..Len(rs) : es[i].type = "part-end" /\ es[i].kind = k /\ es[i].ref = rs[i]
    BY <1>1, <1>2
  <2>3. d = Delivered(c, es)  OBVIOUS
  <2>. HIDE DEF k, rs, es, d
  <2>4. /\ IsAcc(d) /\ ~d.rejected /\ d.current /\ d.toolsFrom = c.toolsFrom
        /\ DOMAIN d.open[k] = DOMAIN c.open[k] \ RangeOf(rs)
        /\ \A j \in Kinds : j # k => d.open[j] = c.open[j]
    BY <1>4, <2>1, <2>2, <2>3, DeliveredEnds
  <2>. QED  BY <2>4 DEF k, rs
<1>7. b = d  BY <1>1, <1>2, <1>3, AfterConcat DEF c
<1>8. close_open_parts(s) \in Seq(PartEvents)  BY <1>1, <1>2, <1>3
<1>. HIDE DEF d
<1>9. \A k \in Kinds : DOMAIN b.open[k] = {}
  <2>1. DOMAIN d.open["reasoning"] = {}  BY <1>5, <1>6
  <2>2. DOMAIN d.open["text"] = {}
    <3>1. d.open["text"] = c.open["text"]  BY <1>6 DEF Kinds
    <3>2. DOMAIN c.open["text"] = {}  BY <1>1, <1>2, <1>4
    <3>. QED  BY <3>1, <3>2
  <2>. QED  BY <1>7, <2>1, <2>2 DEF Kinds
<1>. QED  BY <1>4, <1>6, <1>7, <1>8, <1>9

LEMMA ErrorKeeps ==
    ASSUME SentInv, settings' = settings, NEW decision \in {"continue", "retry"}, ReadError(decision)
    PROVE  SentInv'
<1>1. phase = "reading" /\ Ends /\ used' = used  BY DEF ReadError, Ends, Reading
<1>2. CASE automatic_retry \/ callback_retry(decision)
  <2>. DEFINE a == Delivered(acc, Prefix(FALSE))
              b == Delivered(a, close_open_parts(st))
  <2>1. /\ phase' = "retrying" /\ attempt' = attempt + 1
        /\ acc' = Delivered(acc, Prefix(FALSE) \o close_open_parts(st))
        /\ automatic' \in {automatic, automatic + 1}
    BY <1>2 DEF ReadError
  <2>2. Consistent(st, a, used, attempt, retries_possible) /\ a.current  BY <1>1, PrefixConsistent
  <2>3. retries_possible  BY <1>2, RetryIsConfigured
  <2>. HIDE DEF a
  <2>4. /\ IsAcc(a) /\ ~a.rejected /\ st.open \in Opens /\ OpenMatches(st.open, a) /\ a.toolsFrom = {}
    BY <2>2, <2>3 DEF Consistent, OpenParts, ToolsOf
  <2>5. attempt \in Nat /\ automatic \in Nat  BY DEF SentInv
  <2>6. /\ IsAcc(b) /\ ~b.rejected /\ b.current /\ b.toolsFrom = a.toolsFrom
        /\ \A k \in Kinds : DOMAIN b.open[k] = {}
        /\ close_open_parts(st) \in Seq(PartEvents)
    BY <2>2, <2>4, <2>5, PartsClosed
  <2>7. acc' = b  BY <2>1, <2>6, AfterPrefix DEF a
  <2>. HIDE DEF b
  <2>8. RetryingInv'  BY <1>1, <2>4, <2>6, <2>7 DEF RetryingInv, Ends
  <2>9. attempt' \in Nat /\ automatic' \in Nat  BY <2>1, <2>5
  <2>10. ~acc'.rejected /\ acc'.toolsFrom \subseteq {attempt'}  BY <2>4, <2>6, <2>7
  <2>. QED  BY <1>1, <2>1, <2>8, <2>9, <2>10 DEF SentInv, Ends
<1>3. CASE ~(automatic_retry \/ callback_retry(decision))
  <2>1. /\ phase' = "failed" /\ acc' = Delivered(acc, Prefix(FALSE) \o st.buffer)
        /\ attempt' = attempt /\ automatic' = automatic
    BY <1>3 DEF ReadError, NoRetryStep
  <2>2. ~acc'.rejected /\ acc'.toolsFrom \subseteq {attempt}  BY <1>1, <2>1, Flushed
  <2>. QED  BY <1>1, <2>1, <2>2, StopKeeps DEF Ends
<1>. QED  BY <1>2, <1>3

LEMMA CallModelKeeps ==
    ASSUME SentInv, settings' = settings, CallModelOk PROVE SentInv'
<1>1. /\ phase = "retrying" /\ phase' = "reading" /\ st' = AttemptState /\ pendingBoundary' = TRUE
      /\ acc' = acc /\ used' = used /\ startedStep' = startedStep
      /\ attempt' = attempt /\ automatic' = automatic
  BY DEF CallModelOk, NoRetryStep
<1>2. RetryingInv  BY <1>1 DEF SentInv
<1>3. ReadingInv'  BY <1>1, <1>2 DEF ReadingInv, RetryingInv
<1>. QED  BY <1>1, <1>3 DEF SentInv

LEMMA CancelKeeps ==
    ASSUME SentInv, settings' = settings, Cancel \/ TimePasses PROVE SentInv'
<1>1. /\ phase' = phase /\ phase \in {"reading", "retrying"} /\ st' = st /\ acc' = acc /\ used' = used
      /\ pendingBoundary' = pendingBoundary /\ startedStep' = startedStep
      /\ attempt' = attempt /\ automatic' = automatic
  BY DEF Cancel, TimePasses, Reading, NoRetryStep
<1>2. retries_possible' = retries_possible  BY RetriesUnchanged
<1>3. phase = "reading" => ReadingInv'  BY <1>1, <1>2 DEF ReadingInv, SentInv
<1>4. phase = "retrying" => RetryingInv'  BY <1>1 DEF RetryingInv, SentInv
<1>. QED  BY <1>1, <1>3, <1>4 DEF SentInv

LEMMA LeaveKeeps ==
    ASSUME SentInv, settings' = settings,
           ReadCancelled \/ DeadlinePasses \/ CallModelFails \/ ReportFailure
    PROVE  SentInv'
<1>1. /\ phase' \in {"failed", "reported"} /\ acc' = acc /\ used' = used
      /\ attempt' = attempt /\ automatic' = automatic
      /\ pendingBoundary' = pendingBoundary /\ startedStep' = startedStep
  BY DEF ReadCancelled, DeadlinePasses, CallModelFails, ReportFailure, Fail, NoRetryStep
<1>. QED  BY <1>1 DEF SentInv

LEMMA SentInit == ASSUME Init PROVE SentInv
<1>1. /\ settings \in Settings /\ phase = "reading" /\ st = AttemptState /\ acc = StepAccumulator
      /\ used = {} /\ attempt = 0 /\ automatic = 0 /\ pendingBoundary = FALSE /\ startedStep = FALSE
  BY DEF Init
<1>2. retries_possible \in BOOLEAN  BY DEF retries_possible
<1>3. Consistent(st, acc, used, attempt, retries_possible)
  BY <1>1, <1>2, StepAccumulatorIsAcc, FreshConsistent
<1>4. ReadingInv  BY <1>1, <1>3, StepAccumulatorIsAcc DEF ReadingInv
<1>5. IsFiniteSet(used) /\ used \subseteq Seq(Nat)  BY <1>1, FS_EmptySet
<1>6. ~acc.rejected /\ acc.toolsFrom \subseteq {attempt}  BY <1>1, StepAccumulatorIsAcc
<1>. QED  BY <1>1, <1>4, <1>5, <1>6 DEF SentInv

LEMMA SentStutter == ASSUME SentInv, UNCHANGED allVars PROVE SentInv'
<1>1. /\ settings' = settings /\ phase' = phase /\ st' = st /\ acc' = acc /\ used' = used
      /\ pendingBoundary' = pendingBoundary /\ startedStep' = startedStep
      /\ attempt' = attempt /\ automatic' = automatic
  BY DEF allVars, vars
<1>2. retries_possible' = retries_possible  BY <1>1, RetriesUnchanged
<1>. QED  BY <1>1, <1>2 DEF SentInv, ReadingInv, RetryingInv

LEMMA SentStep == ASSUME SentInv, Next PROVE SentInv'
<1>1. settings' = settings  BY DEF Next
<1>2. CASE ReadStreamStart  BY <1>1, <1>2, StreamStartKeeps
<1>3. CASE ReadMetadata  BY <1>1, <1>3, MetadataKeeps
<1>4. ASSUME NEW k \in ProviderKinds, NEW id \in ProviderIds,
             \/ ReadPartStart(k, id) \/ ReadPartEnd(k, id)
             \/ \E delta \in Deltas : ReadPartDelta(k, id, delta)
      PROVE SentInv'
  <2>1. k \in Kinds  BY StreamAttemptAssumption DEF SentInv, ProviderKinds
  <2>. QED  BY <1>1, <1>4, <2>1, PartStartKeeps, PartDeltaKeeps, PartEndKeeps
<1>5. ASSUME NEW isFile \in BOOLEAN, ReadContent(isFile) PROVE SentInv'  BY <1>1, <1>5, ContentKeeps
<1>6. ASSUME NEW type \in {"tool-input-start", "tool-input-delta", "tool-input-end"}, NEW c \in Calls,
             NEW full \in BOOLEAN, ReadToolInput(type, c, full)
      PROVE SentInv'
  BY <1>1, <1>6, ToolInputKeeps
<1>7. ASSUME NEW c \in Calls, NEW o \in ToolCallOutcomes, ReadToolCall(c, o) PROVE SentInv'
  BY <1>1, <1>7, ToolCallKeeps
<1>8. ASSUME NEW c \in Calls, ReadProviderApproval(c) PROVE SentInv'
  BY <1>1, <1>8, ProviderApprovalKeeps
<1>16. CASE ReadToolInputFails \/ ReadToolCallFails  BY <1>1, <1>16, ToolFailsKeeps
<1>9. ASSUME NEW c \in Calls, NEW type \in {"tool-result", "tool-preliminary", "tool-error"},
             ReadToolResult(c, type)
      PROVE SentInv'
  BY <1>1, <1>9, ToolResultKeeps
<1>10. ASSUME NEW choiceOk \in BOOLEAN, ReadFinish(choiceOk) PROVE SentInv'  BY <1>1, <1>10, FinishKeeps
<1>11. CASE ReadEof  BY <1>1, <1>11, EofKeeps
<1>12. ASSUME NEW decision \in {"continue", "retry"}, ReadError(decision) PROVE SentInv'
  BY <1>1, <1>12, ErrorKeeps
<1>13. CASE ReadCancelled \/ DeadlinePasses \/ CallModelFails \/ ReportFailure
  BY <1>1, <1>13, LeaveKeeps
<1>14. CASE CallModelOk  BY <1>1, <1>14, CallModelKeeps
<1>15. CASE Cancel \/ TimePasses  BY <1>1, <1>15, CancelKeeps
<1>. QED  BY <1>2, <1>3, <1>4, <1>5, <1>6, <1>7, <1>8, <1>9, <1>10, <1>11, <1>12, <1>13, <1>14, <1>15, <1>16
          DEF Next, Step

(* What the reader keeps and what the processor builds agree at every step *)
(* of every call of the model (Attempt::read with emit, flush_buffer,      *)
(* close_open_parts and the part mapping; Processor::handle).              *)
THEOREM ProcessorMirrors == Spec => []SentInv
<1>1. SentInv /\ [Next]_allVars => SentInv'  BY SentStep, SentStutter
<1>. QED  BY <1>1, SentInit, PTL DEF Spec

(* Whatever the model streams, retries and reused provider ids included,   *)
(* the processor never rejects an event the reader sends (update_part and  *)
(* current_step of processor.rs).                                          *)
THEOREM EventsAccepted == Spec => []ProcessorAccepts
<1>1. SentInv => ProcessorAccepts  BY DEF SentInv, ProcessorAccepts
<1>. QED  BY <1>1, ProcessorMirrors, PTL

(* No tool part of an abandoned attempt reaches the consumer, and none of  *)
(* its parts is open while the model is called again (Attempt::emit and    *)
(* close_open_parts).                                                      *)
THEOREM NothingLeaks == Spec => []NothingLeftOfAbandonedAttempt
<1>1. SentInv => NothingLeftOfAbandonedAttempt
  BY DEF SentInv, RetryingInv, NothingLeftOfAbandonedAttempt
<1>. QED  BY <1>1, ProcessorMirrors, PTL

(* A finished step is what the attempt that ended it reports: the same     *)
(* content, the calls queued for execution among what the consumer saw,    *)
(* and the counters those of the delivered events (map_tool_call,          *)
(* LoopState::should_continue).                                            *)
THEOREM StepIsTheAttempts == Spec => []FinishedStepIsTheAttempts
<1>1. SentInv => FinishedStepIsTheAttempts
  <2>. SUFFICES ASSUME SentInv, phase = "finished" PROVE FinishedStepIsTheAttempts
    BY DEF FinishedStepIsTheAttempts
  <2>1. Mirrors(st, acc, used)  BY DEF SentInv
  <2>. QED  BY <2>1 DEF Mirrors, ClientItems, FinishedStepIsTheAttempts
<1>. QED  BY <1>1, ProcessorMirrors, PTL

-----------------------------------------------------------------------------
(* The on_error callback.  While the step is alive nothing is marked as    *)
(* handled and every error told belongs to an earlier attempt; the error   *)
(* of a failed step is either marked and told, or neither.                 *)

Causes == {"stream", "invalid_part", "tool", "approval_without_call", "tool_choice",
           "truncated", "cancelled", "timeout", "call"}
Errors == Causes \X Nat

FailedTold ==
    /\ error \in Errors
    /\ error \in marked => (HasOnError => \E i \in DOMAIN told : told[i] = error)
    /\ error \notin marked => \A i \in DOMAIN told : told[i] # error

CallInv ==
    /\ attempt \in Nat /\ told \in Seq(Errors) /\ Distinct(told)
    /\ phase \in {"reading", "retrying"} =>
          marked = {} /\ \A i \in DOMAIN told : told[i][2] < attempt
    /\ phase = "failed" => FailedTold
    /\ phase = "reported" /\ HasOnError /\ error[1] # "cancelled" =>
          \E i \in DOMAIN told : told[i] = error

(* The steps that tell nobody.                                             *)
Quietly ==
    /\ phase \in {"reading", "retrying"} /\ phase' \in {"reading", "retrying", "finished"}
    /\ attempt' = attempt /\ told' = told /\ marked' = marked

Failing(e) ==
    /\ phase \in {"reading", "retrying"} /\ phase' = "failed" /\ error' = e
    /\ attempt' = attempt /\ told' = told /\ marked' = marked

LEMMA QuietKeeps == ASSUME CallInv, Quietly PROVE CallInv'
BY DEF CallInv, Quietly

LEMMA CauseIsError ==
    ASSUME NEW n, n \in Nat
    PROVE  \A w \in Causes : <<w, n>> \in Errors /\ <<w, n>>[1] = w /\ <<w, n>>[2] = n
BY DEF Errors

LEMMA FailingKeeps ==
    ASSUME CallInv, settings' = settings, NEW e, e \in Errors, e[2] = attempt, Failing(e)
    PROVE  CallInv'
<1>1. /\ attempt \in Nat /\ told \in Seq(Errors) /\ marked = {}
      /\ \A i \in DOMAIN told : told[i][2] < attempt
      /\ error' = e /\ phase' = "failed" /\ told' = told /\ marked' = marked
      /\ attempt' = attempt /\ Distinct(told)
  BY DEF CallInv, Failing
<1>2. error' \in Errors /\ error'[2] = attempt  BY <1>1 DEF Errors
<1>3. \A i \in DOMAIN told : told[i] # error'
  <2>. SUFFICES ASSUME NEW i \in DOMAIN told, told[i] = error' PROVE FALSE  OBVIOUS
  <2>1. told[i][2] < attempt /\ told[i][2] = attempt  BY <1>1, <1>2
  <2>. QED  BY <1>1, <2>1
<1>4. FailedTold'  BY <1>1, <1>2, <1>3 DEF FailedTold
<1>. QED  BY <1>1, <1>4 DEF CallInv

LEMMA TellOnce ==
    ASSUME NEW s \in Seq(Errors), Distinct(s), NEW e \in Errors, \A i \in DOMAIN s : s[i] # e
    PROVE  LET t == Append(s, e) IN
           /\ t \in Seq(Errors) /\ Distinct(t) /\ \E i \in DOMAIN t : t[i] = e
           /\ \A i \in DOMAIN t : t[i] = e \/ \E j \in DOMAIN s : t[i] = s[j]
<1>. DEFINE t == Append(s, e)
<1>1. /\ t \in Seq(Errors) /\ Len(s) \in Nat /\ DOMAIN s = 1..Len(s) /\ DOMAIN t = 1..(Len(s) + 1)
      /\ t[Len(s) + 1] = e /\ \A i \in 1..Len(s) : t[i] = s[i]
  OBVIOUS
<1>. HIDE DEF t
<1>2. Distinct(t)
  <2>. SUFFICES ASSUME NEW i \in DOMAIN t, NEW j \in DOMAIN t, i # j PROVE t[i] # t[j]
    BY DEF Distinct
  <2>1. CASE i \in 1..Len(s) /\ j \in 1..Len(s)  BY <1>1, <2>1 DEF Distinct
  <2>2. CASE i = Len(s) + 1
    <3>1. j \in 1..Len(s)  BY <1>1, <2>2
    <3>. QED  BY <1>1, <2>2, <3>1
  <2>3. CASE j = Len(s) + 1
    <3>1. i \in 1..Len(s)  BY <1>1, <2>3
    <3>. QED  BY <1>1, <2>3, <3>1
  <2>. QED  BY <1>1, <2>1, <2>2, <2>3
<1>3. \E i \in DOMAIN t : t[i] = e  BY <1>1
<1>4. ASSUME NEW i \in DOMAIN t PROVE t[i] = e \/ \E j \in DOMAIN s : t[i] = s[j]
  <2>1. CASE i \in 1..Len(s)  BY <1>1, <2>1
  <2>2. CASE i = Len(s) + 1  BY <1>1, <2>2
  <2>. QED  BY <1>1, <2>1, <2>2
<1>. QED  BY <1>1, <1>2, <1>3, <1>4 DEF t

LEMMA ErrorTold ==
    ASSUME CallInv, settings' = settings, NEW decision, ReadError(decision) PROVE CallInv'
<1>. DEFINE e == <<"stream", attempt>>
<1>1. /\ phase = "reading" /\ told' = TellCallback(e)
      /\ \/ phase' = "retrying" /\ attempt' = attempt + 1 /\ marked' = marked
         \/ phase' = "failed" /\ error' = e /\ attempt' = attempt /\ marked' = marked \cup {e}
  BY DEF ReadError, Ends, Reading, mark_error_handled, NoRetryStep
<1>2. /\ attempt \in Nat /\ told \in Seq(Errors) /\ Distinct(told) /\ marked = {}
      /\ \A i \in DOMAIN told : told[i][2] < attempt
  BY <1>1 DEF CallInv
<1>3. e \in Errors /\ e[2] = attempt  BY <1>2, CauseIsError DEF Causes
<1>. HIDE DEF e
<1>4. \A i \in DOMAIN told : told[i] # e
  <2>. SUFFICES ASSUME NEW i \in DOMAIN told, told[i] = e PROVE FALSE  OBVIOUS
  <2>1. told[i][2] < attempt /\ told[i][2] = attempt  BY <1>2, <1>3
  <2>. QED  BY <1>2, <2>1
<1>5. /\ told' \in Seq(Errors) /\ Distinct(told') /\ (HasOnError => \E i \in DOMAIN told' : told'[i] = e)
      /\ \A i \in DOMAIN told' : told'[i] = e \/ \E j \in DOMAIN told : told'[i] = told[j]
  <2>1. CASE HasOnError
    <3>1. told' = Append(told, e)  BY <1>1, <2>1 DEF TellCallback
    <3>. QED  BY <1>2, <1>3, <1>4, <3>1, TellOnce
  <2>2. CASE ~HasOnError
    <3>1. told' = told  BY <1>1, <2>2 DEF TellCallback
    <3>. QED  BY <1>2, <2>2, <3>1
  <2>. QED  BY <2>1, <2>2
<1>6. \A i \in DOMAIN told' : told'[i][2] < attempt + 1
  <2>. TAKE i \in DOMAIN told'
  <2>1. CASE told'[i] = e  BY <1>2, <1>3, <2>1
  <2>2. ASSUME NEW j \in DOMAIN told, told'[i] = told[j] PROVE told'[i][2] < attempt + 1
    <3>1. told[j] \in Errors /\ told[j][2] < attempt  BY <1>2
    <3>2. told[j][2] \in Nat  BY <3>1 DEF Errors
    <3>. QED  BY <1>2, <2>2, <3>1, <3>2
  <2>. QED  BY <1>5, <2>1, <2>2
<1>7. HasOnError' = HasOnError  BY DEF HasOnError
<1>8. CASE phase' = "retrying" /\ attempt' = attempt + 1 /\ marked' = marked
  BY <1>2, <1>5, <1>6, <1>8 DEF CallInv
<1>9. CASE phase' = "failed" /\ error' = e /\ attempt' = attempt /\ marked' = marked \cup {e}
  <2>1. FailedTold'  BY <1>3, <1>5, <1>7, <1>9 DEF FailedTold
  <2>. QED  BY <1>2, <1>5, <1>9, <2>1 DEF CallInv
<1>. QED  BY <1>1, <1>8, <1>9

LEMMA ReportTold ==
    ASSUME CallInv, settings' = settings, ReportFailure PROVE CallInv'
<1>1. /\ phase = "failed" /\ phase' = "reported" /\ attempt' = attempt /\ error' = error
  BY DEF ReportFailure
<1>2. attempt \in Nat /\ told \in Seq(Errors) /\ Distinct(told) /\ FailedTold  BY <1>1 DEF CallInv
<1>3. HasOnError' = HasOnError  BY DEF HasOnError
<1>4. CASE error[1] = "cancelled"
  <2>1. told' = told  BY <1>4 DEF ReportFailure
  <2>. QED  BY <1>1, <1>2, <1>4, <2>1 DEF CallInv
<1>5. CASE error[1] # "cancelled"
  <2>1. told' = IF error \in marked THEN told ELSE TellCallback(error)  BY <1>5 DEF ReportFailure
  <2>2. /\ told' \in Seq(Errors) /\ Distinct(told')
        /\ HasOnError => \E i \in DOMAIN told' : told'[i] = error
    <3>1. CASE error \in marked  BY <1>2, <2>1, <3>1 DEF FailedTold
    <3>2. CASE error \notin marked /\ HasOnError
      <4>1. told' = Append(told, error)  BY <2>1, <3>2 DEF TellCallback
      <4>2. error \in Errors /\ \A i \in DOMAIN told : told[i] # error  BY <1>2, <3>2 DEF FailedTold
      <4>. QED  BY <1>2, <4>1, <4>2, TellOnce
    <3>3. CASE error \notin marked /\ ~HasOnError
      <4>1. told' = told  BY <2>1, <3>3 DEF TellCallback
      <4>. QED  BY <1>2, <3>3, <4>1
    <3>. QED  BY <3>1, <3>2, <3>3
  <2>. QED  BY <1>1, <1>2, <1>3, <2>2 DEF CallInv
<1>. QED  BY <1>4, <1>5

LEMMA CallStep == ASSUME CallInv, Next PROVE CallInv'
<1>. USE DEF Arrive, Ends, Reading, NoRetryStep, NoErrorStep
<1>1. settings' = settings  BY DEF Next
<1>2. CASE ReadStreamStart \/ ReadMetadata
  <2>1. Quietly  BY <1>2 DEF Quietly, ReadStreamStart, ReadMetadata, Mapped
  <2>. QED  BY <2>1, QuietKeeps
<1>20. ASSUME NEW w \in Causes, Failing(<<w, attempt>>) PROVE CallInv'
  <2>1. attempt \in Nat  BY DEF CallInv
  <2>2. <<w, attempt>> \in Errors /\ <<w, attempt>>[2] = attempt  BY <2>1, CauseIsError
  <2>. QED  BY <1>1, <1>20, <2>2, FailingKeeps
<1>3. ASSUME NEW w \in Causes, phase = "reading", Fail(w) PROVE CallInv'
  <2>1. Failing(<<w, attempt>>)  BY <1>3 DEF Failing, Fail
  <2>. QED  BY <1>20, <2>1
<1>4. ASSUME NEW k, NEW id,
             \/ ReadPartStart(k, id) \/ ReadPartEnd(k, id)
             \/ \E delta \in Deltas : ReadPartDelta(k, id, delta)
      PROVE CallInv'
  <2>1. Quietly \/ (phase = "reading" /\ Fail("invalid_part"))
    BY <1>4 DEF Quietly, ReadPartStart, ReadPartDelta, ReadPartEnd, Mapped, InvalidPart
  <2>. QED  BY <1>3, <2>1, QuietKeeps DEF Causes
<1>5. ASSUME NEW isFile \in BOOLEAN, ReadContent(isFile) PROVE CallInv'
  <2>1. Quietly  BY <1>5 DEF Quietly, ReadContent, Mapped
  <2>. QED  BY <2>1, QuietKeeps
<1>6. ASSUME NEW type, NEW c, NEW full, ReadToolInput(type, c, full) PROVE CallInv'
  <2>1. Quietly  BY <1>6 DEF Quietly, ReadToolInput, Mapped
  <2>. QED  BY <2>1, QuietKeeps
<1>7. ASSUME NEW c, NEW o, ReadToolCall(c, o) PROVE CallInv'
  <2>1. Quietly  BY <1>7 DEF Quietly, ReadToolCall, Mapped
  <2>. QED  BY <2>1, QuietKeeps
<1>8. ASSUME NEW c, ReadProviderApproval(c) PROVE CallInv'
  <2>1. \/ Quietly
        \/ phase = "reading" /\ Fail("approval_without_call")
    BY <1>8 DEF Quietly, ReadProviderApproval, Mapped
  <2>. QED  BY <1>3, <2>1, QuietKeeps DEF Causes
<1>18. CASE ReadToolInputFails \/ ReadToolCallFails
  <2>1. phase = "reading" /\ Fail("tool")
    BY <1>18 DEF ReadToolInputFails, ReadToolCallFails
  <2>. QED  BY <1>3, <2>1 DEF Causes
<1>9. ASSUME NEW c, NEW type, ReadToolResult(c, type) PROVE CallInv'
  <2>1. Quietly  BY <1>9 DEF Quietly, ReadToolResult, Mapped
  <2>. QED  BY <2>1, QuietKeeps
<1>10. ASSUME NEW choiceOk \in BOOLEAN, ReadFinish(choiceOk) PROVE CallInv'
  <2>1. Quietly \/ Failing(<<"tool_choice", attempt>>)  BY <1>10 DEF Quietly, Failing, ReadFinish
  <2>. QED  BY <1>20, <2>1, QuietKeeps DEF Causes
<1>11. CASE ReadEof
  <2>1. Failing(<<"truncated", attempt>>)  BY <1>11 DEF Failing, ReadEof
  <2>. QED  BY <1>20, <2>1 DEF Causes
<1>12. ASSUME NEW decision, ReadError(decision) PROVE CallInv'  BY <1>1, <1>12, ErrorTold
<1>13. CASE ReadCancelled  BY <1>3, <1>13 DEF ReadCancelled, Causes
<1>14. CASE DeadlinePasses
  <2>1. Failing(<<"timeout", attempt>>)  BY <1>14 DEF Failing, DeadlinePasses
  <2>. QED  BY <1>20, <2>1 DEF Causes
<1>15. CASE CallModelFails
  <2>1. Failing(<<"cancelled", attempt>>) \/ Failing(<<"call", attempt>>)  BY <1>15 DEF Failing, CallModelFails, Fail
  <2>. QED  BY <1>20, <2>1 DEF Causes
<1>16. CASE CallModelOk \/ Cancel \/ TimePasses
  <2>1. Quietly  BY <1>16 DEF Quietly, CallModelOk, Cancel, TimePasses
  <2>. QED  BY <2>1, QuietKeeps
<1>17. CASE ReportFailure  BY <1>1, <1>17, ReportTold
<1>. HIDE DEF Arrive, Ends, Reading, NoRetryStep, NoErrorStep
<1>. QED  BY <1>2, <1>4, <1>5, <1>6, <1>7, <1>8, <1>9, <1>10, <1>11, <1>12, <1>13, <1>14, <1>15, <1>16, <1>17, <1>18
          DEF Next, Step

(* The on_error callback hears of the error that ended the step exactly    *)
(* once, from the reader or from the processor (mark_error_handled,        *)
(* take_error_handled).                                                    *)
THEOREM ToldOnce == Spec => []CallbackToldOnce
<1>1. Init => CallInv  BY DEF Init, CallInv, Distinct
<1>2. CallInv /\ [Next]_allVars => CallInv'
  <2>1. CallInv /\ UNCHANGED allVars => CallInv'
    BY DEF allVars, vars, CallInv, FailedTold, HasOnError
  <2>. QED  BY <2>1, CallStep
<1>3. CallInv => CallbackToldOnce  BY DEF CallInv, CallbackToldOnce, Distinct
<1>. QED  BY <1>1, <1>2, <1>3, PTL DEF Spec
=============================================================================

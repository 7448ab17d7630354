--------------------------- MODULE AgentLoopProofs ---------------------------
(***************************************************************************)
(* The collector's table beside the agent that reads it, for any entities, *)
(* states, command lines and times.                                        *)
(***************************************************************************)
EXTENDS AgentLoop, FiniteSetTheorems, SequenceTheorems, TLAPS

(* What DecisionProofs proves of the policy and of the rows; the variables  *)
(* and the inputs of its state machine play no part.                        *)
Decision == INSTANCE DecisionProofs WITH
  Inputs <- {}, Lately <- {}, Confidences <- {}, Probas <- {}, Float <- Float,
  in <- now, verdict <- now, origin <- now

-----------------------------------------------------------------------------
(* Events under way, as a sequence w beside the states h they lead to.      *)
Who(w, i) == w[i].entity
From(w, i) == w[i].old
To(w, i) == w[i].new
PendingOf(w, x) == {i \in DOMAIN w : Who(w, i) = x}
Least(S) == CHOOSE i \in S : \A j \in S : i <= j
DeliveredOf(w, h, x) == IF PendingOf(w, x) = {} THEN h[x] ELSE From(w, Least(PendingOf(w, x)))
Follows(w, i, j) ==
  /\ i < j /\ Who(w, i) = Who(w, j)
  /\ \A k \in i + 1 .. j - 1 : Who(w, k) # Who(w, i)
LastOf(w, i) == \A k \in i + 1 .. Len(w) : Who(w, k) # Who(w, i)
Chains(w, h) ==
  /\ \A i, j \in DOMAIN w : Follows(w, i, j) => From(w, j) = To(w, i)
  /\ \A i \in DOMAIN w : LastOf(w, i) => To(w, i) = h[Who(w, i)]

LEMMA WireIs ==
  ASSUME NEW S, NEW w \in Seq(S)
  PROVE  /\ Len(w) \in Nat /\ DOMAIN w = 1 .. Len(w) /\ \A i \in DOMAIN w : w[i] \in S
         /\ w = <<>> <=> Len(w) = 0
<1>1. Len(w) \in Nat /\ DOMAIN w = 1 .. Len(w)
  BY LenProperties
<1>2. \A i \in DOMAIN w : w[i] \in S
  BY <1>1, ElementOfSeq
<1> QED  BY <1>1, <1>2, EmptySeq

LEMMA TailIs ==
  ASSUME NEW S, NEW w \in Seq(S), w # <<>>
  PROVE  /\ Len(w) \in Nat /\ Len(w) >= 1 /\ DOMAIN w = 1 .. Len(w)
         /\ Head(w) = w[1] /\ Head(w) \in S
         /\ Tail(w) \in Seq(S) /\ DOMAIN Tail(w) = 1 .. Len(w) - 1
         /\ Len(Tail(w)) = Len(w) - 1
         /\ \A i \in 1 .. Len(w) - 1 : Tail(w)[i] = w[i + 1]
<1>1. Len(w) \in Nat /\ Len(w) >= 1 /\ DOMAIN w = 1 .. Len(w)
  BY WireIs
<1>2. /\ Head(w) \in S /\ Tail(w) \in Seq(S) /\ Len(Tail(w)) = Len(w) - 1
      /\ \A i \in 1 .. Len(w) - 1 : Tail(w)[i] = w[i + 1]
  BY HeadTailProperties
<1>3. DOMAIN Tail(w) = 1 .. Len(w) - 1
  BY <1>2, WireIs
<1>4. Head(w) = w[1]
  OBVIOUS
<1> QED  BY <1>1, <1>2, <1>3, <1>4

LEMMA LeastExists ==
  ASSUME NEW n \in Nat, NEW S \in SUBSET (1 .. n), S # {}
  PROVE  /\ Least(S) \in S /\ \A j \in S : Least(S) <= j
         /\ \A i \in S : (\A j \in S : i <= j) => i = Least(S)
         /\ \E i \in S : \A j \in S : j <= i
<1>1. IsFiniteSet(S) /\ \A a \in S : a \in Int
  <2>1. IsFiniteSet(1 .. n)
    BY FS_Interval
  <2>2. IsFiniteSet(S)
    BY <2>1, FS_Subset
  <2> QED  BY <2>2
<1>2. (\E i \in S : \A j \in S : j <= i) /\ (\E i \in S : \A j \in S : i <= j)
  BY <1>1, FloatAssumption, Decision!GreatestExists DEF IsFiniteSet, Decision!IsFiniteSet
<1>3. Least(S) \in S /\ \A j \in S : Least(S) <= j
  BY <1>2 DEF Least
<1>4. ASSUME NEW i \in S, \A j \in S : i <= j PROVE i = Least(S)
  <2>1. i <= Least(S) /\ Least(S) <= i
    BY <1>3, <1>4
  <2>2. i \in Int /\ Least(S) \in Int
    BY <1>1, <1>3
  <2> QED  BY <2>1, <2>2
<1> QED  BY <1>2, <1>3, <1>4

LEMMA DeliveredNone ==
  ASSUME NEW w, NEW h, NEW x, \A i \in DOMAIN w : Who(w, i) # x
  PROVE  DeliveredOf(w, h, x) = h[x]
<1>1. PendingOf(w, x) = {}
  BY DEF PendingOf
<1> QED  BY <1>1 DEF DeliveredOf

LEMMA FirstPending ==
  ASSUME NEW S, NEW w \in Seq(S), NEW x, \E i \in DOMAIN w : Who(w, i) = x
  PROVE  \E i \in DOMAIN w : /\ Who(w, i) = x
                             /\ \A j \in DOMAIN w : Who(w, j) = x => i <= j
<1> DEFINE P == PendingOf(w, x)
<1>1. P \in SUBSET (1 .. Len(w)) /\ Len(w) \in Nat
  BY WireIs DEF PendingOf
<1>2. \A i : i \in P <=> i \in DOMAIN w /\ Who(w, i) = x
  BY DEF PendingOf
<1> HIDE DEF P
<1>3. P # {}
  BY <1>2
<1>4. \E i \in P : \A j \in P : i <= j
  BY <1>1, <1>3, LeastExists
<1> QED  BY <1>2, <1>4

LEMMA DeliveredFirst ==
  ASSUME NEW S, NEW w \in Seq(S), NEW h, NEW x, NEW i \in DOMAIN w, Who(w, i) = x,
         \A j \in DOMAIN w : Who(w, j) = x => i <= j
  PROVE  DeliveredOf(w, h, x) = From(w, i)
<1> DEFINE P == PendingOf(w, x)
<1>1. P \in SUBSET (1 .. Len(w)) /\ Len(w) \in Nat
  BY WireIs DEF PendingOf
<1>2. i \in P /\ \A j \in P : i <= j
  BY DEF PendingOf
<1>3. i = Least(P)
  BY <1>1, <1>2, LeastExists
<1> QED  BY <1>2, <1>3 DEF DeliveredOf

(* An event that is fired goes on where its entity is, and changes nothing  *)
(* of what was said before it.                                              *)
LEMMA AppendKeeps ==
  ASSUME NEW w \in Seq(Event), NEW h \in [Entity -> Texts], Chains(w, h),
         NEW e \in Entity, NEW s \in Texts, NEW t \in Times
  PROVE  LET ev == [entity |-> e, old |-> h[e], new |-> s, ts |-> t] IN
         /\ Chains(Append(w, ev), [h EXCEPT ![e] = s])
         /\ \A x \in Entity :
              DeliveredOf(Append(w, ev), [h EXCEPT ![e] = s], x) = DeliveredOf(w, h, x)
<1> DEFINE ev == [entity |-> e, old |-> h[e], new |-> s, ts |-> t]
<1>8. ev \in Event /\ ev.entity = e /\ ev.old = h[e] /\ ev.new = s
  BY DEF Event
<1> HIDE DEF ev
<1> DEFINE n == Len(w)
           v == Append(w, ev)
           g == [h EXCEPT ![e] = s]
<1>0. v \in Seq(Event)
  BY <1>8, AppendProperties
<1>1. /\ DOMAIN w = 1 .. n /\ DOMAIN v = 1 .. n + 1 /\ Len(v) = n + 1
      /\ n \in Nat /\ v[n + 1] = ev /\ \A i \in 1 .. n : v[i] = w[i]
  BY <1>8, AppendProperties, WireIs
<1>6. /\ \A i \in 1 .. n : Who(v, i) = Who(w, i) /\ From(v, i) = From(w, i) /\ To(v, i) = To(w, i)
      /\ Who(v, n + 1) = e /\ From(v, n + 1) = h[e] /\ To(v, n + 1) = s
  BY <1>1, <1>8, Zenon DEF Who, From, To
<1>7. e \in Entity /\ \A i \in DOMAIN w : Who(w, i) \in Entity
  <2>1. \A d \in Event : d.entity \in Entity
    BY DEF Event
  <2>2. \A i \in DOMAIN w : w[i] \in Event
    BY WireIs
  <2> QED  BY <2>1, <2>2 DEF Who
<1>2. g[e] = s /\ \A x \in Entity : x # e => g[x] = h[x]
  BY <1>7
<1> HIDE DEF n, v, g
<1>3. ASSUME NEW i \in DOMAIN v, NEW j \in DOMAIN v, Follows(v, i, j)
      PROVE  From(v, j) = To(v, i)
  <2>1. i \in 1 .. n /\ i < j
    BY <1>1, <1>6, <1>7, <1>3 DEF Follows
  <2>2. CASE j \in 1 .. n
    <3>1. Follows(w, i, j)
      BY <1>1, <1>6, <1>7, <1>3, <2>1, <2>2 DEF Follows
    <3> QED  BY <1>1, <1>6, <1>7, <2>1, <2>2, <3>1 DEF Chains
  <2>3. CASE j = n + 1
    <3>1. LastOf(w, i) /\ Who(w, i) = e
      BY <1>1, <1>6, <1>7, <1>3, <2>1, <2>3 DEF Follows, LastOf, n
    <3>2. To(w, i) = h[e]
      BY <1>1, <1>6, <1>7, <2>1, <3>1 DEF Chains
    <3> QED  BY <1>1, <1>6, <1>7, <2>1, <2>3, <3>2
  <2> QED  BY <1>1, <1>6, <1>7, <2>2, <2>3
<1>4. ASSUME NEW i \in DOMAIN v, LastOf(v, i) PROVE To(v, i) = g[Who(v, i)]
  <2>1. CASE i = n + 1
    BY <1>1, <1>6, <1>7, <1>2, <2>1
  <2>2. CASE i \in 1 .. n
    <3>1. Who(v, i) # e /\ Who(v, i) = Who(w, i)
      BY <1>1, <1>6, <1>7, <1>4, <2>2 DEF LastOf
    <3>2. LastOf(w, i)
      BY <1>1, <1>6, <1>7, <1>4, <2>2 DEF LastOf, n
    <3> QED  BY <1>1, <1>6, <1>7, <1>2, <2>2, <3>1, <3>2 DEF Chains
  <2> QED  BY <1>1, <1>6, <1>7, <2>1, <2>2
<1>5. ASSUME NEW x \in Entity PROVE DeliveredOf(v, g, x) = DeliveredOf(w, h, x)
  <2>1. CASE \E i \in DOMAIN w : Who(w, i) = x
    <3>1. PICK i \in DOMAIN w : Who(w, i) = x /\ \A j \in DOMAIN w : Who(w, j) = x => i <= j
      BY <2>1, FirstPending
    <3>2. DeliveredOf(w, h, x) = From(w, i)
      BY <3>1, DeliveredFirst
    <3>3. i \in DOMAIN v /\ From(v, i) = From(w, i) /\ Who(v, i) = x
      BY <1>1, <1>6, <1>7, <3>1
    <3>5. \A j \in DOMAIN v : Who(v, j) = x => i <= j
      BY <1>1, <1>6, <1>7, <3>1
    <3>4. DeliveredOf(v, g, x) = From(v, i)
      BY <1>0, <3>3, <3>5, DeliveredFirst
    <3> QED  BY <3>2, <3>3, <3>4
  <2>2. CASE \A i \in DOMAIN w : Who(w, i) # x
    <3>1. DeliveredOf(w, h, x) = h[x]
      BY <2>2, DeliveredNone
    <3>2. CASE x = e
      <4>1. n + 1 \in DOMAIN v /\ Who(v, n + 1) = x
        BY <1>1, <1>6, <1>7, <3>2
      <4>3. \A j \in DOMAIN v : Who(v, j) = x => n + 1 <= j
        BY <1>1, <1>6, <1>7, <2>2
      <4>2. DeliveredOf(v, g, x) = From(v, n + 1)
        BY <1>0, <4>1, <4>3, DeliveredFirst
      <4> QED  BY <1>1, <1>6, <1>7, <3>1, <3>2, <4>2
    <3>3. CASE x # e
      <4>1. \A i \in DOMAIN v : Who(v, i) # x
        BY <1>1, <1>6, <1>7, <2>2, <3>3
      <4>2. DeliveredOf(v, g, x) = g[x]
        BY <4>1, DeliveredNone
      <4> QED  BY <1>2, <3>1, <3>3, <4>2
    <3> QED  BY <3>2, <3>3
  <2> QED  BY <2>1, <2>2
<1> QED  BY <1>3, <1>4, <1>5 DEF Chains, v, g, ev

(* The event that is delivered becomes what was last said of its entity.    *)
LEMMA TailKeeps ==
  ASSUME NEW S, NEW w \in Seq(S), w # <<>>, NEW h, Chains(w, h)
  PROVE  /\ Chains(Tail(w), h)
         /\ DeliveredOf(w, h, Head(w).entity) = Head(w).old
         /\ DeliveredOf(Tail(w), h, Head(w).entity) = Head(w).new
         /\ \A x : x # Head(w).entity => DeliveredOf(Tail(w), h, x) = DeliveredOf(w, h, x)
<1> DEFINE n == Len(w)
           v == Tail(w)
           e == Head(w).entity
<1>1. /\ n \in Nat /\ n >= 1 /\ DOMAIN w = 1 .. n /\ Head(w) = w[1]
      /\ DOMAIN v = 1 .. n - 1 /\ Len(v) = n - 1
      /\ \A i \in 1 .. n - 1 : v[i] = w[i + 1]
  BY TailIs
<1>0. v \in Seq(S)
  BY TailIs
<1>7. /\ \A i \in 1 .. n - 1 :
           Who(v, i) = Who(w, i + 1) /\ From(v, i) = From(w, i + 1) /\ To(v, i) = To(w, i + 1)
      /\ Who(w, 1) = e /\ From(w, 1) = Head(w).old /\ To(w, 1) = Head(w).new
  BY <1>1, Zenon DEF Who, From, To
<1> HIDE DEF n, v, e
<1>2. ASSUME NEW i \in DOMAIN v, NEW j \in DOMAIN v, Follows(v, i, j)
      PROVE  From(v, j) = To(v, i)
  <2>1. \A k \in i + 2 .. j : Who(w, k) # Who(w, i + 1)
    <3> SUFFICES ASSUME NEW k \in i + 2 .. j PROVE Who(w, k) # Who(w, i + 1)
      OBVIOUS
    <3>1. k - 1 \in i + 1 .. j - 1 /\ k - 1 \in 1 .. n - 1 /\ i \in 1 .. n - 1
      BY <1>1, <1>7
    <3>2. Who(v, k - 1) = Who(w, k)
      BY <1>1, <1>7, <3>1
    <3> QED  BY <1>1, <1>7, <1>2, <3>1, <3>2 DEF Follows
  <2>2. i \in 1 .. n - 1 /\ j \in 1 .. n - 1 /\ Who(v, i) = Who(w, i + 1) /\ Who(v, j) = Who(w, j + 1)
        /\ To(v, i) = To(w, i + 1) /\ From(v, j) = From(w, j + 1)
    BY <1>1, <1>7
  <2>3. i < j /\ Who(w, i + 1) = Who(w, j + 1)
    BY <1>2, <2>2 DEF Follows
  <2>4. i + 1 < j + 1 /\ (i + 1) + 1 = i + 2 /\ (j + 1) - 1 = j
        /\ i + 1 \in 1 .. n /\ j + 1 \in 1 .. n
    BY <1>1, <1>7, <2>2, <2>3
  <2>5. Follows(w, i + 1, j + 1)
    BY <2>1, <2>3, <2>4 DEF Follows
  <2>6. From(w, j + 1) = To(w, i + 1)
    BY <1>1, <1>7, <2>4, <2>5 DEF Chains
  <2> QED  BY <2>2, <2>6
<1>3. ASSUME NEW i \in DOMAIN v, LastOf(v, i) PROVE To(v, i) = h[Who(v, i)]
  <2>1. LastOf(w, i + 1)
    <3> SUFFICES ASSUME NEW k \in i + 2 .. n PROVE Who(w, k) # Who(w, i + 1)
      BY <1>1, <1>7 DEF LastOf, n
    <3>1. k - 1 \in i + 1 .. n - 1 /\ k - 1 \in 1 .. n - 1 /\ i \in 1 .. n - 1
      BY <1>1, <1>7
    <3>2. Who(v, k - 1) = Who(w, k)
      BY <1>1, <1>7, <3>1
    <3> QED  BY <1>1, <1>7, <1>3, <3>1, <3>2 DEF LastOf
  <2> QED  BY <1>1, <1>7, <2>1 DEF Chains
<1>4. DeliveredOf(w, h, e) = Head(w).old
  <2>1. 1 \in DOMAIN w /\ Who(w, 1) = e /\ \A j \in DOMAIN w : 1 <= j
    BY <1>1, <1>7
  <2>2. DeliveredOf(w, h, e) = From(w, 1)
    BY <2>1, DeliveredFirst
  <2> QED  BY <1>1, <1>7, <2>2
<1>5. DeliveredOf(v, h, e) = Head(w).new
  <2>1. CASE \A i \in DOMAIN v : Who(v, i) # e
    <3>1. LastOf(w, 1)
      <4> SUFFICES ASSUME NEW k \in 2 .. n PROVE Who(w, k) # Who(w, 1)
        BY DEF LastOf, n
      <4>1. k - 1 \in 1 .. n - 1 /\ Who(v, k - 1) = Who(w, k)
        BY <1>1, <1>7
      <4> QED  BY <1>1, <1>7, <2>1, <4>1
    <3>2. To(w, 1) = h[e]
      BY <1>1, <1>7, <3>1 DEF Chains
    <3>3. DeliveredOf(v, h, e) = h[e]
      BY <2>1, DeliveredNone
    <3> QED  BY <1>1, <1>7, <3>2, <3>3
  <2>2. CASE \E i \in DOMAIN v : Who(v, i) = e
    <3>1. PICK i \in DOMAIN v : Who(v, i) = e /\ \A j \in DOMAIN v : Who(v, j) = e => i <= j
      BY <1>0, <2>2, FirstPending
    <3>2. DeliveredOf(v, h, e) = From(v, i)
      BY <1>0, <3>1, DeliveredFirst
    <3>3. Follows(w, 1, i + 1)
      <4>1. \A k \in 2 .. i : Who(w, k) # e
        <5> SUFFICES ASSUME NEW k \in 2 .. i PROVE Who(w, k) # e
          OBVIOUS
        <5>1. k - 1 \in 1 .. n - 1 /\ Who(v, k - 1) = Who(w, k) /\ k - 1 < i /\ i \in Int
          BY <1>1, <1>7
        <5>2. k - 1 \in DOMAIN v /\ ~(i <= k - 1)
          BY <1>1, <1>7, <5>1
        <5> QED  BY <3>1, <5>1, <5>2
      <4>2. i \in 1 .. n - 1 /\ Who(v, i) = Who(w, i + 1) /\ From(v, i) = From(w, i + 1)
        BY <1>1, <1>7
      <4> QED  BY <1>1, <1>7, <3>1, <4>1, <4>2 DEF Follows
    <3> QED  BY <1>1, <1>7, <3>2, <3>3 DEF Chains
  <2> QED  BY <2>1, <2>2
<1>6. ASSUME NEW x, x # e PROVE DeliveredOf(v, h, x) = DeliveredOf(w, h, x)
  <2>1. CASE \A i \in DOMAIN v : Who(v, i) # x
    <3>1. \A k \in DOMAIN w : Who(w, k) # x
      <4> SUFFICES ASSUME NEW k \in DOMAIN w, k # 1 PROVE Who(w, k) # x
        BY <1>1, <1>7, <1>6
      <4>1. k - 1 \in 1 .. n - 1 /\ Who(v, k - 1) = Who(w, k)
        BY <1>1, <1>7
      <4> QED  BY <1>1, <1>7, <2>1, <4>1
    <3>2. DeliveredOf(v, h, x) = h[x]
      BY <2>1, DeliveredNone
    <3>3. DeliveredOf(w, h, x) = h[x]
      BY <3>1, DeliveredNone
    <3> QED  BY <3>2, <3>3
  <2>2. CASE \E i \in DOMAIN v : Who(v, i) = x
    <3>1. PICK i \in DOMAIN v : Who(v, i) = x /\ \A j \in DOMAIN v : Who(v, j) = x => i <= j
      BY <1>0, <2>2, FirstPending
    <3>2. i + 1 \in DOMAIN w /\ From(w, i + 1) = From(v, i) /\ Who(w, i + 1) = Who(v, i)
      BY <1>1, <1>7
    <3>3. \A k \in DOMAIN w : Who(w, k) = x => i + 1 <= k
      <4> SUFFICES ASSUME NEW k \in DOMAIN w, Who(w, k) = x PROVE i + 1 <= k
        OBVIOUS
      <4>1. k - 1 \in 1 .. n - 1 /\ Who(v, k - 1) = Who(w, k)
        BY <1>1, <1>7, <1>6
      <4> QED  BY <1>1, <1>7, <3>1, <4>1
    <3>4. DeliveredOf(w, h, x) = From(w, i + 1)
      BY <3>1, <3>2, <3>3, DeliveredFirst
    <3>5. DeliveredOf(v, h, x) = From(v, i)
      BY <1>0, <3>1, DeliveredFirst
    <3> QED  BY <3>2, <3>4, <3>5
  <2> QED  BY <2>1, <2>2
<1> QED  BY <1>2, <1>3, <1>4, <1>5, <1>6 DEF Chains, v, e

(* An entity none of whose events under way is a change is where it was.    *)
LEMMA FlushKeeps ==
  ASSUME NEW S, NEW w \in Seq(S), NEW h, Chains(w, h), NEW x,
         \A i \in DOMAIN w : Who(w, i) = x => From(w, i) = To(w, i)
  PROVE  DeliveredOf(w, h, x) = h[x]
<1> DEFINE n == Len(w)
           P == {i \in DOMAIN w : Who(w, i) = x}
           B == {i \in P : To(w, i) # h[x]}
<1>1. n \in Nat /\ DOMAIN w = 1 .. n
  BY WireIs
<1>2. B = {}
  <2> SUFFICES ASSUME B # {} PROVE FALSE
    OBVIOUS
  <2>1. PICK b \in B : \A j \in B : j <= b
    <3>1. B \in SUBSET (1 .. n)
      BY <1>1
    <3> HIDE DEF B, n
    <3> QED  BY <1>1, <3>1, LeastExists, Zenon
  <2>2. ~LastOf(w, b)
    BY <1>1, <2>1 DEF Chains
  <2> DEFINE L == {j \in P : j > b}
  <2>3. L # {}
    <3>1. PICK k \in b + 1 .. n : Who(w, k) = Who(w, b)
      BY <2>2 DEF LastOf, n
    <3>2. k \in P /\ k > b
      BY <1>1, <3>1
    <3> QED  BY <3>2
  <2>4. L \in SUBSET (1 .. n)
    BY <1>1
  <2>5. PICK j \in L : \A k \in L : j <= k
    <3> HIDE DEF L, n
    <3>1. Least(L) \in L /\ \A k \in L : Least(L) <= k
      BY <1>1, <2>3, <2>4, LeastExists, Zenon
    <3> QED  BY <3>1
  <2>6. Follows(w, b, j)
    <3>1. ASSUME NEW k \in b + 1 .. j - 1, Who(w, k) = x PROVE FALSE
      <4>1. k \in 1 .. n /\ k > b /\ k < j /\ j \in Int
        BY <1>1
      <4>2. k \in L
        BY <1>1, <3>1, <4>1
      <4> QED  BY <2>5, <4>1, <4>2
    <3>2. Who(w, b) = x /\ Who(w, j) = x /\ b < j
      BY <1>1
    <3> QED  BY <3>1, <3>2 DEF Follows
  <2>7. From(w, j) = To(w, b)
    BY <2>6 DEF Chains
  <2>8. j \in B
    BY <2>1, <2>7
  <2>9. j <= b /\ j > b /\ j \in Int /\ b \in Int
    BY <1>1, <2>1, <2>8
  <2> QED  BY <2>9
<1>3. CASE P = {}
  BY <1>3, DeliveredNone
<1>4. CASE P # {}
  <2>1. PICK i \in DOMAIN w : Who(w, i) = x /\ \A j \in DOMAIN w : Who(w, j) = x => i <= j
    <3>1. \E i \in DOMAIN w : Who(w, i) = x
      BY <1>4
    <3> QED  BY <3>1, FirstPending
  <2>2. DeliveredOf(w, h, x) = From(w, i)
    BY <2>1, DeliveredFirst
  <2>3. i \in P /\ To(w, i) = h[x]
    BY <1>2, <2>1
  <2> QED  BY <2>1, <2>2, <2>3
<1> QED  BY <1>3, <1>4

LEMMA EmptyIsThere ==
  ASSUME NEW h
  PROVE  Chains(<<>>, h) /\ \A x : DeliveredOf(<<>>, h, x) = h[x]
<1>1. DOMAIN <<>> = {}
  OBVIOUS
<1> QED  BY <1>1 DEF Chains, DeliveredOf, PendingOf

-----------------------------------------------------------------------------
(* The types.                                                               *)
LEMMA CacheKeepsType ==
  ASSUME cache \in CacheType, NEW ev \in Event
  PROVE  UpdateCache(ev) \in CacheType
<1> DEFINE c == cache
           number == ParseFloatSafe(ev.new)
           home == NormalizePresence(ev.new)
           camera == IF home = "home" THEN "on" ELSE "off"
           door == ev.new
<1>1. number \in Number /\ door \in Texts \cup {"closed"}
  BY DEF ParseFloatSafe, Number, Event
<1>2. home \in {"unknown", "home", "away"} /\ camera \in {"on", "off"}
  BY DEF NormalizePresence
<1>3. UpdateCache(ev) \in {c, [c EXCEPT !.temperature = number], [c EXCEPT !.humidity = number],
                           [c EXCEPT !.presence = home, !.camera = camera],
                           [c EXCEPT !.door = door]}
  BY DEF UpdateCache
<1> HIDE DEF number, home, camera, door
<1>4. ASSUME NEW d \in CacheType
      PROVE  /\ [d EXCEPT !.temperature = number] \in CacheType
             /\ [d EXCEPT !.humidity = number] \in CacheType
             /\ [d EXCEPT !.presence = home, !.camera = camera] \in CacheType
             /\ [d EXCEPT !.door = door] \in CacheType
  BY <1>1, <1>2 DEF CacheType
<1> QED  BY <1>3, <1>4

LEMMA NewCacheType == NewCache \in CacheType
BY DEF NewCache, CacheType, Number

LEMMA RowIsTyped ==
  ASSUME IsFiniteSet(events), NEW ev \in Event, ev.entity \in Collected, NEW c \in CacheType
  PROVE  BuildEventRow(ev, c) \in Row
<1>1. Cardinality(events) + 1 \in Nat \ {0}
  BY FS_CardinalityType
<1> QED  BY <1>1 DEF BuildEventRow, Row, Event

(* What the steps of the collector do to the world.                         *)
LEMMA StepKinds ==
  ASSUME CollectorStep
  PROVE  /\ World
         /\ \/ Dial \/ Handshake \/ Close \/ Wake
            \/ Skip \/ Accept \/ SaveFails \/ Break
BY DEF CollectorStep, Dial, Handshake, Close, Wake, Skip, Accept, SaveFails, Break

LEMMA ModeIs ==
  ASSUME TypeOK
  PROVE  /\ mode.once \in BOOLEAN /\ mode.limit \in Nat /\ mode.dry \in BOOLEAN
         /\ AfterReturn \in {"exited", "start"} /\ AfterError \in {"exited", "sleep"}
         /\ AfterReturn = "exited" => mode.once \/ mode.limit > 0
         /\ AfterError = "exited" => mode.once \/ mode.limit > 0
<1>1. mode.once \in BOOLEAN /\ mode.limit \in Nat /\ mode.dry \in BOOLEAN
  BY ModeAssumption DEF TypeOK
<1> QED  BY <1>1 DEF AfterReturn, AfterError

LEMMA UnstoredIs ==
  ASSUME NEW S, NEW w \in Seq(S)
  PROVE  /\ \A x : x \in Unstored(InFlight(w)) <=>
                     \E i \in DOMAIN w : Who(w, i) = x /\ From(w, i) # To(w, i)
         /\ w \in Seq(Event) => Unstored(InFlight(w)) \subseteq Entity
<1>1. ASSUME NEW x
      PROVE  x \in Unstored(InFlight(w)) <=>
               \E i \in DOMAIN w : Who(w, i) = x /\ From(w, i) # To(w, i)
  BY DEF Unstored, InFlight, Who, From, To
<1>2. ASSUME w \in Seq(Event) PROVE Unstored(InFlight(w)) \subseteq Entity
  <2>1. \A i \in DOMAIN w : w[i] \in Event
    BY <1>2, WireIs
  <2>2. \A ev \in Event : ev.entity \in Entity
    BY DEF Event
  <2>3. \A i \in DOMAIN w : Who(w, i) \in Entity
    BY <2>1, <2>2 DEF Who
  <2> QED  BY <1>1, <2>3
<1> QED  BY <1>1, <1>2

LEMMA TypeInit == Init => TypeOK
<1> SUFFICES ASSUME Init PROVE TypeOK
  OBVIOUS
<1>1. mode \in Modes /\ phase = "start" /\ cache \in CacheType /\ accepted \in Nat
  BY NewCacheType DEF Init
<1>2. fired \in Nat /\ now \in Times /\ events \in SUBSET Row /\ lost \in SUBSET Entity
  BY DEF Init
<1>3. wire \in Seq(Event) /\ wire = <<>>
  BY EmptySeq DEF Init
<1>4. ha \in [Entity -> Texts] /\ lastChange \in [Entity -> Times \cup {0}]
  BY DEF Init, Texts
<1> QED  BY <1>1, <1>2, <1>3, <1>4 DEF TypeOK

LEMMA TypeStep == TypeOK /\ IsFiniteSet(events) /\ [Next]_vars => TypeOK'
<1> SUFFICES ASSUME TypeOK, IsFiniteSet(events), [Next]_vars PROVE TypeOK'
  OBVIOUS
<1>1. CASE UNCHANGED vars
  BY <1>1 DEF TypeOK, vars
<1>2. CASE Tick
  BY <1>2 DEF Tick, TypeOK, collector
<1>3. ASSUME NEW e \in Entity, NEW s \in States[e], Fire(e, s) PROVE TypeOK'
  <2>1. s \in Texts /\ ha[e] \in Texts /\ now \in Times
    BY DEF TypeOK, Texts
  <2>2. ha' \in [Entity -> Texts] /\ lastChange' \in [Entity -> Times \cup {0}]
    BY <1>3, <2>1 DEF Fire, TypeOK
  <2>3. [entity |-> e, old |-> ha[e], new |-> s, ts |-> now] \in Event
    BY <2>1 DEF Event
  <2>4. wire' \in Seq(Event) /\ (phase # "open" => wire' = <<>>)
    <3>1. CASE phase = "open"
      BY <1>3, <2>3, <3>1, AppendProperties DEF Fire, TypeOK
    <3>2. CASE phase # "open"
      BY <1>3, <3>2 DEF Fire, TypeOK
    <3> QED  BY <3>1, <3>2
  <2>5. fired' \in Nat /\ lost' \in SUBSET Entity
    BY <1>3 DEF Fire, TypeOK
  <2>6. UNCHANGED <<mode, phase, cache, accepted, events, now>>
    BY <1>3 DEF Fire, collector
  <2> QED  BY <2>2, <2>4, <2>5, <2>6 DEF TypeOK
<1>4. CASE CollectorStep
  <2>1. /\ mode' \in Modes /\ ha' \in [Entity -> Texts] /\ fired' \in Nat /\ now' \in Times
        /\ lastChange' \in [Entity -> Times \cup {0}] /\ mode' = mode
    BY <1>4, StepKinds DEF World, TypeOK
  <2>2. CASE Dial \/ Handshake \/ Close \/ Wake
    <3>1. UNCHANGED <<events, wire, lost>> /\ accepted' \in Nat /\ cache' \in CacheType
      BY <2>2, NewCacheType DEF Dial, Handshake, Close, Wake, TypeOK
    <3>2. CASE Close
      BY <2>1, <3>1, <3>2, ModeIs DEF Close, TypeOK
    <3>3. CASE Dial \/ Handshake \/ Wake
      BY <2>1, <3>1, <3>3 DEF Dial, Handshake, Wake, TypeOK
    <3> QED  BY <2>2, <3>2, <3>3
  <2>3. CASE Break
    <3>1. lost' \in SUBSET Entity /\ wire' = <<>> /\ wire' \in Seq(Event)
      BY <2>3, UnstoredIs, EmptySeq DEF Break, TypeOK
    <3>2. UNCHANGED <<cache, accepted, events>> /\ phase' = AfterError
      BY <2>3 DEF Break
    <3> QED  BY <2>1, <3>1, <3>2, ModeIs DEF TypeOK
  <2>4. ASSUME phase = "open", wire # <<>>
        PROVE  /\ Head(wire) \in Event /\ Tail(wire) \in Seq(Event)
               /\ UpdateCache(Head(wire)) \in CacheType /\ Head(wire).entity \in Entity
    <3>1. Head(wire) \in Event /\ Tail(wire) \in Seq(Event)
      BY <2>4, TailIs DEF TypeOK
    <3> QED  BY <3>1, CacheKeepsType DEF TypeOK, Event
  <2>5. CASE SaveFails
    <3>1. lost' \in SUBSET Entity /\ wire' = <<>> /\ wire' \in Seq(Event)
      BY <2>5, UnstoredIs, EmptySeq DEF SaveFails, TypeOK
    <3>2. UNCHANGED <<accepted, events>> /\ phase' = AfterError /\ cache' \in CacheType
      BY <2>4, <2>5 DEF SaveFails
    <3> QED  BY <2>1, <3>1, <3>2, ModeIs DEF TypeOK
  <2>6. CASE Skip
    <3>1. UNCHANGED <<phase, accepted, events>> /\ phase = "open" /\ cache' \in CacheType
          /\ wire' \in Seq(Event)
      BY <2>4, <2>6 DEF Skip
    <3>2. Unstored({Head(wire)}) \subseteq Entity
      BY <2>4, <2>6 DEF Skip, Unstored
    <3>3. lost' \in SUBSET Entity
      BY <2>6, <3>2 DEF Skip, TypeOK
    <3> QED  BY <2>1, <3>1, <3>3 DEF TypeOK
  <2>7. CASE Accept
    <3>1. phase = "open" /\ wire # <<>> /\ Head(wire).entity \in Collected
      BY <2>7 DEF Accept, Wanted
    <3>2. cache' \in CacheType /\ accepted' \in Nat
      BY <2>4, <2>7, <3>1 DEF Accept, TypeOK
    <3>3. events' \in SUBSET Row
      <4>1. BuildEventRow(Head(wire), cache') \in Row
        BY <2>4, <3>1, <3>2, RowIsTyped
      <4>2. events' = events \/ events' = events \cup {BuildEventRow(Head(wire), cache')}
        BY <2>7 DEF Accept
      <4> QED  BY <4>1, <4>2 DEF TypeOK
    <3>4. lost' \in SUBSET Entity
      <4>1. Unstored(InFlight(Tail(wire))) \subseteq Entity
        BY <2>4, <3>1, UnstoredIs
      <4> QED  BY <2>4, <2>7, <3>1, <4>1 DEF Accept, TypeOK
    <3>5. CASE Enough
      BY <2>1, <2>7, <3>2, <3>3, <3>4, <3>5, ModeIs, EmptySeq DEF Accept, TypeOK
    <3>6. CASE ~Enough
      BY <2>1, <2>4, <2>7, <3>1, <3>2, <3>3, <3>4, <3>6 DEF Accept, TypeOK
    <3> QED  BY <3>5, <3>6
  <2> QED  BY <1>4, <2>2, <2>3, <2>5, <2>6, <2>7, StepKinds
<1> QED  BY <1>1, <1>2, <1>3, <1>4 DEF Next

-----------------------------------------------------------------------------
(* What a step does to the rows, to the events under way and to the home.   *)
Still ==
  UNCHANGED <<events, wire, ha, lost, lastChange>> /\ now' \in Times /\ now <= now'
Fires == \E e \in Entity : \E s \in States[e] : Fire(e, s)
Popped ==
  /\ wire # <<>> /\ ~Wanted(Head(wire)) /\ wire' = Tail(wire)
  /\ lost' = lost \cup Unstored({Head(wire)})
  /\ UNCHANGED <<events, ha, now, lastChange>>
Dropped ==
  /\ wire' = <<>> /\ lost' = lost \cup Unstored(InFlight(wire))
  /\ UNCHANGED <<events, ha, now, lastChange>>

LEMMA Effects ==
  ASSUME TypeOK, [Next]_vars
  PROVE  Still \/ Fires \/ Popped \/ Accept \/ Dropped
<1>0. now \in Times /\ now <= now
  BY BoundAssumption DEF TypeOK
<1>1. CASE UNCHANGED vars
  BY <1>0, <1>1 DEF vars, Still
<1>2. CASE Tick
  <2>1. now' \in Times /\ now < now'
    BY <1>2 DEF Tick
  <2>2. now \in Int /\ now' \in Int
    BY <1>0, <2>1, BoundAssumption
  <2> QED  BY <1>2, <2>1, <2>2 DEF Tick, Still, collector
<1>3. CASE Dial \/ Handshake \/ Close \/ Wake
  BY <1>0, <1>3 DEF Dial, Handshake, Close, Wake, World, Still
<1>4. CASE Skip
  BY <1>4 DEF Skip, World, Popped
<1>5. CASE SaveFails \/ Break
  BY <1>5 DEF SaveFails, Break, World, Dropped
<1> QED  BY <1>1, <1>2, <1>3, <1>4, <1>5, StepKinds DEF Next, Fires

LEMMA HeadIs ==
  ASSUME TypeOK, wire # <<>>
  PROVE  /\ 1 \in DOMAIN wire /\ Head(wire) = wire[1] /\ Head(wire) \in Event
         /\ Head(wire).entity = Who(wire, 1) /\ Head(wire).old = From(wire, 1)
         /\ Head(wire).new = To(wire, 1) /\ Head(wire).entity \in Entity
<1>1. wire \in Seq(Event)
  BY DEF TypeOK
<1>2. /\ Len(wire) \in Nat /\ Len(wire) >= 1 /\ DOMAIN wire = 1 .. Len(wire)
      /\ Head(wire) = wire[1] /\ Head(wire) \in Event
  BY <1>1, TailIs
<1>3. Head(wire).entity \in Entity
  BY <1>2 DEF Event
<1>4. 1 \in DOMAIN wire
  BY <1>2
<1> QED  BY <1>2, <1>3, <1>4 DEF Who, From, To

(* The numbers of the rows.                                                 *)
Numbered(rows) ==
  /\ IsFiniteSet(rows) /\ \A r \in rows : r.id <= Cardinality(rows)
  /\ \A r, q \in rows : r.id = q.id => r = q

LEMMA AddRow ==
  ASSUME NEW rows \in SUBSET Row, Numbered(rows), NEW row, row.id = Cardinality(rows) + 1
  PROVE  /\ Numbered(rows \cup {row})
         /\ \A r \in rows : r.id \in Int /\ row.id \in Int /\ r.id < row.id
<1> DEFINE n == Cardinality(rows)
<1>1. n \in Nat
  BY FS_CardinalityType DEF Numbered
<1>2. \A r \in rows : r.id \in Int /\ r.id <= n
  BY DEF Row, Numbered
<1>3. row \notin rows
  BY <1>1, <1>2
<1>4. IsFiniteSet(rows \cup {row}) /\ Cardinality(rows \cup {row}) = n + 1
  BY <1>3, FS_AddElement DEF Numbered
<1> HIDE DEF n
<1>5. row.id = n + 1
  BY DEF n
<1>6. \A r \in rows \cup {row} : r.id <= n + 1
  BY <1>1, <1>2, <1>5
<1>7. \A r, q \in rows \cup {row} : r.id = q.id => r = q
  <2>1. \A r \in rows : r.id # row.id
    BY <1>1, <1>2, <1>5
  <2>2. \A r, q \in rows : r.id = q.id => r = q
    BY DEF Numbered
  <2> QED  BY <2>1, <2>2
<1> QED  BY <1>1, <1>2, <1>4, <1>5, <1>6, <1>7 DEF Numbered

NewRow == BuildEventRow(Head(wire), cache')

LEMMA AcceptIs ==
  ASSUME TypeOK, RowsAreNumbered, Accept
  PROVE  /\ phase = "open" /\ wire # <<>> /\ Wanted(Head(wire))
         /\ UNCHANGED <<ha, now, lastChange>>
         /\ mode.dry => events' = events
         /\ ~mode.dry => events' = events \cup {NewRow}
         /\ NewRow.id = Cardinality(events) + 1 /\ NewRow.ts = Head(wire).ts
         /\ NewRow.entity = Head(wire).entity /\ NewRow.new = Head(wire).new
         /\ \/ wire' = Tail(wire) /\ ~Enough
            \/ wire' = <<>> /\ Enough /\ phase' # "open"
BY ModeIs DEF Accept, World, NewRow, BuildEventRow

LEMMA NumberInit == Init => RowsAreNumbered
BY FS_EmptySet DEF Init, RowsAreNumbered

LEMMA NumberStep == TypeOK /\ RowsAreNumbered /\ [Next]_vars => RowsAreNumbered'
<1> SUFFICES ASSUME TypeOK, RowsAreNumbered, [Next]_vars PROVE RowsAreNumbered'
  OBVIOUS
<1>1. CASE events' = events
  BY <1>1 DEF RowsAreNumbered
<1>2. CASE Accept /\ ~mode.dry
  <2>1. Numbered(events) /\ events \in SUBSET Row
    BY DEF RowsAreNumbered, Numbered, TypeOK
  <2>2. events' = events \cup {NewRow} /\ NewRow.id = Cardinality(events) + 1
    BY <1>2, AcceptIs
  <2>3. Numbered(events')
    BY <2>1, <2>2, AddRow
  <2> QED  BY <2>3 DEF RowsAreNumbered, Numbered
<1>3. Accept /\ mode.dry => events' = events
  BY AcceptIs
<1>4. Still \/ Fires \/ Popped \/ Dropped => events' = events
  BY DEF Still, Fires, Fire, Popped, Dropped, collector
<1> QED  BY <1>1, <1>2, <1>3, <1>4, Effects

(* The order of time.                                                       *)
When(w, i) == w[i].ts
At(r) == r.ts
No(r) == r.id
InTimeOf(rows, w, t) ==
  /\ \A r, q \in rows : No(r) < No(q) => At(r) <= At(q)
  /\ \A i, j \in DOMAIN w : i < j => When(w, i) <= When(w, j)
  /\ \A i \in DOMAIN w : When(w, i) <= t
  /\ \A r \in rows : At(r) <= t
  /\ \A r \in rows, i \in DOMAIN w : At(r) <= When(w, i)

LEMMA InTimeIs ==
  /\ InTime <=> InTimeOf(events, wire, now)
  /\ InTime' <=> InTimeOf(events', wire', now')
<1>1. InTime <=> InTimeOf(events, wire, now)
  BY Zenon DEF InTime, InTimeOf, When, At, No
<1>2. InTime' <=> InTimeOf(events', wire', now')
  BY Zenon DEF InTime, InTimeOf, When, At, No
<1> QED  BY <1>1, <1>2

LEMMA TimesAre ==
  ASSUME TypeOK
  PROVE  /\ now \in Nat /\ \A r \in events : At(r) \in Nat /\ No(r) \in Nat
         /\ \A i \in DOMAIN wire : When(wire, i) \in Nat
         /\ \A e \in Entity : lastChange[e] \in Nat
<1>1. now \in Nat
  BY BoundAssumption DEF TypeOK
<1>2. \A r \in Row : r.ts \in Nat /\ r.id \in Nat
  BY BoundAssumption DEF Row
<1>3. \A ev \in Event : ev.ts \in Nat
  BY BoundAssumption DEF Event
<1>4. wire \in Seq(Event) /\ events \in SUBSET Row
  BY DEF TypeOK
<1>5. \A i \in DOMAIN wire : wire[i] \in Event
  BY <1>4, WireIs
<1>6. \A e \in Entity : lastChange[e] \in Nat
  <2>1. lastChange \in [Entity -> Times \cup {0}]
    BY DEF TypeOK
  <2>2. Times \cup {0} \subseteq Nat
    BY BoundAssumption
  <2>3. \A e \in Entity : lastChange[e] \in Times \cup {0}
    BY <2>1
  <2> QED  BY <2>2, <2>3
<1> QED  BY <1>1, <1>2, <1>3, <1>4, <1>5, <1>6 DEF At, No, When

LEMMA TimeInit == Init => InTime
<1> SUFFICES ASSUME Init PROVE InTime
  OBVIOUS
<1>1. events = {} /\ DOMAIN wire = {}
  BY DEF Init
<1> QED  BY <1>1 DEF InTime

LEMMA TimeStep == TypeOK /\ RowsAreNumbered /\ InTime /\ [Next]_vars => InTime'
<1> SUFFICES ASSUME TypeOK, RowsAreNumbered, InTime, [Next]_vars PROVE InTime'
  OBVIOUS
<1>0. InTimeOf(events, wire, now)
  BY InTimeIs
<1>5. wire \in Seq(Event)
  BY DEF TypeOK
<1>1. CASE Still
  <2>1. now \in Int /\ now' \in Int /\ now <= now'
    BY <1>1, BoundAssumption DEF Still, TypeOK
  <2>2. UNCHANGED <<events, wire>>
    BY <1>1 DEF Still
  <2>3. InTimeOf(events, wire, now')
    BY <1>0, <2>1, TimesAre DEF InTimeOf
  <2> QED  BY <2>2, <2>3, InTimeIs
<1>2. CASE Fires
  <2>0. PICK e \in Entity : \E s \in States[e] : Fire(e, s)
    BY <1>2 DEF Fires
  <2>1. PICK s \in States[e] : Fire(e, s)
    BY <2>0
  <2>2. UNCHANGED <<events, now>>
    BY <2>1 DEF Fire, collector
  <2>3. CASE phase # "open"
    <3>1. wire' = wire
      BY <2>1, <2>3 DEF Fire
    <3> QED  BY <1>0, <2>2, <3>1, InTimeIs
  <2>4. CASE phase = "open"
    <3> DEFINE ev == [entity |-> e, old |-> ha[e], new |-> s, ts |-> now]
               n == Len(wire)
    <3>1. wire' = Append(wire, ev)
      BY <2>1, <2>4 DEF Fire
    <3>2. ev \in Event
      BY DEF Event, TypeOK, Texts
    <3>3. /\ DOMAIN wire = 1 .. n /\ DOMAIN wire' = 1 .. n + 1 /\ n \in Nat
          /\ \A i \in 1 .. n : wire'[i] = wire[i]
          /\ wire'[n + 1] = ev
      BY <1>5, <3>1, <3>2, AppendProperties, WireIs
    <3>4. ev.ts = now
      OBVIOUS
    <3>5. (\A i \in 1 .. n : When(wire', i) = When(wire, i)) /\ When(wire', n + 1) = now
      BY <3>3, <3>4, Zenon DEF When
    <3> HIDE DEF ev, n
    <3>6. InTimeOf(events, wire', now)
      BY <1>0, <3>3, <3>5, TimesAre DEF InTimeOf
    <3> QED  BY <2>2, <3>6, InTimeIs
  <2> QED  BY <2>3, <2>4
<1>3. ASSUME wire # <<>>,
             \/ events' = events
             \/ events' = events \cup {NewRow} /\ NewRow.id = Cardinality(events) + 1
                /\ NewRow.ts = Head(wire).ts
      PROVE  InTimeOf(events', Tail(wire), now)
  <2> DEFINE n == Len(wire)
             v == Tail(wire)
  <2>1. /\ DOMAIN wire = 1 .. n /\ DOMAIN v = 1 .. n - 1 /\ n \in Nat /\ n >= 1
        /\ Head(wire) = wire[1] /\ \A i \in 1 .. n - 1 : v[i] = wire[i + 1]
    BY <1>5, <1>3, TailIs
  <2>2. \A i \in 1 .. n - 1 : When(v, i) = When(wire, i + 1)
    BY <2>1, Zenon DEF When
  <2> HIDE DEF n, v
  <2>3. InTimeOf(events, v, now)
    <3>1. \A i \in DOMAIN v : i \in Int /\ i + 1 \in DOMAIN wire /\ When(v, i) = When(wire, i + 1)
      BY <2>1, <2>2
    <3>2. \A i, j \in DOMAIN v : i < j => When(v, i) <= When(v, j)
      <4>1. \A i, j \in DOMAIN v : i < j => i + 1 < j + 1
        BY <3>1
      <4> QED  BY <1>0, <3>1, <4>1 DEF InTimeOf
    <3> QED  BY <1>0, <3>1, <3>2 DEF InTimeOf
  <2>4. CASE events' = events
    BY <2>3, <2>4 DEF v
  <2>5. CASE /\ events' = events \cup {NewRow} /\ NewRow.id = Cardinality(events) + 1
             /\ NewRow.ts = Head(wire).ts
    <3>1. \A r \in events : No(r) < No(NewRow) /\ No(r) \in Int /\ No(NewRow) \in Int
      BY <2>5, AddRow DEF No, RowsAreNumbered, Numbered, TypeOK
    <3>2. At(NewRow) = When(wire, 1)
      BY <2>1, <2>5 DEF At, When
    <3>3. \A i \in 1 .. n - 1 : At(NewRow) <= When(v, i)
      BY <1>0, <2>1, <2>2, <3>2 DEF InTimeOf
    <3>4. \A r \in events : At(r) <= At(NewRow)
      BY <1>0, <2>1, <3>2 DEF InTimeOf
    <3>5. At(NewRow) <= now /\ At(NewRow) \in Nat
      BY <1>0, <2>1, <3>2, TimesAre DEF InTimeOf
    <3>6. \A r, q \in events' : No(r) < No(q) => At(r) <= At(q)
      <4> SUFFICES ASSUME NEW r \in events', NEW q \in events', No(r) < No(q)
                   PROVE  At(r) <= At(q)
        OBVIOUS
      <4>1. CASE r \in events /\ q \in events
        BY <2>3, <4>1 DEF InTimeOf
      <4>2. CASE r = NewRow /\ q \in events
        BY <3>1, <4>2
      <4>3. CASE r \in events /\ q = NewRow
        BY <3>4, <4>3
      <4>4. CASE r = NewRow /\ q = NewRow
        BY <3>5, <4>4
      <4> QED  BY <2>5, <4>1, <4>2, <4>3, <4>4
    <3>7. /\ \A r \in events' : At(r) <= now
          /\ \A r \in events', i \in DOMAIN v : At(r) <= When(v, i)
      BY <2>1, <2>3, <2>5, <3>3, <3>5 DEF InTimeOf
    <3>8. InTimeOf(events', v, now)
      BY <2>3, <3>6, <3>7 DEF InTimeOf
    <3> QED  BY <3>8 DEF v
  <2> QED  BY <1>3, <2>4, <2>5
<1>4. ASSUME NEW rows, NEW w, InTimeOf(rows, w, now) PROVE InTimeOf(rows, <<>>, now)
  <2>1. DOMAIN <<>> = {}
    OBVIOUS
  <2> QED  BY <1>4, <2>1 DEF InTimeOf
<1>6. CASE Popped
  <2>1. InTimeOf(events', Tail(wire), now)
    BY <1>3, <1>6 DEF Popped
  <2> QED  BY <1>6, <2>1, InTimeIs DEF Popped
<1>7. CASE Dropped
  BY <1>0, <1>4, <1>7, InTimeIs DEF Dropped
<1>8. CASE Accept
  <2>1. wire # <<>> /\ now' = now /\ (wire' = Tail(wire) \/ wire' = <<>>)
    BY <1>8, AcceptIs
  <2>2. \/ events' = events
        \/ events' = events \cup {NewRow} /\ NewRow.id = Cardinality(events) + 1
           /\ NewRow.ts = Head(wire).ts
    BY <1>8, AcceptIs
  <2>3. InTimeOf(events', Tail(wire), now)
    BY <1>3, <2>1, <2>2
  <2>4. InTimeOf(events', <<>>, now)
    BY <1>4, <2>3
  <2> QED  BY <2>1, <2>3, <2>4, InTimeIs
<1> QED  BY <1>1, <1>2, <1>6, <1>7, <1>8, Effects

-----------------------------------------------------------------------------
(* What Home Assistant said and is still to say of each entity.             *)
LEMMA ChainsAre ==
  /\ WireChains <=> Chains(wire, ha)
  /\ WireChains' <=> Chains(wire', ha')
<1>1. WireChains <=> Chains(wire, ha)
  BY Zenon DEF WireChains, Chains, Follows, LastOf, Who, From, To
<1>2. WireChains' <=> Chains(wire', ha')
  BY Zenon DEF WireChains, Chains, Follows, LastOf, Who, From, To
<1> QED  BY <1>1, <1>2

LEMMA DeliveredAre ==
  /\ \A x : Delivered(x) = DeliveredOf(wire, ha, x)
  /\ \A x : (Delivered(x))' = DeliveredOf(wire', ha', x)
<1>1. \A x : Delivered(x) = DeliveredOf(wire, ha, x)
  BY Zenon DEF Delivered, Pending, DeliveredOf, PendingOf, Least, Who, From
<1>2. \A x : (Delivered(x))' = DeliveredOf(wire', ha', x)
  BY Zenon DEF Delivered, Pending, DeliveredOf, PendingOf, Least, Who, From
<1> QED  BY <1>1, <1>2

LEMMA WhoAreEntities ==
  ASSUME TypeOK
  PROVE  \A i \in DOMAIN wire : Who(wire, i) \in Entity
<1>1. \A i \in DOMAIN wire : wire[i] \in Event
  BY WireIs DEF TypeOK
<1>2. \A ev \in Event : ev.entity \in Entity
  BY DEF Event
<1> QED  BY <1>1, <1>2 DEF Who

LEMMA FireKeeps ==
  ASSUME TypeOK, Chains(wire, ha), NEW e \in Entity, NEW s \in States[e], Fire(e, s),
         phase = "open"
  PROVE  /\ Chains(wire', ha')
         /\ \A x \in Entity : DeliveredOf(wire', ha', x) = DeliveredOf(wire, ha, x)
<1> DEFINE ev == [entity |-> e, old |-> ha[e], new |-> s, ts |-> now]
<1>1. wire' = Append(wire, ev) /\ ha' = [ha EXCEPT ![e] = s]
  BY DEF Fire
<1>2. /\ wire \in Seq(Event) /\ ha \in [Entity -> Texts]
      /\ e \in Entity /\ s \in Texts /\ now \in Times
  BY DEF TypeOK, Texts
<1>5. /\ Chains(Append(wire, ev), [ha EXCEPT ![e] = s])
      /\ \A x \in Entity :
           DeliveredOf(Append(wire, ev), [ha EXCEPT ![e] = s], x) = DeliveredOf(wire, ha, x)
  BY <1>2, AppendKeeps
<1> HIDE DEF ev
<1> QED  BY <1>1, <1>5

LEMMA PopKeeps ==
  ASSUME TypeOK, Chains(wire, ha), wire # <<>>
  PROVE  /\ Chains(Tail(wire), ha)
         /\ DeliveredOf(wire, ha, Head(wire).entity) = Head(wire).old
         /\ DeliveredOf(Tail(wire), ha, Head(wire).entity) = Head(wire).new
         /\ \A x : x # Head(wire).entity =>
              DeliveredOf(Tail(wire), ha, x) = DeliveredOf(wire, ha, x)
<1>1. wire \in Seq(Event)
  BY DEF TypeOK
<1> QED  BY <1>1, TailKeeps

LEMMA DropKeeps ==
  ASSUME NEW w \in Seq(Event), NEW h, Chains(w, h), NEW x, x \notin Unstored(InFlight(w))
  PROVE  DeliveredOf(w, h, x) = h[x]
<1>1. \A i \in DOMAIN w : Who(w, i) = x => From(w, i) = To(w, i)
  BY UnstoredIs
<1> QED  BY <1>1, FlushKeeps

LEMMA ChainInit == Init => WireChains
<1>1. Chains(<<>>, ha)
  BY EmptyIsThere
<1> QED  BY <1>1, ChainsAre DEF Init

LEMMA ChainStep == TypeOK /\ RowsAreNumbered /\ WireChains /\ [Next]_vars => WireChains'
<1> SUFFICES ASSUME TypeOK, RowsAreNumbered, WireChains, [Next]_vars PROVE Chains(wire', ha')
  BY ChainsAre
<1>1. Chains(wire, ha)
  BY ChainsAre
<1>2. Still => Chains(wire', ha')
  BY <1>1 DEF Still
<1>3. ASSUME Fires PROVE Chains(wire', ha')
  <2>1. PICK e \in Entity : \E s \in States[e] : Fire(e, s)
    BY <1>3 DEF Fires
  <2>2. PICK s \in States[e] : Fire(e, s)
    BY <2>1
  <2>3. phase # "open" => wire' = <<>>
    BY <2>2 DEF Fire, TypeOK
  <2> QED  BY <1>1, <2>2, <2>3, FireKeeps, EmptyIsThere
<1>4. Popped => Chains(wire', ha')
  BY <1>1, PopKeeps DEF Popped
<1>5. Dropped => Chains(wire', ha')
  BY EmptyIsThere DEF Dropped
<1>6. Accept => Chains(wire', ha')
  BY <1>1, PopKeeps, AcceptIs, EmptyIsThere
<1> QED  BY <1>2, <1>3, <1>4, <1>5, <1>6, Effects

(* The cache.                                                               *)
LEMMA FreshInit == Init => CacheIsFresh
BY DEF Init, CacheIsFresh

LEMMA FreshStep == TypeOK /\ CacheIsFresh /\ [Next]_vars => CacheIsFresh'
<1> SUFFICES ASSUME TypeOK, CacheIsFresh, [Next]_vars PROVE CacheIsFresh'
  OBVIOUS
<1>1. CASE Tick \/ Fires \/ UNCHANGED vars
  BY <1>1 DEF Tick, Fires, Fire, vars, collector, CacheIsFresh
<1>2. CASE Dial
  BY <1>2 DEF Dial, CacheIsFresh
<1>3. CASE Handshake
  BY <1>3 DEF Handshake, CacheIsFresh
<1>4. CASE Close \/ Wake \/ Skip \/ Accept \/ SaveFails \/ Break
  <2>1. phase' \in {"exited", "start", "sleep", "open"}
    BY <1>4, ModeIs DEF Close, Wake, Skip, Accept, SaveFails, Break
  <2> QED  BY <2>1 DEF CacheIsFresh
<1> QED  BY <1>1, <1>2, <1>3, <1>4, StepKinds DEF Next, Fires

(* What the cache says, as a predicate of the cache c and of what was last  *)
(* said of the camera and of the thermometer.                               *)
Says(c, camera, temperature) ==
  /\ c.presence \in {"unknown", NormalizePresence(camera)}
  /\ c.temperature \in {NoNumber, ParseFloatSafe(temperature)}
  /\ c.camera = "on" <=> c.presence = "home"

LEMMA SaysAre ==
  /\ CacheIsCurrent <=>
       (phase = "open" => Says(cache, DeliveredOf(wire, ha, "camera"),
                                      DeliveredOf(wire, ha, "temperature")))
  /\ CacheIsCurrent' <=>
       (phase' = "open" => Says(cache', DeliveredOf(wire', ha', "camera"),
                                        DeliveredOf(wire', ha', "temperature")))
<1>1. CacheIsCurrent <=>
        (phase = "open" => Says(cache, Delivered("camera"), Delivered("temperature")))
  BY Zenon DEF CacheIsCurrent, Says
<1>2. CacheIsCurrent' <=>
        (phase' = "open" => Says(cache', (Delivered("camera"))', (Delivered("temperature"))'))
  BY Zenon DEF CacheIsCurrent, Says
<1> QED  BY <1>1, <1>2, DeliveredAre

LEMMA NewCacheSays ==
  ASSUME NEW camera, NEW temperature
  PROVE  Says(NewCache, camera, temperature)
BY DEF Says, NewCache

LEMMA UpdateSays ==
  ASSUME cache \in CacheType, NEW ev, NEW camera, NEW temperature, NEW camera2, NEW temperature2,
         Says(cache, camera, temperature),
         camera2 = IF ev.entity = "camera" THEN ev.new ELSE camera,
         temperature2 = IF ev.entity = "temperature" THEN ev.new ELSE temperature
  PROVE  Says(UpdateCache(ev), camera2, temperature2)
<1> DEFINE number == ParseFloatSafe(ev.new)
           home == NormalizePresence(ev.new)
           lamp == IF home = "home" THEN "on" ELSE "off"
<1>1. ASSUME NEW c \in CacheType, NEW d
      PROVE  /\ [c EXCEPT !.temperature = d].temperature = d
             /\ [c EXCEPT !.temperature = d].presence = c.presence
             /\ [c EXCEPT !.temperature = d].camera = c.camera
             /\ [c EXCEPT !.humidity = d].temperature = c.temperature
             /\ [c EXCEPT !.humidity = d].presence = c.presence
             /\ [c EXCEPT !.humidity = d].camera = c.camera
             /\ [c EXCEPT !.door = d].temperature = c.temperature
             /\ [c EXCEPT !.door = d].presence = c.presence
             /\ [c EXCEPT !.door = d].camera = c.camera
             /\ \A x : /\ [c EXCEPT !.presence = d, !.camera = x].temperature = c.temperature
                       /\ [c EXCEPT !.presence = d, !.camera = x].presence = d
                       /\ [c EXCEPT !.presence = d, !.camera = x].camera = x
  BY DEF CacheType
<1> HIDE DEF number, home, lamp
<1>2. CASE ev.entity = "temperature"
  <2>1. UpdateCache(ev) = [cache EXCEPT !.temperature = number]
    BY <1>2 DEF UpdateCache, number
  <2> QED  BY <1>1, <1>2, <2>1 DEF Says, number
<1>3. CASE ev.entity = "camera"
  <2>1. UpdateCache(ev) = [cache EXCEPT !.presence = home, !.camera = lamp]
    BY <1>3 DEF UpdateCache, home, lamp
  <2>2. camera2 = ev.new /\ temperature2 = temperature
    BY <1>3
  <2> QED  BY <1>1, <2>1, <2>2 DEF Says, home, lamp
<1>4. CASE ev.entity \notin {"temperature", "camera"}
  <2> DEFINE up == UpdateCache(ev)
  <2>1. \/ up = cache \/ up = [cache EXCEPT !.humidity = number]
        \/ up = [cache EXCEPT !.door = ev.new]
    BY <1>4 DEF UpdateCache, number
  <2> HIDE DEF up
  <2>3. /\ up.presence = cache.presence /\ up.temperature = cache.temperature
        /\ up.camera = cache.camera
    <3>1. cache \in CacheType
      OBVIOUS
    <3>2. CASE up = [cache EXCEPT !.humidity = number]
      BY <1>1, <3>1, <3>2, Zenon
    <3>3. CASE up = [cache EXCEPT !.door = ev.new]
      BY <1>1, <3>1, <3>3, Zenon
    <3> QED  BY <2>1, <3>2, <3>3
  <2>2. camera2 = camera /\ temperature2 = temperature
    BY <1>4
  <2> QED  BY <2>2, <2>3 DEF Says, up
<1> QED  BY <1>2, <1>3, <1>4

LEMMA CacheInit == Init => CacheIsCurrent
BY DEF Init, CacheIsCurrent

LEMMA CacheStep ==
  TypeOK /\ RowsAreNumbered /\ WireChains /\ CacheIsFresh /\ CacheIsCurrent /\ [Next]_vars
    => CacheIsCurrent'
<1> SUFFICES ASSUME TypeOK, RowsAreNumbered, WireChains, CacheIsFresh, CacheIsCurrent, [Next]_vars,
                    phase' = "open"
             PROVE  Says(cache', DeliveredOf(wire', ha', "camera"),
                                 DeliveredOf(wire', ha', "temperature"))
  BY SaysAre
<1>1. Chains(wire, ha)
  BY ChainsAre
<1>2. phase = "open" => Says(cache, DeliveredOf(wire, ha, "camera"),
                                    DeliveredOf(wire, ha, "temperature"))
  BY SaysAre
<1>3. CASE Tick \/ UNCHANGED vars
  BY <1>2, <1>3 DEF Tick, vars, collector
<1>4. CASE Fires
  <2>1. PICK e \in Entity : \E s \in States[e] : Fire(e, s)
    BY <1>4 DEF Fires
  <2>2. PICK s \in States[e] : Fire(e, s)
    BY <2>1
  <2>3. phase = "open" /\ cache' = cache
    BY <2>2 DEF Fire, collector
  <2>4. \A x \in Entity : DeliveredOf(wire', ha', x) = DeliveredOf(wire, ha, x)
    BY <1>1, <2>2, <2>3, FireKeeps
  <2> QED  BY <1>2, <2>3, <2>4, EntityAssumption
<1>5. CASE Handshake
  BY <1>5, NewCacheSays DEF Handshake, CacheIsFresh
<1>6. CASE Skip \/ Accept
  <2>1. phase = "open" /\ wire # <<>> /\ cache' = UpdateCache(Head(wire))
    BY <1>6 DEF Skip, Accept
  <2>2. wire' = Tail(wire) /\ ha' = ha
    BY <1>6, AcceptIs DEF Skip, World
  <2>3. /\ DeliveredOf(wire', ha', "camera") =
             IF Head(wire).entity = "camera" THEN Head(wire).new ELSE DeliveredOf(wire, ha, "camera")
        /\ DeliveredOf(wire', ha', "temperature") =
             IF Head(wire).entity = "temperature" THEN Head(wire).new
             ELSE DeliveredOf(wire, ha, "temperature")
    BY <1>1, <2>1, <2>2, PopKeeps
  <2>4. cache \in CacheType
    BY DEF TypeOK
  <2> QED  BY <1>2, <2>1, <2>3, <2>4, UpdateSays
<1>7. CASE Dial \/ Close \/ Wake \/ SaveFails \/ Break
  <2>1. phase' \in {"exited", "start", "sleep", "hello"}
    BY <1>7, ModeIs DEF Close, Wake, Dial, SaveFails, Break
  <2> QED  BY <2>1
<1> QED  BY <1>3, <1>4, <1>5, <1>6, <1>7, StepKinds DEF Next, Fires

-----------------------------------------------------------------------------
(* The latest row of an entity.                                             *)
Of(rows, x) == {r \in rows : r.entity = x}
TableOf(rows, lo, w, h) ==
  \A x \in Collected \ lo :
    Of(rows, x) # {} => Latest(Of(rows, x)).new = DeliveredOf(w, h, x)

LEMMA TableIs ==
  /\ TableIsCurrent <=> TableOf(events, lost, wire, ha)
  /\ TableIsCurrent' <=> TableOf(events', lost', wire', ha')
<1>1. TableIsCurrent <=>
        \A x \in Collected \ lost :
          RowsOf(x) # {} => Latest(RowsOf(x)).new = Delivered(x)
  BY Zenon DEF TableIsCurrent
<1>2. TableIsCurrent' <=>
        \A x \in Collected \ lost' :
          Of(events', x) # {} => Latest(Of(events', x)).new = (Delivered(x))'
  BY Zenon DEF TableIsCurrent, RowsOf, Of
<1>3. \A x : RowsOf(x) = Of(events, x)
  BY DEF RowsOf, Of
<1> QED  BY <1>1, <1>2, <1>3, DeliveredAre DEF TableOf

LEMMA LatestIs ==
  ASSUME NEW rows, NEW n \in rows, \A r \in rows : r.ts \in Int /\ r.id \in Int,
         \A r \in rows : r = n \/ Later(n, r)
  PROVE  Latest(rows) = n
<1>1. ASSUME NEW r \in rows, \A s \in rows : s = r \/ Later(r, s) PROVE r = n
  <2> SUFFICES ASSUME r # n PROVE FALSE
    OBVIOUS
  <2>1. Later(n, r) /\ Later(r, n)
    BY <1>1
  <2> QED  BY <2>1 DEF Later
<1> QED  BY <1>1 DEF Latest

LEMMA LatestOfNew ==
  ASSUME TypeOK, RowsAreNumbered, NEW row, row \in Row, row.id = Cardinality(events) + 1,
         \A r \in events : At(r) <= At(row)
  PROVE  /\ Latest(Of(events \cup {row}, row.entity)) = row
         /\ \A x : x # row.entity => Of(events \cup {row}, x) = Of(events, x)
<1> DEFINE rows == Of(events \cup {row}, row.entity)
<1>1. \A r \in Row : r.ts \in Int /\ r.id \in Int
  <2>1. \A r \in Row : r.ts \in Nat /\ r.id \in Nat
    BY BoundAssumption DEF Row
  <2>2. \A k \in Nat : k \in Int
    OBVIOUS
  <2> QED  BY <2>1, <2>2, Zenon
<1>2. \A r \in events : r.id < row.id
  BY AddRow DEF RowsAreNumbered, Numbered, TypeOK
<1>3. row \in rows /\ \A r \in rows : r \in Row
  BY DEF Of, TypeOK
<1>4. \A r \in rows : r = row \/ (r.id < row.id /\ r.ts <= row.ts)
  <2>1. \A r \in rows : r = row \/ r \in events
    BY DEF Of
  <2>2. \A r \in events : r.ts <= row.ts
    BY DEF At
  <2> QED  BY <1>2, <2>1, <2>2
<1> HIDE DEF rows
<1>5. \A r \in rows : r = row \/ Later(row, r)
  BY <1>1, <1>3, <1>4 DEF Later
<1>6. Latest(rows) = row
  BY <1>1, <1>3, <1>5, LatestIs
<1> QED  BY <1>6 DEF rows, Of

LEMMA TableInit == Init => TableIsCurrent
BY DEF Init, TableIsCurrent, RowsOf

LEMMA NewRowIs ==
  ASSUME TypeOK, RowsAreNumbered, InTime, Accept
  PROVE  /\ NewRow \in Row /\ At(NewRow) = When(wire, 1)
         /\ \A r \in events : At(r) <= At(NewRow)
<1>1. wire # <<>> /\ Wanted(Head(wire)) /\ cache' = UpdateCache(Head(wire))
  BY DEF Accept
<1>2. /\ Head(wire) \in Event /\ Head(wire).entity \in Collected /\ 1 \in DOMAIN wire
      /\ Head(wire) = wire[1]
  BY <1>1, HeadIs DEF Wanted
<1>3. NewRow \in Row
  BY <1>1, <1>2, CacheKeepsType, RowIsTyped DEF TypeOK, RowsAreNumbered, NewRow
<1>4. At(NewRow) = When(wire, 1)
  BY <1>2, AcceptIs DEF At, When
<1>5. \A r \in events : At(r) <= When(wire, 1)
  BY <1>2, InTimeIs DEF InTimeOf
<1> QED  BY <1>3, <1>4, <1>5

LEMMA TableStep ==
  TypeOK /\ RowsAreNumbered /\ InTime /\ WireChains /\ TableIsCurrent /\ [Next]_vars
    => TableIsCurrent'
<1> SUFFICES ASSUME TypeOK, RowsAreNumbered, InTime, WireChains, TableIsCurrent, [Next]_vars
             PROVE  TableOf(events', lost', wire', ha')
  BY TableIs
<1>1. TableOf(events, lost, wire, ha) /\ Chains(wire, ha) /\ wire \in Seq(Event)
  BY TableIs, ChainsAre DEF TypeOK
<1>2. CASE Still
  BY <1>1, <1>2 DEF Still
<1>3. CASE Fires
  <2>1. PICK e \in Entity : \E s \in States[e] : Fire(e, s)
    BY <1>3 DEF Fires
  <2>2. PICK s \in States[e] : Fire(e, s)
    BY <2>1
  <2>3. events' = events
    BY <2>2 DEF Fire, collector
  <2>4. CASE phase = "open"
    <3>1. \A x \in Entity : DeliveredOf(wire', ha', x) = DeliveredOf(wire, ha, x)
      BY <1>1, <2>2, <2>4, FireKeeps
    <3>2. lost' = lost /\ Collected \subseteq Entity
      BY <2>2, <2>4, EntityAssumption DEF Fire
    <3> QED  BY <1>1, <2>3, <3>1, <3>2 DEF TableOf
  <2>5. CASE phase # "open"
    <3>1. wire = <<>> /\ wire' = <<>>
      BY <2>2, <2>5 DEF Fire, TypeOK
    <3>2. \A x \in Collected \ lost' : x \in Collected \ lost /\ ha'[x] = ha[x]
      <4>1. ha' = [ha EXCEPT ![e] = s] /\ ha \in [Entity -> Texts]
        BY <2>2 DEF Fire, TypeOK
      <4>2. lost' = IF s = ha[e] THEN lost ELSE lost \cup {e}
        BY <2>2, <2>5 DEF Fire
      <4> QED  BY <4>1, <4>2, EntityAssumption
    <3>3. \A x \in Collected \ lost' : DeliveredOf(wire', ha', x) = DeliveredOf(wire, ha, x)
      BY <3>1, <3>2, EmptyIsThere
    <3> QED  BY <1>1, <2>3, <3>2, <3>3 DEF TableOf
  <2> QED  BY <2>4, <2>5
<1>4. CASE Popped
  <2>1. wire # <<>> /\ wire' = Tail(wire) /\ ha' = ha /\ events' = events
    BY <1>4 DEF Popped
  <2>2. Head(wire).entity \in lost' \/ Head(wire).old = Head(wire).new
    BY <1>4 DEF Popped, Unstored
  <2>3. \A x \in Collected \ lost' : /\ x \in Collected \ lost
                                    /\ DeliveredOf(wire', ha', x) = DeliveredOf(wire, ha, x)
    <3>1. lost \subseteq lost'
      BY <1>4 DEF Popped
    <3> QED  BY <1>1, <2>1, <2>2, <3>1, PopKeeps
  <2> QED  BY <1>1, <2>1, <2>3 DEF TableOf
<1>5. CASE Dropped
  <2>1. /\ wire' = <<>> /\ ha' = ha /\ events' = events
        /\ lost' = lost \cup Unstored(InFlight(wire))
    BY <1>5 DEF Dropped
  <2>2. \A x \in Collected \ lost' : /\ x \in Collected \ lost
                                    /\ DeliveredOf(wire', ha', x) = DeliveredOf(wire, ha, x)
    BY <1>1, <2>1, DropKeeps, EmptyIsThere
  <2> QED  BY <1>1, <2>1, <2>2 DEF TableOf
<1>6. CASE Accept
  <2> DEFINE x0 == Head(wire).entity
             T == Tail(wire)
  <2>1. wire # <<>> /\ ha' = ha /\ T \in Seq(Event) /\ Chains(T, ha)
    BY <1>1, <1>6, AcceptIs, PopKeeps, TailIs
  <2>2. /\ DeliveredOf(T, ha, x0) = Head(wire).new
        /\ \A x : x # x0 => DeliveredOf(T, ha, x) = DeliveredOf(wire, ha, x)
    BY <1>1, <2>1, PopKeeps
  <2>3. \A x \in Collected \ lost' :
          x # x0 => x \in Collected \ lost
    BY <1>6 DEF Accept
  <2>4. mode.dry => x0 \in lost'
    BY <1>6 DEF Accept
  <2> HIDE DEF x0, T
  <2>5. \A x \in Collected \ lost' : DeliveredOf(wire', ha', x) = DeliveredOf(T, ha, x)
    <3>1. CASE Enough
      <4>1. wire' = <<>> /\ Unstored(InFlight(T)) \subseteq lost'
        BY <1>6, <3>1 DEF Accept, T
      <4> QED  BY <2>1, <4>1, DropKeeps, EmptyIsThere
    <3>2. CASE ~Enough
      BY <1>6, <2>1, <3>2 DEF Accept, T
    <3> QED  BY <3>1, <3>2
  <2>6. CASE mode.dry
    <3>1. events' = events
      BY <1>6, <2>6, AcceptIs
    <3>2. \A x \in Collected \ lost' : x # x0
      BY <2>4, <2>6
    <3> QED  BY <1>1, <2>2, <2>3, <2>5, <3>1, <3>2 DEF TableOf
  <2>7. CASE ~mode.dry
    <3>1. /\ events' = events \cup {NewRow} /\ NewRow.id = Cardinality(events) + 1
          /\ NewRow.entity = x0 /\ NewRow.new = Head(wire).new
      BY <1>6, <2>7, AcceptIs DEF x0
    <3>2. NewRow \in Row /\ \A r \in events : At(r) <= At(NewRow)
      BY <1>6, NewRowIs
    <3>3. /\ Latest(Of(events', x0)) = NewRow
          /\ \A x : x # x0 => Of(events', x) = Of(events, x)
      BY <3>1, <3>2, LatestOfNew
    <3>4. Latest(Of(events', x0)).new = DeliveredOf(T, ha, x0)
      BY <2>2, <3>1, <3>3
    <3>5. \A x \in Collected \ lost' : x # x0 /\ Of(events', x) # {} =>
            Latest(Of(events', x)).new = DeliveredOf(T, ha, x)
      BY <1>1, <2>2, <2>3, <3>3 DEF TableOf
    <3> QED  BY <2>5, <3>4, <3>5 DEF TableOf
  <2> QED  BY <2>6, <2>7
<1> QED  BY <1>2, <1>3, <1>4, <1>5, <1>6, Effects

-----------------------------------------------------------------------------
(* The last change of an entity.                                            *)
Whose(r) == r.entity
Turns(w, i) == From(w, i) # To(w, i)
Ends(w, lc, x, i) == i \in DOMAIN w /\ Who(w, i) = x /\ Turns(w, i) /\ When(w, i) = lc[x]
ToldOf(rows, lo, w, lc) ==
  /\ \A i \in DOMAIN w : Turns(w, i) => \E j : i <= j /\ Ends(w, lc, Who(w, i), j)
  /\ \A r \in rows : At(r) <= lc[Whose(r)]
  /\ \A x \in Collected \ lo :
       \/ lc[x] = 0
       \/ \E r \in rows : Whose(r) = x /\ At(r) = lc[x]
       \/ \E i : Ends(w, lc, x, i)

LEMMA ToldIs ==
  /\ LastChangeIsTold <=> ToldOf(events, lost, wire, lastChange)
  /\ LastChangeIsTold' <=> ToldOf(events', lost', wire', lastChange')
<1>1. LastChangeIsTold <=> ToldOf(events, lost, wire, lastChange)
  BY DEF LastChangeIsTold, ToldOf, Ends, Turns, Changes, From, To, Who, When, At, Whose,
         RowsOf, Pending
<1>2. LastChangeIsTold' <=> ToldOf(events', lost', wire', lastChange')
  BY DEF LastChangeIsTold, ToldOf, Ends, Turns, Changes, From, To, Who, When, At, Whose,
         RowsOf, Pending
<1> QED  BY <1>1, <1>2

LEMMA ToldInit == Init => LastChangeIsTold
<1> SUFFICES ASSUME Init PROVE LastChangeIsTold
  OBVIOUS
<1>1. events = {} /\ DOMAIN wire = {} /\ \A x \in Collected : lastChange[x] = 0
  BY EntityAssumption DEF Init
<1> QED  BY <1>1 DEF LastChangeIsTold

(* An event under way that changes something is not after the last change.  *)
LEMMA TurnsBefore ==
  ASSUME TypeOK, InTime, LastChangeIsTold, NEW i \in DOMAIN wire, Turns(wire, i)
  PROVE  \E j \in DOMAIN wire : /\ i <= j /\ Ends(wire, lastChange, Who(wire, i), j)
                               /\ When(wire, i) <= lastChange[Who(wire, i)]
<1>1. PICK j : i <= j /\ Ends(wire, lastChange, Who(wire, i), j)
  BY ToldIs DEF ToldOf
<1>2. j \in DOMAIN wire /\ When(wire, j) = lastChange[Who(wire, i)]
  BY <1>1 DEF Ends
<1>3. DOMAIN wire = 1 .. Len(wire) /\ Len(wire) \in Nat
  BY WireIs DEF TypeOK
<1>4. i < j \/ i = j
  BY <1>1, <1>2, <1>3
<1>5. When(wire, i) <= When(wire, j)
  BY <1>2, <1>4, InTimeIs, TimesAre DEF InTimeOf
<1> QED  BY <1>1, <1>2, <1>5

LEMMA ToldStep ==
  TypeOK /\ RowsAreNumbered /\ InTime /\ LastChangeIsTold /\ [Next]_vars => LastChangeIsTold'
<1> SUFFICES ASSUME TypeOK, RowsAreNumbered, InTime, LastChangeIsTold, [Next]_vars
             PROVE  ToldOf(events', lost', wire', lastChange')
  BY ToldIs
<1>1. ToldOf(events, lost, wire, lastChange) /\ wire \in Seq(Event)
  BY ToldIs DEF TypeOK
<1>2. CASE Still
  BY <1>1, <1>2 DEF Still
<1>3. CASE Fires
  <2>1. PICK e \in Entity : \E s \in States[e] : Fire(e, s)
    BY <1>3 DEF Fires
  <2>2. PICK s \in States[e] : Fire(e, s)
    BY <2>1
  <2> DEFINE lc == lastChange'
  <2>3. events' = events
    BY <2>2 DEF Fire, collector
  <2>4. /\ \A x \in Entity : x # e => lc[x] = lastChange[x]
        /\ s = ha[e] => lc[e] = lastChange[e]
        /\ s # ha[e] => lc[e] = now
    <3>1. lastChange \in [Entity -> Times \cup {0}]
      BY DEF TypeOK
    <3> QED  BY <2>2, <3>1 DEF Fire
  <2> HIDE DEF lc
  <2>5. \A r \in events : At(r) <= lc[Whose(r)]
    <3> SUFFICES ASSUME NEW r \in events PROVE At(r) <= lc[Whose(r)]
      OBVIOUS
    <3>1. At(r) <= lastChange[Whose(r)] /\ At(r) <= now
      BY <1>1, InTimeIs DEF ToldOf, InTimeOf
    <3>2. Whose(r) \in Entity
      <4>1. \A q \in Row : q.entity \in Collected
        BY DEF Row
      <4> QED  BY <4>1, EntityAssumption DEF TypeOK, Whose
    <3>3. lc[Whose(r)] = lastChange[Whose(r)] \/ lc[Whose(r)] = now
      BY <2>4, <3>2
    <3> QED  BY <3>1, <3>3
  <2>6. CASE phase # "open"
    <3>1. wire' = <<>> /\ wire = <<>> /\ DOMAIN wire' = {} /\ DOMAIN wire = {}
      BY <2>2, <2>6 DEF Fire, TypeOK
    <3>2. \A x \in Collected \ lost' : x \in Collected \ lost /\ lc[x] = lastChange[x]
      <4>1. lost' = IF s = ha[e] THEN lost ELSE lost \cup {e}
        BY <2>2, <2>6 DEF Fire
      <4> QED  BY <2>4, <4>1, EntityAssumption
    <3> QED  BY <1>1, <2>3, <2>5, <3>1, <3>2 DEF ToldOf, Ends, lc
  <2>7. CASE phase = "open"
    <3> DEFINE ev == [entity |-> e, old |-> ha[e], new |-> s, ts |-> now]
               n == Len(wire)
               v == wire'
    <3>1. wire' = Append(wire, ev) /\ lost' = lost
      BY <2>2, <2>7 DEF Fire
    <3>2. ev \in Event /\ ev.entity = e /\ ev.old = ha[e] /\ ev.new = s /\ ev.ts = now
      BY DEF Event, TypeOK, Texts
    <3> HIDE DEF ev
    <3>3. /\ DOMAIN wire = 1 .. n /\ DOMAIN v = 1 .. n + 1 /\ n \in Nat
          /\ \A i \in 1 .. n : v[i] = wire[i]
          /\ v[n + 1] = ev
      BY <1>1, <3>1, <3>2, AppendProperties, WireIs
    <3>4. /\ \A i \in 1 .. n :
               Who(v, i) = Who(wire, i) /\ When(v, i) = When(wire, i)
                 /\ (Turns(v, i) <=> Turns(wire, i))
          /\ Who(v, n + 1) = e /\ When(v, n + 1) = now /\ (Turns(v, n + 1) <=> s # ha[e])
      BY <3>2, <3>3, Zenon DEF Who, When, Turns, From, To
    <3> HIDE DEF n, v
    <3>5. \A i \in 1 .. n : Who(wire, i) \in Entity
      BY <3>3, WhoAreEntities
    <3>6. \A x \in Entity : x # e \/ s = ha[e] =>
            \A i : Ends(wire, lastChange, x, i) => Ends(v, lc, x, i)
      BY <2>4, <3>3, <3>4 DEF Ends
    <3>7. s # ha[e] => Ends(v, lc, e, n + 1)
      BY <2>4, <3>3, <3>4 DEF Ends
    <3>8. ASSUME NEW i \in DOMAIN v, Turns(v, i)
          PROVE  \E j : i <= j /\ Ends(v, lc, Who(v, i), j)
      <4>1. CASE Who(v, i) = e /\ s # ha[e]
        BY <3>3, <3>7, <4>1
      <4>2. CASE ~(Who(v, i) = e /\ s # ha[e])
        <5>1. i \in 1 .. n /\ Turns(wire, i) /\ Who(v, i) = Who(wire, i)
          <6>1. i # n + 1
            BY <3>4, <3>8, <4>2
          <6>2. i \in 1 .. n
            BY <3>3, <6>1
          <6>3. Who(v, i) = Who(wire, i) /\ (Turns(v, i) <=> Turns(wire, i))
            BY <3>4, <6>2
          <6> QED  BY <3>8, <6>2, <6>3
        <5>2. PICK j : i <= j /\ Ends(wire, lastChange, Who(wire, i), j)
          BY <1>1, <3>3, <5>1 DEF ToldOf
        <5> QED  BY <3>5, <3>6, <4>2, <5>1, <5>2
      <4> QED  BY <4>1, <4>2
    <3>9. ASSUME NEW x \in Collected \ lost
          PROVE  lc[x] = 0 \/ (\E r \in events : Whose(r) = x /\ At(r) = lc[x])
                   \/ \E i : Ends(v, lc, x, i)
      <4>1. CASE x = e /\ s # ha[e]
        BY <3>7, <4>1
      <4>2. CASE ~(x = e /\ s # ha[e])
        <5>1. lc[x] = lastChange[x] /\ x \in Entity
          BY <2>4, <4>2, EntityAssumption
        <5> QED  BY <1>1, <3>6, <4>2, <5>1 DEF ToldOf
      <4> QED  BY <4>1, <4>2
    <3> QED  BY <2>3, <2>5, <3>1, <3>8, <3>9 DEF ToldOf, v, lc
  <2> QED  BY <2>6, <2>7
<1>4. ASSUME NEW x, x \notin Unstored(InFlight(wire)), NEW i PROVE ~Ends(wire, lastChange, x, i)
  BY <1>1, <1>4, UnstoredIs DEF Ends, Turns
<1>5. CASE Dropped
  <2>1. DOMAIN wire' = {} /\ UNCHANGED <<events, lastChange>>
    BY <1>5 DEF Dropped
  <2>2. lost' = lost \cup Unstored(InFlight(wire))
    BY <1>5 DEF Dropped
  <2> QED  BY <1>1, <1>4, <2>1, <2>2 DEF ToldOf
<1>6. ASSUME wire # <<>>
      PROVE  /\ \A x, i : Ends(wire, lastChange, x, i) /\ i # 1 => Ends(Tail(wire), lastChange, x, i - 1)
             /\ \A i \in DOMAIN Tail(wire) : Turns(Tail(wire), i) =>
                  \E j : i <= j /\ Ends(Tail(wire), lastChange, Who(Tail(wire), i), j)
             /\ Ends(wire, lastChange, Who(wire, 1), 1) => Turns(wire, 1)
  <2> DEFINE n == Len(wire)
             v == Tail(wire)
  <2>1. /\ DOMAIN wire = 1 .. n /\ DOMAIN v = 1 .. n - 1 /\ n \in Nat /\ n >= 1
        /\ \A i \in 1 .. n - 1 : v[i] = wire[i + 1]
    BY <1>1, <1>6, TailIs
  <2>2. \A i \in 1 .. n - 1 :
          Who(v, i) = Who(wire, i + 1) /\ When(v, i) = When(wire, i + 1)
            /\ (Turns(v, i) <=> Turns(wire, i + 1))
    BY <2>1, Zenon DEF Who, When, Turns, From, To
  <2> HIDE DEF n, v
  <2>3. \A x, i : Ends(wire, lastChange, x, i) /\ i # 1 => Ends(v, lastChange, x, i - 1)
    <3> SUFFICES ASSUME NEW x, NEW i, Ends(wire, lastChange, x, i), i # 1
                 PROVE  Ends(v, lastChange, x, i - 1)
      OBVIOUS
    <3>1. i \in 1 .. n
      BY <2>1 DEF Ends
    <3>2. i - 1 \in 1 .. n - 1 /\ (i - 1) + 1 = i
      BY <2>1, <3>1
    <3> DEFINE k == i - 1
    <3>4. k \in 1 .. n - 1 /\ k + 1 = i
      BY <3>2
    <3> HIDE DEF k
    <3>3. /\ Who(v, k) = Who(wire, i) /\ When(v, k) = When(wire, i)
          /\ Turns(v, k) <=> Turns(wire, i)
      BY <2>2, <3>4
    <3>5. k \in DOMAIN v
      BY <2>1, <3>4
    <3>6. Who(wire, i) = x /\ Turns(wire, i) /\ When(wire, i) = lastChange[x]
      BY DEF Ends
    <3>7. Ends(v, lastChange, x, k)
      BY <3>3, <3>5, <3>6 DEF Ends
    <3> QED  BY <3>7 DEF k
  <2>4. ASSUME NEW i \in DOMAIN v, Turns(v, i)
        PROVE  \E j : i <= j /\ Ends(v, lastChange, Who(v, i), j)
    <3>0. i \in 1 .. n - 1 /\ i + 1 \in DOMAIN wire
      BY <2>1
    <3>5. Who(v, i) = Who(wire, i + 1) /\ (Turns(v, i) <=> Turns(wire, i + 1))
      BY <2>2, <3>0
    <3>1. /\ i \in 1 .. n - 1 /\ i + 1 \in DOMAIN wire /\ Turns(wire, i + 1)
          /\ Who(v, i) = Who(wire, i + 1)
      BY <2>4, <3>0, <3>5
    <3>2. PICK j : i + 1 <= j /\ Ends(wire, lastChange, Who(wire, i + 1), j)
      BY <1>1, <3>1 DEF ToldOf
    <3>3. j \in 1 .. n
      BY <2>1, <3>2 DEF Ends
    <3>4. j # 1 /\ i <= j - 1
      BY <2>1, <3>1, <3>2, <3>3
    <3> QED  BY <2>3, <3>1, <3>2, <3>4
  <2> QED  BY <2>3, <2>4 DEF Ends, v
<1>7. CASE Popped
  <2>1. /\ wire # <<>> /\ wire' = Tail(wire) /\ UNCHANGED <<events, lastChange>>
        /\ ~Wanted(Head(wire)) /\ lost \subseteq lost'
    BY <1>7 DEF Popped
  <2>2. \A x \in Collected : ~Ends(wire, lastChange, x, 1)
    BY <2>1, HeadIs DEF Ends, Turns, Wanted
  <2> QED  BY <1>1, <1>6, <2>1, <2>2 DEF ToldOf
<1>8. CASE Accept
  <2> DEFINE x0 == Head(wire).entity
             T == Tail(wire)
  <2>1. wire # <<>> /\ UNCHANGED lastChange /\ T \in Seq(Event) /\ x0 = Who(wire, 1)
        /\ 1 \in DOMAIN wire /\ Turns(wire, 1)
    BY <1>1, <1>8, AcceptIs, TailIs, HeadIs DEF Wanted, Turns
  <2>2. \A x \in Collected \ lost' : x # x0 => x \in Collected \ lost
    BY <1>8 DEF Accept
  <2>3. mode.dry => x0 \in lost' /\ events' = events
    BY <1>8, AcceptIs DEF Accept
  <2>4. ~mode.dry => /\ events' = events \cup {NewRow} /\ Whose(NewRow) = x0
                     /\ At(NewRow) = When(wire, 1)
    BY <1>8, AcceptIs, NewRowIs DEF Whose
  <2>5. \/ wire' = T
        \/ wire' = <<>> /\ Unstored(InFlight(T)) \subseteq lost'
    BY <1>8 DEF Accept
  <2>6. /\ \A x, i : Ends(wire, lastChange, x, i) /\ i # 1 => Ends(T, lastChange, x, i - 1)
        /\ \A i \in DOMAIN T : Turns(T, i) =>
             \E j : i <= j /\ Ends(T, lastChange, Who(T, i), j)
    BY <1>6, <2>1
  <2> HIDE DEF x0, T
  <2>7. \A i \in DOMAIN wire' : Turns(wire', i) =>
          \E j : i <= j /\ Ends(wire', lastChange, Who(wire', i), j)
    <3>1. DOMAIN <<>> = {}
      OBVIOUS
    <3> QED  BY <2>5, <2>6, <3>1
  <2>8. \A r \in events' : At(r) <= lastChange[Whose(r)]
    <3>1. When(wire, 1) <= lastChange[x0]
      BY <2>1, TurnsBefore
    <3>2. \A r \in events : At(r) <= lastChange[Whose(r)]
      BY <1>1 DEF ToldOf
    <3> QED  BY <2>3, <2>4, <3>1, <3>2
  <2>9. ASSUME NEW x \in Collected \ lost', NEW i, Ends(wire, lastChange, x, i), i # 1
        PROVE  \E j : Ends(wire', lastChange, x, j)
    <3>1. Ends(T, lastChange, x, i - 1)
      BY <2>6, <2>9
    <3>2. x \in Unstored(InFlight(T))
      BY <2>1, <3>1, UnstoredIs DEF Ends, Turns
    <3> QED  BY <2>5, <3>1, <3>2
  <2>10. ASSUME NEW x \in Collected \ lost'
         PROVE  \/ lastChange[x] = 0
                \/ \E r \in events' : Whose(r) = x /\ At(r) = lastChange[x]
                \/ \E j : Ends(wire', lastChange, x, j)
    <3>1. CASE x = x0
      <4>1. ~mode.dry
        BY <2>3, <3>1
      <4>2. PICK i : Ends(wire, lastChange, x, i)
        BY <1>1, <2>1, <3>1 DEF ToldOf
      <4>3. CASE i = 1
        BY <2>4, <3>1, <4>1, <4>2, <4>3 DEF Ends
      <4> QED  BY <2>9, <4>2, <4>3
    <3>2. CASE x # x0
      <4>1. x \in Collected \ lost
        BY <2>2, <3>2
      <4>2. \A i : Ends(wire, lastChange, x, i) => i # 1
        BY <2>1, <3>2 DEF Ends
      <4>3. events \subseteq events'
        BY <2>3, <2>4
      <4> QED  BY <1>1, <2>9, <4>1, <4>2, <4>3 DEF ToldOf
    <3> QED  BY <3>1, <3>2
  <2> QED  BY <2>1, <2>7, <2>8, <2>10 DEF ToldOf
<1> QED  BY <1>2, <1>3, <1>5, <1>7, <1>8, Effects

-----------------------------------------------------------------------------
(* The invariant.                                                           *)
LEMMA InvInit == LoopInit => IInv
BY TypeInit, NumberInit, TimeInit, ChainInit, FreshInit, CacheInit, TableInit, ToldInit
DEF LoopInit, IInv

LEMMA InvStep == IInv /\ [LoopNext]_loopVars => IInv'
<1> SUFFICES ASSUME IInv, [LoopNext]_loopVars PROVE IInv'
  OBVIOUS
<1>1. [Next]_vars
  BY DEF LoopNext, Load, EndRun, loopVars
<1>2. IsFiniteSet(events)
  BY DEF IInv, RowsAreNumbered
<1>3. TypeOK' /\ RowsAreNumbered' /\ InTime' /\ WireChains'
  BY <1>1, <1>2, TypeStep, NumberStep, TimeStep, ChainStep DEF IInv
<1>4. CacheIsFresh' /\ CacheIsCurrent'
  BY <1>1, FreshStep, CacheStep DEF IInv
<1>5. TableIsCurrent' /\ LastChangeIsTold'
  BY <1>1, TableStep, ToldStep DEF IInv
<1> QED  BY <1>3, <1>4, <1>5 DEF IInv

(* Whatever is fired, lost, repeated or refused, the rows are numbered and  *)
(* in the order of time; the context stored with them is what Home          *)
(* Assistant last said in this session, or that nothing is known; the       *)
(* latest row of an entity is its state, and the time of its last change is *)
(* that of one of its rows, unless a change of it was lost                  *)
(* (data_collector.py:229-240, 242-271).                                    *)
THEOREM Invariance == LoopSpec => []IInv
<1>1. LoopInit => IInv
  BY InvInit
<1>2. IInv /\ [LoopNext]_loopVars => IInv'
  BY InvStep
<1> QED  BY <1>1, <1>2, PTL DEF LoopSpec

-----------------------------------------------------------------------------
(* What the policy is given, and what it lets through.                      *)
LEMMA SamePolicy ==
  ASSUME NEW x
  PROVE  Policy!Evaluate(x) = Decision!Evaluate(x)
<1>1. Policy!Rules(x) = Decision!Rules(x)
  BY DEF Policy!Rules, Decision!Rules, Policy!Rule, Decision!Rule, Policy!Dev, Decision!Dev,
         Policy!NoDevice, Decision!NoDevice, Policy!Overdue, Decision!Overdue,
         Policy!ValidPreArrival, Decision!ValidPreArrival,
         Policy!EnvironmentReason, Decision!EnvironmentReason,
         Policy!ConfirmReason, Decision!ConfirmReason, Policy!Observed, Decision!Observed,
         Policy!NeedsConfirm, Decision!NeedsConfirm,
         Policy!confidence_threshold, Decision!confidence_threshold,
         Policy!cooldown_seconds, Decision!cooldown_seconds
<1> QED  BY <1>1 DEF Policy!Evaluate, Decision!Evaluate

(* The agent reads all the rows with a number up to loaded: the collector   *)
(* marks none of them as the agent's.                                       *)
LEMMA RowsRead ==
  ASSUME TypeOK
  PROVE  df = {r \in events : r.id <= loaded}
<1>1. \A r \in Row : r.source = "ha_websocket" /\ r.user = "uuid"
  BY DEF Row
<1>2. \A r \in events : r.source # "agent" /\ r.user \notin {"agent", "behavior_agent"}
  BY <1>1 DEF TypeOK
<1> QED  BY <1>2 DEF df, LoadEvents

LEMMA LatestIsRow ==
  ASSUME TypeOK, RowsAreNumbered, NEW rows \in SUBSET events, rows # {}
  PROVE  /\ Latest(rows) \in rows
         /\ \A s \in rows : s.ts <= Latest(rows).ts
<1>1. IsFiniteSet(rows) /\ \A r, s \in rows : r.id = s.id => r = s
  BY FS_Subset DEF RowsAreNumbered
<1>2. \A r \in rows : r.ts \in Int /\ r.id \in Int
  <2>1. \A r \in Row : r.ts \in Nat /\ r.id \in Nat
    BY BoundAssumption DEF Row
  <2>2. \A k \in Nat : k \in Int
    OBVIOUS
  <2> QED  BY <2>1, <2>2, Zenon DEF TypeOK
<1>3. Decision!Latest(rows) = Latest(rows)
  BY DEF Decision!Latest, Latest, Decision!Later, Later
<1>4. /\ Decision!Latest(rows) \in rows
      /\ \A s \in rows : s = Decision!Latest(rows) \/ Decision!Later(Decision!Latest(rows), s)
  BY <1>1, <1>2, FloatAssumption, Decision!LatestExists DEF IsFiniteSet, Decision!IsFiniteSet
<1>5. \A s \in rows : s = Latest(rows) \/ s.ts <= Latest(rows).ts
  BY <1>2, <1>3, <1>4 DEF Decision!Later
<1> QED  BY <1>2, <1>3, <1>4, <1>5

LEMMA SinceIsTime ==
  ASSUME TypeOK, RowsAreNumbered, NEW rows \in SUBSET events, NEW x
  PROVE  TimeSinceLastChange(rows, x, now) \in Int
<1> DEFINE past == {r \in rows : r.entity = x /\ r.ts < now}
<1>1. CASE past = {}
  BY <1>1 DEF TimeSinceLastChange, Never
<1>2. CASE past # {}
  <2>1. past \in SUBSET events
    OBVIOUS
  <2>2. Latest(past) \in past
    BY <1>2, <2>1, LatestIsRow
  <2>3. Latest(past).ts \in Nat /\ now \in Nat
    BY <2>1, <2>2, TimesAre DEF At
  <2>4. TimeSinceLastChange(rows, x, now) = 60 * (now - Latest(past).ts)
    BY <1>2 DEF TimeSinceLastChange
  <2> QED  BY <2>3, <2>4
<1> QED  BY <1>1, <1>2

(* What _policy_context makes of the rows has the types the policy expects. *)
LEMMA ContextIsTyped ==
  ASSUME TypeOK, RowsAreNumbered, NEW rows \in SUBSET events, NEW x
  PROVE  PolicyContext(rows, x, now) \in Decision!ContextType
<1> DEFINE ctx == GetContextAt(rows, now)
           since == TimeSinceLastChange(rows, x, now)
           prev == IF StateAt(rows, x, now) = "on" THEN 1 ELSE 0
           s == IF since < OneDay THEN since ELSE OneDay
           t2 == RecentToggleCount(rows, x, now, 2)
           t5 == RecentToggleCount(rows, x, now, 5)
<1>1. IsFiniteSet(rows) /\ now \in Nat
  BY FS_Subset, TimesAre DEF RowsAreNumbered
<1>2. t2 \in Nat /\ t5 \in Nat
  <2>1. \A m : IsFiniteSet({r \in rows : r.entity = x /\ r.ts \in now - m .. now})
    <3> SUFFICES ASSUME NEW m
                 PROVE  IsFiniteSet({r \in rows : r.entity = x /\ r.ts \in now - m .. now})
      OBVIOUS
    <3>1. {r \in rows : r.entity = x /\ r.ts \in now - m .. now} \in SUBSET rows
      OBVIOUS
    <3> QED  BY <1>1, <3>1, FS_Subset
  <2> QED  BY <2>1, FS_CardinalityType DEF RecentToggleCount
<1>3. s \in Int
  BY SinceIsTime DEF OneDay
<1>4. MinuteOfDay(now) \in Int
  BY <1>1 DEF MinuteOfDay
<1>5. ctx.predicted \in Int /\ ctx.minutesAfter \in Int
  <2> DEFINE late == MinuteOfDay(now) - EXPECTED_ARRIVAL_MINUTE
  <2>1. ctx.predicted = 0 - late /\ ctx.minutesAfter = IF late > 0 THEN late ELSE 0
    BY DEF GetContextAt
  <2>2. late \in Int
    BY <1>4 DEF EXPECTED_ARRIVAL_MINUTE
  <2> HIDE DEF late
  <2> QED  BY <2>1, <2>2
<1>6. /\ ctx.overdue \in BOOLEAN /\ ctx.home \in BOOLEAN /\ ctx.window \in BOOLEAN
      /\ ctx.hot \in BOOLEAN /\ ctx.humid \in BOOLEAN /\ ctx.dry \in BOOLEAN
  <2>1. ctx.overdue \in BOOLEAN
    BY DEF GetContextAt
  <2>2. ctx.home \in BOOLEAN
    BY DEF GetContextAt, Recent
  <2>3. ctx.window \in BOOLEAN
    BY DEF GetContextAt
  <2>4. ctx.hot \in BOOLEAN /\ ctx.humid \in BOOLEAN
    BY DEF GetContextAt, AtLeast
  <2>5. ctx.dry \in BOOLEAN
    BY DEF GetContextAt
  <2> QED  BY <2>1, <2>2, <2>3, <2>4, <2>5
<1>7. prev \in {0, 1}
  OBVIOUS
<1>8. PolicyContext(rows, x, now) =
        [prev_state |-> prev, sinceChange |-> s, toggles2 |-> t2, toggles5 |-> t5,
         override |-> FALSE,
         overdue |-> ctx.overdue, minutesAfter |-> ctx.minutesAfter, home |-> ctx.home,
         window |-> ctx.window, predicted |-> ctx.predicted,
         hot |-> ctx.hot, humid |-> ctx.humid, dry |-> ctx.dry]
  BY DEF PolicyContext
<1> HIDE DEF ctx, since, prev, s, t2, t5
<1> QED  BY <1>2, <1>3, <1>5, <1>6, <1>7, <1>8 DEF Decision!ContextType

(* What the policy lets through alone, in the terms of the rows: no row of  *)
(* the device in the last two minutes, none in the last 300 s, and the      *)
(* state it is switched from.                                               *)
LEMMA AllowsWhat ==
  ASSUME TypeOK, RowsAreNumbered, NEW x, NEW action \in {"turn_on", "turn_off"},
         Allowed(x, action)
  PROVE  LET c == PolicyContext(df, x, now) IN
         /\ c.toggles2 = 0 /\ c.sinceChange >= 300
         /\ \/ action = "turn_off" /\ c.prev_state = 1
            \/ /\ action = "turn_on" /\ c.prev_state = 0
               /\ c.home \/ (c.predicted >= 10 /\ c.predicted <= 15)
<1> DEFINE c == PolicyContext(df, x, now)
           inp == [device |-> Fan, action |-> action, confidence |-> 100, ctx |-> c]
<1>1. df \in SUBSET events
  BY RowsRead
<1>2. c \in Decision!ContextType
  BY <1>1, ContextIsTyped
<1>3. Fan = Decision!Dev("fan", "auto", "low") /\ Fan \in Decision!Known
  BY DEF Fan, Policy!Dev, Decision!Dev, Decision!Known, Decision!DEVICES
<1>4. inp \in Decision!InputType(Decision!Known)
  <2> HIDE DEF c
  <2> QED  BY <1>2, <1>3 DEF Decision!InputType
<1>5. Policy!Evaluate(inp).decision = "allow"
  BY DEF Allowed
<1>6. Decision!Evaluate(inp).decision = "allow"
  BY <1>5, SamePolicy
<1>7. Decision!MayActAlone(inp)
  <2> HIDE DEF inp
  <2> QED  BY <1>4, <1>6, FloatAssumption, Decision!AllowsOnlyThat
<1>8. inp.action = action /\ inp.ctx = c
  OBVIOUS
<1>9. Decision!Settled(c)
  BY <1>7, <1>8, Zenon DEF Decision!MayActAlone
<1>10. \/ action = "turn_off" /\ c.prev_state = 1
       \/ /\ action = "turn_on" /\ c.prev_state = 0
          /\ c.home \/ Decision!Expected(c)
  BY <1>7, <1>8, Zenon DEF Decision!MayActAlone
<1> HIDE DEF c
<1>11. c.toggles2 = 0 /\ c.sinceChange >= 300
  BY <1>9 DEF Decision!Settled, Decision!cooldown_seconds
<1> QED  BY <1>10, <1>11 DEF Decision!Expected, c

(* The fields of the context that the two theorems turn on.                 *)
LEMMA FieldsAre ==
  ASSUME NEW rows, NEW x
  PROVE  LET c == PolicyContext(rows, x, now) IN
         /\ c.toggles2 = RecentToggleCount(rows, x, now, 2)
         /\ c.prev_state = IF StateAt(rows, x, now) = "on" THEN 1 ELSE 0
         /\ c.sinceChange = IF TimeSinceLastChange(rows, x, now) < OneDay
                            THEN TimeSinceLastChange(rows, x, now) ELSE OneDay
         /\ c.predicted = 0 - (MinuteOfDay(now) - EXPECTED_ARRIVAL_MINUTE)
         /\ c.home = \/ Recent(rows, "door", now, 20, {"open"})
                     \/ Recent(rows, "camera", now, 20, Seen)
                     \/ StateAt(rows, "camera", now) \in Seen
<1> DEFINE ctx == GetContextAt(rows, now)
<1>1. ctx.predicted = 0 - (MinuteOfDay(now) - EXPECTED_ARRIVAL_MINUTE)
  BY DEF GetContextAt
<1>2. ctx.home = \/ Recent(rows, "door", now, 20, {"open"})
                 \/ Recent(rows, "camera", now, 20, Seen)
                 \/ StateAt(rows, "camera", now) \in Seen
  BY DEF GetContextAt
<1>3. LET c == PolicyContext(rows, x, now) IN
      /\ c.toggles2 = RecentToggleCount(rows, x, now, 2)
      /\ c.prev_state = IF StateAt(rows, x, now) = "on" THEN 1 ELSE 0
      /\ c.sinceChange = IF TimeSinceLastChange(rows, x, now) < OneDay
                         THEN TimeSinceLastChange(rows, x, now) ELSE OneDay
      /\ c.predicted = ctx.predicted /\ c.home = ctx.home
  <2> HIDE DEF ctx
  <2> QED  BY DEF PolicyContext, ctx
<1> HIDE DEF ctx
<1> QED  BY <1>1, <1>2, <1>3

(* What the run reads of an entity it knows all about: all of its rows, of  *)
(* which the latest gives the state that Home Assistant holds.              *)
LEMMA KnownIsRead ==
  ASSUME IInv, NEW x, Known(x), NEW r0 \in events, r0.entity = x
  PROVE  /\ x \in Collected /\ x \in Entity
         /\ \A r \in events : r.entity = x => r \in df
         /\ StateAt(df, x, now) = ha[x]
<1>0. TypeOK /\ RowsAreNumbered /\ InTime /\ TableIsCurrent
  BY DEF IInv
<1>1. x \in Collected /\ x \in Entity
  <2>1. r0 \in Row
    BY <1>0 DEF TypeOK
  <2> QED  BY <2>1, EntityAssumption DEF Row
<1>2. \A r \in events : r.entity = x => r \in df
  BY <1>0, RowsRead DEF Known
<1>3. {r \in df : r.entity = x /\ r.ts <= now} = RowsOf(x)
  <2>1. \A r \in events : r.ts <= now
    BY <1>0 DEF InTime
  <2>2. df \in SUBSET events
    BY <1>0, RowsRead
  <2> QED  BY <1>2, <2>1, <2>2 DEF RowsOf
<1>4. RowsOf(x) # {}
  BY DEF RowsOf
<1>5. Delivered(x) = ha[x]
  <2>1. \A i \in DOMAIN wire : Who(wire, i) # x
    BY DEF Known, Who
  <2> QED  BY <2>1, DeliveredNone, DeliveredAre
<1>6. Latest(RowsOf(x)).new = ha[x]
  BY <1>0, <1>1, <1>4, <1>5 DEF TableIsCurrent, Known
<1>7. StateAt(df, x, now) = ha[x]
  BY <1>3, <1>4, <1>6 DEF StateAt
<1> QED  BY <1>1, <1>2, <1>7

(* An allowed action is no echo of a change within the last 300 s: such a   *)
(* change is a row, which either counts as a toggle or is the last change.  *)
LEMMA LongUnchanged ==
  ASSUME IInv, NEW x, Known(x), NEW r0 \in events, r0.entity = x,
         RecentToggleCount(df, x, now, 2) = 0,
         TimeSinceLastChange(df, x, now) >= 300
  PROVE  now - lastChange[x] >= 5
<1>0. TypeOK /\ RowsAreNumbered /\ InTime /\ LastChangeIsTold
  BY DEF IInv
<1>1. /\ x \in Collected /\ x \in Entity
      /\ \A r \in events : r.entity = x => r \in df
  BY KnownIsRead
<1>2. df \in SUBSET events
  BY <1>0, RowsRead
<1>3. /\ now \in Nat /\ lastChange[x] \in Nat
      /\ \A r \in events : r.ts \in Nat /\ r.ts <= now
  BY <1>0, <1>1, TimesAre DEF At, InTime
<1> DEFINE past == {r \in df : r.entity = x /\ r.ts < now}
           near == {r \in df : r.entity = x /\ r.ts \in now - 2 .. now}
<1>4. past \in SUBSET events /\ near \in SUBSET events
  BY <1>2
<1>5. \A r \in events : r.entity = x => r \in past
  <2>1. IsFiniteSet(near)
    BY <1>0, <1>4, FS_Subset DEF RowsAreNumbered
  <2>2. Cardinality(near) = 0
    BY DEF RecentToggleCount
  <2>3. near = {}
    BY <2>1, <2>2, FS_EmptySet
  <2> SUFFICES ASSUME NEW r \in events, r.entity = x PROVE r \in past
    OBVIOUS
  <2>4. r \in df /\ r \notin near
    BY <1>1, <2>3
  <2>5. r.ts \notin now - 2 .. now
    BY <2>4
  <2>6. r.ts < now
    BY <1>3, <2>5
  <2> QED  BY <2>4, <2>6
<1>6. past # {}
  BY <1>5
<1>7. /\ Latest(past) \in past
      /\ \A r \in past : r.ts <= Latest(past).ts
  BY <1>0, <1>4, <1>6, LatestIsRow
<1>8. TimeSinceLastChange(df, x, now) = 60 * (now - Latest(past).ts)
  BY <1>6 DEF TimeSinceLastChange
<1>9. Latest(past).ts \in Nat
  BY <1>3, <1>4, <1>7
<1>10. now - Latest(past).ts >= 5
  BY <1>3, <1>8, <1>9
<1>11. CASE lastChange[x] = 0
  BY <1>3, <1>9, <1>10, <1>11
<1>12. CASE \E r \in RowsOf(x) : r.ts = lastChange[x]
  <2>1. PICK r \in events : r.entity = x /\ r.ts = lastChange[x]
    BY <1>12 DEF RowsOf
  <2>2. r.ts <= Latest(past).ts
    BY <1>5, <1>7, <2>1
  <2> QED  BY <1>3, <1>9, <1>10, <2>1, <2>2
<1>13. \A i \in Pending(x) : FALSE
  BY DEF Pending, Known
<1>14. x \in Collected \ lost
  BY <1>1 DEF Known
<1> QED  BY <1>0, <1>11, <1>12, <1>13, <1>14 DEF LastChangeIsTold

LEMMA RealStateHolds == IInv => ActsOnRealState
<1> SUFFICES ASSUME IInv, NEW action \in {"turn_on", "turn_off"},
                    Allowed("fan", action), OnRecord("fan")
             PROVE  /\ (ha["fan"] = "on") = (action = "turn_off")
                    /\ now - lastChange["fan"] >= 5
  BY DEF ActsOnRealState
<1>1. TypeOK /\ RowsAreNumbered
  BY DEF IInv
<1>2. PICK r0 \in events : r0.entity = "fan"
  BY DEF OnRecord
<1>3. Known("fan")
  BY DEF OnRecord
<1>4. StateAt(df, "fan", now) = ha["fan"]
  BY <1>2, <1>3, KnownIsRead
<1> DEFINE c == PolicyContext(df, "fan", now)
<1>5. /\ c.toggles2 = 0 /\ c.sinceChange >= 300
      /\ \/ action = "turn_off" /\ c.prev_state = 1
         \/ action = "turn_on" /\ c.prev_state = 0
  BY <1>1, AllowsWhat
<1>6. /\ c.toggles2 = RecentToggleCount(df, "fan", now, 2)
      /\ c.prev_state = IF StateAt(df, "fan", now) = "on" THEN 1 ELSE 0
      /\ c.sinceChange = IF TimeSinceLastChange(df, "fan", now) < OneDay
                         THEN TimeSinceLastChange(df, "fan", now) ELSE OneDay
  BY FieldsAre
<1> HIDE DEF c
<1>7. (ha["fan"] = "on") = (action = "turn_off")
  BY <1>4, <1>5, <1>6
<1>8. RecentToggleCount(df, "fan", now, 2) = 0
  BY <1>5, <1>6
<1>9. TimeSinceLastChange(df, "fan", now) >= 300
  <2>1. TimeSinceLastChange(df, "fan", now) \in Int
    BY <1>1, RowsRead, SinceIsTime
  <2> QED  BY <1>5, <1>6, <2>1 DEF OneDay
<1>10. now - lastChange["fan"] >= 5
  BY <1>2, <1>3, <1>8, <1>9, LongUnchanged
<1> QED  BY <1>7, <1>10

(* What the agent switches is in the state it believes, and was not touched *)
(* in the last 300 s, once everything that happened to it is in the rows of *)
(* the run (feature_engineering.py:126-187, policy.py:92-97).               *)
THEOREM RealState == LoopSpec => []ActsOnRealState
BY Invariance, RealStateHolds, PTL

(* A row says when its entity last changed, at the latest.                  *)
LEMMA RecentIsSeen ==
  ASSUME IInv, NEW e \in {"camera", "door"}, NEW S, Recent(df, e, now, 20, S)
  PROVE  SeenLately
<1>0. TypeOK /\ LastChangeIsTold
  BY DEF IInv
<1>1. PICK r \in df : r.entity = e /\ r.ts \in now - 20 .. now
  BY DEF Recent
<1>2. r \in events
  BY <1>0, <1>1, RowsRead
<1>3. e \in Entity
  <2>1. r \in Row
    BY <1>0, <1>2 DEF TypeOK
  <2> QED  BY <1>1, <2>1, EntityAssumption DEF Row
<1>4. r.ts <= lastChange[e]
  BY <1>0, <1>1, <1>2 DEF LastChangeIsTold
<1>5. now \in Nat /\ lastChange[e] \in Nat /\ r.ts \in Nat
  BY <1>0, <1>2, <1>3, TimesAre DEF At
<1>6. r.ts >= now - 20
  BY <1>1, <1>5
<1>7. now - lastChange[e] <= 20
  BY <1>4, <1>5, <1>6
<1> QED  BY <1>3, <1>7 DEF SeenLately

LEMMA ForSomebodyHolds == IInv => ActsForSomebody
<1> SUFFICES ASSUME IInv, Allowed("fan", "turn_on"), Known("camera")
             PROVE  SeenLately \/ EXPECTED_ARRIVAL_MINUTE - MinuteOfDay(now) \in 10 .. 15
  BY DEF ActsForSomebody
<1>1. TypeOK /\ RowsAreNumbered /\ InTime
  BY DEF IInv
<1> DEFINE c == PolicyContext(df, "fan", now)
<1>2. c.home \/ (c.predicted >= 10 /\ c.predicted <= 15)
  BY <1>1, AllowsWhat
<1>3. /\ c.predicted = 0 - (MinuteOfDay(now) - EXPECTED_ARRIVAL_MINUTE)
      /\ c.home = \/ Recent(df, "door", now, 20, {"open"})
                  \/ Recent(df, "camera", now, 20, Seen)
                  \/ StateAt(df, "camera", now) \in Seen
  BY FieldsAre
<1> HIDE DEF c
<1>4. MinuteOfDay(now) \in Int /\ EXPECTED_ARRIVAL_MINUTE \in Int
  BY <1>1, TimesAre DEF MinuteOfDay, EXPECTED_ARRIVAL_MINUTE
<1>5. CASE c.predicted >= 10 /\ c.predicted <= 15
  BY <1>3, <1>4, <1>5
<1>6. CASE Recent(df, "door", now, 20, {"open"})
  BY <1>6, RecentIsSeen
<1>7. CASE Recent(df, "camera", now, 20, Seen)
  BY <1>7, RecentIsSeen
<1>8. CASE StateAt(df, "camera", now) \in Seen
  <2>1. \E r \in events : r.entity = "camera"
    <3> SUFFICES ASSUME \A r \in events : r.entity # "camera" PROVE FALSE
      OBVIOUS
    <3>1. {r \in df : r.entity = "camera" /\ r.ts <= now} = {}
      BY <1>1, RowsRead
    <3>2. StateAt(df, "camera", now) = "off"
      BY <3>1 DEF StateAt
    <3> QED  BY <1>8, <3>2 DEF Seen
  <2>2. StateAt(df, "camera", now) = ha["camera"]
    BY <2>1, KnownIsRead
  <2> QED  BY <1>8, <2>2 DEF SeenLately
<1> QED  BY <1>2, <1>3, <1>5, <1>6, <1>7, <1>8

(* The agent switches on only for somebody whom the camera sees, or whom it *)
(* or the door noticed in the last 20 minutes, or who is expected in 10 to  *)
(* 15 minutes (feature_engineering.py:136-159, policy.py:80, 103).          *)
THEOREM ForSomebody == LoopSpec => []ActsForSomebody
BY Invariance, ForSomebodyHolds, PTL

=============================================================================

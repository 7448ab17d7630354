--------------------------- MODULE DecisionProofs ---------------------------
(***************************************************************************)
(* What the agent decides, for any rows of events, any context and any     *)
(* probabilities: what the features of a moment depend on, and what the    *)
(* policy answers.                                                         *)
(***************************************************************************)
EXTENDS PolicyUse, Features, WellFoundedInduction, FiniteSetTheorems, TLAPS

-----------------------------------------------------------------------------
(* The features.  What the model is trained on does not know the answer:   *)
(* the code hands make_feature_vector the whole table, with the change that *)
(* labels the sample and everything after it, and it makes no difference.   *)

Until(df, c) == {q \in df : q.ts < c}

(* A strict order R on finitely many elements has a last one: the set of    *)
(* those after an element can only shrink finitely often.                   *)
LEMMA MaximalExists ==
  ASSUME NEW S, IsFiniteSet(S), S # {}, NEW R,
         \A a \in S : <<a, a>> \notin R,
         \A a, b, c \in S : <<a, b>> \in R /\ <<b, c>> \in R => <<a, c>> \in R
  PROVE  \E a \in S : \A b \in S : <<b, a>> \notin R
<1> DEFINE Above(a) == {b \in S : <<b, a>> \in R}
           T == {Above(a) : a \in S}
<1>1. T \in SUBSET FiniteSubsetsOf(S)
  <2>1. ASSUME NEW a \in S PROVE Above(a) \in FiniteSubsetsOf(S)
    <3>1. Above(a) \subseteq S  OBVIOUS
    <3>2. IsFiniteSet(Above(a))  BY <3>1, FS_Subset
    <3> QED  BY <3>1, <3>2 DEF FiniteSubsetsOf
  <2> QED  BY <2>1
<1>2. PICK a \in S : \A b \in S : ~(<<Above(b), Above(a)>> \in StrictSubsetOrdering(S))
  <2>1. T # {}
    <3>1. PICK a0 \in S : TRUE  OBVIOUS
    <3>2. Above(a0) \in T  OBVIOUS
    <3> QED  BY <3>2
  <2>2. IsWellFoundedOn(StrictSubsetOrdering(S), FiniteSubsetsOf(S))
    BY FS_StrictSubsetOrderingWellFounded
  <2>3. PICK x \in T : \A y \in T : ~(<<y, x>> \in StrictSubsetOrdering(S))
    BY <1>1, <2>1, <2>2, WFMin
  <2>4. PICK a \in S : x = Above(a)  OBVIOUS
  <2>5. \A b \in S : Above(b) \in T  OBVIOUS
  <2>6. \A b \in S : ~(<<Above(b), Above(a)>> \in StrictSubsetOrdering(S))
    BY <2>3, <2>4, <2>5
  <2> QED  BY <2>6
<1>3. ASSUME NEW b \in S, <<b, a>> \in R PROVE FALSE
  <2>1. Above(b) \subseteq Above(a)  BY <1>3
  <2>2. b \in Above(a) /\ b \notin Above(b)  BY <1>3
  <2> QED  BY <1>2, <2>1, <2>2 DEF StrictSubsetOrdering
<1> QED  BY <1>3

(* So have finitely many rows that differ in their ids, and integers.       *)
LEMMA LatestExists ==
  ASSUME NEW rows, IsFiniteSet(rows), rows # {},
         \A r \in rows : r.ts \in Int /\ r.id \in Int,
         \A r, s \in rows : r.id = s.id => r = s
  PROVE  /\ Latest(rows) \in rows
         /\ \A s \in rows : s = Latest(rows) \/ Later(Latest(rows), s)
<1> DEFINE R == {p \in rows \X rows : Later(p[1], p[2])}
<1>1. \A r, s \in rows : <<r, s>> \in R <=> Later(r, s)
  OBVIOUS
<1>2. \A r \in rows : <<r, r>> \notin R
  BY <1>1 DEF Later
<1>3. \A r, s, t \in rows : <<r, s>> \in R /\ <<s, t>> \in R => <<r, t>> \in R
  BY <1>1 DEF Later
<1> HIDE DEF R
<1>4. PICK r \in rows : \A s \in rows : <<s, r>> \notin R
  BY <1>2, <1>3, MaximalExists
<1>5. \A s \in rows : s = r \/ Later(r, s)
  <2> SUFFICES ASSUME NEW s \in rows, s # r PROVE Later(r, s)
    OBVIOUS
  <2>1. ~Later(s, r)
    BY <1>1, <1>4
  <2> QED  BY <2>1 DEF Later
<1> QED  BY <1>5 DEF Latest

LEMMA GreatestExists ==
  ASSUME NEW S, IsFiniteSet(S), S # {}, \A a \in S : a \in Int
  PROVE  /\ \E a \in S : \A b \in S : b <= a
         /\ \E a \in S : \A b \in S : a <= b
<1>1. \E a \in S : \A b \in S : b <= a
  <2> DEFINE R == {p \in S \X S : p[1] > p[2]}
  <2>1. \A a, b \in S : <<a, b>> \in R <=> a > b
    OBVIOUS
  <2> HIDE DEF R
  <2>2. \A a \in S : <<a, a>> \notin R
    BY <2>1
  <2>3. \A a, b, c \in S : <<a, b>> \in R /\ <<b, c>> \in R => <<a, c>> \in R
    BY <2>1
  <2>4. PICK a \in S : \A b \in S : <<b, a>> \notin R
    BY <2>2, <2>3, MaximalExists
  <2>5. \A b \in S : b <= a
    <3> SUFFICES ASSUME NEW b \in S PROVE b <= a
      OBVIOUS
    <3>1. ~(b > a)  BY <2>1, <2>4
    <3>2. a \in Int /\ b \in Int  OBVIOUS
    <3> QED  BY <3>1, <3>2
  <2> QED  BY <2>5
<1>2. \E a \in S : \A b \in S : a <= b
  <2> DEFINE R == {p \in S \X S : p[1] < p[2]}
  <2>1. \A a, b \in S : <<a, b>> \in R <=> a < b
    OBVIOUS
  <2> HIDE DEF R
  <2>2. \A a \in S : <<a, a>> \notin R
    BY <2>1
  <2>3. \A a, b, c \in S : <<a, b>> \in R /\ <<b, c>> \in R => <<a, c>> \in R
    BY <2>1
  <2>4. PICK a \in S : \A b \in S : <<b, a>> \notin R
    BY <2>2, <2>3, MaximalExists
  <2>5. \A b \in S : a <= b
    <3> SUFFICES ASSUME NEW b \in S PROVE a <= b
      OBVIOUS
    <3>1. ~(b < a)  BY <2>1, <2>4
    <3>2. a \in Int /\ b \in Int  OBVIOUS
    <3> QED  BY <3>1, <3>2
  <2> QED  BY <2>5
<1> QED  BY <1>1, <1>2

(* Rows at or after c change no query about a moment before c.              *)
LEMMA QueriesOfThePast ==
  ASSUME NEW df, \A q \in df : q.ts \in Int, NEW c \in Int, NEW t \in Int, t < c
  PROVE  /\ \A e : StateAt(df, e, t) = StateAt(Until(df, c), e, t)
         /\ \A e, d : NumAt(df, e, t, d) = NumAt(Until(df, c), e, t, d)
         /\ \A e, s : \A m \in Int : Recent(df, e, t, m, s) <=> Recent(Until(df, c), e, t, m, s)
         /\ \A e : TimeSinceLastChange(df, e, t) = TimeSinceLastChange(Until(df, c), e, t)
         /\ \A e : \A m \in Int :
              RecentToggleCount(df, e, t, m) = RecentToggleCount(Until(df, c), e, t, m)
<1> DEFINE past == Until(df, c)
<1>1. ASSUME NEW e PROVE StateAt(df, e, t) = StateAt(past, e, t)
  <2>1. {r \in df : r.entity = e /\ r.ts <= t} = {r \in past : r.entity = e /\ r.ts <= t}
    BY DEF Until
  <2> QED BY <2>1, Zenon DEF StateAt
<1>2. ASSUME NEW e, NEW d PROVE NumAt(df, e, t, d) = NumAt(past, e, t, d)
  <2>1. {r \in df : r.entity = e /\ r.ts <= t /\ r.new \in DOMAIN Float}
        = {r \in past : r.entity = e /\ r.ts <= t /\ r.new \in DOMAIN Float}
    BY DEF Until
  <2> QED BY <2>1, Zenon DEF NumAt
<1>3. ASSUME NEW e, NEW s, NEW m \in Int
      PROVE  Recent(df, e, t, m, s) <=> Recent(past, e, t, m, s)
  BY DEF Recent, Until
<1>4. ASSUME NEW e PROVE TimeSinceLastChange(df, e, t) = TimeSinceLastChange(past, e, t)
  <2>1. {r \in df : r.entity = e /\ r.ts < t} = {r \in past : r.entity = e /\ r.ts < t}
    BY DEF Until
  <2> QED BY <2>1, Zenon DEF TimeSinceLastChange
<1>5. ASSUME NEW e, NEW m \in Int
      PROVE  RecentToggleCount(df, e, t, m) = RecentToggleCount(past, e, t, m)
  <2>1. {r \in df : r.entity = e /\ r.ts \in t - m .. t}
        = {r \in past : r.entity = e /\ r.ts \in t - m .. t}
    BY DEF Until
  <2> QED BY <2>1, Zenon DEF RecentToggleCount
<1> QED BY <1>1, <1>2, <1>3, <1>4, <1>5, Zenon

(* So the context, and the vector of features, are those of the past.       *)
LEMMA VectorOfThePast ==
  ASSUME NEW df, \A q \in df : q.ts \in Int, NEW c \in Int, NEW t \in Int, t < c,
         NEW entity
  PROVE  MakeFeatureVector(df, entity, t) = MakeFeatureVector(Until(df, c), entity, t)
<1> DEFINE past == Until(df, c)
<1>1. /\ \A e : StateAt(df, e, t) = StateAt(past, e, t)
      /\ \A e, d : NumAt(df, e, t, d) = NumAt(past, e, t, d)
      /\ \A e : TimeSinceLastChange(df, e, t) = TimeSinceLastChange(past, e, t)
  BY QueriesOfThePast
<1>2. \A e, s : Recent(df, e, t, 20, s) = Recent(past, e, t, 20, s)
  <2>1. \A e, s : Recent(df, e, t, 20, s) <=> Recent(past, e, t, 20, s)
    BY QueriesOfThePast
  <2>2. \A e, s : Recent(df, e, t, 20, s) \in BOOLEAN /\ Recent(past, e, t, 20, s) \in BOOLEAN
    BY DEF Recent
  <2> QED BY <2>1, <2>2
<1>3. \A e : /\ RecentToggleCount(df, e, t, 2) = RecentToggleCount(past, e, t, 2)
             /\ RecentToggleCount(df, e, t, 5) = RecentToggleCount(past, e, t, 5)
  BY QueriesOfThePast
<1>4. GetContextAt(df, t) = GetContextAt(past, t)
  <2> HIDE DEF past
  <2>1. /\ Recent(df, "door", t, 20, {"open"}) = Recent(past, "door", t, 20, {"open"})
        /\ Recent(df, "camera", t, 20, Seen) = Recent(past, "camera", t, 20, Seen)
        /\ StateAt(df, "camera", t) = StateAt(past, "camera", t)
        /\ NumAt(df, "bedroom_temperature", t, 27) = NumAt(past, "bedroom_temperature", t, 27)
        /\ NumAt(df, "bedroom_humidity", t, 70) = NumAt(past, "bedroom_humidity", t, 70)
        /\ NumAt(df, "temperature", t, 28) = NumAt(past, "temperature", t, 28)
        /\ NumAt(df, "humidity", t, 70) = NumAt(past, "humidity", t, 70)
    BY <1>1, <1>2
  <2> QED BY <2>1 DEF GetContextAt
<1>5. PolicyContext(df, entity, t) = PolicyContext(past, entity, t)
  <2> HIDE DEF past
  <2>1. /\ StateAt(df, entity, t) = StateAt(past, entity, t)
        /\ TimeSinceLastChange(df, entity, t) = TimeSinceLastChange(past, entity, t)
        /\ RecentToggleCount(df, entity, t, 2) = RecentToggleCount(past, entity, t, 2)
        /\ RecentToggleCount(df, entity, t, 5) = RecentToggleCount(past, entity, t, 5)
    BY <1>1, <1>3
  <2> QED BY <1>4, <2>1, Zenon DEF PolicyContext
<1>6. {e \in StateFeatures : StateAt(df, e, t) = "on"}
      = {e \in StateFeatures : StateAt(past, e, t) = "on"}
  BY <1>1
<1> QED BY <1>4, <1>5, <1>6 DEF MakeFeatureVector

(* Training looks at no future: the samples labelled with a change of the   *)
(* device are what the agent would have known then, without that change and *)
(* all that came after it (feature_engineering.py:230-244).                 *)
THEOREM SamplesBlindToLabel ==
  ASSUME NEW df, \A q \in df : q.ts \in Int, NEW entity, NEW r \in Actions(df, entity)
  PROVE  PositiveSamples(df, entity, r) = PositiveSamples(Until(df, r.ts), entity, r)
<1>1. r.ts \in Int
  BY DEF Actions
<1>2. \A t \in ObserveAt(r) : t \in Int /\ t < r.ts
  BY <1>1 DEF ObserveAt, OBSERVE_OFFSETS
<1>3. \A t \in ObserveAt(r) :
        MakeFeatureVector(df, entity, t) = MakeFeatureVector(Until(df, r.ts), entity, t)
  BY <1>1, <1>2, VectorOfThePast
<1>4. \A t \in ObserveAt(r) :
        Sample(df, entity, t, Label(r)) = Sample(Until(df, r.ts), entity, t, Label(r))
  BY <1>3 DEF Sample
<1> QED BY <1>4 DEF PositiveSamples

-----------------------------------------------------------------------------
(* The policy.                                                              *)

(* Among finitely many tests, the last of which always holds, one is first. *)
LEMMA FirstExists ==
  ASSUME NEW W, W \in [1 .. 17 -> BOOLEAN], W[17]
  PROVE  \E i \in 1 .. 17 : W[i] /\ \A j \in 1 .. i - 1 : ~W[j]
<1> SUFFICES ASSUME \A i \in 1 .. 17 : W[i] => \E j \in 1 .. i - 1 : W[j] PROVE FALSE
  OBVIOUS
<1> QED  BY SMTT(60)

(* There are 17 tests, and the verdict is one that holds.                   *)
LEMMA VerdictHolds ==
  ASSUME NEW D, NEW inp \in InputType(D)
  PROVE  \E i \in 1 .. 17 : /\ Evaluate(inp) = Rules(inp)[i]
                            /\ Rules(inp)[i].when
                            /\ \A j \in 1 .. i - 1 : ~Rules(inp)[j].when
<1> DEFINE r == Rules(inp)
           W == [i \in 1 .. 17 |-> r[i].when]
<1>1. DOMAIN r = 1 .. 17
  BY DEF Rules
<1>2. \A i \in 1 .. 17 : r[i].when \in BOOLEAN
  <2>1. inp.ctx.override \in BOOLEAN
    BY DEF InputType, ContextType
  <2>2. /\ r[1].when \in BOOLEAN /\ r[2].when \in BOOLEAN /\ r[3].when \in BOOLEAN
        /\ r[4].when \in BOOLEAN /\ r[5].when \in BOOLEAN /\ r[6].when \in BOOLEAN
    BY DEF Rules, Rule, Observed
  <2>3. /\ r[7].when \in BOOLEAN /\ r[8].when \in BOOLEAN
        /\ r[10].when \in BOOLEAN /\ r[11].when \in BOOLEAN
    <3>1. /\ inp.confidence \in Int /\ inp.ctx.toggles2 \in Nat /\ inp.ctx.toggles5 \in Nat
          /\ inp.ctx.sinceChange \in Int
      BY DEF InputType, ContextType
    <3>2. r[7].when \in BOOLEAN
      BY DEF Rules, Rule, Overdue
    <3>3. r[8].when = (inp.confidence < confidence_threshold)
      BY DEF Rules, Rule
    <3>4. r[10].when = (inp.ctx.toggles2 > 0 \/ inp.ctx.toggles5 >= 2)
      BY DEF Rules, Rule
    <3>5. r[11].when = (inp.ctx.sinceChange < cooldown_seconds)
      BY DEF Rules, Rule
    <3> HIDE DEF r
    <3> QED  BY <3>1, <3>2, <3>3, <3>4, <3>5 DEF confidence_threshold, cooldown_seconds
  <2>5. r[9].when = inp.ctx.override
    BY DEF Rules, Rule
  <2>4. /\ r[12].when \in BOOLEAN /\ r[13].when \in BOOLEAN /\ r[14].when \in BOOLEAN
        /\ r[15].when \in BOOLEAN /\ r[16].when \in BOOLEAN /\ r[17].when \in BOOLEAN
    BY DEF Rules, Rule, NeedsConfirm
  <2> HIDE DEF r
  <2> QED  BY <2>1, <2>2, <2>3, <2>4, <2>5
<1>3. r[17].when
  BY DEF Rules, Rule
<1>4. \E i \in 1 .. 17 : r[i].when /\ \A j \in 1 .. i - 1 : ~r[j].when
  <2> HIDE DEF r
  <2>1. W \in [1 .. 17 -> BOOLEAN] /\ W[17]
    BY <1>2, <1>3
  <2>2. \E i \in 1 .. 17 : W[i] /\ \A j \in 1 .. i - 1 : ~W[j]
    <3> HIDE DEF W
    <3> QED  BY <2>1, FirstExists
  <2> QED  BY <2>2
<1>5. Evaluate(inp) = r[CHOOSE i \in DOMAIN r : r[i].when /\ \A j \in 1 .. i - 1 : ~r[j].when]
  BY DEF Evaluate
<1> DEFINE First(i) == r[i].when /\ \A j \in 1 .. i - 1 : ~r[j].when
<1>6. LET c == CHOOSE i \in DOMAIN r : First(i)
      IN  c \in 1 .. 17 /\ First(c)
  <2>1. \E i \in DOMAIN r : First(i)
    BY <1>1, <1>4
  <2> HIDE DEF First
  <2> QED  BY <1>1, <2>1
<1>7. r = Rules(inp)
  OBVIOUS
<1> QED
  <2> HIDE DEF r
  <2> QED  BY <1>5, <1>6, <1>7
(* Only tests 14 and 16 allow, and what they ask of the device.             *)
LEMMA AllowingTests ==
  ASSUME NEW D, NEW inp \in InputType(D), NEW i \in 1 .. 17,
         Rules(inp)[i].decision = "allow", Rules(inp)[i].when
  PROVE  /\ i \in {14, 16}
         /\ inp.device.level = "auto" /\ inp.device.risk = "low"
         /\ inp.device.type \in {"light", "fan"}
<1> DEFINE r == Rules(inp)
<1>1. i \in {14, 16}
  <2>1. \A j \in {1, 2, 3, 5, 6, 7, 8, 9} : r[j].decision = "block"
    BY DEF Rules, Rule
  <2>2. /\ \A j \in {10, 11, 13, 15} : r[j].decision = "block"
        /\ r[4].decision = "observe_only"
        /\ \A j \in {12, 17} : r[j].decision = "confirm_required"
    BY DEF Rules, Rule
  <2>3. r[i].decision = "allow"
    OBVIOUS
  <2> HIDE DEF r
  <2>4. i \notin {1, 2, 3, 5, 6, 7, 8, 9} \cup {4, 10, 11, 12, 13, 15, 17}
    BY <2>1, <2>2, <2>3
  <2> QED  BY <2>4
<1>2. r[14].when \/ r[16].when
  BY <1>1
<1>3. /\ inp.device.level = "auto" /\ inp.device.risk = "low"
      /\ inp.device.type \in {"light", "fan"}
  BY <1>2 DEF Rules, Rule
<1> HIDE DEF r
<1> QED  BY <1>1, <1>3

(* The agent acts alone only on a low-risk light or fan that the registry   *)
(* marks auto: whatever the context, and however the registry is extended   *)
(* (policy.py:97-118).                                                      *)
THEOREM AllowedIsLowRisk ==
  ASSUME NEW D, NEW inp \in InputType(D), Evaluate(inp).decision = "allow"
  PROVE  /\ inp.device.level = "auto" /\ inp.device.risk = "low"
         /\ inp.device.type \in {"light", "fan"}
BY VerdictHolds, AllowingTests

(* What is allowed is an action that changes the state of the device, the   *)
(* agent is sure of it, nobody overrode, switched or saw the device change  *)
(* lately, and what is switched on waits for no late arrival, whatever the  *)
(* registry holds (policy.py:63-95).                                        *)
THEOREM AllowedIsQuiet ==
  ASSUME NEW D, NEW inp \in InputType(D), Evaluate(inp).decision = "allow"
  PROVE  /\ inp.confidence >= confidence_threshold
         /\ Settled(inp.ctx)
         /\ \/ inp.action = "turn_on" /\ inp.ctx.prev_state = 0 /\ ~Overdue(inp.ctx)
            \/ inp.action = "turn_off" /\ inp.ctx.prev_state = 1
<1>1. PICK i \in 1 .. 17 : /\ Evaluate(inp) = Rules(inp)[i]
                           /\ Rules(inp)[i].when
                           /\ \A j \in 1 .. i - 1 : ~Rules(inp)[j].when
  BY VerdictHolds
<1>2. i \in {14, 16}
  BY <1>1, AllowingTests
<1>3. \A j \in {3, 5, 6, 7, 8, 9, 10, 11} : ~Rules(inp)[j].when
  <2>1. \A j \in {3, 5, 6, 7, 8, 9, 10, 11} : j \in 1 .. i - 1
    BY <1>2
  <2> QED  BY <1>1, <2>1
<1>4. /\ inp.confidence \in Int /\ inp.ctx.sinceChange \in Int
      /\ inp.ctx.toggles2 \in Nat /\ inp.ctx.toggles5 \in Nat
      /\ inp.ctx.prev_state \in {0, 1}
  BY DEF InputType, ContextType
<1>5. inp.confidence >= confidence_threshold
  <2>1. Rules(inp)[8].when = (inp.confidence < confidence_threshold)
    BY DEF Rules, Rule
  <2>2. ~(inp.confidence < confidence_threshold)
    BY <1>3, <2>1
  <2> QED  BY <1>4, <2>2 DEF confidence_threshold
<1>6. Settled(inp.ctx)
  <2>1. /\ Rules(inp)[9].when = inp.ctx.override
        /\ Rules(inp)[10].when = (inp.ctx.toggles2 > 0 \/ inp.ctx.toggles5 >= 2)
        /\ Rules(inp)[11].when = (inp.ctx.sinceChange < cooldown_seconds)
    BY DEF Rules, Rule
  <2>2. /\ ~inp.ctx.override
        /\ ~(inp.ctx.toggles2 > 0) /\ ~(inp.ctx.toggles5 >= 2)
        /\ ~(inp.ctx.sinceChange < cooldown_seconds)
    BY <1>3, <2>1
  <2>3. inp.ctx.toggles2 = 0 /\ inp.ctx.toggles5 < 2
    BY <1>4, <2>2
  <2>4. inp.ctx.sinceChange >= cooldown_seconds
    BY <1>4, <2>2 DEF cooldown_seconds
  <2> QED  BY <2>2, <2>3, <2>4 DEF Settled
<1>7. \/ inp.action = "turn_on" /\ inp.ctx.prev_state = 0 /\ ~Overdue(inp.ctx)
      \/ inp.action = "turn_off" /\ inp.ctx.prev_state = 1
  <2>1. /\ Rules(inp)[3].when = (inp.action \notin {"turn_on", "turn_off"})
        /\ Rules(inp)[5].when = (inp.action = "turn_on" /\ inp.ctx.prev_state = 1)
        /\ Rules(inp)[6].when = (inp.action = "turn_off" /\ inp.ctx.prev_state = 0)
        /\ Rules(inp)[7].when = (inp.action = "turn_on" /\ Overdue(inp.ctx))
    BY DEF Rules, Rule
  <2>2. /\ inp.action \in {"turn_on", "turn_off"}
        /\ ~(inp.action = "turn_on" /\ inp.ctx.prev_state = 1)
        /\ ~(inp.action = "turn_off" /\ inp.ctx.prev_state = 0)
        /\ ~(inp.action = "turn_on" /\ Overdue(inp.ctx))
    BY <1>3, <2>1
  <2> QED  BY <1>4, <2>2
<1> QED  BY <1>5, <1>6, <1>7

(* Nothing below the threshold is done or asked about, for every input:     *)
(* the test of the confidence comes before each test that lets through      *)
(* (policy.py:84).                                                          *)
LEMMA UnsureIsLeftAlone ==
  ASSUME NEW D, NEW inp \in InputType(D), inp.confidence < confidence_threshold
  PROVE  Evaluate(inp).decision \notin {"allow", "confirm_required"}
<1>1. PICK i \in 1 .. 17 : /\ Evaluate(inp) = Rules(inp)[i]
                           /\ \A j \in 1 .. i - 1 : ~Rules(inp)[j].when
  BY VerdictHolds
<1>2. Rules(inp)[8].when
  BY DEF Rules, Rule
<1>3. i <= 8
  <2>1. i > 8 => 8 \in 1 .. i - 1
    OBVIOUS
  <2> QED  BY <1>1, <1>2, <2>1
<1>4. \A j \in 1 .. 8 : Rules(inp)[j].decision \in {"block", "observe_only"}
  <2>1. /\ \A j \in {1, 2, 3, 5, 6, 7, 8} : Rules(inp)[j].decision = "block"
        /\ Rules(inp)[4].decision = "observe_only"
    BY DEF Rules, Rule
  <2>2. \A j \in 1 .. 8 : j \in {1, 2, 3, 5, 6, 7, 8} \/ j = 4
    OBVIOUS
  <2> QED  BY <2>1, <2>2
<1>5. Evaluate(inp).decision \in {"block", "observe_only"}
  BY <1>1, <1>3, <1>4
<1> QED  BY <1>5

(* The surest class is as sure as any other.                                *)
LEMMA BestIsSurest ==
  ASSUME NEW L \in LabelSets, NEW p \in Probabilities(L)
  PROVE  /\ Best(p) \in L
         /\ \A label \in L : p[Best(p)] >= p[label]
<1> DEFINE C == ClassesOf(p)
           Beats(i, j) == p[LABELS[i]] > p[LABELS[j]]
                            \/ (p[LABELS[i]] = p[LABELS[j]] /\ i <= j)
<1>1. /\ DOMAIN LABELS = 1 .. 3
      /\ LABELS[1] = "no_action" /\ LABELS[2] = "turn_on" /\ LABELS[3] = "turn_off"
  BY DEF LABELS
<1>2. /\ C \subseteq 1 .. 3 /\ C # {} /\ DOMAIN p = L
      /\ \A i \in C : LABELS[i] \in L /\ p[LABELS[i]] \in Int
      /\ \A label \in L : \E i \in C : LABELS[i] = label
  <2>1. /\ DOMAIN p = L /\ \A label \in L : p[label] \in Int
        /\ L # {} /\ L \subseteq {"no_action", "turn_on", "turn_off"}
    BY DEF Probabilities, LabelSets
  <2>2. C = {i \in 1 .. 3 : LABELS[i] \in L}
    BY <1>1, <2>1 DEF ClassesOf
  <2>3. \A label \in L : \E i \in C : LABELS[i] = label
    BY <1>1, <2>1, <2>2
  <2> QED  BY <2>1, <2>2, <2>3
<1>3. \E i \in C : \A j \in C : Beats(i, j)
  BY <1>2
<1>4. /\ LET b == CHOOSE i \in C : \A j \in C : Beats(i, j)
         IN  b \in C /\ (\A j \in C : Beats(b, j)) /\ Best(p) = LABELS[b]
  BY <1>3 DEF Best
<1> QED  BY <1>2, <1>4

(* A model that would rather do nothing is never carried out nor asked      *)
(* about: the action put forward in its place has half of the probability   *)
(* at most, whatever its threshold, the device and the context              *)
(* (predictor.py:70-75).                                                    *)
THEOREM FallbackIsHarmless ==
  ASSUME NEW D, NEW inp \in InputType(D),
         NEW L \in LabelSets, NEW p \in Probabilities(L), Best(p) = "no_action",
         inp.action = PredictionFromProba(p).label,
         inp.confidence = PredictionFromProba(p).confidence
  PROVE  Evaluate(inp).decision \notin {"allow", "confirm_required"}
<1>1. CASE Falls(p)
  <2>0. DOMAIN p = L /\ L # {"no_action"} /\ "no_action" \in L
    <3>1. DOMAIN p = L /\ "no_action" \in L
      BY BestIsSurest DEF Probabilities
    <3>2. Cardinality({"no_action"}) = 1
      BY FS_Singleton
    <3> QED  BY <1>1, <3>1, <3>2 DEF Falls
  <2>1. BestAction(p) \in L /\ BestAction(p) # "no_action"
    BY <2>0 DEF BestAction, LabelSets
  <2>2. inp.confidence = p[BestAction(p)]
    BY <1>1 DEF PredictionFromProba
  <2>3. p["no_action"] >= p[BestAction(p)]
    BY <2>1, BestIsSurest
  <2>4. p["no_action"] + p[BestAction(p)] <= 100
    BY <2>0, <2>1 DEF Probabilities
  <2>5. p["no_action"] \in Int /\ p[BestAction(p)] \in Int
    <3>1. \A label \in L : p[label] \in 0 .. 100
      BY DEF Probabilities
    <3>2. p["no_action"] \in 0 .. 100 /\ p[BestAction(p)] \in 0 .. 100
      BY <2>0, <2>1, <3>1
    <3> QED  BY <3>2
  <2>6. inp.confidence < confidence_threshold
    BY <2>2, <2>3, <2>4, <2>5 DEF confidence_threshold
  <2> QED  BY <2>6, UnsureIsLeftAlone
<1>2. CASE ~Falls(p)
  <2>1. inp.action = "no_action"
    BY <1>2 DEF PredictionFromProba
  <2>2. PICK i \in 1 .. 17 : /\ Evaluate(inp) = Rules(inp)[i]
                             /\ \A j \in 1 .. i - 1 : ~Rules(inp)[j].when
    BY VerdictHolds
  <2>3. Rules(inp)[2].when
    BY <2>1 DEF Rules, Rule
  <2>4. i <= 2
    <3>1. i > 2 => 2 \in 1 .. i - 1
      OBVIOUS
    <3> QED  BY <2>2, <2>3, <3>1
  <2>5. Rules(inp)[1].decision = "block" /\ Rules(inp)[2].decision = "block"
    BY DEF Rules, Rule
  <2> QED  BY <2>2, <2>4, <2>5
<1> QED  BY <1>1, <1>2

-----------------------------------------------------------------------------
(* The verdict against what the policy is meant to be.                      *)

(* The tests, one by one.                                                   *)
Automatic(device) ==
  device.level = "auto" /\ device.risk = "low" /\ device.type \in {"light", "fan"}

LEMMA FirstTests ==
  ASSUME NEW D, NEW inp \in InputType(D)
  PROVE  LET r == Rules(inp) IN
         /\ r[1].when <=> inp.device = NoDevice
         /\ r[2].when <=> inp.action = "no_action"
         /\ r[3].when <=> inp.action \notin {"turn_on", "turn_off"}
         /\ r[4].when <=> Observed(inp.device)
         /\ r[5].when <=> inp.action = "turn_on" /\ inp.ctx.prev_state = 1
         /\ r[6].when <=> inp.action = "turn_off" /\ inp.ctx.prev_state = 0
         /\ r[7].when <=> inp.action = "turn_on" /\ Overdue(inp.ctx)
         /\ r[8].when <=> inp.confidence < confidence_threshold
         /\ r[9].when <=> inp.ctx.override
BY DEF Rules, Rule

LEMMA LastTests ==
  ASSUME NEW D, NEW inp \in InputType(D)
  PROVE  LET r == Rules(inp) IN
         /\ r[10].when <=> inp.ctx.toggles2 > 0 \/ inp.ctx.toggles5 >= 2
         /\ r[11].when <=> inp.ctx.sinceChange < cooldown_seconds
         /\ r[12].when <=> NeedsConfirm(inp.device)
         /\ r[13].when <=> /\ inp.action = "turn_on" /\ ~inp.ctx.home
                           /\ ~(ValidPreArrival(inp.ctx) /\ inp.device.risk = "low")
         /\ r[14].when <=> /\ Automatic(inp.device) /\ ValidPreArrival(inp.ctx)
                           /\ inp.action = "turn_on" /\ inp.device.type = "fan"
         /\ r[15].when <=> /\ Automatic(inp.device) /\ inp.device.type = "fan"
                           /\ inp.action = "turn_on"
                           /\ EnvironmentReason(inp.device, inp.ctx)
                                \notin {"HOT_DRY_FAN", "CONTEXT_OK"}
         /\ r[16].when <=> Automatic(inp.device)
BY DEF Rules, Rule, Automatic

LEMMA Decisions ==
  ASSUME NEW inp
  PROVE  /\ \A j \in {1, 2, 3, 5, 6, 7, 8, 9} : Rules(inp)[j].decision = "block"
         /\ \A j \in {10, 11, 13, 15} : Rules(inp)[j].decision = "block"
         /\ Rules(inp)[4].decision = "observe_only"
         /\ \A j \in {12, 17} : Rules(inp)[j].decision = "confirm_required"
         /\ \A j \in {14, 16} : Rules(inp)[j].decision = "allow"
<1>1. \A j \in {1, 2, 3, 5, 6, 7, 8, 9} : Rules(inp)[j].decision = "block"
  BY DEF Rules, Rule
<1>2. \A j \in {10, 11, 13, 15} : Rules(inp)[j].decision = "block"
  BY DEF Rules, Rule
<1>3. /\ Rules(inp)[4].decision = "observe_only"
      /\ \A j \in {12, 17} : Rules(inp)[j].decision = "confirm_required"
  BY DEF Rules, Rule
<1>4. \A j \in {14, 16} : Rules(inp)[j].decision = "allow"
  BY DEF Rules, Rule
<1> QED  BY <1>1, <1>2, <1>3, <1>4

(* In this registry a light or a fan is low-risk and automatic.             *)
LEMMA RegistryIsAuto ==
  ASSUME NEW d \in Known, d.type \in {"light", "fan"}
  PROVE  Automatic(d) /\ ~Observed(d) /\ ~NeedsConfirm(d) /\ d # NoDevice
BY DEF Known, DEVICES, NoDevice, Dev, Automatic, Observed, NeedsConfirm

(* The room a fan is switched on in: dry ones need a reason.                *)
LEMMA FanEnvironment ==
  ASSUME NEW d, d.type = "fan", NEW c, c.hot \in BOOLEAN, c.humid \in BOOLEAN, c.dry \in BOOLEAN
  PROVE  EnvironmentReason(d, c) \in {"HOT_DRY_FAN", "CONTEXT_OK"}
           <=> (c.dry => c.hot /\ ~c.humid)
BY DEF EnvironmentReason

LEMMA ContextTypes ==
  ASSUME NEW D, NEW inp \in InputType(D)
  PROVE  /\ inp.confidence \in Int /\ inp.device \in D
         /\ inp.action \in {"turn_on", "turn_off", "no_action", "other"}
         /\ inp.ctx.prev_state \in {0, 1}
         /\ inp.ctx.minutesAfter \in Int /\ inp.ctx.predicted \in Int
         /\ inp.ctx.toggles2 \in Nat /\ inp.ctx.toggles5 \in Nat
         /\ inp.ctx.sinceChange \in Int
         /\ inp.ctx.hot \in BOOLEAN /\ inp.ctx.humid \in BOOLEAN /\ inp.ctx.dry \in BOOLEAN
         /\ inp.ctx.overdue \in BOOLEAN /\ inp.ctx.home \in BOOLEAN
         /\ inp.ctx.override \in BOOLEAN /\ inp.ctx.window \in BOOLEAN
BY DEF InputType, ContextType

LEMMA AllowsOnlyThat ==
  ASSUME NEW inp \in InputType(Known), Evaluate(inp).decision = "allow"
  PROVE  MayActAlone(inp)
<1>1. PICK i \in 1 .. 17 : /\ Evaluate(inp) = Rules(inp)[i]
                           /\ Rules(inp)[i].when
                           /\ \A j \in 1 .. i - 1 : ~Rules(inp)[j].when
  BY VerdictHolds
<1>2. /\ i \in {14, 16} /\ inp.device.type \in {"light", "fan"} /\ Automatic(inp.device)
  BY <1>1, AllowingTests DEF Automatic
<1>3. \A j \in 1 .. 13 : ~Rules(inp)[j].when
  BY <1>1, <1>2
<1>4. /\ ~(inp.action = "no_action") /\ inp.action \in {"turn_on", "turn_off"}
      /\ ~(inp.action = "turn_on" /\ inp.ctx.prev_state = 1)
      /\ ~(inp.action = "turn_off" /\ inp.ctx.prev_state = 0)
      /\ ~(inp.action = "turn_on" /\ Overdue(inp.ctx))
      /\ ~(inp.confidence < confidence_threshold) /\ ~inp.ctx.override
  BY <1>3, FirstTests
<1>5. /\ ~(inp.ctx.toggles2 > 0 \/ inp.ctx.toggles5 >= 2)
      /\ ~(inp.ctx.sinceChange < cooldown_seconds)
      /\ ~(inp.action = "turn_on" /\ ~inp.ctx.home
           /\ ~(ValidPreArrival(inp.ctx) /\ inp.device.risk = "low"))
  BY <1>3, LastTests
<1>6. inp.action = "turn_on" /\ inp.device.type = "fan" /\ inp.ctx.dry =>
        ValidPreArrival(inp.ctx) \/ (inp.ctx.hot /\ ~inp.ctx.humid)
  <2>1. CASE i = 14
    BY <1>1, <2>1, LastTests
  <2>2. CASE i = 16
    <3>1. ~Rules(inp)[15].when
      BY <1>1, <2>2
    <3> QED  BY <1>2, <3>1, LastTests, FanEnvironment, ContextTypes
  <2> QED  BY <1>2, <2>1, <2>2
<1>7. ValidPreArrival(inp.ctx) <=> Expected(inp.ctx)
  BY ContextTypes DEF ValidPreArrival, Expected
<1>8. inp.confidence >= confidence_threshold /\ Settled(inp.ctx)
  BY <1>4, <1>5, ContextTypes DEF Settled, confidence_threshold, cooldown_seconds
<1>9. inp.action = "turn_on" =>
        /\ ~inp.ctx.overdue
        /\ inp.ctx.home \/ (Expected(inp.ctx) /\ inp.ctx.minutesAfter < 20)
  BY <1>4, <1>5, <1>7, ContextTypes DEF Overdue
<1> QED  BY <1>2, <1>4, <1>6, <1>7, <1>8, <1>9, ContextTypes DEF MayActAlone

LEMMA AllowsAllOfThat ==
  ASSUME NEW inp \in InputType(Known), MayActAlone(inp)
  PROVE  Evaluate(inp).decision = "allow"
<1>1. PICK i \in 1 .. 17 : /\ Evaluate(inp) = Rules(inp)[i]
                           /\ Rules(inp)[i].when
                           /\ \A j \in 1 .. i - 1 : ~Rules(inp)[j].when
  BY VerdictHolds
<1>2. /\ Automatic(inp.device) /\ ~Observed(inp.device) /\ ~NeedsConfirm(inp.device)
      /\ inp.device # NoDevice /\ inp.device.risk = "low"
  BY RegistryIsAuto, ContextTypes DEF MayActAlone, Automatic
<1>3. ValidPreArrival(inp.ctx) <=> Expected(inp.ctx)
  BY ContextTypes DEF ValidPreArrival, Expected
<1>4. inp.action = "turn_on" => ~Overdue(inp.ctx) /\ (inp.ctx.home \/ ValidPreArrival(inp.ctx))
  BY <1>3, ContextTypes DEF MayActAlone, Overdue
<1>5. \A j \in 1 .. 9 : ~Rules(inp)[j].when
  <2>1. ~(inp.confidence < confidence_threshold) /\ ~inp.ctx.override
    BY ContextTypes DEF MayActAlone, Settled, confidence_threshold
  <2>2. /\ inp.action \in {"turn_on", "turn_off"}
        /\ ~(inp.action = "turn_on" /\ inp.ctx.prev_state = 1)
        /\ ~(inp.action = "turn_off" /\ inp.ctx.prev_state = 0)
    BY DEF MayActAlone
  <2>3. \A j \in 1 .. 9 : j \in {1, 2, 3, 4, 5, 6, 7, 8, 9}
    OBVIOUS
  <2> QED  BY <1>2, <1>4, <2>1, <2>2, <2>3, FirstTests
<1>6. \A j \in 10 .. 13 : ~Rules(inp)[j].when
  <2>1. /\ ~(inp.ctx.toggles2 > 0 \/ inp.ctx.toggles5 >= 2)
        /\ ~(inp.ctx.sinceChange < cooldown_seconds)
    BY ContextTypes DEF MayActAlone, Settled, cooldown_seconds
  <2>2. \A j \in 10 .. 13 : j \in {10, 11, 12, 13}
    OBVIOUS
  <2> QED  BY <1>2, <1>4, <2>1, <2>2, LastTests
<1>7. Rules(inp)[14].when \/ ~Rules(inp)[15].when
  <2>1. CASE inp.device.type = "fan" /\ inp.action = "turn_on"
    <3>1. ValidPreArrival(inp.ctx)
            \/ EnvironmentReason(inp.device, inp.ctx) \in {"HOT_DRY_FAN", "CONTEXT_OK"}
      BY <1>3, <2>1, FanEnvironment, ContextTypes DEF MayActAlone
    <3> QED  BY <1>2, <2>1, <3>1, LastTests
  <2>2. CASE ~(inp.device.type = "fan" /\ inp.action = "turn_on")
    BY <2>2, LastTests
  <2> QED  BY <2>1, <2>2
<1>8. Rules(inp)[16].when
  BY <1>2, LastTests
<1>9. i \in {14, 16}
  <2>1. i >= 14
    BY <1>1, <1>5, <1>6
  <2>2. i # 17
    <3>1. i = 17 => 16 \in 1 .. i - 1
      OBVIOUS
    <3> QED  BY <1>1, <1>8, <3>1
  <2>3. i # 15
    <3>1. i = 15 => 14 \in 1 .. i - 1
      OBVIOUS
    <3> QED  BY <1>1, <1>7, <3>1
  <2> QED  BY <2>1, <2>2, <2>3
<1> QED  BY <1>1, <1>9, Decisions

-----------------------------------------------------------------------------
(* The boldest answer each kind of device can get.                          *)

(* The first test that holds comes no later than one that holds.            *)
LEMMA NoLaterThan ==
  ASSUME NEW D, NEW inp \in InputType(D), NEW n \in 1 .. 17, Rules(inp)[n].when
  PROVE  \E i \in 1 .. n : /\ Evaluate(inp) = Rules(inp)[i] /\ Rules(inp)[i].when
                           /\ \A j \in 1 .. i - 1 : ~Rules(inp)[j].when
<1>1. PICK i \in 1 .. 17 : /\ Evaluate(inp) = Rules(inp)[i] /\ Rules(inp)[i].when
                           /\ \A j \in 1 .. i - 1 : ~Rules(inp)[j].when
  BY VerdictHolds
<1>2. i <= n
  <2>1. i > n => n \in 1 .. i - 1
    OBVIOUS
  <2> QED  BY <1>1, <2>1
<1> QED  BY <1>1, <1>2

LEMMA AskedAtMost ==
  ASSUME NEW D, NEW inp \in InputType(D), NeedsConfirm(inp.device), ~Observed(inp.device)
  PROVE  Evaluate(inp).decision \in {"confirm_required", "block"}
<1>1. Rules(inp)[12].when /\ ~Rules(inp)[4].when
  BY FirstTests, LastTests
<1>2. PICK i \in 1 .. 12 : Evaluate(inp) = Rules(inp)[i] /\ Rules(inp)[i].when
  BY <1>1, NoLaterThan
<1>3. i \in {1, 2, 3, 5, 6, 7, 8, 9} \/ i \in {10, 11} \/ i = 12
  BY <1>1, <1>2
<1> QED  BY <1>2, <1>3, Decisions

LEMMA ObservedAtMost ==
  ASSUME NEW D, NEW inp \in InputType(D), Observed(inp.device)
  PROVE  Evaluate(inp).decision \in {"observe_only", "block"}
<1>1. Rules(inp)[4].when
  BY FirstTests
<1>2. PICK i \in 1 .. 4 : Evaluate(inp) = Rules(inp)[i]
  BY <1>1, NoLaterThan
<1>3. i \in {1, 2, 3} \/ i = 4
  BY <1>2
<1> QED  BY <1>2, <1>3, Decisions

LEMMA LateIsLeftAlone ==
  ASSUME NEW D, NEW inp \in InputType(D), ~Observed(inp.device),
         inp.action = "turn_on", Overdue(inp.ctx)
  PROVE  Evaluate(inp).decision = "block"
<1>1. Rules(inp)[7].when /\ ~Rules(inp)[4].when
  BY FirstTests
<1>2. PICK i \in 1 .. 7 : Evaluate(inp) = Rules(inp)[i] /\ Rules(inp)[i].when
  BY <1>1, NoLaterThan
<1>3. i \in {1, 2, 3, 5, 6, 7}
  BY <1>1, <1>2
<1> QED  BY <1>2, <1>3, Decisions

(* Every verdict is one of the four decisions.                              *)
LEMMA FourDecisions ==
  ASSUME NEW D, NEW inp \in InputType(D)
  PROVE  Evaluate(inp).decision \in {"allow", "confirm_required", "observe_only", "block"}
<1>1. PICK i \in 1 .. 17 : Evaluate(inp) = Rules(inp)[i]
  BY VerdictHolds
<1>2. \/ i \in {1, 2, 3, 5, 6, 7, 8, 9} \/ i \in {10, 11, 13, 15}
      \/ i = 4 \/ i \in {12, 17} \/ i \in {14, 16}
  OBVIOUS
<1> QED  BY <1>1, <1>2, Decisions

(* What needs no confirmation is switched on, or asked about, only for      *)
(* somebody at home or about to be there.                                   *)
LEMMA OnForSomebody ==
  ASSUME NEW D, NEW inp \in InputType(D), ~NeedsConfirm(inp.device), inp.action = "turn_on",
         ~inp.ctx.home, ~ValidPreArrival(inp.ctx)
  PROVE  Evaluate(inp).decision \notin {"allow", "confirm_required"}
<1>1. Rules(inp)[13].when /\ ~Rules(inp)[12].when
  BY LastTests
<1>2. PICK i \in 1 .. 13 : Evaluate(inp) = Rules(inp)[i] /\ Rules(inp)[i].when
  BY <1>1, NoLaterThan
<1>3. i \in {1, 2, 3, 5, 6, 7, 8, 9} \/ i \in {10, 11, 13} \/ i = 4
  BY <1>1, <1>2
<1> QED  BY <1>2, <1>3, Decisions

LEMMA AutomaticOrNot ==
  ASSUME NEW D, NEW inp \in InputType(D),
         Automatic(inp.device), ~Observed(inp.device), ~NeedsConfirm(inp.device)
  PROVE  Evaluate(inp).decision \in {"allow", "block"}
<1>1. Rules(inp)[16].when /\ ~Rules(inp)[4].when /\ ~Rules(inp)[12].when
  BY FirstTests, LastTests
<1>2. PICK i \in 1 .. 16 : Evaluate(inp) = Rules(inp)[i] /\ Rules(inp)[i].when
  BY <1>1, NoLaterThan
<1>3. i \in {1, 2, 3, 5, 6, 7, 8, 9} \/ i \in {10, 11, 13, 15} \/ i \in {14, 16}
  BY <1>1, <1>2
<1> QED  BY <1>2, <1>3, Decisions

-----------------------------------------------------------------------------
(* The scenarios.                                                           *)
Names == {"PreArrivalHotDry", "HotHumidEvening", "WaterHeaterRoutine", "TvEvening",
          "ArrivalOverdue", "ObserveOnly"}

LEMMA ScenarioNames ==
  /\ DOMAIN SCENARIOS = Names
  /\ SCENARIOS["PreArrivalHotDry"] = PreArrivalHotDry /\ SCENARIOS["HotHumidEvening"] = HotHumidEvening
  /\ SCENARIOS["WaterHeaterRoutine"] = WaterHeaterRoutine /\ SCENARIOS["TvEvening"] = TvEvening
  /\ SCENARIOS["ArrivalOverdue"] = ArrivalOverdue /\ SCENARIOS["ObserveOnly"] = ObserveOnly
BY DEF SCENARIOS, Names

LEMMA ScenarioIsInput ==
  ASSUME NEW d \in Known, NEW c \in Int, NEW x \in ContextType
  PROVE  Scenario(d, c, x) \in InputType(Known) /\ Scenario(d, c, x).action = "turn_on"
BY DEF Scenario, InputType

LEMMA ScenarioContexts ==
  /\ ScenarioContext \in ContextType
  /\ [ScenarioContext EXCEPT !.hot = TRUE, !.dry = TRUE, !.home = FALSE,
                             !.predicted = 15, !.window = TRUE] \in ContextType
  /\ [ScenarioContext EXCEPT !.hot = TRUE, !.humid = TRUE] \in ContextType
  /\ [ScenarioContext EXCEPT !.hot = TRUE, !.home = FALSE, !.predicted = -35,
                             !.overdue = TRUE, !.minutesAfter = 35] \in ContextType
<1>1. ScenarioContext \in ContextType
  BY DEF ScenarioContext, ContextType
<1>2. ASSUME NEW c \in ContextType, NEW b \in BOOLEAN, NEW n \in Int
      PROVE  /\ [c EXCEPT !.hot = b] \in ContextType /\ [c EXCEPT !.dry = b] \in ContextType
             /\ [c EXCEPT !.home = b] \in ContextType /\ [c EXCEPT !.window = b] \in ContextType
             /\ [c EXCEPT !.humid = b] \in ContextType /\ [c EXCEPT !.overdue = b] \in ContextType
             /\ [c EXCEPT !.predicted = n] \in ContextType
             /\ [c EXCEPT !.minutesAfter = n] \in ContextType
  BY DEF ContextType
<1>3. TRUE \in BOOLEAN /\ FALSE \in BOOLEAN /\ 15 \in Int /\ -35 \in Int /\ 35 \in Int
  OBVIOUS
<1>4. [ScenarioContext EXCEPT !.hot = TRUE, !.dry = TRUE, !.home = FALSE,
                              !.predicted = 15, !.window = TRUE] \in ContextType
  BY <1>1, <1>2, <1>3, Zenon
<1>5. [ScenarioContext EXCEPT !.hot = TRUE, !.humid = TRUE] \in ContextType
  BY <1>1, <1>2, <1>3, Zenon
<1>6. [ScenarioContext EXCEPT !.hot = TRUE, !.home = FALSE, !.predicted = -35,
                              !.overdue = TRUE, !.minutesAfter = 35] \in ContextType
  BY <1>1, <1>2, <1>3, Zenon
<1> QED  BY <1>1, <1>4, <1>5, <1>6

LEMMA ScenarioInputs ==
  ASSUME NEW name \in Names
  PROVE  SCENARIOS[name] \in InputType(Known) /\ SCENARIOS[name].action = "turn_on"
<1>1. /\ Dev("fan", "auto", "low") \in Known /\ Dev("air_conditioner", "confirm", "medium") \in Known
      /\ Dev("water_heater", "confirm", "high") \in Known /\ Dev("tv", "confirm", "medium") \in Known
      /\ Dev("door_lock", "observe_only", "high") \in Known
  BY DEF Known, DEVICES
<1>2. PreArrivalHotDry \in InputType(Known) /\ PreArrivalHotDry.action = "turn_on"
  <2>1. 88 \in Int
    OBVIOUS
  <2> QED  BY <1>1, <2>1, ScenarioContexts, ScenarioIsInput, Zenon DEF PreArrivalHotDry
<1>3. HotHumidEvening \in InputType(Known) /\ HotHumidEvening.action = "turn_on"
  <2>1. 89 \in Int
    OBVIOUS
  <2> QED  BY <1>1, <2>1, ScenarioContexts, ScenarioIsInput, Zenon DEF HotHumidEvening
<1>4. WaterHeaterRoutine \in InputType(Known) /\ WaterHeaterRoutine.action = "turn_on"
  <2>1. 91 \in Int
    OBVIOUS
  <2> QED  BY <1>1, <2>1, ScenarioContexts, ScenarioIsInput, Zenon DEF WaterHeaterRoutine
<1>5. TvEvening \in InputType(Known) /\ TvEvening.action = "turn_on"
  <2>1. 90 \in Int
    OBVIOUS
  <2> QED  BY <1>1, <2>1, ScenarioContexts, ScenarioIsInput, Zenon DEF TvEvening
<1>6. ArrivalOverdue \in InputType(Known) /\ ArrivalOverdue.action = "turn_on"
  <2>1. 87 \in Int
    OBVIOUS
  <2> QED  BY <1>1, <2>1, ScenarioContexts, ScenarioIsInput, Zenon DEF ArrivalOverdue
<1>7. ObserveOnly \in InputType(Known) /\ ObserveOnly.action = "turn_on"
  <2>1. 80 \in Int
    OBVIOUS
  <2> QED  BY <1>1, <2>1, ScenarioContexts, ScenarioIsInput, Zenon DEF ObserveOnly
<1> QED  BY <1>2, <1>3, <1>4, <1>5, <1>6, <1>7, ScenarioNames DEF Names

(* What the recent past of the device can not change.                       *)
LEMMA UsedInputs ==
  ASSUME NEW s \in InputType(Known), NEW x \in Used(s)
  PROVE  /\ x \in InputType(Known)
         /\ x.device = s.device /\ x.action = s.action
         /\ x.ctx.overdue = s.ctx.overdue /\ x.ctx.minutesAfter = s.ctx.minutesAfter
         /\ x.ctx.home = s.ctx.home
<1>1. CASE x = s
  BY <1>1
<1>2. ASSUME NEW q \in Lately, NEW c \in Confidences \cup {s.confidence}, x = After(s, q, c)
      PROVE  /\ x \in InputType(Known)
             /\ x.device = s.device /\ x.action = s.action
             /\ x.ctx.overdue = s.ctx.overdue /\ x.ctx.minutesAfter = s.ctx.minutesAfter
             /\ x.ctx.home = s.ctx.home
  <2>1. q \in LatelyType /\ c \in Int
    BY LatelyAssumption, ContextTypes
  <2> QED  BY <1>2, <2>1 DEF After, InputType, ContextType, LatelyType
<1> QED  BY <1>1, <1>2 DEF Used

LEMMA LateScenario == SCENARIOS["ArrivalOverdue"].ctx.overdue = TRUE
<1>1. ArrivalOverdue.ctx = [ScenarioContext EXCEPT !.hot = TRUE, !.home = FALSE,
                              !.predicted = -35, !.overdue = TRUE, !.minutesAfter = 35]
  BY DEF ArrivalOverdue, Scenario
<1>2. [ScenarioContext EXCEPT !.hot = TRUE, !.home = FALSE, !.predicted = -35,
                              !.overdue = TRUE, !.minutesAfter = 35].overdue = TRUE
  <2>1. "overdue" \in DOMAIN ScenarioContext
    BY DEF ScenarioContext
  <2> QED  BY <2>1, Zenon
<1> QED  BY <1>1, <1>2, ScenarioNames, Zenon

(* Whatever happened lately, the answer is the described one or none.       *)
LEMMA DescribedOrBlocked ==
  ASSUME NEW name \in Names, NEW x \in Used(SCENARIOS[name])
  PROVE  Evaluate(x).decision \in {Described[name], "block"}
<1>1. /\ x \in InputType(Known) /\ x.device = SCENARIOS[name].device /\ x.action = "turn_on"
      /\ x.ctx.overdue = SCENARIOS[name].ctx.overdue
  BY ScenarioInputs, UsedInputs
<1> USE ScenarioNames DEF Described, Scenario, Dev
<1>2. CASE name = "PreArrivalHotDry"
  <2>1. Automatic(x.device) /\ ~Observed(x.device) /\ ~NeedsConfirm(x.device)
    BY <1>1, <1>2 DEF PreArrivalHotDry, Automatic, Observed, NeedsConfirm
  <2> QED  BY <1>1, <1>2, <2>1, AutomaticOrNot
<1>3. CASE name \in {"HotHumidEvening", "WaterHeaterRoutine", "TvEvening"}
  <2>1. ~Observed(x.device) /\ NeedsConfirm(x.device)
    BY <1>1, <1>3 DEF HotHumidEvening, WaterHeaterRoutine, TvEvening, Observed, NeedsConfirm
  <2> QED  BY <1>1, <1>3, <2>1, AskedAtMost
<1>4. CASE name = "ArrivalOverdue"
  <2>1. SCENARIOS[name].ctx.overdue = TRUE
    BY <1>4, LateScenario
  <2>2. Overdue(x.ctx)
    BY <1>1, <2>1 DEF Overdue
  <2>3. ~Observed(x.device)
    BY <1>1, <1>4 DEF ArrivalOverdue, Observed
  <2> QED  BY <1>1, <1>4, <2>2, <2>3, LateIsLeftAlone
<1>5. CASE name = "ObserveOnly"
  <2>1. Observed(x.device)
    BY <1>1, <1>5 DEF ObserveOnly, Observed
  <2> QED  BY <1>1, <1>5, <2>1, ObservedAtMost
<1> QED  BY <1>2, <1>3, <1>4, <1>5 DEF Names

(* What each scenario says of itself when nothing else happened.            *)
LEMMA UntouchedContext ==
  /\ ScenarioContext.prev_state = 0 /\ ScenarioContext.home = TRUE
  /\ ScenarioContext.overdue = FALSE /\ ScenarioContext.minutesAfter = 0
  /\ ScenarioContext.override = FALSE /\ ScenarioContext.sinceChange = 1800
  /\ ScenarioContext.toggles2 = 0 /\ ScenarioContext.toggles5 = 0
BY DEF ScenarioContext

LEMMA QuietIsNotBlocked ==
  ASSUME NEW x \in InputType(Known), x.action = "turn_on", x.device # NoDevice,
         x.confidence >= confidence_threshold, x.ctx.prev_state = 0,
         ~x.ctx.override, x.ctx.sinceChange = 1800,
         x.ctx.toggles2 = 0, x.ctx.toggles5 = 0, ~Overdue(x.ctx),
         ~Observed(x.device), NeedsConfirm(x.device)
  PROVE  Evaluate(x).decision = "confirm_required"
<1>1. ~(x.confidence < confidence_threshold) /\ ~(x.ctx.sinceChange < cooldown_seconds)
  BY ContextTypes DEF confidence_threshold, cooldown_seconds
<1>2. /\ ~Rules(x)[1].when /\ ~Rules(x)[2].when /\ ~Rules(x)[3].when /\ ~Rules(x)[4].when
      /\ ~Rules(x)[5].when /\ ~Rules(x)[6].when /\ ~Rules(x)[7].when /\ ~Rules(x)[8].when
      /\ ~Rules(x)[9].when
  BY <1>1, FirstTests
<1>3. ~Rules(x)[10].when /\ ~Rules(x)[11].when /\ Rules(x)[12].when
  BY <1>1, LastTests
<1>4. PICK i \in 1 .. 12 : Evaluate(x) = Rules(x)[i] /\ Rules(x)[i].when
  BY <1>3, NoLaterThan
<1>5. i = 12
  BY <1>2, <1>3, <1>4
<1> QED  BY <1>4, <1>5, Decisions

LEMMA AsDescribed ==
  ASSUME NEW name \in Names, in = SCENARIOS[name]
  PROVE  Evaluate(in).decision = Described[name]
<1>1. in \in InputType(Known) /\ in.action = "turn_on" /\ in \in Used(SCENARIOS[name])
  BY ScenarioInputs DEF Used
<1> USE ScenarioNames DEF Described, Scenario, Dev
<1>2. CASE name = "PreArrivalHotDry"
  <2>1. /\ in.device.type = "fan" /\ in.action = "turn_on" /\ in.confidence = 88
        /\ in.ctx = [ScenarioContext EXCEPT !.hot = TRUE, !.dry = TRUE, !.home = FALSE,
                                            !.predicted = 15, !.window = TRUE]
    BY <1>2 DEF PreArrivalHotDry
  <2>2. /\ in.ctx.prev_state = 0 /\ in.ctx.overdue = FALSE /\ in.ctx.minutesAfter = 0
        /\ ~in.ctx.override /\ in.ctx.sinceChange = 1800
        /\ in.ctx.toggles2 = 0 /\ in.ctx.toggles5 = 0
        /\ in.ctx.predicted = 15 /\ in.ctx.window = TRUE
    BY <2>1 DEF ScenarioContext
  <2>3. MayActAlone(in)
    BY <2>1, <2>2 DEF MayActAlone, Settled, Expected, confidence_threshold, cooldown_seconds
  <2> QED  BY <1>1, <1>2, <2>3, AllowsAllOfThat
<1>3. CASE name \in {"HotHumidEvening", "WaterHeaterRoutine", "TvEvening"}
  <2>1. /\ in.device # NoDevice /\ ~Observed(in.device) /\ NeedsConfirm(in.device)
        /\ in.confidence \in {89, 90, 91}
    BY <1>3 DEF HotHumidEvening, WaterHeaterRoutine, TvEvening, Observed, NeedsConfirm, NoDevice
  <2>2. \/ in.ctx = ScenarioContext
        \/ in.ctx = [ScenarioContext EXCEPT !.hot = TRUE, !.humid = TRUE]
    BY <1>3 DEF HotHumidEvening, WaterHeaterRoutine, TvEvening
  <2>3. /\ in.ctx.prev_state = 0 /\ ~in.ctx.override /\ in.ctx.sinceChange = 1800
        /\ in.ctx.toggles2 = 0 /\ in.ctx.toggles5 = 0
        /\ in.ctx.overdue = FALSE /\ in.ctx.minutesAfter = 0
    <3>1. CASE in.ctx = ScenarioContext
      BY <3>1, UntouchedContext
    <3>2. CASE in.ctx = [ScenarioContext EXCEPT !.hot = TRUE, !.humid = TRUE]
      BY <3>2 DEF ScenarioContext
    <3> QED  BY <2>2, <3>1, <3>2
  <2>4. ~Overdue(in.ctx)
    BY <2>3 DEF Overdue
  <2>5. in.confidence >= confidence_threshold
    BY <2>1 DEF confidence_threshold
  <2>6. Evaluate(in).decision = "confirm_required"
    BY <1>1, <2>1, <2>3, <2>4, <2>5, QuietIsNotBlocked
  <2>7. Described[name] = "confirm_required"
    BY <1>3
  <2> QED  BY <2>6, <2>7
<1>4. CASE name = "ArrivalOverdue"
  BY <1>1, <1>4, DescribedOrBlocked
<1>5. CASE name = "ObserveOnly"
  <2>1. Observed(in.device) /\ in.device # NoDevice
    BY <1>5 DEF ObserveOnly, Observed, NoDevice
  <2>2. ~Rules(in)[1].when /\ ~Rules(in)[2].when /\ ~Rules(in)[3].when /\ Rules(in)[4].when
    BY <1>1, <2>1, FirstTests
  <2>3. PICK i \in 1 .. 4 : Evaluate(in) = Rules(in)[i] /\ Rules(in)[i].when
    BY <1>1, <2>2, NoLaterThan
  <2>4. i = 4
    BY <2>2, <2>3
  <2> QED  BY <1>5, <2>3, <2>4, Decisions
<1> QED  BY <1>2, <1>3, <1>4, <1>5 DEF Names

-----------------------------------------------------------------------------
(* The state machine that puts the policy to use: what was asked is known,  *)
(* and the verdict is the policy's.                                         *)
Asked ==
  \/ origin = Given
  \/ \E name \in Names : in \in Used(SCENARIOS[name]) /\ origin = FromScenario(name)
  \/ \E p \in Probas, d \in DEVICES, s \in {0, 1} :
       /\ in = ModelInput(p, d, [ScenarioContext EXCEPT !.prev_state = s])
       /\ origin = FromModel(p)
UseInv ==
  /\ in \in InputType(Known) /\ Asked
  /\ verdict = None \/ verdict = Evaluate(in)

LEMMA ModelInputs ==
  ASSUME NEW p \in Probas, NEW d \in DEVICES, NEW s \in {0, 1}
  PROVE  ModelInput(p, d, [ScenarioContext EXCEPT !.prev_state = s]) \in InputType(Known)
<1>1. PICK L \in LabelSets : p \in Probabilities(L)
  BY ProbaAssumption
<1>2. DOMAIN p = L /\ \A label \in L : p[label] \in Int
  BY <1>1 DEF Probabilities
<1>3. Best(p) \in L
  BY <1>1, BestIsSurest
<1>4. Falls(p) => BestAction(p) \in L
  <2>1. Cardinality({"no_action"}) = 1
    BY FS_Singleton
  <2>2. Falls(p) => L # {"no_action"}
    BY <1>2, <2>1 DEF Falls
  <2> QED  BY <1>2, <1>3, <2>2 DEF BestAction, LabelSets, Falls
<1>5. PredictionFromProba(p).label \in L /\ PredictionFromProba(p).confidence \in Int
  BY <1>2, <1>3, <1>4 DEF PredictionFromProba
<1>6. [ScenarioContext EXCEPT !.prev_state = s] \in ContextType
  BY ScenarioContexts DEF ContextType
<1>7. PredictionFromProba(p).label \in {"turn_on", "turn_off", "no_action", "other"}
  BY <1>5 DEF LabelSets
<1> QED  BY <1>5, <1>6, <1>7 DEF ModelInput, InputType, Known

LEMMA UseInit == Init => UseInv
<1> SUFFICES ASSUME Init PROVE UseInv
  OBVIOUS
<1>1. in \in InputType(Known)
  BY InputAssumption, ScenarioNames, ScenarioInputs, UsedInputs, ModelInputs DEF Init
<1>2. Asked
  BY ScenarioNames DEF Init, Asked
<1> QED  BY <1>1, <1>2 DEF Init, UseInv

LEMMA UseStep == UseInv /\ [Next]_vars => UseInv'
BY DEF UseInv, Next, Decide, vars, Asked

LEMMA UseInvariance == Spec => []UseInv
BY UseInit, UseStep, PTL DEF Spec

(* Where an input comes from is told by its kind.                           *)
LEMMA KindsDiffer ==
  /\ Given.kind = "given"
  /\ \A name : FromScenario(name).kind = "scenario" /\ FromScenario(name).name = name
  /\ \A p : FromModel(p).kind = "model" /\ FromModel(p).proba = p
BY DEF Given, FromScenario, FromModel

(* The agent acts alone exactly when it may, for any input over the         *)
(* registry: the order of the seventeen tests neither forgets one nor adds  *)
(* one (policy.py:61-120).                                                  *)
THEOREM AllowsExactly == Spec => []AllowedExactly
<1>1. UseInv => AllowedExactly
  BY AllowsOnlyThat, AllowsAllOfThat DEF UseInv, AllowedExactly
<1> QED  BY <1>1, UseInvariance, PTL

(* The scenarios end as they are described, and bolder after no history of  *)
(* the device and with no confidence (scenarios.py:66-144).                 *)
THEOREM ScenariosKept == Spec => []ScenariosAsDescribed
<1>1. UseInv => ScenariosAsDescribed
  <2> SUFFICES ASSUME UseInv, origin.kind = "scenario", verdict # None
               PROVE  /\ in = SCENARIOS[origin.name] =>
                           verdict.decision = Described[origin.name]
                      /\ verdict.decision \in {Described[origin.name], "block"}
    BY DEF ScenariosAsDescribed
  <2>1. PICK name \in Names : in \in Used(SCENARIOS[name]) /\ origin = FromScenario(name)
    BY KindsDiffer DEF UseInv, Asked
  <2>2. origin.name = name /\ verdict = Evaluate(in)
    BY <2>1, KindsDiffer DEF UseInv
  <2> QED  BY <2>1, <2>2, AsDescribed, DescribedOrBlocked
<1> QED  BY <1>1, UseInvariance, PTL

(* A model that would rather do nothing is neither carried out nor asked    *)
(* about, for any probabilities it can give (predictor.py:70-75).           *)
THEOREM FallbackNever == Spec => []FallbackNeverActs
<1>1. UseInv => FallbackNeverActs
  <2> SUFFICES ASSUME UseInv, origin.kind = "model", verdict # None,
                      Best(origin.proba) = "no_action"
               PROVE  verdict.decision \notin {"allow", "confirm_required"}
    BY DEF FallbackNeverActs
  <2>1. PICK p \in Probas, d \in DEVICES, s \in {0, 1} :
          /\ in = ModelInput(p, d, [ScenarioContext EXCEPT !.prev_state = s])
          /\ origin = FromModel(p)
    BY KindsDiffer DEF UseInv, Asked
  <2>2. PICK L \in LabelSets : p \in Probabilities(L)
    BY ProbaAssumption
  <2>3. /\ Best(p) = "no_action" /\ verdict = Evaluate(in) /\ in \in InputType(Known)
        /\ in.action = PredictionFromProba(p).label
        /\ in.confidence = PredictionFromProba(p).confidence
    BY <2>1, KindsDiffer DEF UseInv, ModelInput
  <2> QED  BY <2>2, <2>3, FallbackIsHarmless
<1> QED  BY <1>1, UseInvariance, PTL
=============================================================================

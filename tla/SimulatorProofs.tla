--------------------------- MODULE SimulatorProofs ---------------------------
(***************************************************************************)
(* The simulated home, for any contexts, devices, hours and requests.      *)
(***************************************************************************)
EXTENDS Simulator, FiniteSetTheorems, TLAPS

(* What DecisionProofs proves of the policy and of the rows; the variables  *)
(* and the inputs of its state machine play no part.                        *)
Known == INSTANCE DecisionProofs WITH
  Inputs <- {}, Lately <- {}, Confidences <- {}, Probas <- {}, Float <- <<>>,
  in <- SIM_CONTEXT, verdict <- SIM_CONTEXT, origin <- SIM_CONTEXT

LEMMA SamePolicy ==
  ASSUME NEW x
  PROVE  Policy!Evaluate(x) = Known!Evaluate(x)
<1>1. Policy!Rules(x) = Known!Rules(x)
  BY DEF Policy!Rules, Known!Rules, Policy!Rule, Known!Rule, Policy!Dev, Known!Dev,
         Policy!NoDevice, Known!NoDevice, Policy!Overdue, Known!Overdue,
         Policy!ValidPreArrival, Known!ValidPreArrival,
         Policy!EnvironmentReason, Known!EnvironmentReason,
         Policy!ConfirmReason, Known!ConfirmReason, Policy!Observed, Known!Observed,
         Policy!NeedsConfirm, Known!NeedsConfirm,
         Policy!confidence_threshold, Known!confidence_threshold,
         Policy!cooldown_seconds, Known!cooldown_seconds
<1> QED  BY <1>1 DEF Policy!Evaluate, Known!Evaluate

LEMMA SameLatest ==
  ASSUME NEW rows
  PROVE  Rows!Latest(rows) = Known!Latest(rows)
BY DEF Rows!Latest, Known!Latest, Rows!Later, Known!Later

LEMMA ReadsAre ==
  /\ Len(CandidateReads) = 7 /\ Len(Reads) = 14
  /\ Reads[1] = "arrival" /\ Reads[2] = "predicted" /\ Reads[3] = "after"
  /\ Reads[4] = "home" /\ Reads[5] = "lrTemp" /\ Reads[6] = "lrHum" /\ Reads[7] = "hour"
  /\ Reads[8] = "arrival" /\ Reads[9] = "predicted" /\ Reads[10] = "after"
  /\ Reads[11] = "lrTemp" /\ Reads[12] = "lrHum" /\ Reads[13] = "brTemp"
  /\ Reads[14] = "brHum"
BY DEF Reads, CandidateReads, ContextReads

Input(type, confidence, x) ==
  [device |-> Kind(type), action |-> "turn_on", confidence |-> confidence, ctx |-> x]

LEMMA KindsAre ==
  /\ Kind("fan") = Policy!Dev("fan", "auto", "low")
  /\ Kind("light") = Policy!Dev("light", "auto", "low")
  /\ Kind("air_conditioner") = Policy!Dev("air_conditioner", "confirm", "medium")
  /\ Kind("tv") = Policy!Dev("tv", "confirm", "medium")
<1>1. \A d, e \in Policy!DEVICES : d.type = e.type => d = e
  BY DEF Policy!DEVICES, Policy!Dev
<1>2. /\ Policy!Dev("fan", "auto", "low") \in Policy!DEVICES
      /\ Policy!Dev("light", "auto", "low") \in Policy!DEVICES
      /\ Policy!Dev("air_conditioner", "confirm", "medium") \in Policy!DEVICES
      /\ Policy!Dev("tv", "confirm", "medium") \in Policy!DEVICES
  BY DEF Policy!DEVICES
<1>3. \A t, l, r : Policy!Dev(t, l, r).type = t
  BY DEF Policy!Dev
<1> QED  BY <1>1, <1>2, <1>3 DEF Kind

LEMMA ContextIsTyped ==
  ASSUME NEW c \in PayloadType, NEW state
  PROVE  LET x == PolicyContextFromSimContext(c, state) IN
         /\ x \in Known!ContextType
         /\ x.overdue = IsArrivalOverdue(c) /\ x.home = c.home
         /\ x.window = Arriving(c) /\ x.predicted = c.predicted
<1> DEFINE hot == c.lrTemp >= 30 \/ c.brTemp >= 30
           humid == c.lrHum >= 70 \/ c.brHum >= 70
           dry == c.lrHum <= 55 \/ c.brHum <= 55
           window == Arriving(c)
           overdue == IsArrivalOverdue(c)
           prev == IF state = "on" THEN 1 ELSE 0
           x == [hot |-> hot, humid |-> humid, dry |-> dry, home |-> c.home,
                 predicted |-> c.predicted, window |-> window,
                 overdue |-> overdue, minutesAfter |-> c.after, prev_state |-> prev,
                 sinceChange |-> 1800, toggles2 |-> 0, toggles5 |-> 0, override |-> FALSE]
<1>1. PolicyContextFromSimContext(c, state) = x
  BY DEF PolicyContextFromSimContext
<1>2. /\ hot \in BOOLEAN /\ humid \in BOOLEAN /\ dry \in BOOLEAN
      /\ window \in BOOLEAN /\ overdue \in BOOLEAN
  BY DEF Arriving, IsArrivalOverdue
<1>3. prev \in {0, 1} /\ c.predicted \in Int /\ c.after \in Int /\ c.home \in BOOLEAN
  BY DEF PayloadType
<1> HIDE DEF hot, humid, dry, window, overdue, prev
<1>4. x \in Known!ContextType
  BY <1>2, <1>3 DEF Known!ContextType
<1> QED  BY <1>1, <1>4 DEF window, overdue

LEMMA InputIsTyped ==
  ASSUME NEW type \in {"fan", "light", "air_conditioner", "tv"}, NEW confidence \in Int,
         NEW x \in Known!ContextType
  PROVE  LET inp == Input(type, confidence, x) IN
         /\ inp \in Known!InputType({Kind(type)}) /\ inp.ctx = x /\ inp.action = "turn_on"
         /\ ~Known!Observed(inp.device)
         /\ type \in {"fan", "light"} => ~Known!NeedsConfirm(inp.device)
<1>1. /\ Input(type, confidence, x) \in Known!InputType({Kind(type)})
      /\ Input(type, confidence, x).ctx = x /\ Input(type, confidence, x).action = "turn_on"
      /\ Input(type, confidence, x).device = Kind(type)
  BY DEF Input, Known!InputType
<1>2. ~Known!Observed(Kind(type)) /\ (type \in {"fan", "light"} => ~Known!NeedsConfirm(Kind(type)))
  BY KindsAre DEF Policy!Dev, Known!Observed, Known!NeedsConfirm
<1> QED  BY <1>1, <1>2

(* What the policy answers in the simulated home.                           *)
Answer(c, state, candidate) ==
  Policy!Evaluate([device |-> Kind(candidate.type), action |-> "turn_on",
                   confidence |-> candidate.confidence,
                   ctx |-> PolicyContextFromSimContext(c, state)]).decision

LEMMA Answers ==
  ASSUME NEW c \in PayloadType, NEW state, NEW candidate \in Choices
  PROVE  LET d == Answer(c, state, candidate) IN
         /\ d \in {"allow", "confirm_required", "observe_only", "block"}
         /\ IsArrivalOverdue(c) => d = "block"
         /\ d \in {"allow", "confirm_required"} =>
              \/ candidate.type \in {"air_conditioner", "tv"} \/ c.home
              \/ c.arrival = "pre_arrival" /\ c.predicted \in 10 .. 15
<1> DEFINE x == PolicyContextFromSimContext(c, state)
           inp == Input(candidate.type, candidate.confidence, x)
<1>1. candidate.type \in {"fan", "light", "air_conditioner", "tv"} /\ candidate.confidence \in Int
  BY DEF Choices, Turn
<1>2. /\ x \in Known!ContextType
      /\ x.overdue = IsArrivalOverdue(c) /\ x.home = c.home
      /\ x.window = Arriving(c) /\ x.predicted = c.predicted
  BY ContextIsTyped
<1> HIDE DEF x
<1>3. /\ inp \in Known!InputType({Kind(candidate.type)}) /\ inp.ctx = x /\ inp.action = "turn_on"
      /\ ~Known!Observed(inp.device)
      /\ candidate.type \in {"fan", "light"} => ~Known!NeedsConfirm(inp.device)
  BY <1>1, <1>2, InputIsTyped
<1>4. Answer(c, state, candidate) = Known!Evaluate(inp).decision
  BY SamePolicy DEF Answer, Input, x
<1> HIDE DEF inp
<1>5. Answer(c, state, candidate) \in {"allow", "confirm_required", "observe_only", "block"}
  BY <1>3, <1>4, Known!FourDecisions
<1>6. IsArrivalOverdue(c) => Answer(c, state, candidate) = "block"
  <2> SUFFICES ASSUME IsArrivalOverdue(c) PROVE Known!Evaluate(inp).decision = "block"
    BY <1>4
  <2>1. Known!Overdue(inp.ctx)
    BY <1>2, <1>3 DEF Known!Overdue
  <2> QED  BY <1>3, <2>1, Known!LateIsLeftAlone
<1>7. ASSUME candidate.type \notin {"air_conditioner", "tv"}, ~c.home, ~Arriving(c)
      PROVE  Answer(c, state, candidate) \notin {"allow", "confirm_required"}
  <2>1. ~inp.ctx.home /\ ~Known!ValidPreArrival(inp.ctx)
    BY <1>2, <1>3, <1>7 DEF Known!ValidPreArrival
  <2>2. ~Known!NeedsConfirm(inp.device)
    BY <1>1, <1>3, <1>7
  <2> QED  BY <1>3, <1>4, <2>1, <2>2, Known!OnForSomebody
<1> QED  BY <1>5, <1>6, <1>7 DEF Arriving

Fields == {"arrival", "predicted", "after", "home", "lrTemp", "lrHum", "brTemp", "brHum", "hour"}

LEMMA PayloadsAreTyped ==
  /\ Payload \subseteq PayloadType /\ Missing \in PayloadType
  /\ DEFAULT_SIM_CONTEXT \in Payload /\ DOMAIN Missing = Fields
<1>1. DEFAULT_SIM_CONTEXT \in PayloadType
  BY DEF DEFAULT_SIM_CONTEXT, NoNumber, PayloadType
<1>2. Missing \in PayloadType /\ DOMAIN Missing = Fields
  BY DEF DEFAULT_SIM_CONTEXT, NoNumber, PayloadType, Missing, Fields
<1> QED  BY <1>1, <1>2, ContextAssumption DEF Payload

LEMMA CandidateFits ==
  ASSUME NEW c \in PayloadType
  PROVE  LET candidate == CandidateFromSimContext(c) IN
         /\ candidate \in Choices /\ candidate # Nothing
         /\ candidate.type \in {"air_conditioner", "tv"} => c.home
         /\ Late(c) => candidate = Turn("fan", 86)
BY DEF CandidateFromSimContext, Choices, Turn, Nothing, PayloadType

LEMMA GetIsField ==
  ASSUME NEW f
  PROVE  Get(f) = (IF filled THEN SIM_CONTEXT ELSE Missing)[f]
BY DEF Get

-----------------------------------------------------------------------------
(* The steps on one request's locals.                                       *)
LEMMA NoJobIsTyped ==
  /\ NoJob \in Job
  /\ \A during \in SUBSET Payload, b \in BOOLEAN :
       [NoJob EXCEPT !.during = during, !.disturbed = b] \in Job
  /\ \A during \in SUBSET Payload, b \in BOOLEAN,
        d \in {"allow", "confirm_required", "observe_only", "block"} :
       [NoJob EXCEPT !.during = during, !.disturbed = b, !.decision = d] \in Job
  /\ \A entity \in Device, hour \in 0 .. 23, old \in OnOff, new \in OnOff, count \in Nat :
       [NoJob EXCEPT !.entity = entity, !.hour = hour, !.old = old, !.new = new,
                     !.count = count] \in Job
<1>1. NoJob \in Job
  BY PayloadsAreTyped, ReadsAre DEF NoJob, Job, OnOff
<1> HIDE DEF NoJob
<1> QED  BY <1>1 DEF Job

LEMMA JobSteps ==
  ASSUME NEW j \in Job
  PROVE  /\ [j EXCEPT !.disturbed = TRUE] \in Job
         /\ \A c \in Payload : [j EXCEPT !.during = @ \cup {c}, !.disturbed = TRUE] \in Job
         /\ \A n \in 0 .. Len(Reads) + 2, p \in OnOff :
              [j EXCEPT !.read = n, !.prev = p] \in Job
         /\ \A n \in 0 .. Len(Reads) + 2, b \in BOOLEAN :
              [j EXCEPT !.read = n, !.seen = [j.seen EXCEPT !.home = b]] \in Job
         /\ \A n \in 0 .. Len(Reads) + 2, s \in PayloadType, c \in Choices \cup {Nothing} :
              [j EXCEPT !.read = n, !.seen = s, !.candidate = c] \in Job
<1>1. \A b \in BOOLEAN : [j.seen EXCEPT !.home = b] \in PayloadType
  BY DEF Job, PayloadType
<1>2. ASSUME NEW n \in 0 .. Len(Reads) + 2, NEW b \in BOOLEAN
      PROVE  [j EXCEPT !.read = n, !.seen = [j.seen EXCEPT !.home = b]] \in Job
  BY <1>1 DEF Job
<1>3. /\ [j EXCEPT !.disturbed = TRUE] \in Job
      /\ \A c \in Payload : [j EXCEPT !.during = @ \cup {c}, !.disturbed = TRUE] \in Job
  BY DEF Job
<1>4. /\ \A n \in 0 .. Len(Reads) + 2, p \in OnOff :
          [j EXCEPT !.read = n, !.prev = p] \in Job
      /\ \A n \in 0 .. Len(Reads) + 2, s \in PayloadType, c \in Choices \cup {Nothing} :
          [j EXCEPT !.read = n, !.seen = s, !.candidate = c] \in Job
  BY DEF Job
<1> QED  BY <1>2, <1>3, <1>4

LEMMA LatestIsRow ==
  ASSUME TypeOK, RowsAreNumbered, NEW rows \in SUBSET events, rows # {}
  PROVE  /\ Rows!Latest(rows) \in rows /\ Rows!Latest(rows).new \in OnOff
         /\ \A s \in rows : s = Rows!Latest(rows) \/ Rows!Later(Rows!Latest(rows), s)
<1>1. IsFiniteSet(rows) /\ \A r, s \in rows : r.id = s.id => r = s
  BY FS_Subset DEF RowsAreNumbered
<1>2. \A r \in rows : r.ts \in Int /\ r.id \in Int /\ r.new \in OnOff
  BY DEF TypeOK, Row
<1>3. /\ Known!Latest(rows) \in rows
      /\ \A s \in rows : s = Known!Latest(rows) \/ Known!Later(Known!Latest(rows), s)
  BY <1>1, <1>2, Known!LatestExists DEF Known!IsFiniteSet, IsFiniteSet
<1> QED  BY <1>2, <1>3, SameLatest DEF Rows!Later, Known!Later

LEMMA LatestIsOnOff ==
  ASSUME TypeOK, RowsAreNumbered, NEW entity
  PROVE  LatestDeviceState(entity) \in OnOff
<1>1. RowsOf(entity) \in SUBSET events
  BY DEF RowsOf
<1> QED  BY <1>1, LatestIsRow DEF LatestDeviceState, OnOff

(* One read puts a field of what is in force, or what stands for a missing  *)
(* one, in its place; the seventh chooses the candidate instead.            *)
NextSeen(w) == [job[w].seen EXCEPT ![Reads[job[w].read + 1]] = Get(Reads[job[w].read + 1])]

LEMMA NextSeenIs ==
  ASSUME TypeOK, NEW w \in Thread, job[w].read < Len(Reads)
  PROVE  LET f == Reads[job[w].read + 1] IN
         /\ job[w].read \in 0 .. 13 /\ f \in Fields
         /\ NextSeen(w) \in PayloadType
         /\ \A g \in Fields : NextSeen(w)[g] = IF g = f THEN Get(f) ELSE job[w].seen[g]
<1>1. job[w].read \in 0 .. 13
  BY ReadsAre DEF TypeOK, Job
<1>2. Reads[job[w].read + 1] \in Fields
  <2>1. job[w].read + 1 \in 1 .. 14
    BY <1>1
  <2>2. \A n \in 1 .. 14 : Reads[n] \in Fields
    BY ReadsAre DEF Fields
  <2> QED  BY <2>1, <2>2
<1>3. (IF filled THEN SIM_CONTEXT ELSE Missing) \in PayloadType
  BY PayloadsAreTyped DEF TypeOK
<1>4. job[w].seen \in PayloadType
  BY DEF TypeOK, Job
<1> DEFINE f == Reads[job[w].read + 1]
           c == IF filled THEN SIM_CONTEXT ELSE Missing
           s == job[w].seen
<1>5. Get(f) = c[f]
  BY GetIsField
<1>6. NextSeen(w) = [s EXCEPT ![f] = c[f]]
  BY <1>5 DEF NextSeen
<1>7. c \in PayloadType /\ f \in Fields /\ s \in PayloadType
  BY <1>2, <1>3, <1>4
<1> HIDE DEF f, c, s
<1>8. DOMAIN s = Fields /\ DOMAIN NextSeen(w) = Fields
  BY <1>6, <1>7 DEF PayloadType, Fields
<1>9. \A g \in Fields : NextSeen(w)[g] = IF g = f THEN c[f] ELSE s[g]
  BY <1>6, <1>7, <1>8
<1>10. NextSeen(w) \in PayloadType
  BY <1>6, <1>7, <1>8, <1>9 DEF PayloadType, Fields
<1> QED  BY <1>1, <1>2, <1>5, <1>9, <1>10 DEF f, s

LEMMA ReadIs ==
  ASSUME TypeOK, NEW w \in Thread, Read(w)
  PROVE  LET n == job[w].read + 1 IN
         /\ job' = [job EXCEPT ![w] = job'[w]]
         /\ job'[w] = [job[w] EXCEPT
              !.read = n,
              !.seen = IF n = 7 THEN Missing ELSE NextSeen(w),
              !.candidate = IF n = 7 THEN CandidateFromSimContext(NextSeen(w))
                                     ELSE job[w].candidate]
         /\ job'[w] \in Job
<1> DEFINE n == job[w].read + 1
           m == Len(CandidateReads)
           s == IF n = m THEN Missing ELSE NextSeen(w)
           c == IF n = m THEN CandidateFromSimContext(NextSeen(w)) ELSE job[w].candidate
<1>1. job' = [job EXCEPT ![w] = [job[w] EXCEPT !.read = n, !.seen = s, !.candidate = c]]
  BY Zenon DEF Read, NextSeen
<1>2. job[w].read < Len(Reads) /\ job[w] \in Job
  BY DEF Read, TypeOK
<1>3. s \in PayloadType /\ c \in Choices \cup {Nothing}
  BY <1>2, NextSeenIs, PayloadsAreTyped, CandidateFits DEF Job
<1>4. n \in 0 .. Len(Reads) + 2
  BY <1>2, NextSeenIs, ReadsAre
<1> HIDE DEF n, s, c
<1>5. job'[w] = [job[w] EXCEPT !.read = n, !.seen = s, !.candidate = c]
  BY <1>1 DEF TypeOK
<1>6. job'[w] \in Job
  <2>1. [job[w] EXCEPT !.read = n, !.seen = s, !.candidate = c] \in Job
    BY <1>2, <1>3, <1>4, JobSteps, Zenon
  <2> QED  BY <1>5, <2>1
<1>7. job' = [job EXCEPT ![w] = job'[w]]
  BY <1>1, <1>5
<1> QED  BY <1>5, <1>6, <1>7, ReadsAre DEF n, s, c

LEMMA TypeStep ==
  ASSUME TypeOK, RowsAreNumbered, CandidateIsFounded, SaveStartsFromFound, NEW w \in Thread
  PROVE  /\ Clear(w) => TypeOK'
         /\ Fill(w) => TypeOK'
         /\ Evaluate(w) => TypeOK'
         /\ Read(w) => TypeOK'
         /\ ReadState(w) => TypeOK'
         /\ ReadPresence(w) => TypeOK'
         /\ Decide(w) => TypeOK'
         /\ Respond(w) => TypeOK'
         /\ \A entity \in Device, action \in {"turn_on", "turn_off", "toggle"}, h \in SimTimes :
              UserAction(w, entity, action, h) => TypeOK'
         /\ SaveEvent(w) => TypeOK'
<1> DEFINE Places == {"idle", "fill", "read", "decided", "error", "save"}
<1>0. /\ \A l \in Places : [pc EXCEPT ![w] = l] \in [Thread -> Places]
      /\ \A j \in Job : [job EXCEPT ![w] = j] \in [Thread -> Job]
      /\ \A v \in Thread : job[v] \in Job
      /\ MaxCalls \in Nat /\ Context \subseteq Payload
  BY DeviceAssumption DEF TypeOK, Payload
<1>1. Clear(w) => TypeOK'
  <2> SUFFICES ASSUME Clear(w) PROVE TypeOK'
    OBVIOUS
  <2>1. job' \in [Thread -> Job]
    BY <1>0, JobSteps DEF Clear
  <2>2. pc' \in [Thread -> Places]
    BY <1>0 DEF Clear, Goto
  <2>3. calls' \in 0 .. MaxCalls
    BY <1>0 DEF Clear, Call, TypeOK
  <2> QED  BY <2>1, <2>2, <2>3 DEF Clear, TypeOK
<1>2. Fill(w) => TypeOK'
  <2> SUFFICES ASSUME Fill(w) PROVE TypeOK'
    OBVIOUS
  <2>1. job' \in [Thread -> Job] /\ SIM_CONTEXT' \in Payload
    BY <1>0, JobSteps DEF Fill
  <2> QED  BY <1>0, <2>1 DEF Fill, Goto, TypeOK
<1>3. Evaluate(w) => TypeOK'
  <2> SUFFICES ASSUME Evaluate(w) PROVE TypeOK'
    OBVIOUS
  <2>1. (IF filled THEN {SIM_CONTEXT} ELSE {}) \in SUBSET Payload /\ (~filled) \in BOOLEAN
    BY DEF TypeOK
  <2>2. job' \in [Thread -> Job]
    BY <1>0, <2>1, NoJobIsTyped DEF Evaluate
  <2> QED  BY <1>0, <2>2 DEF Evaluate, Call, Goto, TypeOK
<1>4. Read(w) => TypeOK'
  <2> SUFFICES ASSUME Read(w) PROVE TypeOK'
    OBVIOUS
  <2>1. job' \in [Thread -> Job]
    BY <1>0, ReadIs
  <2> QED  BY <2>1 DEF Read, TypeOK
<1>5. ReadState(w) => TypeOK'
  <2> SUFFICES ASSUME ReadState(w) PROVE TypeOK'
    OBVIOUS
  <2>1. job[w].read + 1 \in 0 .. Len(Reads) + 2
    BY ReadsAre DEF ReadState
  <2>2. job' \in [Thread -> Job]
    BY <1>0, <2>1, LatestIsOnOff, JobSteps DEF ReadState
  <2> QED  BY <2>2 DEF ReadState, TypeOK
<1>6. ReadPresence(w) => TypeOK'
  <2> SUFFICES ASSUME ReadPresence(w) PROVE TypeOK'
    OBVIOUS
  <2>1. job[w].read + 1 \in 0 .. Len(Reads) + 2
    BY ReadsAre DEF ReadPresence
  <2>2. Get("home") \in BOOLEAN
    BY PayloadsAreTyped DEF TypeOK, Get, PayloadType
  <2>3. job' \in [Thread -> Job]
    BY <1>0, <2>1, <2>2, JobSteps DEF ReadPresence
  <2> QED  BY <2>3 DEF ReadPresence, TypeOK
<1>7. Decide(w) => TypeOK'
  <2> SUFFICES ASSUME Decide(w) PROVE TypeOK'
    OBVIOUS
  <2>1. job[w].seen \in PayloadType /\ job[w].candidate \in Choices
    BY <1>0, ReadsAre DEF Decide, CandidateIsFounded, Job
  <2>2. job[w].during \in SUBSET Payload /\ job[w].disturbed \in BOOLEAN
    BY <1>0 DEF Job
  <2>3. job' \in [Thread -> Job]
    <3> DEFINE d == Answer(job[w].seen, job[w].prev, job[w].candidate)
               j == [NoJob EXCEPT !.during = job[w].during, !.disturbed = job[w].disturbed,
                                  !.decision = d]
    <3>1. job' = [job EXCEPT ![w] = j]
      BY Zenon DEF Decide, Answer
    <3>2. d \in {"allow", "confirm_required", "observe_only", "block"}
      BY <2>1, Answers
    <3> HIDE DEF d
    <3>3. j \in Job
      BY <2>2, <3>2, NoJobIsTyped, Zenon
    <3> QED  BY <1>0, <3>1, <3>3
  <2> QED  BY <1>0, <2>3 DEF Decide, Goto, TypeOK
<1>8. Respond(w) => TypeOK'
  <2> SUFFICES ASSUME Respond(w) PROVE TypeOK'
    OBVIOUS
  <2>1. job' \in [Thread -> Job] /\ pc' \in [Thread -> Places]
    BY <1>0, NoJobIsTyped DEF Respond, Return, Goto
  <2> QED  BY <2>1 DEF Respond, Return, TypeOK
<1>9. ASSUME NEW entity \in Device, NEW action \in {"turn_on", "turn_off", "toggle"},
             NEW h \in SimTimes, UserAction(w, entity, action, h)
      PROVE  TypeOK'
  <2>1. h \in 0 .. 23
    BY DeviceAssumption, PayloadsAreTyped DEF SimTimes, TypeOK, PayloadType
  <2>2. NewState(LatestDeviceState(entity), action) \in OnOff
    BY LatestIsOnOff DEF NewState, OnOff
  <2>3. Cardinality(events) \in Nat
    BY FS_CardinalityType DEF RowsAreNumbered
  <2>4. job' \in [Thread -> Job]
    BY <1>0, <1>9, <2>1, <2>2, <2>3, LatestIsOnOff, NoJobIsTyped DEF UserAction
  <2> QED  BY <1>0, <1>9, <2>4 DEF UserAction, Call, Goto, TypeOK
<1>10. ASSUME SaveEvent(w) PROVE TypeOK'
  <2>1. Cardinality(events) \in Nat
    BY FS_CardinalityType DEF RowsAreNumbered
  <2>2. events' \in SUBSET Row
    BY <1>0, <1>10, <2>1 DEF SaveEvent, SaveStartsFromFound, TypeOK, Row, Job
  <2> QED  BY <1>0, <1>10, <2>2, NoJobIsTyped DEF SaveEvent, Return, Goto, TypeOK
<1> QED  BY <1>1, <1>2, <1>3, <1>4, <1>5, <1>6, <1>7, <1>8, <1>9, <1>10

-----------------------------------------------------------------------------
(* What an evaluation under way has seen: the parts of the invariant about  *)
(* pc[w] = "read", for one request.                                         *)
Founded(j) ==
  /\ filled => SIM_CONTEXT \in j.during
  /\ \A f \in Fields : j.seen[f] = Missing[f] \/ \E c \in j.during : j.seen[f] = c[f]
Chosen(j) ==
  /\ j.candidate = Nothing <=> j.read < 7
  /\ j.candidate.type \in {"air_conditioner", "tv"} => \E c \in j.during : c.home
Untorn(j) ==
  ~j.disturbed => filled /\ j.during = {SIM_CONTEXT} /\ SeesLateness(j)
Reading(j) == Founded(j) /\ Chosen(j) /\ Untorn(j)
ReadingInv == \A w \in Thread : pc[w] = "read" => Reading(job[w])

LEMMA ReadingIs ==
  /\ SeenWasInForce /\ CandidateIsFounded /\ UntornSeesOne <=> ReadingInv
  /\ (SeenWasInForce /\ CandidateIsFounded /\ UntornSeesOne)' <=> ReadingInv'
<1>1. SeenWasInForce /\ CandidateIsFounded /\ UntornSeesOne <=> ReadingInv
  <2>1. DOMAIN Missing = Fields /\ Len(CandidateReads) = 7
    BY PayloadsAreTyped, ReadsAre
  <2> QED
    BY <2>1 DEF ReadingInv, Reading, Founded, Chosen, Untorn,
                SeenWasInForce, CandidateIsFounded, UntornSeesOne
<1> QED  BY <1>1, PTL

(* A context that is cleared or filled disturbs every evaluation under way. *)
LEMMA ReadingThroughClear ==
  ASSUME TypeOK, ReadingInv, NEW w \in Thread, Clear(w)
  PROVE  ReadingInv'
<1> SUFFICES ASSUME NEW v \in Thread, pc'[v] = "read" PROVE Reading(job[v])'
  BY DEF ReadingInv
<1>1. /\ pc[v] = "read" /\ job'[v] = [job[v] EXCEPT !.disturbed = TRUE]
      /\ ~filled' /\ job[v] \in Job
  BY DEF Clear, Goto, TypeOK
<1>2. /\ job'[v].disturbed /\ job'[v].seen = job[v].seen /\ job'[v].during = job[v].during
      /\ job'[v].candidate = job[v].candidate /\ job'[v].read = job[v].read
  BY <1>1 DEF Job
<1>3. Reading(job[v])
  BY <1>1 DEF ReadingInv
<1> QED  BY <1>1, <1>2, <1>3 DEF Reading, Founded, Chosen, Untorn

LEMMA ReadingThroughFill ==
  ASSUME TypeOK, ReadingInv, NEW w \in Thread, Fill(w)
  PROVE  ReadingInv'
<1> SUFFICES ASSUME NEW v \in Thread, pc'[v] = "read" PROVE Reading(job[v])'
  BY DEF ReadingInv
<1>1. /\ pc[v] = "read" /\ job[v] \in Job
      /\ job'[v] = [job[v] EXCEPT !.during = @ \cup {SIM_CONTEXT'}, !.disturbed = TRUE]
  BY DEF Fill, Goto, TypeOK
<1>2. /\ job'[v].disturbed /\ job'[v].seen = job[v].seen
      /\ job'[v].during = job[v].during \cup {SIM_CONTEXT'}
      /\ job'[v].candidate = job[v].candidate /\ job'[v].read = job[v].read
  BY <1>1 DEF Job
<1>3. Reading(job[v])
  BY <1>1 DEF ReadingInv
<1> QED  BY <1>2, <1>3 DEF Reading, Founded, Chosen, Untorn

(* Steps that leave the context and every other request alone.              *)
LEMMA ReadingElsewhere ==
  ASSUME TypeOK, ReadingInv, NEW w \in Thread, UNCHANGED <<SIM_CONTEXT, filled>>,
         \A v \in Thread \ {w} : pc'[v] = pc[v] /\ job'[v] = job[v],
         pc'[w] = "read" => Reading(job[w])'
  PROVE  ReadingInv'
<1> SUFFICES ASSUME NEW v \in Thread, v # w, pc'[v] = "read" PROVE Reading(job[v])'
  BY DEF ReadingInv
<1>1. Reading(job[v])
  BY DEF ReadingInv
<1> QED  BY <1>1 DEF Reading, Founded, Chosen, Untorn, SeesLateness

LEMMA ReadingThroughEvaluate ==
  ASSUME TypeOK, ReadingInv, NEW w \in Thread, Evaluate(w)
  PROVE  ReadingInv'
<1>1. /\ \A v \in Thread \ {w} : pc'[v] = pc[v] /\ job'[v] = job[v]
      /\ UNCHANGED <<SIM_CONTEXT, filled>>
      /\ job'[w] = [NoJob EXCEPT !.during = IF filled THEN {SIM_CONTEXT} ELSE {},
                                 !.disturbed = ~filled]
  BY DEF Evaluate, Goto, TypeOK
<1>2. /\ job'[w].during = (IF filled THEN {SIM_CONTEXT} ELSE {})
      /\ job'[w].disturbed = ~filled
      /\ job'[w].read = 0 /\ job'[w].seen = Missing /\ job'[w].candidate = Nothing
  BY <1>1 DEF NoJob
<1>3. Founded(job[w])' /\ Chosen(job[w])'
  BY <1>1, <1>2 DEF Founded, Chosen, Nothing, Turn
<1>4. SeesLateness(job[w])'
  BY <1>2, ReadsAre DEF SeesLateness
<1>5. Untorn(job[w])'
  BY <1>1, <1>2, <1>4 DEF Untorn, TypeOK
<1> QED  BY <1>1, <1>3, <1>5, ReadingElsewhere DEF Reading

(* What is in force is seen, or what stands for it while nothing is.        *)
LEMMA SeenByRead ==
  ASSUME TypeOK, NEW w \in Thread, job[w].read < Len(Reads), Founded(job[w])
  PROVE  \A f \in Fields : \/ NextSeen(w)[f] = Missing[f]
                           \/ \E c \in job[w].during : NextSeen(w)[f] = c[f]
<1> SUFFICES ASSUME NEW f \in Fields
             PROVE  \/ NextSeen(w)[f] = Missing[f]
                    \/ \E c \in job[w].during : NextSeen(w)[f] = c[f]
  OBVIOUS
<1> DEFINE g == Reads[job[w].read + 1]
<1>1. g \in Fields /\ NextSeen(w)[f] = IF f = g THEN Get(g) ELSE job[w].seen[f]
  BY NextSeenIs
<1> HIDE DEF g
<1>2. CASE f # g
  BY <1>1, <1>2 DEF Founded
<1>3. CASE f = g /\ filled
  <2>1. NextSeen(w)[f] = SIM_CONTEXT[f]
    BY <1>1, <1>3 DEF Get
  <2> QED  BY <1>3, <2>1 DEF Founded
<1>4. CASE f = g /\ ~filled
  <2>1. NextSeen(w)[f] = Missing[f]
    BY <1>1, <1>4 DEF Get
  <2> QED  BY <2>1
<1> QED  BY <1>2, <1>3, <1>4 DEF TypeOK

LEMMA ReadingThroughRead ==
  ASSUME TypeOK, ReadingInv, NEW w \in Thread, Read(w)
  PROVE  ReadingInv'
<1> DEFINE n == job[w].read + 1
<1>1. /\ \A v \in Thread \ {w} : pc'[v] = pc[v] /\ job'[v] = job[v]
      /\ UNCHANGED <<SIM_CONTEXT, filled>> /\ pc[w] = "read" /\ job[w] \in Job
      /\ job[w].read < Len(Reads)
  BY DEF Read, TypeOK
<1>2. /\ job'[w].read = n
      /\ job'[w].seen = IF n = 7 THEN Missing ELSE NextSeen(w)
      /\ job'[w].candidate = IF n = 7 THEN CandidateFromSimContext(NextSeen(w))
                                      ELSE job[w].candidate
      /\ job'[w].during = job[w].during /\ job'[w].disturbed = job[w].disturbed
  <2> DEFINE s == IF n = 7 THEN Missing ELSE NextSeen(w)
             c == IF n = 7 THEN CandidateFromSimContext(NextSeen(w)) ELSE job[w].candidate
  <2>1. job'[w] = [job[w] EXCEPT !.read = n, !.seen = s, !.candidate = c]
    BY ReadIs
  <2> HIDE DEF n, s, c
  <2>2. /\ job'[w].read = n /\ job'[w].seen = s /\ job'[w].candidate = c
        /\ job'[w].during = job[w].during /\ job'[w].disturbed = job[w].disturbed
    BY <1>1, <2>1 DEF Job
  <2> QED  BY <2>2 DEF s, c
<1>3. n \in 1 .. 14 /\ NextSeen(w) \in PayloadType /\ job[w].read \in 0 .. 13
  BY <1>1, NextSeenIs
<1>4. Founded(job[w]) /\ Chosen(job[w]) /\ Untorn(job[w])
  BY <1>1 DEF ReadingInv, Reading
<1>5. \A f \in Fields : \/ NextSeen(w)[f] = Missing[f]
                       \/ \E c \in job[w].during : NextSeen(w)[f] = c[f]
  BY <1>1, <1>4, SeenByRead
<1>6. Founded(job[w])'
  BY <1>1, <1>2, <1>4, <1>5 DEF Founded
<1>7. Chosen(job[w])'
  <2>1. CASE n = 7
    <3>1. NextSeen(w).home => \E c \in job[w].during : c.home
      BY <1>5 DEF Fields, Missing
    <3> QED  BY <1>2, <1>3, <2>1, <3>1, CandidateFits DEF Chosen
  <2>2. CASE n # 7
    BY <1>2, <1>3, <1>4, <2>2 DEF Chosen
  <2> QED  BY <2>1, <2>2
<1>8. ASSUME ~job[w].disturbed PROVE SeesLateness(job[w])'
  <2>1. filled /\ SeesLateness(job[w])
    BY <1>4, <1>8 DEF Untorn
  <2>2. \A g \in Fields : NextSeen(w)[g] = IF g = Reads[n] THEN SIM_CONTEXT[g] ELSE job[w].seen[g]
    BY <1>1, <2>1, NextSeenIs DEF Get
  <2>3. /\ NextSeen(w).arrival = IF n \in {1, 8} THEN SIM_CONTEXT.arrival ELSE job[w].seen.arrival
        /\ NextSeen(w).after = IF n \in {3, 10} THEN SIM_CONTEXT.after ELSE job[w].seen.after
    <3>1. \A i \in 1 .. 14 : /\ Reads[i] = "arrival" <=> i \in {1, 8}
                             /\ Reads[i] = "after" <=> i \in {3, 10}
      BY ReadsAre
    <3>2. "arrival" \in Fields /\ "after" \in Fields
      BY DEF Fields
    <3> QED  BY <1>3, <2>2, <3>1, <3>2
  <2> HIDE DEF n
  <2>4. \/ n = 1 \/ n = 2 \/ n = 3 \/ n \in 4 .. 6 \/ n = 7 \/ n = 8 \/ n = 9 \/ n = 10 \/ n \in 11 .. 14
    BY <1>3
  <2>5. job[w].read = n - 1
    BY <1>3 DEF n
  <2>6. /\ n \in 1 .. 6 \/ n > 7 => NextSeen(w).arrival = SIM_CONTEXT.arrival
        /\ n \in 3 .. 6 \/ n > 9 => NextSeen(w).after = SIM_CONTEXT.after
    BY <2>1, <2>3, <2>4, <2>5, ReadsAre DEF SeesLateness
  <2>7. n >= 7 /\ Late(SIM_CONTEXT) => job'[w].candidate = Turn("fan", 86)
    <3>1. CASE n = 7
      <4>1. NextSeen(w).arrival = SIM_CONTEXT.arrival /\ NextSeen(w).after = SIM_CONTEXT.after
        BY <2>1, <2>3, <2>5, <3>1, ReadsAre DEF SeesLateness
      <4> QED  BY <1>2, <1>3, <3>1, <4>1, CandidateFits DEF Late, n
    <3>2. CASE n # 7
      BY <1>2, <1>3, <2>1, <2>5, <3>2, ReadsAre DEF SeesLateness, n
    <3> QED  BY <3>1, <3>2
  <2>8. Late(SIM_CONTEXT)' = Late(SIM_CONTEXT)
    BY <1>1 DEF Late
  <2> QED  BY <1>1, <1>2, <1>3, <2>6, <2>7, <2>8, ReadsAre DEF SeesLateness, n
<1>9. Untorn(job[w])'
  BY <1>1, <1>2, <1>4, <1>8 DEF Untorn
<1> QED  BY <1>1, <1>6, <1>7, <1>9, ReadingElsewhere DEF Reading

LEMMA ReadingThroughReadState ==
  ASSUME TypeOK, ReadingInv, NEW w \in Thread, ReadState(w)
  PROVE  ReadingInv'
<1>1. /\ \A v \in Thread \ {w} : pc'[v] = pc[v] /\ job'[v] = job[v]
      /\ UNCHANGED <<SIM_CONTEXT, filled>> /\ pc[w] = "read" /\ job[w] \in Job
      /\ job[w].read = 14
  BY ReadsAre DEF ReadState, TypeOK
<1>2. /\ job'[w].read = 15
      /\ job'[w].seen = job[w].seen /\ job'[w].candidate = job[w].candidate
      /\ job'[w].during = job[w].during /\ job'[w].disturbed = job[w].disturbed
  BY <1>1 DEF ReadState, TypeOK, Job
<1>3. Founded(job[w]) /\ Chosen(job[w]) /\ Untorn(job[w])
  BY <1>1 DEF ReadingInv, Reading
<1>4. Founded(job[w])' /\ Chosen(job[w])'
  BY <1>1, <1>2, <1>3 DEF Founded, Chosen
<1>5. Untorn(job[w])'
  BY <1>1, <1>2, <1>3, ReadsAre DEF Untorn, SeesLateness, Late
<1> QED  BY <1>1, <1>4, <1>5, ReadingElsewhere DEF Reading

LEMMA ReadingThroughReadPresence ==
  ASSUME TypeOK, ReadingInv, NEW w \in Thread, ReadPresence(w)
  PROVE  ReadingInv'
<1>1. /\ \A v \in Thread \ {w} : pc'[v] = pc[v] /\ job'[v] = job[v]
      /\ UNCHANGED <<SIM_CONTEXT, filled>> /\ pc[w] = "read" /\ job[w] \in Job
      /\ job[w].read = 15
  BY ReadsAre DEF ReadPresence, TypeOK
<1>2. /\ job'[w].read = 16
      /\ job'[w].seen = [job[w].seen EXCEPT !.home = Get("home")]
      /\ job'[w].candidate = job[w].candidate
      /\ job'[w].during = job[w].during /\ job'[w].disturbed = job[w].disturbed
  BY <1>1 DEF ReadPresence, TypeOK, Job
<1>3. Founded(job[w]) /\ Chosen(job[w]) /\ Untorn(job[w])
  BY <1>1 DEF ReadingInv, Reading
<1>4. \A f \in Fields : job'[w].seen[f] = IF f = "home" THEN Get("home") ELSE job[w].seen[f]
  BY <1>1, <1>2 DEF Job, PayloadType, Fields
<1>5. Founded(job[w])'
  <2>1. Get("home") = IF filled THEN SIM_CONTEXT.home ELSE Missing.home
    BY DEF Get
  <2> QED  BY <1>1, <1>2, <1>3, <1>4, <2>1 DEF Founded
<1>6. Chosen(job[w])'
  BY <1>1, <1>2, <1>3 DEF Chosen
<1>7. job'[w].seen.arrival = job[w].seen.arrival /\ job'[w].seen.after = job[w].seen.after
  BY <1>4 DEF Fields
<1>8. Untorn(job[w])'
  BY <1>1, <1>2, <1>3, <1>7, ReadsAre DEF Untorn, SeesLateness, Late
<1> QED  BY <1>1, <1>5, <1>6, <1>8, ReadingElsewhere DEF Reading

(* The other steps end an evaluation or belong to a user's action.          *)
LEMMA ReadingThroughOthers ==
  ASSUME TypeOK, ReadingInv, NEW w \in Thread,
         \/ Decide(w) \/ Respond(w) \/ SaveEvent(w)
         \/ \E entity \in Device, action \in {"turn_on", "turn_off", "toggle"}, h \in SimTimes :
              UserAction(w, entity, action, h)
  PROVE  ReadingInv'
<1>1. /\ \A v \in Thread \ {w} : pc'[v] = pc[v] /\ job'[v] = job[v]
      /\ UNCHANGED <<SIM_CONTEXT, filled>> /\ pc'[w] # "read"
  <2>1. CASE Decide(w)
    BY <2>1 DEF Decide, Goto, TypeOK
  <2>2. CASE Respond(w)
    BY <2>2 DEF Respond, Return, Goto, TypeOK
  <2>3. CASE SaveEvent(w)
    BY <2>3 DEF SaveEvent, Return, Goto, TypeOK
  <2>4. ASSUME NEW entity \in Device, NEW action \in {"turn_on", "turn_off", "toggle"},
               NEW h \in SimTimes, UserAction(w, entity, action, h)
        PROVE  /\ \A v \in Thread \ {w} : pc'[v] = pc[v] /\ job'[v] = job[v]
               /\ UNCHANGED <<SIM_CONTEXT, filled>> /\ pc'[w] # "read"
    BY <2>4 DEF UserAction, Goto, TypeOK
  <2> QED  BY <2>1, <2>2, <2>3, <2>4
<1> QED  BY <1>1, ReadingElsewhere

-----------------------------------------------------------------------------
(* The rows of the table events.                                            *)
RowsInv == RowsAreNumbered /\ SaveStartsFromFound /\ RowsChain

Among(rows, entity, count) == {r \in rows : r.entity = entity /\ r.id <= count}
StartsFrom(j, rows) ==
  /\ j.entity \in Device /\ j.count <= Cardinality(rows)
  /\ j.old = IF Among(rows, j.entity, j.count) = {} THEN "off"
             ELSE Rows!Latest(Among(rows, j.entity, j.count)).new

SavesInv == \A v \in Thread : pc[v] = "save" => StartsFrom(job[v], events)

LEMMA SavesAre == (SaveStartsFromFound <=> SavesInv) /\ (SaveStartsFromFound' <=> SavesInv')
<1>1. SaveStartsFromFound <=> SavesInv
  <2>1. \A e, n : Found(e, n) = Among(events, e, n)
    BY DEF Found, RowsOf, Among
  <2> QED  BY <2>1 DEF SaveStartsFromFound, StartsFrom, SavesInv
<1> QED  BY <1>1, PTL

LEMMA RowsElsewhere ==
  ASSUME RowsInv, UNCHANGED events,
         \A v \in Thread : pc'[v] = "save" => pc[v] = "save" /\ job'[v] = job[v]
  PROVE  RowsInv'
BY DEF RowsInv, RowsAreNumbered, SaveStartsFromFound, RowsChain, Before, WentBack, RowsOf, Found

LEMMA NoRowsTouched ==
  ASSUME TypeOK, RowsInv, NEW w \in Thread,
         \/ Clear(w) \/ Fill(w) \/ Evaluate(w) \/ Read(w) \/ ReadState(w)
         \/ ReadPresence(w) \/ Decide(w) \/ Respond(w)
  PROVE  RowsInv'
<1>1. UNCHANGED events
  BY DEF Clear, Fill, Evaluate, Read, ReadState, ReadPresence, Decide, Respond
<1>2. \A v \in Thread : pc'[v] = "save" => pc[v] = "save" /\ job'[v] = job[v]
  <2>1. CASE Clear(w) \/ Fill(w)
    BY <2>1 DEF Clear, Fill, Goto, TypeOK
  <2>2. CASE Read(w) \/ ReadState(w) \/ ReadPresence(w)
    BY <2>2 DEF Read, ReadState, ReadPresence, TypeOK
  <2>3. CASE Evaluate(w)
    BY <2>3 DEF Evaluate, Goto, TypeOK
  <2>4. CASE Decide(w) \/ Respond(w)
    BY <2>4 DEF Decide, Respond, Return, Goto, TypeOK
  <2> QED  BY <2>1, <2>2, <2>3, <2>4
<1> QED  BY <1>1, <1>2, RowsElsewhere

(* A request finds all the rows there are.                                  *)
LEMMA RowsThroughUserAction ==
  ASSUME TypeOK, RowsInv, NEW w \in Thread, NEW entity \in Device,
         NEW action \in {"turn_on", "turn_off", "toggle"}, NEW h \in SimTimes,
         UserAction(w, entity, action, h)
  PROVE  RowsInv'
<1>1. /\ \A v \in Thread \ {w} : pc'[v] = pc[v] /\ job'[v] = job[v]
      /\ UNCHANGED events
      /\ job'[w] = [NoJob EXCEPT !.entity = entity, !.hour = h,
                                 !.old = LatestDeviceState(entity),
                                 !.new = NewState(LatestDeviceState(entity), action),
                                 !.count = Cardinality(events)]
  BY DEF UserAction, Goto, TypeOK
<1>2. /\ job'[w].entity = entity /\ job'[w].old = LatestDeviceState(entity)
      /\ job'[w].count = Cardinality(events)
  BY <1>1 DEF NoJob
<1>3. Among(events, entity, Cardinality(events)) = RowsOf(entity)
  BY DEF RowsInv, RowsAreNumbered, Among, RowsOf
<1>4. Cardinality(events) \in Nat
  BY FS_CardinalityType DEF RowsInv, RowsAreNumbered
<1>5. StartsFrom(job'[w], events)
  BY <1>2, <1>3, <1>4 DEF StartsFrom, LatestDeviceState
<1>6. SaveStartsFromFound'
  <2> SUFFICES ASSUME NEW v \in Thread, pc'[v] = "save" PROVE StartsFrom(job'[v], events')
    BY SavesAre DEF SavesInv
  <2>1. CASE v = w
    BY <1>1, <1>5, <2>1
  <2>2. CASE v # w
    BY <1>1, <2>2, SavesAre DEF RowsInv, SavesInv
  <2> QED  BY <2>1, <2>2
<1>7. RowsAreNumbered' /\ RowsChain'
  BY <1>1 DEF RowsInv, RowsAreNumbered, RowsChain, Before, WentBack, RowsOf
<1> QED  BY <1>6, <1>7 DEF RowsInv

(* What the row w is about to save will be.                                 *)
NewRow(w) ==
  [id |-> Cardinality(events) + 1, ts |-> job[w].hour, entity |-> job[w].entity,
   old |-> job[w].old, new |-> job[w].new, count |-> job[w].count]

LEMMA SavedRow ==
  ASSUME TypeOK, RowsInv, NEW w \in Thread, SaveEvent(w)
  PROVE  /\ events' = events \cup {NewRow(w)} /\ NewRow(w) \notin events
         /\ Cardinality(events) \in Nat
         /\ Cardinality(events') = Cardinality(events) + 1
         /\ RowsAreNumbered'
<1> DEFINE r == NewRow(w)
           n == Cardinality(events)
<1>1. events' = events \cup {r} /\ r.id = n + 1
  BY DEF SaveEvent, NewRow
<1>2. IsFiniteSet(events) /\ \A q \in events : q.id <= n
  BY DEF RowsInv, RowsAreNumbered
<1>3. n \in Nat
  BY <1>2, FS_CardinalityType
<1>4. \A q \in events : q.id \in Nat
  BY DEF TypeOK, Row
<1> HIDE DEF r, n
<1>5. \A q \in events : q.id # r.id
  BY <1>1, <1>2, <1>3, <1>4
<1>6. Cardinality(events') = n + 1 /\ IsFiniteSet(events')
  BY <1>1, <1>2, <1>5, FS_AddElement DEF n
<1>7. RowsAreNumbered'
  <2>1. \A q \in events' : q.id <= n + 1
    BY <1>1, <1>2, <1>3, <1>4
  <2>2. \A p, q \in events' : p.id = q.id => p = q
    BY <1>1, <1>5 DEF RowsInv, RowsAreNumbered
  <2> QED  BY <1>6, <2>1, <2>2 DEF RowsAreNumbered
<1> QED  BY <1>1, <1>3, <1>5, <1>6, <1>7 DEF r, n

(* The row before the new one is the latest it found, unless it had not     *)
(* been saved, or was older than one before it.                             *)
LEMMA NewRowFollows ==
  ASSUME TypeOK, RowsInv, NEW w \in Thread, pc[w] = "save",
         NEW q \in events, q.entity = job[w].entity, q.id <= job[w].count,
         \A x \in RowsOf(q.entity) : ~(q.id < x.id)
  PROVE  job[w].old = q.new \/ WentBack(q)
<1> DEFINE found == Found(job[w].entity, job[w].count)
           last == Rows!Latest(found)
<1>1. q \in found /\ found \in SUBSET events /\ found \subseteq RowsOf(q.entity)
  BY DEF Found, RowsOf
<1>2. /\ last \in found
      /\ \A s \in found : s = last \/ Rows!Later(last, s)
  BY <1>1, LatestIsRow DEF RowsInv
<1>3. job[w].old = last.new
  BY <1>1 DEF RowsInv, SaveStartsFromFound
<1>4. \A x \in events : x.id \in Nat /\ x.ts \in Int
  BY DEF TypeOK, Row
<1>5. last \in RowsOf(q.entity) /\ last \in events
  BY <1>1, <1>2
<1>6. \A x \in events : x.id = q.id => x = q
  BY DEF RowsInv, RowsAreNumbered
<1> HIDE DEF found, last
<1>7. CASE last = q
  BY <1>3, <1>7
<1>8. CASE last # q
  <2>1. Rows!Later(last, q)
    BY <1>1, <1>2, <1>8
  <2>2. last.id <= q.id /\ last.id # q.id
    BY <1>4, <1>5, <1>6, <1>8
  <2>3. last.ts > q.ts /\ last.id < q.id
    BY <1>4, <1>5, <2>1, <2>2 DEF Rows!Later
  <2> QED  BY <1>5, <2>3 DEF WentBack
<1> QED  BY <1>7, <1>8

LEMMA RowsThroughSaveEvent ==
  ASSUME TypeOK, RowsInv, NEW w \in Thread, SaveEvent(w)
  PROVE  RowsInv'
<1> DEFINE r == NewRow(w)
           n == Cardinality(events)
<1>1. /\ events' = events \cup {r} /\ r \notin events /\ n \in Nat
      /\ Cardinality(events') = n + 1 /\ RowsAreNumbered'
  BY SavedRow
<1>2. \A q \in events : q.id \in Nat /\ q.id <= n
  BY DEF RowsInv, RowsAreNumbered, TypeOK, Row
<1>3. /\ r.id = n + 1 /\ r.entity = job[w].entity /\ r.old = job[w].old
      /\ r.count = job[w].count /\ pc[w] = "save"
  BY DEF NewRow, SaveEvent
<1>4. \A v \in Thread : job[v].count \in Nat
  BY DEF TypeOK, Job
<1> HIDE DEF r, n
<1>5. SaveStartsFromFound'
  <2> SUFFICES ASSUME NEW v \in Thread, pc'[v] = "save" PROVE StartsFrom(job'[v], events')
    BY SavesAre DEF SavesInv
  <2>1. pc[v] = "save" /\ job'[v] = job[v]
    BY DEF SaveEvent, Return, Goto, TypeOK
  <2>2. StartsFrom(job[v], events) /\ job[v].count <= n
    BY <2>1, SavesAre DEF RowsInv, SavesInv, StartsFrom, n
  <2>3. Among(events', job[v].entity, job[v].count) = Among(events, job[v].entity, job[v].count)
    BY <1>1, <1>2, <1>3, <1>4, <2>2 DEF Among
  <2>4. job[v].count <= Cardinality(events')
    BY <1>1, <1>4, <2>2
  <2> QED  BY <2>1, <2>2, <2>3, <2>4 DEF StartsFrom
<1>6. RowsChain'
  <2> SUFFICES ASSUME NEW q \in events', NEW x \in events', Before(q, x)'
               PROVE  x.old = q.new \/ x.count < q.id \/ WentBack(q)'
    BY DEF RowsChain
  <2>1. q.entity = x.entity /\ q.id < x.id
        /\ \A y \in events' : y.entity = q.entity => ~(q.id < y.id /\ y.id < x.id)
    BY DEF Before, RowsOf
  <2>2. q \in events
    BY <1>1, <1>2, <1>3, <2>1
  <2>3. WentBack(q) => WentBack(q)'
    BY <1>1 DEF WentBack, RowsOf
  <2>4. CASE x \in events
    <3>1. Before(q, x)
      BY <1>1, <2>1 DEF Before, RowsOf
    <3> QED  BY <2>2, <2>3, <2>4, <3>1 DEF RowsInv, RowsChain
  <2>5. CASE x = r
    <3>1. CASE x.count < q.id
      BY <3>1
    <3>2. CASE ~(x.count < q.id)
      <4>1. q.id <= job[w].count
        BY <1>2, <1>3, <1>4, <2>2, <2>5, <3>2
      <4>2. \A y \in RowsOf(q.entity) : ~(q.id < y.id)
        BY <1>1, <1>2, <1>3, <2>1, <2>5 DEF RowsOf
      <4>3. job[w].old = q.new \/ WentBack(q)
        BY <1>3, <2>1, <2>2, <2>5, <4>1, <4>2, NewRowFollows
      <4> QED  BY <1>3, <2>3, <2>5, <4>3
    <3> QED  BY <3>1, <3>2
  <2> QED  BY <1>1, <2>4, <2>5
<1> QED  BY <1>1, <1>5, <1>6 DEF RowsInv

-----------------------------------------------------------------------------
LEMMA SomeoneStillFills ==
  ASSUME TypeOK, SomeoneFills, NEW w \in Thread,
         \/ Clear(w) \/ Fill(w) \/ Evaluate(w) \/ Read(w) \/ ReadState(w)
         \/ ReadPresence(w) \/ Decide(w) \/ Respond(w) \/ SaveEvent(w)
         \/ \E entity \in Device, action \in {"turn_on", "turn_off", "toggle"}, h \in SimTimes :
              UserAction(w, entity, action, h)
  PROVE  SomeoneFills'
<1>1. CASE Clear(w)
  BY <1>1 DEF Clear, Goto, SomeoneFills, TypeOK
<1>2. CASE Fill(w)
  BY <1>2 DEF Fill, SomeoneFills
<1>3. CASE ~Clear(w) /\ ~Fill(w)
  <2>1. UNCHANGED filled /\ \A v \in Thread : pc[v] = "fill" => pc'[v] = "fill"
    BY <1>3 DEF Evaluate, Call, Read, ReadState, ReadPresence, Decide, Respond, UserAction,
                SaveEvent, Return, Goto, TypeOK
  <2> QED  BY <2>1 DEF SomeoneFills
<1> QED  BY <1>1, <1>2, <1>3

LEMMA InitIsFine == Init => IInv
<1> SUFFICES ASSUME Init PROVE IInv
  OBVIOUS
<1>1. TypeOK
  <2>1. pc \in [Thread -> {"idle", "fill", "read", "decided", "error", "save"}]
    BY DEF Init
  <2>2. job \in [Thread -> Job]
    BY NoJobIsTyped DEF Init
  <2> QED  BY <2>1, <2>2, PayloadsAreTyped, DeviceAssumption DEF Init, TypeOK
<1>2. \A w \in Thread : pc[w] = "idle"
  BY DEF Init
<1>3. SomeoneFills /\ SeenWasInForce /\ CandidateIsFounded /\ UntornSeesOne /\ SaveStartsFromFound
  BY <1>2 DEF Init, SomeoneFills, SeenWasInForce, CandidateIsFounded, UntornSeesOne,
              SaveStartsFromFound
<1>4. RowsAreNumbered /\ RowsChain
  BY FS_EmptySet DEF Init, RowsAreNumbered, RowsChain
<1> QED  BY <1>1, <1>3, <1>4 DEF IInv

LEMMA StepIsFine == IInv /\ [Next]_vars => IInv'
<1> SUFFICES ASSUME IInv, [Next]_vars PROVE IInv'
  OBVIOUS
<1>1. TypeOK /\ SomeoneFills /\ ReadingInv /\ RowsInv
  BY ReadingIs DEF IInv, RowsInv
<1>2. SUFFICES TypeOK' /\ SomeoneFills' /\ ReadingInv' /\ RowsInv'
  BY ReadingIs DEF IInv, RowsInv
<1>3. CASE UNCHANGED vars
  <2>1. TypeOK' /\ SomeoneFills'
    BY <1>1, <1>3 DEF vars, TypeOK, SomeoneFills
  <2>2. ReadingInv'
    BY <1>1, <1>3 DEF vars, ReadingInv, Reading, Founded, Chosen, Untorn, SeesLateness
  <2>3. RowsInv'
    BY <1>1, <1>3, RowsElsewhere DEF vars
  <2> QED  BY <2>1, <2>2, <2>3
<1>4. ASSUME NEW w \in Thread,
             \/ Clear(w) \/ Fill(w) \/ Evaluate(w) \/ Read(w) \/ ReadState(w)
             \/ ReadPresence(w) \/ Decide(w) \/ Respond(w) \/ SaveEvent(w)
             \/ \E entity \in Device, action \in {"turn_on", "turn_off", "toggle"}, h \in SimTimes :
                  UserAction(w, entity, action, h)
      PROVE  TypeOK' /\ SomeoneFills' /\ ReadingInv' /\ RowsInv'
  <2>1. TypeOK'
    BY <1>4, TypeStep DEF IInv
  <2>2. SomeoneFills'
    BY <1>1, <1>4, SomeoneStillFills
  <2>3. ReadingInv'
    BY <1>1, <1>4, ReadingThroughClear, ReadingThroughFill, ReadingThroughEvaluate,
       ReadingThroughRead, ReadingThroughReadState, ReadingThroughReadPresence,
       ReadingThroughOthers
  <2>4. RowsInv'
    BY <1>1, <1>4, NoRowsTouched, RowsThroughUserAction, RowsThroughSaveEvent
  <2> QED  BY <2>1, <2>2, <2>3, <2>4
<1> QED  BY <1>3, <1>4 DEF Next

(* The inductive invariant holds for any contexts, devices and requests:    *)
(* among the rest, the rows of a device tell one story but for overlapping  *)
(* requests and for those sent with an earlier sim_time.                    *)
THEOREM Invariance == Spec => []IInv
BY InitIsFine, StepIsFine, PTL DEF Spec

-----------------------------------------------------------------------------
(* What a decision rests on, for one request that has decided.              *)
Served(j) ==
  j.decision \in {"allow", "confirm_required"} =>
    \/ \E c \in j.during : c.home
    \/ /\ \E c \in j.during : c.arrival = "pre_arrival"
       /\ \E c \in j.during : c.predicted \in 10 .. 15
Blocked(j) == ~j.disturbed /\ (\E c \in j.during : Late(c)) => j.decision = "block"
DecidedInv == \A w \in Thread : pc[w] = "decided" => Served(job[w]) /\ Blocked(job[w])

LEMMA DecidedIs == DecidedInv <=> ServesSomebody /\ LateIsBlocked
BY DEF DecidedInv, Served, Blocked, Late, ServesSomebody, LateIsBlocked

LEMMA WhatDecides ==
  ASSUME IInv, NEW w \in Thread, Decide(w)
  PROVE  Served(job'[w]) /\ Blocked(job'[w])
<1> DEFINE j == job[w]
           d == Answer(j.seen, j.prev, j.candidate)
<1>1. /\ pc[w] = "read" /\ j \in Job /\ j.read = 16
  BY ReadsAre DEF Decide, IInv, TypeOK
<1>2. Founded(j) /\ Chosen(j) /\ Untorn(j)
  BY <1>1, ReadingIs DEF IInv, ReadingInv, Reading
<1>3. j.seen \in PayloadType /\ j.candidate \in Choices
  BY <1>1, <1>2 DEF Chosen, Job
<1>4. /\ d \in {"allow", "confirm_required"} =>
          \/ j.candidate.type \in {"air_conditioner", "tv"} \/ j.seen.home
          \/ j.seen.arrival = "pre_arrival" /\ j.seen.predicted \in 10 .. 15
      /\ IsArrivalOverdue(j.seen) => d = "block"
  BY <1>3, Answers
<1>5. job'[w].during = j.during /\ job'[w].disturbed = j.disturbed /\ job'[w].decision = d
  <2>1. job'[w] = [NoJob EXCEPT !.during = j.during, !.disturbed = j.disturbed, !.decision = d]
    BY DEF Decide, Answer, IInv, TypeOK
  <2> HIDE DEF d, j
  <2> QED  BY <2>1 DEF NoJob
<1> HIDE DEF d, j
<1>6. /\ j.seen.home => \E c \in j.during : c.home
      /\ j.seen.arrival = "pre_arrival" => \E c \in j.during : c.arrival = "pre_arrival"
      /\ j.seen.predicted \in 10 .. 15 => \E c \in j.during : c.predicted \in 10 .. 15
  <2>1. {"home", "arrival", "predicted"} \subseteq Fields
    BY DEF Fields
  <2>2. /\ Missing.home = FALSE /\ Missing.arrival = "normal" /\ Missing.predicted = 999
    BY DEF Missing, NoNumber
  <2>3. \A f \in {"home", "arrival", "predicted"} :
          j.seen[f] = Missing[f] \/ \E c \in j.during : j.seen[f] = c[f]
    BY <1>2, <2>1 DEF Founded
  <2>4. j.seen.home = FALSE \/ \E c \in j.during : j.seen.home = c.home
    BY <2>2, <2>3
  <2>5. j.seen.arrival = "normal" \/ \E c \in j.during : j.seen.arrival = c.arrival
    BY <2>2, <2>3
  <2>6. j.seen.predicted = 999 \/ \E c \in j.during : j.seen.predicted = c.predicted
    BY <2>2, <2>3
  <2>7. j.seen.home => \E c \in j.during : c.home
    BY <2>4, Zenon
  <2>8. j.seen.arrival = "pre_arrival" => \E c \in j.during : c.arrival = "pre_arrival"
    BY <2>5
  <2>9. j.seen.predicted \in 10 .. 15 => \E c \in j.during : c.predicted \in 10 .. 15
    BY <2>6
  <2> QED  BY <2>7, <2>8, <2>9
<1>7. Served(job'[w])
  BY <1>2, <1>4, <1>5, <1>6 DEF Served, Chosen
<1>8. Blocked(job'[w])
  <2> SUFFICES ASSUME ~j.disturbed, NEW c \in j.during, Late(c) PROVE d = "block"
    BY <1>5 DEF Blocked
  <2>1. c = SIM_CONTEXT /\ SeesLateness(j)
    BY <1>2 DEF Untorn
  <2>2. j.seen.arrival = c.arrival /\ j.seen.after = c.after
    BY <1>1, <2>1, ReadsAre DEF SeesLateness, j
  <2> QED  BY <1>4, <2>2 DEF Late, IsArrivalOverdue
<1> QED  BY <1>7, <1>8

LEMMA DecisionsStand == IInv /\ DecidedInv /\ [Next]_vars => DecidedInv'
<1> SUFFICES ASSUME IInv, DecidedInv, [Next]_vars,
                    NEW v \in Thread, pc'[v] = "decided"
             PROVE  Served(job'[v]) /\ Blocked(job'[v])
  BY DEF DecidedInv, Served, Blocked
<1>1. ASSUME pc[v] = "decided", job'[v] = job[v]
      PROVE  Served(job'[v]) /\ Blocked(job'[v])
  BY <1>1 DEF DecidedInv
<1>2. CASE UNCHANGED vars
  BY <1>1, <1>2 DEF vars
<1>3. ASSUME NEW w \in Thread, Decide(w)
      PROVE  Served(job'[v]) /\ Blocked(job'[v])
  <2>1. CASE v = w
    BY <1>3, <2>1, WhatDecides
  <2>2. CASE v # w
    BY <1>1, <1>3, <2>2 DEF Decide, Goto, IInv, TypeOK
  <2> QED  BY <2>1, <2>2
<1>4. ASSUME NEW w \in Thread, Clear(w) \/ Fill(w)
      PROVE  Served(job'[v]) /\ Blocked(job'[v])
  <2>1. pc[v] = "decided" /\ job'[v] = job[v]
    BY <1>4 DEF Clear, Fill, Goto, IInv, TypeOK
  <2> QED  BY <1>1, <2>1
<1>5. ASSUME NEW w \in Thread, Read(w) \/ ReadState(w) \/ ReadPresence(w)
      PROVE  Served(job'[v]) /\ Blocked(job'[v])
  <2>1. pc[v] = "decided" /\ v # w
    BY <1>5 DEF Read, ReadState, ReadPresence
  <2>2. job'[v] = job[v]
    BY <1>5, <2>1 DEF Read, ReadState, ReadPresence, IInv, TypeOK
  <2> QED  BY <1>1, <2>1, <2>2
<1>6. ASSUME NEW w \in Thread,
             \/ Evaluate(w) \/ Respond(w) \/ SaveEvent(w)
             \/ \E entity \in Device, action \in {"turn_on", "turn_off", "toggle"}, h \in SimTimes :
                  UserAction(w, entity, action, h)
      PROVE  Served(job'[v]) /\ Blocked(job'[v])
  <2>1. v # w /\ pc[v] = "decided"
    BY <1>6 DEF Evaluate, Respond, SaveEvent, Return, UserAction, Goto, IInv, TypeOK
  <2>2. job'[v] = job[v]
    BY <1>6, <2>1 DEF Evaluate, Respond, SaveEvent, Return, UserAction, IInv, TypeOK
  <2> QED  BY <1>1, <2>1, <2>2
<1> QED  BY <1>2, <1>3, <1>4, <1>5, <1>6 DEF Next

LEMMA DecisionsRest == Spec => [](IInv /\ DecidedInv)
<1>1. Init => DecidedInv
  BY DEF Init, DecidedInv
<1> QED  BY <1>1, DecisionsStand, Invariance, PTL DEF Spec

(* However the reads of an evaluation mix with new contexts, what it allows *)
(* or asks for is for somebody in one of the contexts in force.             *)
THEOREM Serves == Spec => []ServesSomebody
BY DecisionsRest, DecidedIs, PTL

(* An evaluation that nothing tears blocks every late arrival.              *)
THEOREM LateBlocked == Spec => []LateIsBlocked
BY DecisionsRest, DecidedIs, PTL

=============================================================================

----------------------------- MODULE Simulator ------------------------------
(***************************************************************************)
(* The simulated home of agent/api_server.py, as the page drives it: a     *)
(* context that is set, evaluated and used by requests on the threads of   *)
(* the server, and devices whose state is their latest row of events.      *)
(* SIM_CONTEXT is a plain dictionary: it is cleared and then filled, and   *)
(* an evaluation reads it field by field, with no lock.  What happens to   *)
(* a candidate after the policy answered is in AgentRequests.              *)
(***************************************************************************)
EXTENDS Integers, FiniteSets, Sequences

CONSTANTS
  Thread,     \* threads of the server, one per request under way
  Context,    \* payloads of /api/sim-context: SimContextPayload
  Device,     \* devices the page switches, one of each type
  Hours,      \* hours a manual action may carry as its sim_time
  MaxCalls    \* bound: requests that change or evaluate something

NoNumber == 999   \* predicted_arrival_minutes when it is None
DEFAULT_SIM_CONTEXT ==
  [arrival |-> "normal", predicted |-> NoNumber, after |-> 0, home |-> TRUE,
   lrTemp |-> 31, lrHum |-> 75, brTemp |-> 29, brHum |-> 65, hour |-> 18]
PayloadType ==
  [arrival : {"normal", "pre_arrival", "arrival_overdue"}, predicted : Int, after : Int,
   home : BOOLEAN, lrTemp : Int, lrHum : Int, brTemp : Int, brHum : Int, hour : 0 .. 23]
ASSUME ContextAssumption == Context \subseteq PayloadType
ASSUME DeviceAssumption ==
  Device \subseteq {"fan", "light", "air_conditioner", "tv"} /\ Hours \subseteq 0 .. 23 /\ MaxCalls \in Nat

VARIABLES
  SIM_CONTEXT, filled,  \* the last payload; FALSE between clear and update
  events,               \* rows of the table events that the API server wrote
  pc, job,              \* where each request is, and its locals
  calls

vars == <<SIM_CONTEXT, filled, events, pc, job, calls>>

Policy == INSTANCE PolicyGate
Rows == INSTANCE Features WITH Float <- <<>>

(* SIM_CONTEXT.get, with what the code puts for a field that is missing.    *)
MissingIsDefault == DEFAULT_SIM_CONTEXT
Missing == [arrival |-> "normal", predicted |-> NoNumber, after |-> 0, home |-> FALSE,
            lrTemp |-> 0, lrHum |-> 0, brTemp |-> 0, brHum |-> 0,
            hour |-> DEFAULT_SIM_CONTEXT.hour]
Get(field) == IF filled THEN SIM_CONTEXT[field] ELSE Missing[field]

(* _latest_device_state of a device that can be switched.  Of two rows with *)
(* one timestamp it is the newer, by the index that fetch_events walks.     *)
RowsOf(entity) == {r \in events : r.entity = entity}
FirstDeviceState(entity) ==
  IF RowsOf(entity) = {} THEN "off"
  ELSE (CHOOSE r \in RowsOf(entity) : \A s \in RowsOf(entity) : s = r \/ Rows!Later(s, r)).new
LatestDeviceState(entity) ==
  IF RowsOf(entity) = {} THEN "off" ELSE Rows!Latest(RowsOf(entity)).new

Turn(type, confidence) == [type |-> type, confidence |-> confidence]
Nothing == Turn("none", 0)
NoJob == [read |-> 0, seen |-> Missing, candidate |-> Nothing, prev |-> "off",
          decision |-> "none", during |-> {}, disturbed |-> FALSE,
          entity |-> "none", old |-> "off", new |-> "off", hour |-> 0, count |-> 0]

Init ==
  /\ SIM_CONTEXT = DEFAULT_SIM_CONTEXT /\ filled = TRUE /\ events = {}
  /\ pc = [w \in Thread |-> "idle"] /\ job = [w \in Thread |-> NoJob]
  /\ calls = 0

Call(w) == pc[w] = "idle" /\ calls < MaxCalls /\ calls' = calls + 1
Goto(w, l) == pc' = [pc EXCEPT ![w] = l]
Return(w) == Goto(w, "idle") /\ job' = [job EXCEPT ![w] = NoJob] /\ UNCHANGED calls

-----------------------------------------------------------------------------
(* set_sim_context.                                                         *)
Clear(w) ==
  /\ Call(w) /\ Goto(w, "fill") /\ filled' = FALSE
  /\ job' = [v \in Thread |-> IF pc[v] = "read" THEN [job[v] EXCEPT !.disturbed = TRUE]
                                                 ELSE job[v]]
  /\ UNCHANGED <<SIM_CONTEXT, events>>
Fill(w) ==
  /\ pc[w] = "fill" /\ Goto(w, "idle") /\ filled' = TRUE
  /\ SIM_CONTEXT' \in Context
  /\ job' = [v \in Thread |->
       IF pc[v] = "read"
         THEN [job[v] EXCEPT !.during = @ \cup {SIM_CONTEXT'}, !.disturbed = TRUE]
         ELSE job[v]]
  /\ UNCHANGED <<events, calls>>

-----------------------------------------------------------------------------
(* evaluate_context: _candidate_from_sim_context reads seven fields and     *)
(* chooses, _policy_context_from_sim_context reads them again.              *)
CandidateReads == <<"arrival", "predicted", "after", "home", "lrTemp", "lrHum", "hour">>
ContextReads == <<"arrival", "predicted", "after", "lrTemp", "lrHum", "brTemp", "brHum">>
Reads == CandidateReads \o ContextReads

Late(c) == c.arrival = "arrival_overdue" \/ c.after >= 20
Arriving(c) == c.arrival = "pre_arrival" /\ c.predicted \in 10 .. 15

CandidateFromSimContext(c) ==
  IF Late(c) THEN Turn("fan", 86)
  ELSE IF Arriving(c) /\ ~c.home /\ c.lrTemp >= 30 /\ c.lrHum < 65 THEN Turn("fan", 88)
  ELSE IF c.home /\ c.lrTemp >= 30 /\ c.lrHum >= 70 THEN Turn("air_conditioner", 89)
  ELSE IF c.home /\ c.hour \in 20 .. 22 THEN Turn("tv", 84)
  ELSE Turn("light", 72)

(* The names are those of PolicyGate.                                       *)
IsOverdueAfter20(c) == c.arrival = "arrival_overdue" \/ c.after > 20
IsArrivalOverdue(c) == c.arrival = "arrival_overdue" \/ c.after >= 20
PolicyContextFromSimContext(c, state) ==
  [hot |-> c.lrTemp >= 30 \/ c.brTemp >= 30, humid |-> c.lrHum >= 70 \/ c.brHum >= 70,
   dry |-> c.lrHum <= 55 \/ c.brHum <= 55, home |-> c.home,
   predicted |-> c.predicted, window |-> Arriving(c),
   overdue |-> IsArrivalOverdue(c), minutesAfter |-> c.after,
   prev_state |-> IF state = "on" THEN 1 ELSE 0,
   sinceChange |-> 1800, toggles2 |-> 0, toggles5 |-> 0, override |-> FALSE]

Kind(type) == CHOOSE d \in Policy!DEVICES : d.type = type

Evaluate(w) ==
  /\ Call(w) /\ Goto(w, "read")
  /\ job' = [job EXCEPT ![w] = [NoJob EXCEPT
       !.during = IF filled THEN {SIM_CONTEXT} ELSE {}, !.disturbed = ~filled]]
  /\ UNCHANGED <<SIM_CONTEXT, filled, events>>

(* One field; after the seventh the candidate is known, and the second      *)
(* function starts.                                                         *)
Read(w) ==
  /\ pc[w] = "read" /\ job[w].read < Len(Reads)
  /\ LET j == job[w]
         n == j.read + 1
         chosen == n = Len(CandidateReads)
         seen == [j.seen EXCEPT ![Reads[n]] = Get(Reads[n])]
     IN job' = [job EXCEPT ![w] = [j EXCEPT
          !.read = n,
          !.seen = IF chosen THEN Missing ELSE seen,
          !.candidate = IF chosen THEN CandidateFromSimContext(seen) ELSE j.candidate]]
  /\ UNCHANGED <<SIM_CONTEXT, filled, events, pc, calls>>

(* The state of the device and presence_home are read last; the policy      *)
(* decides, unless SIM_CONTEXT["sim_time"] is missing: a KeyError.          *)
ReadState(w) ==
  /\ pc[w] = "read" /\ job[w].read = Len(Reads)
  /\ LET j == job[w] IN
     job' = [job EXCEPT ![w] = [j EXCEPT
       !.read = j.read + 1, !.prev = LatestDeviceState(j.candidate.type)]]
  /\ UNCHANGED <<SIM_CONTEXT, filled, events, pc, calls>>
ReadPresence(w) ==
  /\ pc[w] = "read" /\ job[w].read = Len(Reads) + 1
  /\ LET j == job[w] IN
     job' = [job EXCEPT ![w] = [j EXCEPT
       !.read = j.read + 1, !.seen = [j.seen EXCEPT !.home = Get("home")]]]
  /\ UNCHANGED <<SIM_CONTEXT, filled, events, pc, calls>>
Decide(w) ==
  /\ pc[w] = "read" /\ job[w].read = Len(Reads) + 2
  /\ IF filled THEN Goto(w, "decided") ELSE Goto(w, "error")
  /\ LET j == job[w] IN
     job' = [job EXCEPT ![w] = [NoJob EXCEPT
       !.during = j.during, !.disturbed = j.disturbed,
       !.decision = Policy!Evaluate(
         [device |-> Kind(j.candidate.type), action |-> "turn_on",
          confidence |-> j.candidate.confidence,
          ctx |-> PolicyContextFromSimContext(j.seen, j.prev)]).decision]]
  /\ UNCHANGED <<SIM_CONTEXT, filled, events, calls>>
Respond(w) ==
  /\ pc[w] \in {"decided", "error"} /\ Return(w)
  /\ UNCHANGED <<SIM_CONTEXT, filled, events>>

-----------------------------------------------------------------------------
(* user_action for a device that is not observe-only: the state is read,    *)
(* and a row saved by a later transaction.                                  *)
NewState(old, action) ==
  CASE action = "turn_on" -> "on"
    [] action = "turn_off" -> "off"
    [] action = "toggle" -> IF old = "on" THEN "off" ELSE "on"
UserAction(w, entity, action, hour) ==
  /\ Call(w) /\ Goto(w, "save")
  /\ LET old == LatestDeviceState(entity) IN
     job' = [job EXCEPT ![w] = [NoJob EXCEPT
       !.entity = entity, !.hour = hour, !.old = old, !.new = NewState(old, action),
       !.count = Cardinality(events)]]
  /\ UNCHANGED <<SIM_CONTEXT, filled, events>>
SaveEvent(w) ==
  /\ pc[w] = "save" /\ Return(w)
  /\ events' = events \cup
       {[id |-> Cardinality(events) + 1, ts |-> job[w].hour, entity |-> job[w].entity,
         old |-> job[w].old, new |-> job[w].new, count |-> job[w].count]}
  /\ UNCHANGED <<SIM_CONTEXT, filled>>

(* Without a sim_time the action takes that of the context.                 *)
SimTimes == Hours \cup (IF filled THEN {SIM_CONTEXT.hour} ELSE {})

Next ==
  \E w \in Thread :
    \/ Clear(w) \/ Fill(w)
    \/ Evaluate(w) \/ Read(w) \/ ReadState(w) \/ ReadPresence(w) \/ Decide(w) \/ Respond(w)
    \/ \E entity \in Device, action \in {"turn_on", "turn_off", "toggle"}, h \in SimTimes :
         UserAction(w, entity, action, h)
    \/ SaveEvent(w)

Spec == Init /\ [][Next]_vars

-----------------------------------------------------------------------------
Payload == Context \cup {DEFAULT_SIM_CONTEXT}
OnOff == {"on", "off"}
Row == [id : Nat \ {0}, ts : 0 .. 23, entity : Device, old : OnOff, new : OnOff, count : Nat]
Choices ==
  {Turn("fan", 86), Turn("fan", 88), Turn("air_conditioner", 89), Turn("tv", 84), Turn("light", 72)}
Job ==
  [read : 0 .. Len(Reads) + 2, seen : PayloadType, candidate : Choices \cup {Nothing},
   prev : OnOff, decision : {"none", "allow", "confirm_required", "observe_only", "block"},
   during : SUBSET Payload, disturbed : BOOLEAN,
   entity : Device \cup {"none"}, old : OnOff, new : OnOff, hour : 0 .. 23, count : Nat]

TypeOK ==
  /\ SIM_CONTEXT \in Payload /\ filled \in BOOLEAN /\ calls \in 0 .. MaxCalls
  /\ events \in SUBSET Row
  /\ pc \in [Thread -> {"idle", "fill", "read", "decided", "error", "save"}]
  /\ job \in [Thread -> Job]

(* Between clear and update some request is about to fill.                  *)
SomeoneFills == filled \/ \E w \in Thread : pc[w] = "fill"

(* What an evaluation has seen was in force while it ran, or was missing;   *)
(* a candidate for somebody at home comes from having seen him there.       *)
SeenWasInForce ==
  \A w \in Thread : pc[w] = "read" =>
    /\ filled => SIM_CONTEXT \in job[w].during
    /\ \A f \in DOMAIN Missing :
         job[w].seen[f] = Missing[f] \/ \E c \in job[w].during : job[w].seen[f] = c[f]
CandidateIsFounded ==
  \A w \in Thread : pc[w] = "read" =>
    /\ job[w].candidate = Nothing <=> job[w].read < Len(CandidateReads)
    /\ job[w].candidate.type \in {"air_conditioner", "tv"} => \E c \in job[w].during : c.home

(* An evaluation that nothing tore has seen the one context there was: the  *)
(* arrival and the minutes after it by the first and third read of each of  *)
(* the two functions.                                                       *)
SeesLateness(j) ==
  LET n == j.read
      m == Len(CandidateReads)
  IN /\ n \in 1 .. m - 1 \/ n > m => j.seen.arrival = SIM_CONTEXT.arrival
     /\ n \in 3 .. m - 1 \/ n > m + 2 => j.seen.after = SIM_CONTEXT.after
     /\ n >= m /\ Late(SIM_CONTEXT) => j.candidate = Turn("fan", 86)
UntornSeesOne ==
  \A w \in Thread : pc[w] = "read" /\ ~job[w].disturbed =>
    filled /\ job[w].during = {SIM_CONTEXT} /\ SeesLateness(job[w])

(* The rows of a device tell one story: each starts in the state the one    *)
(* before it left, unless the two requests overlapped, or the earlier one   *)
(* was sent with a sim_time before that of a row already there, and so was  *)
(* never the latest (api_server.py:104-107, 448-460; db.py:280).            *)
Before(q, r) ==
  /\ q.entity = r.entity /\ q.id < r.id
  /\ \A x \in RowsOf(q.entity) : ~(q.id < x.id /\ x.id < r.id)
WentBack(q) == \E x \in RowsOf(q.entity) : x.id < q.id /\ x.ts > q.ts
RowsChain ==
  \A q, r \in events :
    Before(q, r) => r.old = q.new \/ r.count < q.id \/ WentBack(q)

(* The ids count the rows, and a request about to save starts from the      *)
(* state that the rows it found left.                                       *)
RowsAreNumbered ==
  /\ IsFiniteSet(events) /\ \A r \in events : r.id <= Cardinality(events)
  /\ \A r, q \in events : r.id = q.id => r = q
Found(entity, count) == {r \in RowsOf(entity) : r.id <= count}
SaveStartsFromFound ==
  \A w \in Thread : pc[w] = "save" =>
    /\ job[w].entity \in Device /\ job[w].count <= Cardinality(events)
    /\ job[w].old = IF Found(job[w].entity, job[w].count) = {} THEN "off"
                    ELSE Rows!Latest(Found(job[w].entity, job[w].count)).new

IInv ==
  /\ TypeOK /\ SomeoneFills /\ SeenWasInForce /\ CandidateIsFounded /\ UntornSeesOne
  /\ RowsAreNumbered /\ SaveStartsFromFound /\ RowsChain

(* An evaluation torn by a new context may mix the two and what stands for  *)
(* a missing field, but it invents nobody: it allows or asks to switch on   *)
(* only if some context in force while it ran had somebody at home, or      *)
(* expected somebody and one had the 10 to 15 minutes                       *)
(* (api_server.py:158-187, 314-345, 371).                                   *)
ServesSomebody ==
  \A w \in Thread :
    pc[w] = "decided" /\ job[w].decision \in {"allow", "confirm_required"} =>
      \/ \E c \in job[w].during : c.home
      \/ /\ \E c \in job[w].during : c.arrival = "pre_arrival"
         /\ \E c \in job[w].during : c.predicted \in 10 .. 15

(* When nothing tears it, an evaluation of a context in which the person is *)
(* late is blocked, also with somebody at home, where the gate excuses the  *)
(* minutes but not the flag that is derived from them (api_server.py:181,   *)
(* 323; policy.py:80; scenarios.py:132).                                    *)
LateIsBlocked ==
  \A w \in Thread :
    /\ pc[w] = "decided" /\ ~job[w].disturbed
    /\ (\E c \in job[w].during : c.arrival = "arrival_overdue" \/ c.after >= 20)
    => job[w].decision = "block"
=============================================================================

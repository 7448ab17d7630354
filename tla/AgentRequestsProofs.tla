------------------------ MODULE AgentRequestsProofs ------------------------
(***************************************************************************)
(* The audit trail of the agent for any number of callers, candidates and  *)
(* predictions, with every call free to fail between two transactions.     *)
(***************************************************************************)
EXTENDS AgentRequests, TLAPS

(* Moving one worker and changing its locals.                               *)
LEMMA Moves ==
  ASSUME TypeOK, NEW w \in Workers, NEW l, Goto(w, l)
  PROVE  /\ pc'[w] = l
         /\ \A v \in Workers : v # w => pc'[v] = pc[v]
         /\ l \in Steps => pc' \in [Workers -> Steps]
BY DEF TypeOK, Goto

LEMMA Returns ==
  ASSUME TypeOK, NEW w \in Workers, Return(w)
  PROVE  /\ pc'[w] = "idle" /\ job'[w] = NoJob
         /\ \A v \in Workers : v # w => pc'[v] = pc[v] /\ job'[v] = job[v]
         /\ pc' \in [Workers -> Steps]
         /\ job' \in [Workers -> JobType]
<1>1. NoJob \in JobType
  BY DEF NoJob, JobType
<1>2. "idle" \in Steps
  BY DEF Steps
<1> QED  BY <1>1, <1>2 DEF TypeOK, Return, Goto

LEMMA InitIInv == Init => IInv
<1> SUFFICES ASSUME Init PROVE IInv
  OBVIOUS
<1>1. TypeOK
  <2>1. NoJob \in JobType /\ "idle" \in Steps
    BY DEF NoJob, JobType, Steps
  <2>2. predictions \in Seq(Decision) /\ Len(predictions) <= MaxPredictions
    BY BoundAssumption DEF Init
  <2>3. DOMAIN decisions = {} /\ DOMAIN requests = {} /\ called \in [Ids -> Nat]
    BY DEF Init
  <2>4. pc \in [Workers -> Steps] /\ job \in [Workers -> JobType]
    BY <2>1 DEF Init
  <2> QED  BY <2>2, <2>3, <2>4 DEF TypeOK
<1>2. DOMAIN decisions = {} /\ DOMAIN requests = {}
  BY DEF Init
<1>3. EffectHasAudit /\ TablesAgree /\ CalledOnce /\ LoggedAnswersHappened
  BY <1>2 DEF Init, EffectHasAudit, TablesAgree, CalledOnce, LoggedAnswersHappened
<1>4. JobsNamed /\ JobsApart /\ JobsOnRecord
  BY DEF Init, JobsNamed, JobsApart, JobsOnRecord, Named, BeforeEffect
<1> QED  BY <1>1, <1>3, <1>4 DEF IInv

(* The end of a call, also of one that fails: it may have added log rows,   *)
(* but no claim of an answer that did not happen.                           *)
LEMMA ReturnPreserves ==
  ASSUME IInv, NEW w \in Workers, Return(w),
         UNCHANGED <<predictions, decisions, requests, called, answered>>,
         logs \subseteq logs',
         \A s \in {"accepted", "rejected"}, id \in Ids :
           <<s, id>> \in logs' => <<s, id>> \in answered
  PROVE  IInv'
<1> USE DEF IInv
<1>1. /\ pc'[w] = "idle"
      /\ \A v \in Workers : v # w => pc'[v] = pc[v] /\ job'[v] = job[v]
      /\ pc' \in [Workers -> Steps] /\ job' \in [Workers -> JobType]
  BY Returns
<1>2. TypeOK'
  BY <1>1 DEF TypeOK
<1>3. (EffectHasAudit /\ TablesAgree /\ CalledOnce /\ LoggedAnswersHappened)'
  BY DEF EffectHasAudit, TablesAgree, CalledOnce, LoggedAnswersHappened
<1>4. JobsNamed' /\ JobsApart'
  BY <1>1 DEF JobsNamed, JobsApart, Named, BeforeEffect
<1>5. JobsOnRecord'
  BY <1>1 DEF JobsOnRecord
<1> QED  BY <1>2, <1>3, <1>4, <1>5

LEMMA LastStepsPreserve ==
  ASSUME IInv, NEW w \in Workers,
         LogRequest(w) \/ LogBlocked(w) \/ LogAction(w) \/ LogAnswer(w) \/ Fail(w)
  PROVE  IInv'
<1>1. Return(w) /\ UNCHANGED <<predictions, decisions, requests, called, answered>>
  BY DEF LogRequest, LogBlocked, LogAction, LogAnswer, Fail, tables
<1>2. logs \subseteq logs'
  BY DEF LogRequest, LogBlocked, LogAction, LogAnswer, Fail, Log, tables
<1>3. ASSUME NEW s \in {"accepted", "rejected"}, NEW id \in Ids, <<s, id>> \in logs'
      PROVE  <<s, id>> \in answered
  <2>1. CASE <<s, id>> \in logs
    BY <2>1 DEF IInv, LoggedAnswersHappened
  <2>2. CASE LogAnswer(w)
    BY <1>3, <2>1, <2>2 DEF LogAnswer, Log, At, IInv, JobsOnRecord
  <2>3. CASE Fail(w)
    BY <1>3, <2>1, <2>3 DEF Fail, tables
  <2>4. CASE LogRequest(w) \/ LogBlocked(w) \/ LogAction(w)
    BY <1>3, <2>1, <2>4 DEF LogRequest, LogBlocked, LogAction, Log
  <2> QED  BY <2>2, <2>3, <2>4
<1> QED  BY <1>1, <1>2, <1>3, ReturnPreserves

(* Evaluate and Respond: a new call, with nothing written yet.              *)
LEMMA EvaluatePreserves ==
  ASSUME IInv, NEW w \in Workers, Evaluate(w)
  PROVE  IInv'
<1> USE DEF IInv
<1>1. PICK d \in Decision, b \in BOOLEAN :
        job' = [job EXCEPT ![w] = [NoJob EXCEPT !.decision = d, !.late = b]]
  BY CandidateAssumption DEF Evaluate
<1>2. [NoJob EXCEPT !.decision = d, !.late = b] \in JobType
  BY DEF NoJob, JobType
<1>3. /\ job'[w].decision = d /\ pc'[w] = "logPredict"
      /\ \A v \in Workers : v # w => pc'[v] = pc[v] /\ job'[v] = job[v]
      /\ job' \in [Workers -> JobType] /\ pc' \in [Workers -> Steps]
  <2>1. Goto(w, "logPredict") /\ "logPredict" \in Steps
    BY DEF Evaluate, Steps
  <2>2. /\ pc'[w] = "logPredict" /\ pc' \in [Workers -> Steps]
        /\ \A v \in Workers : v # w => pc'[v] = pc[v]
    BY <2>1, Moves
  <2>3. job \in [Workers -> JobType]
    BY DEF TypeOK
  <2>4. /\ job'[w] = [NoJob EXCEPT !.decision = d, !.late = b] /\ job' \in [Workers -> JobType]
        /\ \A v \in Workers : v # w => job'[v] = job[v]
    BY <1>1, <1>2, <2>3
  <2> QED  BY <2>2, <2>4 DEF NoJob
<1>4. UNCHANGED <<predictions, decisions, requests, logs, called, answered>>
  BY DEF Evaluate, tables
<1>5. TypeOK'
  BY <1>3, <1>4 DEF TypeOK
<1>6. (EffectHasAudit /\ TablesAgree /\ CalledOnce /\ LoggedAnswersHappened)'
  BY <1>4 DEF EffectHasAudit, TablesAgree, CalledOnce, LoggedAnswersHappened
<1>7. JobsNamed' /\ JobsApart'
  BY <1>3, <1>4 DEF JobsNamed, JobsApart, Named, BeforeEffect
<1>8. JobsOnRecord'
  BY <1>3, <1>4 DEF JobsOnRecord
<1> QED  BY <1>5, <1>6, <1>7, <1>8

LEMMA RespondPreserves ==
  ASSUME IInv, NEW w \in Workers, Respond(w)
  PROVE  IInv'
<1> USE DEF IInv
<1>1. PICK id \in DOMAIN requests, answer \in {"yes", "no"} :
        job' = [job EXCEPT ![w] = [NoJob EXCEPT !.id = id, !.answer = answer]]
  BY DEF Respond
<1>2. [NoJob EXCEPT !.id = id, !.answer = answer] \in JobType
  BY DEF NoJob, JobType, TypeOK
<1>3. /\ job'[w].id = id /\ job'[w].answer = answer /\ pc'[w] = "update"
      /\ \A v \in Workers : v # w => pc'[v] = pc[v] /\ job'[v] = job[v]
      /\ job' \in [Workers -> JobType] /\ pc' \in [Workers -> Steps]
  BY <1>1, <1>2, Moves DEF Respond, TypeOK, Steps, NoJob
<1>4. UNCHANGED <<predictions, decisions, requests, logs, called, answered>>
  BY DEF Respond, tables
<1>5. TypeOK'
  BY <1>3, <1>4 DEF TypeOK
<1>6. (EffectHasAudit /\ TablesAgree /\ CalledOnce /\ LoggedAnswersHappened)'
  BY <1>4 DEF EffectHasAudit, TablesAgree, CalledOnce, LoggedAnswersHappened
<1>7. JobsNamed' /\ JobsApart'
  BY <1>3, <1>4 DEF JobsNamed, JobsApart, Named, BeforeEffect
<1>8. JobsOnRecord'
  BY <1>3, <1>4 DEF JobsOnRecord
<1> QED  BY <1>5, <1>6, <1>7, <1>8

(* Log rows of other types, and the move of one worker with its locals.     *)
LEMMA LogPredictPreserves ==
  ASSUME IInv, NEW w \in Workers, LogPredict(w)
  PROVE  IInv'
<1> USE DEF IInv
<1>1. /\ pc[w] = "logPredict" /\ pc'[w] = "prediction" /\ pc' \in [Workers -> Steps]
      /\ \A v \in Workers : v # w => pc'[v] = pc[v]
  BY Moves DEF LogPredict, At, Steps
<1>2. UNCHANGED <<predictions, decisions, requests, called, job, answered>>
  BY DEF LogPredict
<1>3. /\ logs \subseteq logs'
      /\ \A s \in {"accepted", "rejected"}, id \in Ids :
           <<s, id>> \in logs' => <<s, id>> \in logs
  BY DEF LogPredict, Log
<1>4. TypeOK'
  BY <1>1, <1>2 DEF TypeOK
<1>5. (EffectHasAudit /\ TablesAgree /\ CalledOnce /\ LoggedAnswersHappened)'
  BY <1>2, <1>3 DEF EffectHasAudit, TablesAgree, CalledOnce, LoggedAnswersHappened
<1>6. JobsNamed' /\ JobsApart' /\ JobsOnRecord'
  BY <1>1, <1>2, <1>3 DEF JobsNamed, JobsApart, JobsOnRecord, Named, BeforeEffect
<1> QED  BY <1>4, <1>5, <1>6

(* The new row has an id that no table and no call has seen.                *)
LEMMA SavePredictionPreserves ==
  ASSUME IInv, NEW w \in Workers, SavePrediction(w)
  PROVE  IInv'
<1> USE DEF IInv
<1> DEFINE id == Len(predictions) + 1
<1>1. /\ pc[w] = "prediction" /\ pc'[w] = "decision" /\ pc' \in [Workers -> Steps]
      /\ \A v \in Workers : v # w => pc'[v] = pc[v]
  BY Moves DEF SavePrediction, At, Steps
<1>2. job[w].decision \in Decision
  BY <1>1 DEF JobsNamed
<1>3. /\ id \in Ids /\ id \notin DOMAIN predictions
      /\ predictions' = Append(predictions, job[w].decision)
      /\ predictions' \in Seq(Decision) /\ Len(predictions') = id
      /\ DOMAIN predictions' = DOMAIN predictions \cup {id}
      /\ predictions'[id] = job[w].decision
      /\ \A p \in DOMAIN predictions : predictions'[p] = predictions[p]
  BY <1>2, BoundAssumption DEF SavePrediction, TypeOK, Ids
<1>4. /\ job' \in [Workers -> JobType] /\ job'[w].id = id
      /\ job'[w].decision = job[w].decision
      /\ \A v \in Workers : v # w => job'[v] = job[v]
  <2>1. job' = [job EXCEPT ![w].id = id] /\ job \in [Workers -> JobType]
    BY DEF SavePrediction, TypeOK
  <2>2. [job[w] EXCEPT !.id = id] \in JobType
    BY <1>3, <2>1 DEF JobType
  <2> QED  BY <2>1, <2>2 DEF JobType
<1>5. UNCHANGED <<decisions, requests, logs, called, answered>>
  BY DEF SavePrediction
<1>6. called[id] = 0 /\ id \notin DOMAIN requests
  <2>1. called[id] \in Nat
    BY <1>3 DEF TypeOK
  <2>2. ~(called[id] > 0) /\ id \notin DOMAIN requests
    BY <1>3 DEF EffectHasAudit, TablesAgree
  <2> QED  BY <2>1, <2>2
<1>7. TypeOK'
  BY <1>1, <1>3, <1>4, <1>5 DEF TypeOK, Ids, SavePrediction
<1>8. (EffectHasAudit /\ TablesAgree /\ CalledOnce /\ LoggedAnswersHappened)'
  BY <1>3, <1>5 DEF EffectHasAudit, TablesAgree, CalledOnce, LoggedAnswersHappened
<1> HIDE DEF id
<1>9. JobsNamed'
  BY <1>1, <1>2, <1>3, <1>4, <1>5, <1>6 DEF JobsNamed, Named, BeforeEffect
<1>10. JobsApart'
  <2>1. \A v \in Workers : BeforeEffect(v) => job[v].id # id
    BY <1>3 DEF JobsNamed, Named, BeforeEffect
  <2> QED  BY <1>1, <1>4, <2>1 DEF JobsApart, BeforeEffect
<1>11. JobsOnRecord'
  BY <1>1, <1>4, <1>5 DEF JobsOnRecord
<1> QED  BY <1>7, <1>8, <1>9, <1>10, <1>11

(* The decision recorded is the prediction's, so that rows written before   *)
(* keep their value.                                                        *)
LEMMA SaveDecisionPreserves ==
  ASSUME IInv, NEW w \in Workers, SaveDecision(w)
  PROVE  IInv'
<1> USE DEF IInv
<1> DEFINE id == job[w].id
<1>1. /\ pc[w] = "decision" /\ pc'[w] = Consequence(job[w]) /\ pc' \in [Workers -> Steps]
      /\ \A v \in Workers : v # w => pc'[v] = pc[v]
      /\ Consequence(job[w]) \in {"request", "logAllow", "logBlocked"}
  BY Moves DEF SaveDecision, At, Steps, Consequence
<1>2. id \in DOMAIN predictions /\ predictions[id] = job[w].decision /\ called[id] = 0
  BY <1>1 DEF JobsNamed, Named, BeforeEffect
<1>3. /\ DOMAIN decisions' = DOMAIN decisions \cup {id}
      /\ decisions'[id] = job[w].decision
      /\ \A p \in DOMAIN decisions : decisions'[p] = decisions[p]
  <2>1. decisions' = Put(job[w].decision, id, decisions)
    BY DEF SaveDecision
  <2>2. id \in DOMAIN decisions => decisions[id] = job[w].decision
    BY <1>2 DEF TablesAgree
  <2> HIDE DEF id
  <2>3. /\ DOMAIN decisions' = DOMAIN decisions \cup {id}
        /\ decisions'[id] = job[w].decision
        /\ \A p \in DOMAIN decisions : p # id => decisions'[p] = decisions[p]
    BY ONLY <2>1 DEF Put
  <2> QED  BY <2>2, <2>3
<1>4. UNCHANGED <<predictions, requests, logs, called, job, answered>>
  BY DEF SaveDecision
<1>5. id \in Ids /\ job[w].decision \in Decision
  <2>1. id \in 1 .. Len(predictions) /\ Len(predictions) <= MaxPredictions
    BY <1>2 DEF TypeOK
  <2>2. predictions[id] \in Decision
    BY <2>1 DEF TypeOK
  <2> HIDE DEF id
  <2>3. id \in Ids
    BY <2>1, BoundAssumption DEF Ids, TypeOK
  <2> QED  BY <1>2, <2>2, <2>3 DEF id
<1>6. TypeOK'
  <2>1. \A p \in DOMAIN decisions' : decisions'[p] \in Decision
    BY <1>3, <1>5 DEF TypeOK
  <2> QED  BY <1>1, <1>3, <1>4, <1>5, <2>1 DEF TypeOK
<1>7. (EffectHasAudit /\ TablesAgree /\ CalledOnce /\ LoggedAnswersHappened)'
  BY <1>2, <1>3, <1>4 DEF EffectHasAudit, TablesAgree, CalledOnce, LoggedAnswersHappened
<1>8. JobsNamed' /\ JobsApart'
  BY <1>1, <1>4 DEF JobsNamed, JobsApart, Named, BeforeEffect
<1>9. /\ Consequence(job[w]) = "request" => job[w].decision = "confirm_required"
      /\ Consequence(job[w]) = "logAllow" => job[w].decision = "allow"
  BY DEF Consequence
<1>10. JobsOnRecord'
  BY <1>1, <1>3, <1>4, <1>9 DEF JobsOnRecord
<1> QED  BY <1>6, <1>7, <1>8, <1>10

LEMMA SaveRequestPreserves ==
  ASSUME IInv, NEW w \in Workers, SaveRequest(w)
  PROVE  IInv'
<1> USE DEF IInv
<1> DEFINE id == job[w].id
<1>1. /\ pc[w] = "request" /\ pc'[w] = "logRequest" /\ pc' \in [Workers -> Steps]
      /\ \A v \in Workers : v # w => pc'[v] = pc[v]
  BY Moves DEF SaveRequest, At, Steps
<1>2. /\ id \in DOMAIN predictions /\ id \in DOMAIN decisions
      /\ decisions[id] = "confirm_required"
  BY <1>1 DEF JobsNamed, JobsOnRecord, Named, TablesAgree
<1>3. /\ DOMAIN requests' = DOMAIN requests \cup {id}
      /\ requests'[id] = "pending"
      /\ \A r \in DOMAIN requests : r # id => requests'[r] = requests[r]
  <2>1. requests' = Put("pending", id, requests)
    BY DEF SaveRequest, RequestId
  <2> HIDE DEF id
  <2> QED  BY ONLY <2>1 DEF Put
<1>4. UNCHANGED <<predictions, decisions, logs, called, job, answered>>
  BY DEF SaveRequest
<1>5. TypeOK'
  <2>1. DOMAIN requests' \subseteq Ids
    BY <1>2, <1>3 DEF TypeOK
  <2>2. \A r \in DOMAIN requests' : requests'[r] \in {"pending", "accepted", "rejected"}
    BY <1>3 DEF TypeOK
  <2> QED  BY <1>1, <1>4, <2>1, <2>2 DEF TypeOK
<1>6. (EffectHasAudit /\ TablesAgree /\ CalledOnce /\ LoggedAnswersHappened)'
  BY <1>2, <1>3, <1>4 DEF EffectHasAudit, TablesAgree, CalledOnce, LoggedAnswersHappened
<1>7. JobsNamed' /\ JobsApart'
  <2>1. \A v \in Workers : v # w /\ BeforeEffect(v) => job[v].id # id
    BY <1>1 DEF JobsApart, BeforeEffect
  <2> HIDE DEF id
  <2> QED  BY <1>1, <1>3, <1>4, <2>1 DEF JobsNamed, JobsApart, Named, BeforeEffect
<1>8. JobsOnRecord'
  BY <1>1, <1>3, <1>4 DEF JobsOnRecord
<1> QED  BY <1>5, <1>6, <1>7, <1>8

LEMMA LogAllowPreserves ==
  ASSUME IInv, NEW w \in Workers, LogAllow(w)
  PROVE  IInv'
<1> USE DEF IInv
<1>1. /\ pc[w] = "logAllow" /\ pc'[w] \in {"call", "logAction"} /\ pc' \in [Workers -> Steps]
      /\ \A v \in Workers : v # w => pc'[v] = pc[v]
  BY Moves DEF LogAllow, At, Steps
<1>2. UNCHANGED <<predictions, decisions, requests, called, job, answered>>
  BY DEF LogAllow
<1>3. /\ logs \subseteq logs' /\ <<"POLICY_ALLOW", job[w].id>> \in logs'
      /\ \A s \in {"accepted", "rejected"}, id \in Ids :
           <<s, id>> \in logs' => <<s, id>> \in logs
  BY DEF LogAllow, Log
<1>4. TypeOK'
  BY <1>1, <1>2 DEF TypeOK
<1>5. (EffectHasAudit /\ TablesAgree /\ CalledOnce /\ LoggedAnswersHappened)'
  BY <1>2, <1>3 DEF EffectHasAudit, TablesAgree, CalledOnce, LoggedAnswersHappened
<1>6. JobsNamed' /\ JobsApart'
  BY <1>1, <1>2 DEF JobsNamed, JobsApart, Named, BeforeEffect
<1>7. JobsOnRecord'
  BY <1>1, <1>2, <1>3 DEF JobsOnRecord
<1> QED  BY <1>4, <1>5, <1>6, <1>7

(* The call itself: its decision and its log row are there, no call was     *)
(* made for this prediction, and no other worker is about to make one.      *)
LEMMA CallServicePreserves ==
  ASSUME IInv, NEW w \in Workers, CallService(w)
  PROVE  IInv'
<1> USE DEF IInv
<1> DEFINE id == job[w].id
<1>1. /\ pc[w] = "call" /\ pc'[w] = "logAction" /\ pc' \in [Workers -> Steps]
      /\ \A v \in Workers : v # w => pc'[v] = pc[v]
  BY Moves DEF CallService, At, Steps
<1>2. UNCHANGED <<predictions, decisions, requests, logs, job, answered>>
  BY DEF CallService, tables
<1>3. /\ id \in DOMAIN predictions /\ id \in DOMAIN decisions /\ called[id] = 0
      /\ decisions[id] = "allow" /\ <<"POLICY_ALLOW", id>> \in logs
  BY <1>1 DEF JobsNamed, JobsOnRecord, TablesAgree, Named, BeforeEffect
<1>4. id \in Ids
  BY <1>3 DEF TypeOK
<1>5. /\ called' \in [Ids -> Nat] /\ called'[id] \in {0, 1}
      /\ \A p \in Ids : p # id => called'[p] = called[p]
  BY <1>3, <1>4 DEF CallService, TypeOK
<1>6. TypeOK'
  BY <1>1, <1>2, <1>5 DEF TypeOK
<1>7. (EffectHasAudit /\ TablesAgree /\ CalledOnce /\ LoggedAnswersHappened)'
  BY <1>2, <1>3, <1>5 DEF EffectHasAudit, TablesAgree, CalledOnce, LoggedAnswersHappened
<1>8. JobsNamed'
  <2>1. ASSUME NEW v \in Workers, v # w, BeforeEffect(v)
        PROVE  job[v].id # id /\ job[v].id \in Ids
    <3>1. job[v].id \in DOMAIN predictions
      BY <2>1 DEF JobsNamed, BeforeEffect, Named
    <3>2. job[v].id # id
      BY <1>1, <2>1 DEF JobsApart, BeforeEffect
    <3> QED  BY <3>1, <3>2, BoundAssumption DEF TypeOK, Ids
  <2> QED  BY <1>1, <1>2, <1>5, <2>1 DEF JobsNamed, Named, BeforeEffect
<1>9. JobsApart' /\ JobsOnRecord'
  BY <1>1, <1>2 DEF JobsApart, JobsOnRecord, BeforeEffect
<1> QED  BY <1>6, <1>7, <1>8, <1>9

LEMMA UpdateRequestPreserves ==
  ASSUME IInv, NEW w \in Workers, UpdateRequest(w)
  PROVE  IInv'
<1> USE DEF IInv
<1> DEFINE id == job[w].id   status == Status(job[w].answer)
<1>1. /\ pc[w] = "update" /\ pc'[w] = "logAnswer" /\ pc' \in [Workers -> Steps]
      /\ \A v \in Workers : v # w => pc'[v] = pc[v]
  BY Moves DEF UpdateRequest, At, Steps
<1>2. id \in DOMAIN requests /\ status \in {"accepted", "rejected"}
  BY <1>1 DEF JobsOnRecord, Status
<1>3. /\ DOMAIN requests' = DOMAIN requests
      /\ requests'[id] = status
      /\ \A r \in DOMAIN requests : r # id => requests'[r] = requests[r]
  <2>1. requests' = Put(status, id, requests)
    BY DEF UpdateRequest
  <2> HIDE DEF id, status
  <2>2. /\ DOMAIN requests' = DOMAIN requests \cup {id} /\ requests'[id] = status
        /\ \A r \in DOMAIN requests : r # id => requests'[r] = requests[r]
    BY ONLY <2>1 DEF Put
  <2> QED  BY <1>2, <2>2
<1>4. answered \subseteq answered' /\ <<status, id>> \in answered'
  BY DEF UpdateRequest
<1>5. UNCHANGED <<predictions, decisions, logs, called, job>>
  BY DEF UpdateRequest
<1>6. TypeOK'
  <2>1. \A r \in DOMAIN requests' : requests'[r] \in {"pending", "accepted", "rejected"}
    BY <1>2, <1>3 DEF TypeOK
  <2> QED  BY <1>1, <1>3, <1>5, <2>1 DEF TypeOK
<1>7. (EffectHasAudit /\ TablesAgree /\ CalledOnce /\ LoggedAnswersHappened)'
  BY <1>3, <1>4, <1>5 DEF EffectHasAudit, TablesAgree, CalledOnce, LoggedAnswersHappened
<1>8. JobsNamed' /\ JobsApart'
  BY <1>1, <1>2, <1>3, <1>5 DEF JobsNamed, JobsApart, Named, BeforeEffect
<1>9. JobsOnRecord'
  BY <1>1, <1>3, <1>4, <1>5 DEF JobsOnRecord
<1> QED  BY <1>6, <1>7, <1>8, <1>9

LEMMA StepPreserves == IInv /\ [Next]_vars => IInv'
<1> SUFFICES ASSUME IInv, [Next]_vars PROVE IInv'
  OBVIOUS
<1>1. CASE UNCHANGED vars
  BY <1>1 DEF vars, tables, IInv, TypeOK, EffectHasAudit, TablesAgree, CalledOnce,
     LoggedAnswersHappened, JobsNamed, JobsApart, JobsOnRecord, Named, BeforeEffect
<1>2. CASE Next
  <2>1. PICK w \in Workers :
          \/ Evaluate(w) \/ LogPredict(w) \/ SavePrediction(w) \/ SaveDecision(w)
          \/ SaveRequest(w) \/ LogRequest(w) \/ LogBlocked(w)
          \/ LogAllow(w) \/ CallService(w) \/ LogAction(w)
          \/ Respond(w) \/ UpdateRequest(w) \/ LogAnswer(w) \/ Fail(w)
    BY <1>2 DEF Next
  <2> QED  BY <2>1, EvaluatePreserves, LogPredictPreserves, SavePredictionPreserves,
              SaveDecisionPreserves, SaveRequestPreserves, LastStepsPreserve,
              LogAllowPreserves, CallServicePreserves, RespondPreserves,
              UpdateRequestPreserves
<1> QED  BY <1>1, <1>2

(* The inductive invariant of the agent's database.                         *)
THEOREM Invariance == Spec => []IInv
BY InitIInv, StepPreserves, PTL DEF Spec

(* Every request and every service call has its audit trail, whatever fails *)
(* and however many callers there are (predictor.py:1).                     *)
THEOREM AuditTrail == Spec => []EffectHasAudit
<1>1. IInv => EffectHasAudit  BY DEF IInv
<1> QED  BY <1>1, Invariance, PTL

(* No prediction is carried out twice (predictor.py:315, ha_client.py:55).  *)
THEOREM NoDoubleCall == Spec => []CalledOnce
<1>1. IInv => CalledOnce  BY DEF IInv
<1> QED  BY <1>1, Invariance, PTL

(* A logged answer is one that reached its row (api_server.py:400-402).     *)
THEOREM TruthfulLog == Spec => []LoggedAnswersHappened
<1>1. IInv => LoggedAnswersHappened  BY DEF IInv
<1> QED  BY <1>1, Invariance, PTL

(* Only SaveRequest writes "pending", and the row it writes is a new one:   *)
(* its prediction's id is in no request and in no other call's hands.       *)
LEMMA AnswersStay ==
  ASSUME IInv, [Next]_vars, NEW r \in DOMAIN requests, requests[r] # "pending"
  PROVE  requests'[r] # "pending"
<1>1. CASE UNCHANGED requests
  BY <1>1
<1>2. ASSUME NEW w \in Workers, SaveRequest(w)
      PROVE  requests'[r] # "pending"
  <2> DEFINE id == job[w].id
  <2>1. requests' = Put("pending", id, requests)
    BY <1>2 DEF SaveRequest, RequestId
  <2>2. r # id
    BY <1>2 DEF SaveRequest, At, IInv, JobsNamed, BeforeEffect
  <2> HIDE DEF id
  <2> QED  BY <2>1, <2>2 DEF Put
<1>3. ASSUME NEW w \in Workers, UpdateRequest(w)
      PROVE  requests'[r] # "pending"
  <2> DEFINE id == job[w].id
             status == Status(job[w].answer)
  <2>1. requests' = Put(status, id, requests) /\ status # "pending"
    BY <1>3 DEF UpdateRequest, Status
  <2> HIDE DEF id, status
  <2> QED  BY <2>1 DEF Put
<1>4. \/ UNCHANGED requests
      \/ \E w \in Workers : SaveRequest(w) \/ UpdateRequest(w)
  BY DEF Next, vars, tables, Evaluate, LogPredict, SavePrediction, SaveDecision, LogRequest,
         LogBlocked, LogAllow, CallService, LogAction, Respond, LogAnswer, Fail
<1> QED  BY <1>1, <1>2, <1>3, <1>4

(* A request that was answered never waits again, whoever else writes to    *)
(* the table (predictor.py:91-93, db.py:122).                               *)
THEOREM AnswersAreFinal == Spec => AnsweredForGood
<1>1. IInv /\ [Next]_vars =>
        [\A r \in DOMAIN requests : requests[r] # "pending" => requests'[r] # "pending"]_vars
  BY AnswersStay
<1> QED  BY <1>1, Invariance, PTL DEF Spec, AnsweredForGood
=============================================================================

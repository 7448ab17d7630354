--------------------------- MODULE AgentRequests ---------------------------
(***************************************************************************)
(* What a candidate action leaves in the database and does in the home:    *)
(* _run_candidate of agent/api_server.py, run and run_scenario of          *)
(* agent/predictor.py, and the answers over HTTP and from agent_cli.py.    *)
(* Every helper of agent/db.py is a transaction of its own, so the rows of *)
(* one call appear one by one, among those of the other calls, and a call  *)
(* that fails half way leaves the rows it has written.                     *)
(***************************************************************************)
EXTENDS Integers, Sequences

CONSTANTS Server,         \* request threads of the API server, which only writes
          Predictor,      \* predictor processes run with --live
          Cli,            \* agent_cli processes
          Candidate,      \* inputs of PolicyGate.evaluate that callers produce
          MaxPredictions  \* bound: rows of predictions

ASSUME WorkerAssumption ==
  Server \cap Predictor = {} /\ Cli \cap (Server \cup Predictor) = {}
ASSUME BoundAssumption == MaxPredictions \in Nat

Policy == INSTANCE PolicyGate
Decision == {"allow", "confirm_required", "block", "observe_only"}
ASSUME CandidateAssumption ==
  \A c \in Candidate : Policy!Evaluate(c).decision \in Decision

VARIABLES
  predictions,  \* policy_decision of each row of predictions, by its id
  decisions,    \* decision of each row of policy_decisions, by prediction_id
  requests,     \* status of each row of agent_requests, by request_id
  logs,         \* rows of action_logs: log_type and what they are about
  called,       \* service calls that Home Assistant carried out, by prediction
  pc, job,      \* where each worker is, and the locals of its call
  answered      \* history: the answers that reached a row

tables == <<predictions, decisions, requests, logs>>
vars == <<tables, called, pc, job, answered>>

Workers == Server \cup Predictor \cup Cli
Evaluators == Server \cup Predictor
Answerers == Server \cup Cli
Ids == 1 .. MaxPredictions
Status(answer) == IF answer = "yes" THEN "accepted" ELSE "rejected"
NoJob == [id |-> 0, decision |-> "none", late |-> FALSE, answer |-> "none"]

Init ==
  /\ predictions = <<>> /\ decisions = <<>> /\ requests = <<>>
  /\ logs = {} /\ called = [p \in Ids |-> 0]
  /\ pc = [w \in Workers |-> "idle"] /\ job = [w \in Workers |-> NoJob]
  /\ answered = {}

-----------------------------------------------------------------------------
At(w, l) == pc[w] = l
Goto(w, l) == pc' = [pc EXCEPT ![w] = l]
Return(w) == Goto(w, "idle") /\ job' = [job EXCEPT ![w] = NoJob]
Put(row, key, table) == [x \in DOMAIN table \cup {key} |-> IF x = key THEN row ELSE table[x]]
Log(type, id) == logs' = logs \cup {<<type, id>>}

(* A new candidate: the policy is asked first, before anything is written.  *)
Evaluate(w) ==
  /\ At(w, "idle") /\ w \in Evaluators /\ Len(predictions) < MaxPredictions
  /\ \E c \in Candidate :
       LET v == Policy!Evaluate(c) IN
       job' = [job EXCEPT ![w] = [NoJob EXCEPT !.decision = v.decision,
                                               !.late = (v.code = "ARRIVAL_OVERDUE")]]
  /\ Goto(w, "logPredict") /\ UNCHANGED <<tables, called, answered>>

LogPredict(w) ==
  /\ At(w, "logPredict") /\ Log("AGENT_PREDICT", 0)
  /\ Goto(w, "prediction") /\ UNCHANGED <<predictions, decisions, requests, called, job, answered>>

(* save_prediction: the id is the next of an AUTOINCREMENT column.          *)
SavePrediction(w) ==
  /\ At(w, "prediction") /\ Len(predictions) < MaxPredictions
  /\ predictions' = Append(predictions, job[w].decision)
  /\ job' = [job EXCEPT ![w].id = Len(predictions) + 1]
  /\ Goto(w, "decision") /\ UNCHANGED <<decisions, requests, logs, called, answered>>

(* save_policy_decision, and then what the decision asks for.               *)
Consequence(j) ==
  CASE j.decision = "confirm_required" -> "request"
    [] j.decision = "allow" -> "logAllow"
    [] OTHER -> "logBlocked"
SaveDecision(w) ==
  /\ At(w, "decision")
  /\ decisions' = Put(job[w].decision, job[w].id, decisions)
  /\ Goto(w, Consequence(job[w]))
  /\ UNCHANGED <<predictions, requests, logs, called, job, answered>>

(* save_agent_request: _request_id holds the prediction's id.  request_id   *)
(* is UNIQUE: an INSERT of one that exists raises, and the call ends (Fail).*)
RequestId(id) == id
SaveRequestReplacing(w) ==
  /\ At(w, "request")
  /\ requests' = Put("pending", 1, requests)
  /\ Goto(w, "logRequest")
  /\ UNCHANGED <<predictions, decisions, logs, called, job, answered>>
SaveRequest(w) ==
  /\ At(w, "request") /\ RequestId(job[w].id) \notin DOMAIN requests
  /\ requests' = Put("pending", RequestId(job[w].id), requests)
  /\ Goto(w, "logRequest")
  /\ UNCHANGED <<predictions, decisions, logs, called, job, answered>>
LogRequest(w) ==
  /\ At(w, "logRequest") /\ Log("AGENT_REQUEST", job[w].id)
  /\ Return(w) /\ UNCHANGED <<predictions, decisions, requests, called, answered>>

LogBlocked(w) ==
  /\ At(w, "logBlocked")
  /\ Log(IF job[w].late THEN "ARRIVAL_OVERDUE" ELSE "POLICY_BLOCKED", job[w].id)
  /\ Return(w) /\ UNCHANGED <<predictions, decisions, requests, called, answered>>

(* Allowed: logged, then done, or only written down when dry_run.           *)
LogAllowWhileCalling(w) ==
  /\ At(w, "logAllow") /\ Goto(w, IF w \in Predictor THEN "call" ELSE "logAction")
  /\ UNCHANGED <<tables, called, job, answered>>
LogAllow(w) ==
  /\ At(w, "logAllow") /\ Log("POLICY_ALLOW", job[w].id)
  /\ Goto(w, IF w \in Predictor THEN "call" ELSE "logAction")
  /\ UNCHANGED <<predictions, decisions, requests, called, job, answered>>

(* HAClient.call_service: one POST with a timeout.  Its failure does not    *)
(* say whether Home Assistant acted, and it is not repeated.                *)
CallRetried(w) ==
  /\ At(w, "call")
  /\ \/ called' = [called EXCEPT ![job[w].id] = @ + 1] /\ Goto(w, "logAction")
     \/ called' = [called EXCEPT ![job[w].id] = @ + 1] /\ called[job[w].id] < 2 /\ UNCHANGED pc
  /\ UNCHANGED <<tables, job, answered>>
CallService(w) ==
  /\ At(w, "call")
  /\ \/ called' = [called EXCEPT ![job[w].id] = @ + 1]
     \/ UNCHANGED called
  /\ Goto(w, "logAction") /\ UNCHANGED <<tables, job, answered>>

LogAction(w) ==
  /\ At(w, "logAction") /\ Log("AGENT_ACTION", job[w].id)
  /\ Return(w) /\ UNCHANGED <<predictions, decisions, requests, called, answered>>

-----------------------------------------------------------------------------
(* respond_request and agent_cli.respond: find the row, overwrite its       *)
(* status without looking at it, log.  Ids come from a list read earlier.   *)

Respond(w) ==
  /\ At(w, "idle") /\ w \in Answerers
  /\ \E id \in DOMAIN requests, answer \in {"yes", "no"} :
       job' = [job EXCEPT ![w] = [NoJob EXCEPT !.id = id, !.answer = answer]]
  /\ Goto(w, "update") /\ UNCHANGED <<tables, called, answered>>

UpdateFailsQuietly(w) ==
  /\ At(w, "update") /\ UNCHANGED <<tables, answered>>
  /\ Goto(w, "logAnswer") /\ UNCHANGED <<called, job>>
UpdateRequest(w) ==
  /\ At(w, "update")
  /\ LET status == Status(job[w].answer) IN
       /\ requests' = Put(status, job[w].id, requests)
       /\ answered' = answered \cup {<<status, job[w].id>>}
  /\ Goto(w, "logAnswer") /\ UNCHANGED <<predictions, decisions, logs, called, job>>

LogAnswer(w) ==
  /\ At(w, "logAnswer") /\ Log(Status(job[w].answer), job[w].id)
  /\ Return(w) /\ UNCHANGED <<predictions, decisions, requests, called, answered>>

(* A transaction fails (the database stays locked for 30 s), the process is *)
(* killed or the request ends: the call stops where it is.                  *)
Fail(w) ==
  /\ ~At(w, "idle") /\ Return(w)
  /\ UNCHANGED <<tables, called, answered>>

Next ==
  \E w \in Workers :
    \/ Evaluate(w) \/ LogPredict(w) \/ SavePrediction(w) \/ SaveDecision(w)
    \/ SaveRequest(w) \/ LogRequest(w) \/ LogBlocked(w)
    \/ LogAllow(w) \/ CallService(w) \/ LogAction(w)
    \/ Respond(w) \/ UpdateRequest(w) \/ LogAnswer(w) \/ Fail(w)

Spec == Init /\ [][Next]_vars

-----------------------------------------------------------------------------
Steps == {"idle", "logPredict", "prediction", "decision", "request", "logRequest",
          "logBlocked", "logAllow", "call", "logAction", "update", "logAnswer"}

JobType == [id : Ids \cup {0}, decision : Decision \cup {"none"}, late : BOOLEAN,
            answer : {"none", "yes", "no"}]

(* Type invariant: the tables and the locals of the calls.                  *)
TypeOK ==
  /\ predictions \in Seq(Decision) /\ Len(predictions) <= MaxPredictions
  /\ DOMAIN decisions \subseteq Ids /\ DOMAIN requests \subseteq Ids
  /\ \A p \in DOMAIN decisions : decisions[p] \in Decision
  /\ \A r \in DOMAIN requests : requests[r] \in {"pending", "accepted", "rejected"}
  /\ pc \in [Workers -> Steps]
  /\ job \in [Workers -> JobType]
  /\ called \in [Ids -> Nat]

(* Whatever fails between the transactions, and however calls interleave,   *)
(* an effect has its audit trail: a request its prediction and a decision   *)
(* that asks for confirmation, a service call its decision and its log row, *)
(* written before it (predictor.py:1, "with policy audit").                 *)
EffectHasAudit ==
  /\ \A r \in DOMAIN requests :
       r \in DOMAIN predictions /\ r \in DOMAIN decisions
       /\ decisions[r] = "confirm_required"
  /\ \A p \in Ids : called[p] > 0 =>
       p \in DOMAIN decisions /\ decisions[p] = "allow" /\ <<"POLICY_ALLOW", p>> \in logs

(* The decision on record is the one that was acted on, for both tables.    *)
TablesAgree ==
  \A p \in DOMAIN decisions : p \in DOMAIN predictions /\ decisions[p] = predictions[p]

(* A prediction is carried out once at most, also when the answer of Home   *)
(* Assistant is lost and the predictor dies or goes on (ha_client.py:55).   *)
CalledOnce == \A p \in Ids : called[p] <= 1

(* The log never claims an answer that did not reach its row, although the  *)
(* two are separate transactions of two front ends (api_server.py:400-402). *)
LoggedAnswersHappened ==
  \A s \in {"accepted", "rejected"}, id \in Ids : <<s, id>> \in logs => <<s, id>> \in answered

(* The strengthening that makes the above inductive: a call in progress     *)
(* names a prediction of its own, with the rows its place in the code       *)
(* implies, and has had no effect before the step that makes it.            *)
Named(w) == pc[w] \in {"decision", "request", "logAllow", "call", "logRequest",
                       "logBlocked", "logAction"}
BeforeEffect(w) == pc[w] \in {"decision", "request", "logAllow", "call"}
JobsNamed ==
  \A w \in Workers :
    /\ pc[w] \in {"logPredict", "prediction"} => job[w].decision \in Decision
    /\ Named(w) => /\ job[w].id \in DOMAIN predictions
                   /\ predictions[job[w].id] = job[w].decision
    /\ BeforeEffect(w) => called[job[w].id] = 0 /\ job[w].id \notin DOMAIN requests
JobsApart ==
  \A v, w \in Workers :
    v # w /\ BeforeEffect(v) /\ BeforeEffect(w) => job[v].id # job[w].id
JobsOnRecord ==
  \A w \in Workers :
    /\ pc[w] = "request" => job[w].id \in DOMAIN decisions /\ job[w].decision = "confirm_required"
    /\ pc[w] \in {"logAllow", "call"} =>
         job[w].id \in DOMAIN decisions /\ job[w].decision = "allow"
    /\ pc[w] = "call" => <<"POLICY_ALLOW", job[w].id>> \in logs
    /\ pc[w] \in {"update", "logAnswer"} =>
         job[w].id \in DOMAIN requests /\ job[w].answer \in {"yes", "no"}
    /\ pc[w] = "logAnswer" => <<Status(job[w].answer), job[w].id>> \in answered
IInv == /\ TypeOK /\ EffectHasAudit /\ TablesAgree /\ CalledOnce /\ LoggedAnswersHappened
        /\ JobsNamed /\ JobsApart /\ JobsOnRecord

(* A request that was answered never waits again: no later candidate takes  *)
(* its row (predictor.py:91-93, the UNIQUE column of db.py:122).            *)
AnsweredForGood ==
  [][\A r \in DOMAIN requests : requests[r] # "pending" => requests'[r] # "pending"]_vars
=============================================================================

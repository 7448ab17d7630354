# Verification of mqtt-matter-bridge

A daemon written in C reads MQTT messages of home sensors and switches and turns them into
commands for a Matter server.  Beside it, a Python agent watches Home Assistant, predicts what
the user would do and asks before it acts; a small browser page simulates the home.  This
directory holds TLA+ models of the program, the TLC runs that check them, and proofs that TLAPS
checks.  Every definition is translated from the source; `PROJECT.json` ("map") names the lines.

## 1. Inventory

### The daemon (`src/`, C, four threads in one process)

| part | state it keeps | operations | what makes it correct |
|---|---|---|---|
| message queue (`queue/`) | ring of 64 messages, head, tail, count, a shutdown flag, one mutex, one condition variable | push (never blocks), pop_blocking, signal_shutdown, size, destroy | bounded FIFO: order, no loss, no duplicate; refusal only when full or shut down; no lost wake-up; drained before QUEUE_SHUTDOWN |
| MQTT client (`mqtt/`) | connection state, running flag, libmosquitto handle | run (connect, loop, reconnect), callbacks on_connect, on_disconnect, on_message, stop | subscribed to every topic while connected; retries for ever; every message reaches the queue or is refused |
| Matter client (`matter/`) | connection state, websocket handle, running flag, message id counter, one send buffer and its pending flag | run (connect, wait up to 5 s, service), callbacks established, receive, writeable, error, closed; send_command; stop | a command that was accepted is written once, whole and in order; the link fields agree; retries for ever; stop ends it |
| mapper (`mapper/`) | pointer to the rules | topic_match, apply_transform, json_get_field, translate | first rule whose pattern matches; value transformed as the rule says |
| config parser, logger (`utils/`) | the configuration; the log file and its mutex | load, defaults; init, log, set_level, destroy | defaults for what is optional, a failed load for what is missing; no log call after destroy |
| bridge, main (`bridge.c`, `main.c`) | running flag, metrics, four threads and which were created | init, start, the dispatch loop, the monitor loop, stop, destroy; the signal handler | every accepted message is accounted for; a signal ends the process; nothing is released while a thread uses it |

The MQTT thread (libmosquitto callbacks) pushes into the queue; the dispatch thread pops, waits up
to 5 s for the Matter link, translates and calls `matter_client_send_command`, which only fills a
buffer and asks libwebsockets for a callback; the Matter connection thread makes that callback and
writes the buffer.  The monitor thread logs the metrics.  `main` sleeps until the signal handler
sets a flag, then stops, joins and releases.  The queue is the one place with a lock: the fields
of the two clients, the metrics and the running flags are shared without one.

### The agent (`agent/`, Python) and the page (`simulator/`)

| part | state it keeps | operations | what makes it correct |
|---|---|---|---|
| policy (`policy.py`, `device_registry.py`) | none | evaluate | what is allowed is exactly what may be done alone; risky actions ask, forbidden ones are refused |
| candidates (`predictor.py`, `scenarios.py`) | none | probabilities to an action and its confidence; six scripted scenarios | a stand-in for no_action is never carried out; a scenario ends as it is described |
| requests (`api_server.py`, `agent_cli.py`, `predictor.py`, `db.py`) | rows of predictions, policy_decisions, agent_requests, action_logs, in SQLite | evaluate a candidate and write its rows, call the service when allowed, ask when not, answer over HTTP or from the command line (nothing executes or expires a request) | an effect has its audit rows; nothing is carried out twice; a logged answer has reached its row |
| simulated home (`api_server.py`, driven by `app.js`) | the simulated context (a dictionary of the process), the latest row of each device | set the context, evaluate it, switch a device by hand | a torn evaluation serves nobody who was in neither context; the rows of a device follow from one another; a late arrival is blocked |
| collector (`data_collector.py`) | the websocket, a cache of the context, the count of rows | dial, authenticate, subscribe, handle events, reconnect with backoff, stop at a limit | a row never carries an earlier session's context; the latest row of an entity is its state unless a change was lost |
| features (`feature_engineering.py`) | none | what the rows of events say of a moment; training samples | the policy sees no gap in what happened lately; a sample does not know its label |
| training (`trainer.py`, `simple_model.py`, `data_generator.py`) | files | generated data, a decision tree | numeric |

`buildcd/` is generated build output, `docs/*.md`, `transform.[ch]` and `metrics.[ch]` are empty,
`tests/` holds unit tests of single functions and, for the queue, of two threads.

### What is hard

Four threads with one lock between them; a send buffer filled by one thread and drained by a
callback of another; callbacks of connections that were given up; a five second wait in the
dispatch loop; a shutdown that has to reach threads asleep in four different ways; start-up that
fails half way; a ring at its limits.  In the agent: two front ends answering one request in
separate transactions, read-then-write toggles, a context that is cleared and filled while others
read it, a collector that loses what happens between two connections beside a predictor that
decides from its rows and the clock.  `PROJECT.json` ("hazards") lists
each at its line with the properties that watch it.

## 2. Modules

    BoundedFifo            what message_queue.h promises
    MessageQueue           message_queue.c over ring_buffer.c; implements BoundedFifo
    MessageQueueProofs       invariant, safety and Spec => BoundedFifo, for every capacity
    CommandSlot            what send_command and the WRITEABLE callback promise together
    MatterClient           matter_client.c; implements CommandSlot
    MatterClientProofs       invariant, safety and Spec => CommandSlot, for any handles and commands
    MqttClient             mqtt_client.c
    Forwarder              what the daemon promises about the messages it accepts
    Bridge                 bridge.c and main.c, over BoundedFifo; implements Forwarder
    BridgeProofs             invariant, safety and Spec => Forwarder, for any messages and capacity
    Mapper                 mapper.c
    MqttProofs               MqttClient for any number of topics, Mapper for any rules and messages
    PolicyGate             policy.py over the kinds of device of device_registry.py
    Candidates             what reaches the gate: the model's probabilities, the scenarios
    PolicyUse              one input on its way through the gate, and what the gate is for
    Features               feature_engineering.py
    DecisionProofs           PolicyUse and Features, for every input and every table
    AgentRequests          _run_candidate, predictor.py and the answers; uses PolicyGate
    AgentRequestsProofs      the inductive invariant, for any callers
    Simulator              the context, evaluation and user actions of api_server.py; uses PolicyGate
    SimulatorProofs          the inductive invariant, for any contexts and requests
    Collector              data_collector.py; its rows are what Features reads
    AgentLoop              a predictor run beside the collector: Collector, Features, PolicyGate
    AgentLoopProofs          the inductive invariant of both, and what the agent does alone
    <Module>MC             the instance of each that TLC checks (PolicyGateMC: of PolicyUse)

**BoundedFifo.** `fifo`, `closed`, the last buffer of each consumer (`out`) and the last return code
of each thread (`reply`).  A call that is blocked is one that has not taken its step.

**MessageQueue.** `data`, `head`, `tail`, `count`, `shutdown` are the fields of `message_queue_t` and
its ring, `mutex` its owner, `pc` the place of each thread in its call.  A critical section that
copies a message is two steps (copy; indices, signal, unlock), so that only the mutex keeps other
threads out of the copy.  Sections without a copy are one step.  `pthread_cond_wait` releases and
sleeps in one step, may wake spuriously, and a woken thread tests again.  A signal wakes one
sleeper of the system's choice.  `message_queue_size` reads only; NULL arguments are left out.

**MatterClient.** One variable per field of `matter_client_t` that two threads share; `mpc` and
`polls` for the run loop, `cb` for the callback under way inside `lws_service`, `dpc` and `cur` for
`send_command`, which the one dispatch thread calls.  Each touch of a shared field is its own
step; the copy into `send_buf` is two, with a torn buffer in between; WRITEABLE is three (flag
and strlen; write; clear).  libwebsockets is external: `conn` (which handles are connecting or
open), `wantWrite`, and `wire`, the frames written.  `lws_write` masks the text of a client and may do
it in place, in `send_buf`: a slot that was written out may hold no command any more (`Masked`).
A command is its message id.  The receive
callback only fills a buffer for the log and is left out, and so is the length check of
`send_command`: the text is at most 1023 bytes, the buffer holds 1024.  Reads and writes of one
`int` or pointer are taken as single and ordered: the races the code has then show as
interleavings.

**CommandSlot.** The send buffer without its bytes, its flag or the connections: `issued` and `ready`
count commands, `busy` says that the newest is being copied in, `writing` that a callback writes,
`overlap` that the text may have changed under it and `worn` that the slot was written out, which may
spoil it.  A frame carries the newest command; during the copy, the one before it; it carries no one
command only if a copy overlapped with the write or the slot was worn; and there are at most as many
frames as commands were made ready.  What the code does not promise is absent:
that each command gets a frame, or only one.

**MqttClient.** `state` and `running` are the client's fields; `pc` is the place in
`mqtt_client_run` or in the callback that libmosquitto makes from inside `mosquitto_loop`, on the
same thread; `i` is the topic `on_connect` has reached and `ret` what the loop returned.
libmosquitto and the broker are external: `sock` is none, tcp (CONNECT is on its way) or up, and
the broker may refuse, drop the connection at any call, or say nothing.  A stop may come between
any two steps.  `subscribed` and `refused` are the topics of the session, which is clean: a new
connection starts with none.  `on_message` changes nothing here and is an action of `Bridge`.

**Bridge.** `main` and `k` walk through init, start, the wait loop, stop, join and release; `thread`
is the life of each thread; `dispatch` and `polls` are the dispatch loop, step by step; `running`
holds the three flags that `bridge_stop` clears one after another.  The queue is `BoundedFifo`, which
`MessageQueue` implements (checked and proved); the Matter client is `linkUp`, which moves at any
time; the MQTT client is `on_message`.  `accepted`, `refusedFull` and `unmapped` are history
variables for what no metric counts.

**Forwarder.** The daemon without threads, locks, polls or a queue: one line of messages that were
accepted (`pending`), a tally of what became of each, and a `phase`.  A message is settled at the head
of the line and nowhere else; it is sent only over a link that is up and only when a rule maps it,
dropped only over one that is down, refused only by a line that is full; after a stop one more may
be settled, and what then waits stays where it is.

**Mapper.** Operators first: `TopicMatch` walks pattern and topic character by character, as the
code does; `JsonGetField` gives a text as `strcmp`, `strtof` and `atoi` see it; the transforms
follow the arithmetic, with the product of `multiply_100` rounded to a float twice and then cut;
the clusters choose the command.  Numbers count hundredths.  The actions are init, translate and
destroy around `g_config`.  `DeviceRule` and `IsMessage` are all the module assumes of rules and
messages.  `MapperMC` holds the reference for the walk: MQTT's matching by levels.

**PolicyGate.** `Evaluate` is the ordered list of the seventeen tests of `PolicyGate.evaluate`, the
first that applies deciding.  A device is its type, control level and risk; confidence is in percent;
the context has the fields the tests read.  `PolicyUse` takes one input, from a caller, a scenario
or the model, through `Evaluate` and holds a statement of the policy that has no order;
`PolicyGateMC` takes every input on both sides of each boundary.

**Candidates.** `PredictionFromProba` is `_prediction_from_proba` over probabilities in percent: the
surest label, or an action with a quarter in place of no_action.  The scenarios are the records of
`scenarios.py`, less the fields that no test reads.  `PolicyGateMC` feeds both to the gate: every
distribution over twelve values that sums to 100, for models trained on two or three labels, and
each scenario as it is and after the device was used.

**AgentRequests.** Every helper of `db.py` opens a connection and commits, so `_run_candidate` and
`predictor.run` are up to five transactions, one action each; `pc` and `job` are the place of a
worker and its locals.  `predictions`, `decisions`, `requests` and `logs` are the tables, keyed by the
prediction they are about.  The service call of a live predictor may be carried out and its
answer lost.  `request_id` is UNIQUE (`db.py:122`): a second insert of one raises, and the call ends.
The HTTP front end and the command line answer in two transactions, row and log.
`Fail` ends a call at any step: a locked database, an exception, a killed process.

**Simulator.** `SIM_CONTEXT` and `filled` are the dictionary: `set_sim_context` clears it and fills it in
two steps, and an evaluation reads it field by field, first to choose a candidate and then again
for the policy, a missing field reading as what `.get` and `or` make of it.  `KeyError` on `sim_time`
is the place `error`.  A user action reads the latest row of its device and saves a row of its own in a
later transaction, with a time that may lie before rows already there.  `job` holds a request's
locals; `during` and `disturbed` are history: the contexts in force while an evaluation ran, and
whether one was cleared or set.  What an evaluation leaves in the tables is in `AgentRequests`.

**Features.** One operator per function of `feature_engineering.py`, over a set of rows ordered by
timestamp and id; times are minutes, the one-hot columns are what they encode.  The random draw of
negative samples is any set of moments.

**Collector.** `phase` is the place in `run_collector` and `_run_once_connection`, `cache` and `accepted`
its locals, `events` the table.  Home Assistant is external: `ha` is its states, `wire` the events
under way, and it fires events also when only attributes changed.  An event is handled in one step,
cache and row together, as the loop does without an await in between.  The connection may be
refused at the handshake, break with events under way, or close in order; `save_event` may raise.
`lost` and `lastChange` are history: entities with a change in no row, and when each last changed.

**AgentLoop.** A run of the predictor reads the table once (`loaded` is how many rows) and decides from
those rows and the clock while the home and the collector go on.  `Allowed` asks the gate about a
low-risk device for the surest of models.

## 3. Runs

| run | instance | shows |
|---|---|---|
| `mq` | 2 producers, 2 consumers, 2 messages, ring of 2 | type, inductive invariant, no lost wake-up, drain on shutdown, refinement of BoundedFifo, release of blocked consumers, a non-empty ring is served |
| `matter` | 2 handles, 2 polls per attempt, 3 message ids, writes may fail | link fields agree, order on the wire, buffer and flag implement CommandSlot, stop ends the loop, retries never stop |
| `mqtt` | 3 topics | the state follows the socket on every loss and error path, each session tries every topic, retries never stop, stop ends the thread |
| `bridge` | ring of 2, 3 messages (mapped or not), 1 poll per message | no thread outlives the release, the threads implement Forwarder, a signal ends the process, the dispatcher settles each message |
| `mapper` | patterns and topics of up to 3 levels, lists of up to two rules, every kind of payload, 903 readings around the interesting points | where topic_match and MQTT agree, readings within a hundredth, one command for every encoding of a switch state, what invert reverses |
| `policy` | both sides of every boundary, six devices, three actions: 103 680 inputs; six scenarios, as they are and with 36 histories each; the distributions | the ordered tests allow exactly what the policy allows; scenarios end as described; a stand-in for no_action never acts |
| `requests` | one API thread, one live predictor, one command line, 2 predictions, the four scenario candidates | every effect has its audit rows, nothing is called twice, an answered request never waits again; the invariant adds that the tables agree and the log is truthful |
| `collector` | a fan, a camera, a door, a thermometer, 2 changes, 5 moments, three command lines | the context of a row, the latest row and the last change are current, what is allowed fits the state, the last 300 s and somebody's presence or arrival |
| `simulator` | 2 requests at a time, 4 calls, 6 contexts, 2 devices | rows of a device follow from one another, a torn evaluation serves nobody who was in neither context, a late arrival is blocked |
| `matter_lost`, `matter_stranded`, `bridge_start_fails` | smaller instances of the same | one statement of a comment each that the code does not keep (section 6) |

**Bounds and why they are enough.** The program has one producer and one consumer; two of each
make the queue's own claims face contention, and a ring of two slots fills, empties and wraps.
The proofs drop these bounds for the queue's safety.  Two handles are a live connection and an
older attempt, which is all the code distinguishes; three commands let one be written, one wait
and one overwrite it.  The two waits count 50 polls in the code and 2 or 1 here: the code treats
all polls but the last alike.  Three topics put one before, one at and one behind the place where a
connection is lost; the proofs hold for any number.  The tests of the policy compare with constants, so
two values per boundary decide them.  Two predictions and one worker of each kind let an answer meet
a candidate, another answer and the service call; the proofs hold for any number of workers and
predictions.  In `collector` two changes are one that the agent meets and one that contradicts it, by
itself or by the user; the five moments lie before and in the window before the arrival (18:14,
18:15, 18:19), 4 and 5 minutes apart, 20 and 21 minutes apart, and in the overdue time (18:50).  In
`simulator` four calls let two evaluations meet two contexts, or three manual actions overlap with
times out of order; the contexts are nobody at home, an arrival at its boundary of 10 minutes, the
boundary of 20 minutes with somebody at home, an evening at home, a late arrival, and the default;
the two threads are symmetric.  The mapper's levels are empty, one or two characters, so that a wildcard meets
nothing, one character and more; its readings have two decimals and at most six digits, which the
code's `%g` and `strtof` carry.  `MaxId`, `MaxInput`, `ConnectPolls`, `LinkPolls`, `MaxPredictions`,
`MaxChanges`, `Times` and `MaxCalls` are the bounds, all in guards, and `Mapper` translates one message between init and destroy.
Deadlock is off where the system may stop: `matter`, `mqtt` and `bridge` end when the thread exits
or the process ends, `policy` evaluates one input, `requests` runs out of predictions, `simulator` of calls, and
the collector exits when its command line says so.

**Fairness.** Threads that can run do run (WF on each thread's step).  In `MessageQueue` a call under
way goes on and a consumer calls again, as the dispatch loop does; nobody has to push or shut
down, the mutex is not fair, and still no consumer stays blocked after a shutdown.  In `MatterClient`
`lws_service` returns after its 100 ms even when events keep coming (SF), and a callback that
started finishes; the server, the network and the dispatch thread owe nothing.  `SpecServed`, used
for `WaitingIsSent` only, adds that a call of `send_command` goes on and that libwebsockets makes the
callbacks it was asked for, so that its counterexample is the code's.  In `MqttClient` the thread runs
(its calls return within the timeouts they are given), and a socket whose CONNECT was sent gets an
answer or an error in the end, because libmosquitto's keepalive closes a silent one (SF: the
loop is left and entered again while it waits).  In `Bridge` sleeps return
and the two clients' loops end after their stop, which `StopEndsRun` shows for both.  `Mapper`, `PolicyGate`,
`AgentRequests`, `Collector`, `AgentLoop` and `Simulator` have safety properties only and assume no
fairness: an endpoint owes its caller nothing, and a collector that is refused for ever stores
nothing.  `IInv` of a run is the inductive invariant of its module: the type
invariant with the relations named in it, so that one property stands for what must hold together.
Every `IInv` that a run checks is proved.

Each property of a passing run has a mutant in `PROJECT.json`: a change of one definition, as a
plausible bug would make it (a signal only when the ring was empty, a forgotten reset, an
off-by-one), under which TLC finds the property violated.

## 4. Proofs

Every invariant and action property of a passing run is a theorem, but for `MatchAgrees` of the
mapper, and so are the three refinements, of the queue, of the send buffer and of the daemon. The assumptions are the ASSUMEs of the modules on their
constants, which the runs evaluate: they say what the constants are (numbers, sets of known
fields), and nothing about behaviour. In each machine the theorem `Invariance` is `Spec =>
[]IInv`, with one lemma for each action or each kind of step, and the other theorems follow from
it. What makes each safety property inductive is a named conjunct of `IInv`:

**MessageQueueProofs** holds for every capacity above 0, every finite set of consumers, any
producers and messages. `WakeupsCoverMessages` needs that a consumer at its commit still has a
message to take, so that the count falls with the number of consumers serving it; that needs the
mutex to be held exactly across the two steps of a copy (`LockOwner`), so that what the call
tested is still true (`TestsStillHold`); and `RingShape` ties head, tail and count. `Refinement`
is `Spec => ImplementsFifo`. The messages of the FIFO are the ring from its head, less the one a
consumer is copying out: a push takes effect at its commit, a pop when it has copied its message.
The lemmas on `Ring` say what appending, removing, turning the index and writing behind the end do
to that sequence; one lemma per action maps it to a step of `BoundedFifo` or to a stutter.

**MatterClientProofs** holds for any number of handles, polls and commands. `LinkConsistent`
speaks of the time between callbacks; `LinkInCallback` says what a callback under way has done to
the two fields. `WireInOrder` needs `WireBehindSlot`, no frame is newer than the slot, and
`SlotIsNewest`, a call in progress holds the newest id and the slot follows it but for the memcpy.
`FramesHaveCommands`, a conjunct of `IInv`, needs `FramesArePaid`: each command that set the pending
flag pays for one frame, written or still to be written. `Refinement` is `Spec => ImplementsSlot`.
`ready` is the number of times the flag was set, `overlap` that strlen saw another text than the
newest or a copy is under way. A callback that finds the flag set has a frame to spare by
`FramesArePaid`; what the buffer can hold when it writes is `SlotIsNewest`, and what strlen saw
before a copy is older than the text after it, so that a mix is never taken for a whole frame.
`Worn` is a buffer that holds no command although no copy is under way, or one that was masked
between the two halves of a copy; without an overlap, a callback that saw the newest command finds
it whole.

**MqttProofs** holds for any number of topics, rules and messages. `StateMatchesSocket` speaks of the places
where the loop decides; `SocketAt` says what each place in between knows: an attempt is
CONNECTING, one that failed is RECONNECTING with its socket closed while it sleeps, the test after
the loop sees the state its socket has, and `on_connect` has tried the topics below `i`.

Of the mapper it proves all but `MatchAgrees`, for every list of rules (`ConfigAssumption`) and
every message whose texts are words or readings from -9999.99 to 9999.99 (`MessageAssumption`).
The invariant is that the command is what the rules in force make of the message.
`ReadingsAreClose` takes the float arithmetic apart. For a reading a, the scale s
makes a*s/100 a mantissa of 24 bits (`ScaleFound`), the first rounding moves 100 times it by 50 at
most, the product is cut by 64 or 128 (`UnscaleFound`), so the second moves it by 64 at most, and
114 is less than s: the cut to an int loses one hundredth at most (`CutIsClose`).
`EncodingsMeanTheSame` and `InvertIsReverse` need that the loop over the rules finds the first that
matches (`FirstExists`, by the well-foundedness used for `LatestExists` below) and that a changed
payload or transform leaves that choice alone.

**BridgeProofs** holds for any messages, capacity and number of polls. `NoThreadInDestroy` needs
`ThreadsInOrder`: threads behind `main` in its joins do not run again, and those it has not
reached in its start were never created. `MessagesAccounted` is inductive with `TypeOK`;
`HandHoldsMessage` adds that what is in hand was popped. `Refinement` is `Spec =>
ImplementsForwarder`. The line is the queue behind the message in hand, so a push appends to it, a
pop leaves it as it is and the end of a pass through the loop takes its head. `Phase` is "last"
while `bridge->running` is cleared and the dispatcher has not come back to its test: from there it
can settle one message, not two. That `Forward` and `Fail` take mapped messages only needs
`SendsMapped`, that a message in the place `send` was translated; that the line is closed only
after the stop needs `FlagsInOrder`, that `bridge_stop` clears its flags before it shuts the queue
down. One lemma for each group of steps maps them to a step of `Forwarder` or to a stutter.

**DecisionProofs** is about operators, for every input and every table. `AllowsExactly` says that
the ordered list of tests allows what `MayActAlone` says without an order; `AllowedIsLowRisk` and
`AllowedIsQuiet` draw from the tests themselves, for any registry of devices, that only low-risk
devices under automatic control are switched alone, only when they were left alone lately, and only
to the state they are not in. The lemmas turn the ordered choice into the
fact that no earlier rule applied. `FallbackIsHarmless` is the step from probabilities that sum to
100: an action that stands in for no_action has half of the probability at most (`BestIsSurest`),
below the gate's threshold (`UnsureIsLeftAlone`). `SamplesBlindToLabel` says that
`make_feature_vector` gets the whole table, with the change that labels the sample and all that
follows, and returns what the rows before it give. `LatestExists` says that a finite set of rows
with different numbers has a latest one, so that the CHOOSE of `Latest` finds it: the strict
subsets of finite sets are well founded (a library theorem without an operator parameter), and a
row whose set of later rows is minimal has none after it.

**AgentRequestsProofs** holds for any sets of workers and candidates and any bound.
`EffectHasAudit` needs that the place of a worker implies the rows before it (`JobsOnRecord`), and
that its prediction is on record with its decision (`JobsNamed`). `CalledOnce` needs that an effect
still to be made has not been made, neither a call nor a request (`JobsNamed`), and that no two
workers have the same one in hand (`JobsApart`); the action property `AnsweredForGood`, that a row
is only added under an id that no request has.

**SimulatorProofs** holds for any contexts the API accepts, any of its switches, hours and
threads. An evaluation makes fourteen reads, and each may see the old context, the new one or
none. `SeenWasInForce` says what each read gave; `CandidateIsFounded` and `UntornSeesOne` carry
the reads of the candidate over to those of its context; `SomeoneFills` says that an empty context
is about to be filled. `Serves` and `LateBlocked` then are invariants beside `IInv`, by what the
gate allows (`DecisionProofs`). `RowsChain` needs that a request about to save starts from what
the rows it found gave (`SaveStartsFromFound`).

**AgentLoopProofs** holds for any entities, states, command lines and times, and for any texts
that are numbers. `CacheIsCurrent` and `TableIsCurrent` compare with the state Home Assistant was
heard to have, which is the old state of the first event under way, or else the present one:
`WireChains` keeps the events of an entity linked to one another and to that state, when one is
appended, taken or dropped, and `InTime` with `RowsAreNumbered` makes the row of the last event
the latest. `CacheIsFresh` is what makes a new session start from nothing. `LastChangeIsTold`
finds the time of an entity's last change in a row or under way, which `RealState` needs: no
toggle in two minutes and no change in 300 s, counted from rows, leave no change at all in that
time. `ForSomebody` traces presence back to a row of the camera or the door, and that row to a
change of its entity.

Only model-checked: liveness (`ShutdownReleasesConsumers`, `NonemptyIsServed`, `StopEndsRun`,
`NeverStuck`, `KeepsTrying`, `GracefulExit`, `MessageIsSettled`), which is out of this prover's
reach as is ENABLED; and `MatchAgrees`. The walk of `TopicMatch` over the characters is a recursive
function, and what it computes takes an induction over pattern and topic: the library's induction
theorems take an operator as a parameter, which the installed provers do not instantiate.

## 5. Plan

Done: the queue, the Matter client's buffer and the daemon, each with its refinement, the MQTT client, the mapper, the
policy gate with every candidate that reaches it, the life of a candidate, the simulated home, and
the collector with the features and the predictor that read its rows; and the proofs of section 4.
Open:

1. `MatchAgrees` for topics of any length.
2. The liveness properties beyond the instances of the runs.

## 6. Where code and comments disagree

Each is a run that TLC ends with a counterexample; `PROJECT.json` ("findings") quotes the lines.

- A command counted as sent can be overwritten before it is written (`SentIsWrittenOrWaits`).
- A command that waits when the link drops is not sent after the reconnection (`WaitingIsSent`).
- A `bridge_start` that fails half way leaves main waiting for ever (`FailedStartExits`).

Seen in the models, without a run of their own:

- The metric `dropped` is described as "Số message bị drop do queue đầy", messages dropped because the
  queue is full (`bridge.h:17`).  The code counts in it only what is taken from the queue while the link
  is down (`bridge.c:72`; `Forwarder`, `Drop`), and a message refused by a full queue is in no metric
  (`Bridge`, `refusedFull`).
- `send_command` tests `client->ws` on entry and uses it at its end, where it may be NULL
  (`MatterClient`, the variable `crashed`).
- The end of an abandoned attempt makes the client give up a live connection (`MatterClient`, `Lost`).
- `scenarios.py:132` says that the policy must block when the arrival is overdue.  The simulator does
  (`LateIsBlocked`), unless a new context is set meanwhile: the fields that are cleared read as
  "normal" and 0, so an evaluation torn between two contexts that are both late is not blocked.
- The predictor's humid is 78 % (`feature_engineering.py:151`), the simulator's is 70 % (`api_server.py:173`).
- Samples 15 minutes before a change (`feature_engineering.py:32`) lie outside the 10 minutes in which no
  negative sample is drawn (233), so one moment can be labelled both ways.

Four more are kept as passing properties that say exactly what the code does, with the exception:

- A switch is commanded "On" or "Off" (`mapper.c:147`).  The unit tests assert "on" and "off"
  (`tests/test_mapper.c:35`, `:51`), as the comment of `matter_client.h:22` says, and fail:
  `EncodingsAgree` (with `MapperTypeOK`) and its theorem speak of the names the code writes.
- `multiply_100` can be a hundredth off, 0.53 arrives as 52 (`HundredthsWithinOne`).
- A wildcard that would match nothing at the end of a topic is missed, although a broker delivers
  the message: `a/#` on `a`, `a/+` on `a/` (`MatchAgrees`).
- `invert` of a JSON true is On, as of false: `atoi` reads both as 0 (`InvertReverses`).

## 7. Not modelled

The parts marked `not_modelled` in `PROJECT.json`: the config parser, which reads
one file before any thread exists, and the logger, a mutex around stdio whose one hazard, a log call after
its destruction, `NoThreadInDestroy` of `Bridge` excludes; the page, whose calls are the inputs of the agent's modules, and training and data generation, which are
sequential numerics over random data.  Of the API server, the log rows of a context and of a user
action, the refusal of an observe-only device, which only logs, and the endpoints that only read.  Of the
collector, its configuration, the length of the backoff and the fields of a row that nothing reads.
Of the features, the one-hot columns and the way negative moments are drawn; temperatures and humidities are whole numbers.  In the parts that are modelled: nested field names and the text of JSON, message contents, latency sums, logging, URL parsing, NULL-argument guards,
allocation failures inside libraries, and torn reads of single words.

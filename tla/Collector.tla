----------------------------- MODULE Collector ------------------------------
(***************************************************************************)
(* agent/data_collector.py: the daemon that subscribes to the state        *)
(* changes of Home Assistant and stores them as rows of the table events.  *)
(* What happens while it is not subscribed, and what a broken connection   *)
(* or a locked database swallows, is in no row.                            *)
(***************************************************************************)
EXTENDS Integers, Sequences, FiniteSets, Features

CONSTANTS
  Entity,      \* entities of Home Assistant
  Collected,   \* config.collect_entities
  States,      \* States[e]: the texts the state of e can be
  Modes,       \* command lines: once, limit (max_events, 0 if absent), dry
  Times,       \* the minutes at which something may happen
  MaxChanges,  \* bound: events Home Assistant fires
  NoNumber     \* None

ASSUME EntityAssumption ==
  /\ Collected \subseteq Entity
  /\ "camera" \in Entity /\ "temperature" \in Entity
ASSUME ModeAssumption == Modes \subseteq [once : BOOLEAN, limit : Nat, dry : BOOLEAN]
ASSUME BoundAssumption == MaxChanges \in Nat /\ Times \subseteq Nat /\ Times # {}

VARIABLES
  mode,              \* the command line
  phase,             \* where run_collector is
  cache, accepted,   \* context_cache and accepted of _run_once_connection
  events,            \* the rows of the table events
  ha, wire,        \* Home Assistant: its states, the events under way
  fired, now,        \* events fired so far; the time
  lost, lastChange   \* history: changes that are in no row; the last change

collector == <<mode, phase, cache, accepted, events>>
vars == <<mode, phase, cache, accepted, events, ha, wire, fired, now, lost, lastChange>>

(* float() of a state, None when it is not a number.                        *)
ParseFloatSafe(text) == IF text \in DOMAIN Float THEN Float[text] ELSE NoNumber
NormalizePresence(text) ==
  CASE text \in {"home", "on", "1"} -> "home"
    [] text \in {"away", "off", "0"} -> "away"
    [] OTHER -> "unknown"

NewCache == [temperature |-> NoNumber, humidity |-> NoNumber,
             presence |-> "unknown", camera |-> "off", door |-> "closed"]

(* The cache follows every event, also one that is not stored.              *)
UpdateCache(ev) ==
  CASE ev.entity = "temperature" -> [cache EXCEPT !.temperature = ParseFloatSafe(ev.new)]
    [] ev.entity = "humidity" -> [cache EXCEPT !.humidity = ParseFloatSafe(ev.new)]
    [] ev.entity = "camera" ->
         LET presence == NormalizePresence(ev.new) IN
         [cache EXCEPT !.presence = presence,
                       !.camera = IF presence = "home" THEN "on" ELSE "off"]
    [] ev.entity = "door" -> [cache EXCEPT !.door = ev.new]
    [] OTHER -> cache

(* build_event_row; the timestamp is Home Assistant's time_fired, and the   *)
(* user, if there is one, has an identifier of Home Assistant's.            *)
BuildEventRow(ev, context) ==
  [id |-> Cardinality(events) + 1, ts |-> ev.ts, entity |-> ev.entity,
   old |-> ev.old, new |-> ev.new, source |-> "ha_websocket", user |-> "uuid",
   context |-> context]

Wanted(ev) == ev.old # ev.new /\ ev.entity \in Collected

Init ==
  /\ mode \in Modes /\ phase = "start"
  /\ cache = NewCache /\ accepted = 0 /\ events = {}
  /\ ha \in {h \in [Entity -> UNION {States[e] : e \in Entity}] :
                 \A e \in Entity : h[e] \in States[e]}
  /\ wire = <<>> /\ fired = 0
  /\ now \in Times /\ \A t \in Times : now <= t
  /\ lost = {} /\ lastChange = [e \in Entity |-> 0]

-----------------------------------------------------------------------------
(* Home Assistant and the clock, external: it fires an event for each       *)
(* update of a state, also when only the attributes changed.                *)
Fire(e, s) ==
  /\ fired < MaxChanges /\ fired' = fired + 1
  /\ ha' = [ha EXCEPT ![e] = s]
  /\ lastChange' = IF s = ha[e] THEN lastChange ELSE [lastChange EXCEPT ![e] = now]
  /\ IF phase = "open"
       THEN /\ wire' = Append(wire, [entity |-> e, old |-> ha[e], new |-> s, ts |-> now])
            /\ UNCHANGED lost
       ELSE /\ lost' = IF s = ha[e] THEN lost ELSE lost \cup {e}
            /\ UNCHANGED wire
  /\ UNCHANGED <<collector, now>>

Tick ==
  /\ now' \in Times /\ now < now'
  /\ \A t \in Times : now < t => now' <= t
  /\ UNCHANGED <<collector, ha, wire, fired, lost, lastChange>>

-----------------------------------------------------------------------------
(* The collector.                                                           *)
World == UNCHANGED <<mode, ha, fired, now, lastChange>>

(* _run_once_connection, up to the dial: everything is new but the table.   *)
DialKeepingCache ==
  /\ phase = "start" /\ phase' = "hello"
  /\ accepted' = 0 /\ UNCHANGED <<cache, events, wire, lost>> /\ World
Dial ==
  /\ phase = "start" /\ phase' = "hello"
  /\ cache' = NewCache /\ accepted' = 0
  /\ UNCHANGED <<events, wire, lost>> /\ World

(* hello, auth_ok, and the subscription.                                    *)
Handshake ==
  /\ \/ phase = "hello" /\ phase' = "auth"
     \/ phase = "auth" /\ phase' = "open"
  /\ UNCHANGED <<cache, accepted, events, wire, lost>> /\ World

(* run_collector after the connection returned, and after it raised.        *)
AfterReturn == IF mode.once \/ mode.limit > 0 THEN "exited" ELSE "start"
AfterError == IF mode.once THEN "exited" ELSE "sleep"
Unstored(evs) == {ev.entity : ev \in {x \in evs : x.old # x.new}}
InFlight(w) == {w[i] : i \in DOMAIN w}

(* An event that handle_state_changed does not accept.                      *)
Skip ==
  /\ phase = "open" /\ wire # <<>> /\ ~Wanted(Head(wire))
  /\ cache' = UpdateCache(Head(wire)) /\ wire' = Tail(wire)
  /\ lost' = lost \cup Unstored({Head(wire)})
  /\ UNCHANGED <<phase, accepted, events>> /\ World

(* An event that becomes a row (or is only logged), and then the limits.     *)
Enough == mode.once \/ (mode.limit > 0 /\ accepted + 1 >= mode.limit)
Accept ==
  /\ phase = "open" /\ wire # <<>> /\ Wanted(Head(wire))
  /\ cache' = UpdateCache(Head(wire)) /\ accepted' = accepted + 1
  /\ events' = IF mode.dry THEN events ELSE events \cup {BuildEventRow(Head(wire), cache')}
  /\ phase' = IF Enough THEN AfterReturn ELSE phase
  /\ wire' = IF Enough THEN <<>> ELSE Tail(wire)
  /\ lost' = (IF mode.dry THEN lost \cup {Head(wire).entity} ELSE lost \ {Head(wire).entity})
               \cup (IF Enough THEN Unstored(InFlight(Tail(wire))) ELSE {})
  /\ World

(* save_event raises: the event is not stored and the connection is left.   *)
SaveFails ==
  /\ phase = "open" /\ wire # <<>> /\ Wanted(Head(wire)) /\ ~mode.dry
  /\ cache' = UpdateCache(Head(wire))
  /\ phase' = AfterError /\ wire' = <<>> /\ lost' = lost \cup Unstored(InFlight(wire))
  /\ UNCHANGED <<accepted, events>> /\ World

(* Home Assistant closes the connection in order; or it breaks, or refuses. *)
Close ==
  /\ phase = "open" /\ wire = <<>>
  /\ phase' = AfterReturn
  /\ UNCHANGED <<cache, accepted, events, wire, lost>> /\ World
Break ==
  /\ phase \in {"hello", "auth", "open"}
  /\ phase' = AfterError /\ wire' = <<>> /\ lost' = lost \cup Unstored(InFlight(wire))
  /\ UNCHANGED <<cache, accepted, events>> /\ World

Wake ==
  /\ phase = "sleep" /\ phase' = "start"
  /\ UNCHANGED <<cache, accepted, events, wire, lost>> /\ World

CollectorStep == Dial \/ Handshake \/ Skip \/ Accept \/ SaveFails \/ Close \/ Break \/ Wake
Next ==
  \/ CollectorStep \/ Tick
  \/ \E e \in Entity : \E s \in States[e] : Fire(e, s)

Spec == Init /\ [][Next]_vars

-----------------------------------------------------------------------------
Texts == UNION {States[e] : e \in Entity}
Event == [entity : Entity, old : Texts, new : Texts, ts : Times]
Number == {NoNumber} \cup {Float[x] : x \in DOMAIN Float}
CacheType == [temperature : Number, humidity : Number,
              presence : {"unknown", "home", "away"}, camera : {"on", "off"},
              door : Texts \cup {"closed"}]
Row == [id : Nat \ {0}, ts : Times, entity : Collected, old : Texts, new : Texts,
        source : {"ha_websocket"}, user : {"uuid"}, context : CacheType]

(* Type invariant; moreover a daemon without limits does not exit, rows are *)
(* numbered, and events and rows come in the order of time.                 *)
TypeOK ==
  /\ mode \in Modes
  /\ phase \in {"start", "hello", "auth", "open", "sleep", "exited"}
  /\ cache \in CacheType /\ accepted \in Nat /\ fired \in Nat /\ now \in Times
  /\ events \in SUBSET Row /\ wire \in Seq(Event)
  /\ ha \in [Entity -> Texts]
  /\ lost \in SUBSET Entity /\ lastChange \in [Entity -> Times \cup {0}]
  /\ phase # "open" => wire = <<>>
  /\ phase = "exited" => mode.once \/ mode.limit > 0
RowsAreNumbered ==
  /\ IsFiniteSet(events) /\ \A r \in events : r.id <= Cardinality(events)
  /\ \A r, q \in events : r.id = q.id => r = q
InTime ==
  /\ \A r, q \in events : r.id < q.id => r.ts <= q.ts
  /\ \A i, j \in DOMAIN wire : i < j => wire[i].ts <= wire[j].ts
  /\ \A i \in DOMAIN wire : wire[i].ts <= now
  /\ \A r \in events : r.ts <= now
  /\ \A r \in events, i \in DOMAIN wire : r.ts <= wire[i].ts

(* The state of an entity that the collector was last told of.              *)
Pending(e) == {i \in DOMAIN wire : wire[i].entity = e}
Delivered(e) ==
  IF Pending(e) = {} THEN ha[e]
  ELSE wire[CHOOSE i \in Pending(e) : \A j \in Pending(e) : i <= j].old
RowsOf(e) == {r \in events : r.entity = e}

(* The context written into the rows is what Home Assistant last said in    *)
(* this session, or says that nothing is known: never what an earlier       *)
(* session saw (data_collector.py:288-295 against 229-240).                 *)
CacheIsCurrent ==
  phase = "open" =>
    /\ cache.presence \in {"unknown", NormalizePresence(Delivered("camera"))}
    /\ cache.temperature \in {NoNumber, ParseFloatSafe(Delivered("temperature"))}
    /\ cache.camera = "on" <=> cache.presence = "home"

(* The latest row of an entity is its state, unless a change of it was lost:*)
(* no reconnection, repeated state or failed write leaves a stale row that  *)
(* looks current (data_collector.py:242-271).                               *)
TableIsCurrent ==
  \A e \in Collected \ lost :
    RowsOf(e) # {} => Latest(RowsOf(e)).new = Delivered(e)

(* The events under way tell one story per entity: each starts where the    *)
(* one before it ended, and the last one ends where Home Assistant is.      *)
WireChains ==
  /\ \A i, j \in DOMAIN wire :
       /\ i < j /\ wire[i].entity = wire[j].entity
       /\ \A k \in i + 1 .. j - 1 : wire[k].entity # wire[i].entity
       => wire[j].old = wire[i].new
  /\ \A i \in DOMAIN wire :
       (\A k \in i + 1 .. Len(wire) : wire[k].entity # wire[i].entity)
       => wire[i].new = ha[wire[i].entity]

(* A session starts with a new cache.                                       *)
CacheIsFresh == phase \in {"hello", "auth"} => cache = NewCache

(* The last change of an entity: if any change of it is under way, the last *)
(* change is; otherwise it is in a row, unless it was lost; no row is later.*)
Changes(ev) == ev.old # ev.new
LastChangeIsTold ==
  /\ \A i \in DOMAIN wire : Changes(wire[i]) =>
       \E j \in DOMAIN wire : /\ i <= j /\ wire[j].entity = wire[i].entity /\ Changes(wire[j])
                            /\ wire[j].ts = lastChange[wire[i].entity]
  /\ \A r \in events : r.ts <= lastChange[r.entity]
  /\ \A e \in Collected \ lost :
       \/ lastChange[e] = 0
       \/ \E r \in RowsOf(e) : r.ts = lastChange[e]
       \/ \E i \in Pending(e) : Changes(wire[i]) /\ wire[i].ts = lastChange[e]

IInv ==
  /\ TypeOK /\ RowsAreNumbered /\ InTime /\ WireChains
  /\ CacheIsFresh /\ CacheIsCurrent /\ TableIsCurrent /\ LastChangeIsTold
=============================================================================

------------------------------ MODULE Features ------------------------------
(***************************************************************************)
(* agent/feature_engineering.py: what the rows of the table events say of  *)
(* a moment, for the policy, for the model and for its training.           *)
(* A row has id, ts (minutes), entity, old, new, source and user.  The     *)
(* code walks a list in the order of the timestamps; here it is a set.     *)
(***************************************************************************)
EXTENDS Integers, FiniteSets

CONSTANT Float   \* what float() makes of each text that is a number
ASSUME FloatAssumption == \A text \in DOMAIN Float : Float[text] \in Int

EXPECTED_ARRIVAL_MINUTE == 18 * 60 + 30
OBSERVE_OFFSETS == {15, 10, 5, 2}
MinuteOfDay(t) == t % 1440

(* The last of some rows in the order of load_events.                       *)
Later(r, s) == r.ts > s.ts \/ (r.ts = s.ts /\ r.id > s.id)
Latest(rows) == CHOOSE r \in rows : \A s \in rows : s = r \/ Later(r, s)

(* What the agent did is left out, if it is marked as the agent's.          *)
LoadEvents(events) ==
  {r \in events : r.source # "agent" /\ r.user \notin {"agent", "behavior_agent"}}

StateAt(df, entity, t) ==
  LET rows == {r \in df : r.entity = entity /\ r.ts <= t}
  IN IF rows = {} THEN "off" ELSE Latest(rows).new

NumAt(df, entity, t, default) ==
  LET rows == {r \in df : r.entity = entity /\ r.ts <= t /\ r.new \in DOMAIN Float}
  IN IF rows = {} THEN default ELSE Float[Latest(rows).new]

RecentEver(df, entity, t, minutes, states) ==
  \E r \in df : r.entity = entity /\ r.ts <= t /\ r.new \in states
Recent(df, entity, t, minutes, states) ==
  \E r \in df : r.entity = entity /\ r.ts \in t - minutes .. t /\ r.new \in states

(* Seconds; a row of this very minute does not count.                       *)
Never == 99999
OneDay == 86400
TimeSinceLastChange(df, entity, t) ==
  LET rows == {r \in df : r.entity = entity /\ r.ts < t}
  IN IF rows = {} THEN Never ELSE 60 * (t - Latest(rows).ts)

RecentToggleCountOpen(df, entity, t, minutes) ==
  Cardinality({r \in df : r.entity = entity /\ t - minutes <= r.ts /\ r.ts < t})
RecentToggleCount(df, entity, t, minutes) ==
  Cardinality({r \in df : r.entity = entity /\ r.ts \in t - minutes .. t})

AtLeast(a, b, bound) == a >= bound \/ b >= bound
Seen == {"on", "detected"}

(* get_context_at.  Without a row the sensors read 27 and 28 degrees, 70 %. *)
GetContextAt(df, t) ==
  LET minute == MinuteOfDay(t)
      door == Recent(df, "door", t, 20, {"open"})
      cam == Recent(df, "camera", t, 20, Seen)
      home == door \/ cam \/ StateAt(df, "camera", t) \in Seen
      brt == NumAt(df, "bedroom_temperature", t, 27)
      brh == NumAt(df, "bedroom_humidity", t, 70)
      lrt == NumAt(df, "temperature", t, 28)
      lrh == NumAt(df, "humidity", t, 70)
      late == minute - EXPECTED_ARRIVAL_MINUTE
  IN [temperatures |-> <<brt, lrt>>, humidities |-> <<brh, lrh>>,
      hot |-> AtLeast(brt, lrt, 30), humid |-> AtLeast(brh, lrh, 78),
      dry |-> brh <= 55 \/ lrh <= 55,
      home |-> home, door |-> door, cam |-> cam,
      predicted |-> 0 - late, window |-> late \in -15 .. -10,
      overdue |-> late \in 20 .. 30 /\ ~home,
      minutesAfter |-> IF late > 0 THEN late ELSE 0]

(* predictor._policy_context, with the name each field has in PolicyGate;   *)
(* nothing sets the manual override.                                        *)
PolicyContext(df, entity, t) ==
  LET ctx == GetContextAt(df, t)
      since == TimeSinceLastChange(df, entity, t)
  IN [prev_state |-> IF StateAt(df, entity, t) = "on" THEN 1 ELSE 0,
      sinceChange |-> IF since < OneDay THEN since ELSE OneDay,
      toggles2 |-> RecentToggleCount(df, entity, t, 2),
      toggles5 |-> RecentToggleCount(df, entity, t, 5),
      override |-> FALSE,
      overdue |-> ctx.overdue, minutesAfter |-> ctx.minutesAfter, home |-> ctx.home,
      window |-> ctx.window, predicted |-> ctx.predicted,
      hot |-> ctx.hot, humid |-> ctx.humid, dry |-> ctx.dry]

(* make_feature_vector.  The one-hot columns of the entity, its room, level *)
(* and risk are the entity; the calendar is the minute of the day.          *)
StateFeatures == {"fan", "living_room_ac", "bedroom_ac", "light", "water_heater", "tv"}
MakeFeatureVector(df, entity, t) ==
  [entity |-> entity, minute |-> MinuteOfDay(t),
   weekday |-> (t \div 1440) % 7,
   policy |-> PolicyContext(df, entity, t), context |-> GetContextAt(df, t),
   on |-> {e \in StateFeatures : StateAt(df, e, t) = "on"}]

(* build_dataset_for_entity.  A change of the device gives one sample at    *)
(* each offset before it, labelled with the change; moments drawn at random *)
(* outside the windows around the changes are labelled no_action.           *)
Actions(df, entity) ==
  {r \in df : r.entity = entity /\ {r.old, r.new} = {"on", "off"}}
Label(r) == IF r.new = "on" THEN "turn_on" ELSE "turn_off"
Windows(df, entity) == UNION {r.ts - 10 .. r.ts + 1 : r \in Actions(df, entity)}
ObserveAt(r) == {r.ts - off : off \in OBSERVE_OFFSETS}
Sample(df, entity, t, label) ==
  [features |-> MakeFeatureVector(df, entity, t), label |-> label]
PositiveSamples(df, entity, r) ==
  {Sample(df, entity, t, Label(r)) : t \in ObserveAt(r)}
NegativeSamples(df, entity, draws) ==
  {Sample(df, entity, t, "no_action") : t \in draws \ Windows(df, entity)}
=============================================================================

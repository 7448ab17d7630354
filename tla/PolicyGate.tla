----------------------------- MODULE PolicyGate -----------------------------
(***************************************************************************)
(* agent/policy.py over agent/device_registry.py: what the agent may do to *)
(* a device in a context.  Confidence is in percent; texts are left out.   *)
(***************************************************************************)
EXTENDS Integers, Sequences

(* The registry up to what the policy reads: one device of each kind.       *)
Dev(type, level, risk) == [type |-> type, level |-> level, risk |-> risk]
DEVICES == {
  Dev("light", "auto", "low"), Dev("fan", "auto", "low"),
  Dev("air_conditioner", "confirm", "medium"), Dev("tv", "confirm", "medium"),
  Dev("water_heater", "confirm", "high"),
  Dev("temperature", "observe_only", "low"), Dev("humidity", "observe_only", "low"),
  Dev("camera_presence", "observe_only", "low"),
  Dev("washing_machine", "observe_only", "medium"),
  Dev("door_lock", "observe_only", "high")}
NoDevice == Dev("unknown", "none", "none")   \* get_device returned None

confidence_threshold == 70
cooldown_seconds == 300

(* _environment_reason: the first of its tests that holds.                  *)
EnvironmentReason(device, ctx) ==
  CASE device.type = "fan" /\ ctx.hot /\ ~ctx.humid -> "HOT_DRY_FAN"
    [] device.type = "air_conditioner" /\ ctx.hot /\ ctx.humid -> "HOT_HUMID_AC"
    [] device.type = "air_conditioner" /\ ~ctx.hot /\ ctx.humid -> "HUMID_AC"
    [] ~(device.type = "fan" /\ ctx.hot /\ ~ctx.humid)
         /\ ~(device.type = "air_conditioner" /\ ctx.humid) /\ ctx.dry -> "DRY_CONTEXT"
    [] OTHER -> "CONTEXT_OK"

(* _confirm_reason.                                                         *)
ConfirmReason(device) ==
  CASE device.type = "water_heater" -> "WATER_HEATER_CONFIRM_REQUIRED"
    [] device.type = "tv" -> "TV_CONFIRM_REQUIRED"
    [] device.type = "air_conditioner" -> "CLIMATE_CONFIRM_REQUIRED"
    [] OTHER -> "HIGH_RISK_DEVICE"

(* `and` binds tighter than `or` in the code: presence excuses the minutes, *)
(* not the flag.                                                            *)
OverdueExcusesFlag(ctx) == (ctx.overdue \/ ctx.minutesAfter >= 20) /\ ~ctx.home
Overdue(ctx) == ctx.overdue \/ (ctx.minutesAfter >= 20 /\ ~ctx.home)

ValidPreArrivalOpen(ctx) == ctx.window /\ ctx.predicted \in 10 .. 14
ValidPreArrival(ctx) == ctx.window /\ ctx.predicted \in 10 .. 15

Observed(device) ==
  \/ device.level = "observe_only"
  \/ device.type \in {"door_lock", "camera_presence", "temperature", "humidity",
                      "washing_machine"}

NeedsConfirm(device) ==
  \/ device.level = "confirm" \/ device.risk = "high"
  \/ device.type \in {"water_heater", "tv", "air_conditioner"}

(* A PolicyDecision, with the test that leads to it.                        *)
Rule(when, decision, code) == [when |-> when, decision |-> decision, code |-> code]

(* The tests of evaluate in their order, each with what it returns.         *)
Rules(in) ==
  LET device == in.device   action == in.action   ctx == in.ctx
      env == EnvironmentReason(device, ctx)
      comfort == ValidPreArrival(ctx) /\ action = "turn_on" /\ device.type = "fan"
      auto == /\ device.level = "auto" /\ device.risk = "low"
              /\ device.type \in {"light", "fan"}
  IN << Rule(device = NoDevice, "block", "UNKNOWN_ENTITY"),
        Rule(action = "no_action", "block", "NO_ACTION"),
        Rule(action \notin {"turn_on", "turn_off"}, "block", "UNSUPPORTED_ACTION"),
        Rule(Observed(device), "observe_only", "OBSERVE_ONLY"),
        Rule(action = "turn_on" /\ ctx.prev_state = 1, "block", "ALREADY_ON"),
        Rule(action = "turn_off" /\ ctx.prev_state = 0, "block", "ALREADY_OFF"),
        Rule(action = "turn_on" /\ Overdue(ctx), "block", "ARRIVAL_OVERDUE"),
        Rule(in.confidence < confidence_threshold, "block", "LOW_CONFIDENCE"),
        Rule(ctx.override, "block", "MANUAL_OVERRIDE_COOLDOWN"),
        Rule(ctx.toggles2 > 0 \/ ctx.toggles5 >= 2, "block", "COOLDOWN"),
        Rule(ctx.sinceChange < cooldown_seconds, "block", "COOLDOWN"),
        Rule(NeedsConfirm(device), "confirm_required", ConfirmReason(device)),
        Rule(/\ action = "turn_on" /\ ~ctx.home
             /\ ~(ValidPreArrival(ctx) /\ device.risk = "low"), "block", "NO_PRESENCE"),
        Rule(auto /\ comfort, "allow", "PRE_ARRIVAL_COMFORT_FAN"),
        Rule(auto /\ device.type = "fan" /\ action = "turn_on"
               /\ env \notin {"HOT_DRY_FAN", "CONTEXT_OK"},
             "block", "ENVIRONMENT_NOT_SUITABLE"),
        Rule(auto, "allow", IF env = "CONTEXT_OK" THEN "AUTO_LOW_RISK_OK" ELSE env),
        Rule(TRUE, "confirm_required", "CONFIRM_REQUIRED") >>

(* PolicyGate.evaluate: the first test that holds decides.                  *)
Evaluate(in) ==
  LET rules == Rules(in)
  IN rules[CHOOSE i \in DOMAIN rules :
             rules[i].when /\ \A j \in 1 .. i - 1 : ~rules[j].when]
=============================================================================

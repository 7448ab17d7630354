------------------------------- MODULE Mapper -------------------------------
(***************************************************************************)
(* src/mapper/mapper.c: from an MQTT message to a Matter command.  A topic *)
(* is a sequence of characters, a payload the fields of its JSON object,   *)
(* and a number counts hundredths.                                         *)
(***************************************************************************)
EXTENDS Integers, Sequences

CONSTANTS Config,   \* lists of rules that config_parser may have loaded
          Message   \* messages, each with a topic and a payload

(* What config_parser and cJSON can hand to the mapper: rules with their    *)
(* fields, texts of at most six digits, which %g keeps (see Decimal, Word). *)
DeviceRule ==
  [node_id : Nat, mqtt_topic : Seq(STRING), mqtt_field : STRING,
   matter_cluster : STRING, transform : STRING]
IsText(text) ==
  /\ text \in [spelling : STRING, h : Int] /\ -999999 <= text.h /\ text.h <= 999999
  /\ text.spelling # "decimal" => text.h = 0
IsMessage(m) ==
  /\ m = [topic |-> m.topic, payload |-> m.payload]
  /\ m.payload = [json |-> m.payload.json, fields |-> m.payload.fields]
  /\ \A f \in DOMAIN m.payload.fields : IsText(m.payload.fields[f].text)

ASSUME ConfigAssumption == \A rules \in Config : rules \in Seq(DeviceRule)
ASSUME MessageAssumption == \A m \in Message : IsMessage(m)

VARIABLES g_config, \* the rules, or NoRules for the NULL pointer
          msg, cmd  \* the last message translated and what came of it

mapperVars == <<g_config, msg, cmd>>

NoRules == <<>>
Json(fields) == [json |-> TRUE, fields |-> fields]
NotJson == [json |-> FALSE, fields |-> <<>>]
NoText == [spelling |-> "NULL", h |-> 0]

(* The values of a JSON object, and texts by what strcmp, strtof and atoi   *)
(* see in them: a word reads as 0.                                          *)
Word(s) == [spelling |-> s, h |-> 0]
Decimal(h) == [spelling |-> "decimal", h |-> h]
Bool(b) == [type |-> "bool", text |-> Word(IF b THEN "true" ELSE "false")]
Number(h) == [type |-> "number", text |-> Decimal(h)]
String(text) == [type |-> "string", text |-> text]
Null == [type |-> "null", text |-> NoText]

-----------------------------------------------------------------------------
(* topic_match, from position p of the pattern and t of the topic.          *)

NextLevel(topic, t) ==
  CHOOSE e \in t .. Len(topic) + 1 :
    /\ e = Len(topic) + 1 \/ topic[e] = "/"
    /\ \A i \in t .. e - 1 : topic[i] # "/"
LevelEndAfterSlash(topic, t) ==
  LET e == NextLevel(topic, t) IN IF e > Len(topic) THEN e ELSE e + 1
LevelEnd(topic, t) == NextLevel(topic, t)

TopicMatch(pattern, topic) ==
  LET n == Len(pattern)   m == Len(topic)
      match[p \in 1 .. n + 1, t \in 1 .. m + 1] ==
        IF p > n \/ t > m THEN p > n /\ t > m
        ELSE \/ pattern[p] = "#"
             \/ pattern[p] = "+" /\ match[p + 1, LevelEnd(topic, t)]
             \/ pattern[p] \notin {"#", "+"} /\ pattern[p] = topic[t] /\ match[p + 1, t + 1]
  IN match[1, 1]

-----------------------------------------------------------------------------
(* apply_transform.                                                         *)

Magnitude(h) == IF h < 0 THEN -h ELSE h
Signed(h, n) == IF h < 0 THEN -n ELSE n
ToInt(h) == Signed(h, Magnitude(h) \div 100)   \* (int) and atoi cut towards zero

(* float has 24 bits.  h/100 and its product with 100.0f are rounded to     *)
(* them, half to even, before the cast.                                     *)
RoundHalfEven(n, d) ==
  LET q == n \div d   r == 2 * (n % d)
  IN IF r > d \/ (r = d /\ q % 2 = 1) THEN q + 1 ELSE q
IsMantissa(n) == 8388608 <= n /\ n < 16777216
PowersOfTwo ==
  {1, 2, 4, 8, 16, 32, 64, 128, 256, 512, 1024, 2048, 4096, 8192, 16384, 32768, 65536,
   131072, 262144, 524288, 1048576, 2097152, 4194304, 8388608, 16777216, 33554432,
   67108864, 134217728, 268435456, 536870912, 1073741824}
Scale(n, d) == CHOOSE s \in PowersOfTwo : IsMantissa((n * s) \div d)
Unscale(n) == CHOOSE s \in PowersOfTwo : IsMantissa(n \div s)
HundredthsOfInt(h) == 100 * ToInt(h)
Hundredths(h) ==
  LET a == Magnitude(h)
      s == Scale(a, 100)
      product == 100 * RoundHalfEven(a * s, 100)
      d == Unscale(product)
  IN IF h = 0 THEN 0 ELSE Signed(h, (RoundHalfEven(product, d) * d) \div s)

AsBool(i) == IF i # 0 THEN 1 ELSE 0
NoneTransformOfNumbers(text) == [int |-> ToInt(text.h), bool |-> AsBool(ToInt(text.h))]
NoneTransform(text) ==
  LET i == IF text.spelling = "true" THEN 1 ELSE ToInt(text.h)
  IN [int |-> i, bool |-> AsBool(i)]
InvertText(text) == LET b == IF text.h = 100 THEN 0 ELSE 1 IN [int |-> b, bool |-> b]
Invert(text) == LET b == 1 - AsBool(ToInt(text.h)) IN [int |-> b, bool |-> b]

ApplyTransform(text, transform) ==
  CASE transform = "multiply_100" -> [int |-> Hundredths(text.h), bool |-> 0]
    [] transform = "invert" -> Invert(text)
    [] OTHER -> NoneTransform(text)

-----------------------------------------------------------------------------
(* json_get_field, resolve_command and mapper_translate.                    *)

JsonGetField(payload, field) ==
  IF field \in DOMAIN payload.fields THEN payload.fields[field].text ELSE NoText

CLUSTER_MAP == {"onoff", "levelcontrol", "temperaturemeasurement",
                "relativehumiditymeasurement", "illuminancemeasurement",
                "occupancysensing"}
ResolveCommand(bool) == IF bool = 1 THEN "On" ELSE "Off"

Matching(rules, topic) == {i \in DOMAIN rules : TopicMatch(rules[i].mqtt_topic, topic)}
FirstRule(rules, topic) ==
  rules[CHOOSE i \in Matching(rules, topic) : \A j \in Matching(rules, topic) : i <= j]
RawText(rules, m) == JsonGetField(m.payload, FirstRule(rules, m.topic).mqtt_field)

Failed == [ret |-> -1]
Translate(rules, m) ==
  LET rule == FirstRule(rules, m.topic)
      text == RawText(rules, m)
      value == ApplyTransform(text, rule.transform)
      onoff == rule.matter_cluster = "onoff"
  IN IF \/ Matching(rules, m.topic) = {} \/ ~m.payload.json
        \/ text = NoText \/ rule.matter_cluster \notin CLUSTER_MAP
     THEN Failed
     ELSE [ret |-> 0, node_id |-> rule.node_id, cluster |-> rule.matter_cluster,
           value_int |-> value.int, value_bool |-> value.bool, is_command |-> onoff,
           command_name |-> IF onoff THEN ResolveCommand(value.bool) ELSE ""]

-----------------------------------------------------------------------------
NoMessage == [topic |-> <<>>, payload |-> NotJson]
MapperInit == g_config = NoRules /\ msg = NoMessage /\ cmd = Failed

mapper_init(rules) ==
  /\ g_config = NoRules /\ msg = NoMessage
  /\ g_config' = rules /\ UNCHANGED <<msg, cmd>>

(* Bound: one message between init and destroy, as a call keeps nothing.    *)
mapper_translate(m) ==
  /\ msg = NoMessage
  /\ msg' = m /\ cmd' = Translate(g_config, m)
  /\ UNCHANGED g_config

mapper_destroy == g_config' = NoRules /\ msg' = NoMessage /\ cmd' = Failed

MapperNext ==
  \/ \E rules \in Config : mapper_init(rules)
  \/ \E m \in Message : mapper_translate(m)
  \/ mapper_destroy

MapperSpec == MapperInit /\ [][MapperNext]_mapperVars

-----------------------------------------------------------------------------
Rule == FirstRule(g_config, msg.topic)
Text == RawText(g_config, msg)

(* Type invariant: the commands matter_client knows how to format.  A       *)
(* switch is commanded "On" or "Off", as mapper.c:147 writes; the comment   *)
(* of matter_client.h:22 says "on" and "off", and tests/test_mapper.c:35    *)
(* and 51 assert them for a JSON true and false, so that both tests fail.   *)
MapperTypeOK ==
  \/ cmd = Failed
  \/ /\ cmd.ret = 0 /\ cmd.cluster \in CLUSTER_MAP
     /\ cmd.value_int \in Int /\ cmd.value_bool \in {0, 1}
     /\ cmd.command_name \in IF cmd.is_command THEN {"On", "Off"} ELSE {""}

(* The inductive invariant: the command is what the rules that are loaded   *)
(* make of the message, and no message makes none.                          *)
MapperIInv ==
  /\ MapperTypeOK /\ g_config \in Seq(DeviceRule) /\ IsMessage(msg)
  /\ cmd = Translate(g_config, msg)

(* A reading reaches Matter in hundredths, wrong by one at most: the two    *)
(* roundings of float and the cut to int add up to no more (mapper.c:78-80).*)
HundredthsWithinOne ==
  cmd.ret = 0 /\ Rule.transform = "multiply_100" => cmd.value_int - Text.h \in -1 .. 1

(* A command is one matter_client can format and what the rules in force    *)
(* make of the message (MapperIInv), and a switch does the same whether its *)
(* state is sent as a boolean, as 0 or 1, or as either in quotes            *)
(* (mapper.c:89-105, 128-137).  The names of the commands are the code's,   *)
(* not those its tests assert (see MapperTypeOK).                           *)
Encodings ==
  {{Bool(TRUE), Number(100), String(Word("true")), String(Decimal(100))},
   {Bool(FALSE), Number(0), String(Word("false")), String(Decimal(0))}}
EncodingsAgree ==
  /\ MapperIInv
  /\ cmd.ret = 0 /\ Rule.transform = "none" =>
       \A E \in Encodings : msg.payload.fields[Rule.mqtt_field] \in E =>
         \A v \in E : Translate(g_config, [msg EXCEPT !.payload.fields[Rule.mqtt_field] = v]) = cmd

(* invert reverses what the plain transform makes of the same value, 0 or   *)
(* 1, any number, false or another word.  The exception is a JSON true,     *)
(* which the comment of mapper.c:83 does not make: atoi reads it as 0, and  *)
(* invert turns it into On.                                                 *)
Plain(rules) == [i \in DOMAIN rules |-> [rules[i] EXCEPT !.transform = "none"]]
InvertReverses ==
  cmd.ret = 0 /\ Rule.transform = "invert" =>
    (cmd.value_bool = 1 - Translate(Plain(g_config), msg).value_bool <=> Text.spelling # "true")
=============================================================================

------------------------------ MODULE MapperMC ------------------------------
(***************************************************************************)
(* Patterns and topics of up to three levels, payloads with each kind of   *)
(* value and readings with two decimals on both sides of zero, with what   *)
(* MQTT and the comments of mapper.c say of them.                          *)
(***************************************************************************)
EXTENDS Mapper, SequencesExt, FiniteSets

(* Around zero, room temperatures, and the top of the humidity range.       *)
Readings == -300 .. 300 \cup 2400 .. 2600 \cup 9900 .. 10000

(* Levels of a topic, between the slashes.                                  *)
Levels(s) ==
  LET slashes == SetToSortSeq({i \in DOMAIN s : s[i] = "/"}, <)
      cuts == <<0>> \o slashes \o <<Len(s) + 1>>
  IN [i \in 1 .. Len(cuts) - 1 |-> SubSeq(s, cuts[i] + 1, cuts[i + 1] - 1)]
Join(levels) == FoldLeft(LAMBDA s, l : s \o <<"/">> \o l, levels[1], SubSeq(levels, 2, Len(levels)))
Plus == <<"+">>
Hash == <<"#">>
Names == {<<>>, <<"a">>, <<"a", "b">>}

Topics == {Join(l) : l \in UNION {[1 .. n -> Names] : n \in 1 .. 3}} \ {<<>>}
Patterns ==
  {Join(l) : l \in {x \in UNION {[1 .. n -> Names \cup {Plus, Hash}] : n \in 1 .. 3} :
                      \A i \in 1 .. Len(x) - 1 : x[i] # Hash}} \ {<<>>}

RuleFor(topic, cluster, transform) ==
  [node_id |-> 1, mqtt_topic |-> topic, mqtt_field |-> "f", matter_cluster |-> cluster,
   transform |-> transform]
a == <<"a">>
Switch(transform) == RuleFor(a, "onoff", transform)
Sensor(topic) == RuleFor(topic, "temperaturemeasurement", "multiply_100")
MCConfig ==
  {<<RuleFor(p, "onoff", "none")>> : p \in Patterns}
    \cup {<<Switch("none")>>, <<Switch("invert")>>, <<RuleFor(a, "unknown", "none")>>,
          <<Sensor(Hash), Switch("none")>>, <<Switch("invert"), Sensor(Hash)>>}

Values == {Bool(TRUE), Bool(FALSE), Null, String(Word("true")), String(Word("false")),
           String(Word("on")), String(Decimal(100)), String(Decimal(0))}
            \cup {Number(h) : h \in Readings}
Payload(v) == Json([f |-> v])
MCMessage ==
  {[topic |-> t, payload |-> Payload(Bool(TRUE))] : t \in Topics}
    \cup {[topic |-> a, payload |-> Payload(v)] : v \in Values}
    \cup {[topic |-> a, payload |-> p] : p \in {NotJson, Json([g |-> Bool(TRUE)])}}

Sent == msg # NoMessage /\ msg.payload.json

(* The daemon subscribes to a rule's pattern, and the broker matches it by  *)
(* levels.  The walk over characters of topic_match maps the same messages, *)
(* but for those whose topic ends where the last wildcard would match no    *)
(* character: an empty level, or for # the parent (mapper.c:43-64).         *)
LevelsMatch(p, t) ==
  LET n == IF Last(p) = Hash THEN Len(p) - 1 ELSE Len(p) IN
  /\ IF Last(p) = Hash THEN Len(t) >= n ELSE Len(t) = n
  /\ \A i \in 1 .. n : p[i] \in {Plus, t[i]}
NothingLeft(p, t) ==
  \/ Last(p) = Hash /\ Len(t) = Len(p) - 1
  \/ Last(p) \in {Plus, Hash} /\ Len(t) = Len(p) /\ Last(t) = <<>>
MatchAgrees ==
  Sent /\ g_config # NoRules =>
    LET p == Levels(g_config[1].mqtt_topic)   t == Levels(msg.topic) IN
    TopicMatch(g_config[1].mqtt_topic, msg.topic) <=> LevelsMatch(p, t) /\ ~NothingLeft(p, t)
=============================================================================

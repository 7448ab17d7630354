----------------------------- MODULE MqttProofs -----------------------------
(***************************************************************************)
(* The MQTT side of the daemon: the safety of the client's loop for any    *)
(* number of topics, and what the mapper makes of the messages it brings,  *)
(* for any rules and payloads.                                             *)
(***************************************************************************)
EXTENDS MqttClient, Mapper, WellFoundedInduction, FiniteSetTheorems, TLAPS

LEMMA InitIInv == Init => IInv
BY DeviceAssumption
   DEF Init, IInv, TypeOK, StateMatchesSocket, SessionComplete, SocketAt, Lost, Topics

(* The loop's own steps: what each leaves to the next place.                *)
LEMMA LoopPreserves ==
  ASSUME IInv, LoopTop \/ Sleep \/ LoopReturns \/ Check
  PROVE  IInv'
<1> USE DEF IInv, TypeOK, StateMatchesSocket, SessionComplete, SocketAt, Lost, Topics, At, session
<1>1. CASE LoopTop      BY <1>1 DEF LoopTop
<1>2. CASE Sleep        BY <1>2 DEF Sleep
<1>3. CASE LoopReturns  BY <1>3 DEF LoopReturns
<1>4. CASE Check        BY <1>4 DEF Check
<1> QED  BY <1>1, <1>2, <1>3, <1>4

(* Steps that open or close a connection: its subscriptions go with it.     *)
LEMMA ConnectionPreserves ==
  ASSUME IInv, ConnectFails \/ ConnectSent \/ Reconnect \/ OnDisconnect \/ Destroy
  PROVE  IInv'
<1> USE DEF IInv, TypeOK, StateMatchesSocket, SessionComplete, SocketAt, Lost, Topics, At,
           Opens, Closes
<1>1. CASE ConnectFails  BY <1>1 DEF ConnectFails
<1>2. CASE ConnectSent   BY <1>2 DEF ConnectSent
<1>3. CASE Reconnect     BY <1>3 DEF Reconnect
<1>4. CASE OnDisconnect  BY <1>4 DEF OnDisconnect
<1>5. CASE Destroy       BY <1>5 DEF Destroy
<1> QED  BY <1>1, <1>2, <1>3, <1>4, <1>5

(* One more topic has been tried.                                           *)
LEMMA SubscribePreserves ==
  ASSUME IInv, Subscribe
  PROVE  IInv'
<1> USE DEF IInv, TypeOK, StateMatchesSocket, SessionComplete, SocketAt, Topics, At, Subscribe
<1>1. i \in 1 .. N /\ i' = i + 1 /\ i' \in 1 .. N + 1
  BY DeviceAssumption
<1>2. subscribed' \cup refused' = subscribed \cup refused \cup {i}
  OBVIOUS
<1>3. 1 .. (i' - 1) \subseteq subscribed' \cup refused'
  BY <1>1, <1>2
<1>4. TypeOK'
  BY <1>1
<1> QED  BY <1>1, <1>3, <1>4

(* The callbacks on_connect, and its end with every topic tried.            *)
LEMMA OnConnectPreserves ==
  ASSUME IInv, OnConnect \/ OnConnectRefused \/ Subscribed
  PROVE  IInv'
<1> USE DEF IInv, TypeOK, StateMatchesSocket, SessionComplete, SocketAt, Lost, Topics, At, session
<1>1. CASE OnConnect         BY <1>1, DeviceAssumption DEF OnConnect
<1>2. CASE OnConnectRefused  BY <1>2 DEF OnConnectRefused
<1>3. CASE Subscribed
  <2>1. i = N + 1 /\ i - 1 = N
    BY <1>3, DeviceAssumption DEF Subscribed
  <2>2. subscribed \cup refused = Topics
    BY <1>3, <2>1 DEF Subscribed
  <2> QED  BY <1>3, <2>2 DEF Subscribed
<1> QED  BY <1>1, <1>2, <1>3

LEMMA StepPreserves == IInv /\ [Next]_vars => IInv'
<1> SUFFICES ASSUME IInv, [Next]_vars PROVE IInv'
  OBVIOUS
<1>1. CASE ThreadStep
  BY <1>1, LoopPreserves, ConnectionPreserves, SubscribePreserves, OnConnectPreserves
     DEF ThreadStep
<1>2. CASE Stop
  BY <1>2 DEF Stop, IInv, TypeOK, StateMatchesSocket, SessionComplete, SocketAt, session
<1>3. CASE Destroy
  BY <1>3, ConnectionPreserves
<1>4. CASE UNCHANGED vars
  BY <1>4 DEF vars, session, IInv, TypeOK, StateMatchesSocket, SessionComplete, SocketAt
<1> QED  BY <1>1, <1>2, <1>3, <1>4 DEF Next

(* The inductive invariant of the loop.                                     *)
THEOREM Invariance == Spec => []IInv
BY InitIInv, StepPreserves, PTL DEF Spec

(* Whatever the broker and the network do, the client enters mosquitto_loop *)
(* only with a connection, and its state says which (mqtt_client.c:121-155).*)
THEOREM SocketAgrees == Spec => []StateMatchesSocket
<1>1. IInv => StateMatchesSocket  BY DEF IInv
<1> QED  BY <1>1, Invariance, PTL

(* Every session of a connected client covers the whole configuration, as   *)
(* far as the library took the subscriptions, for any number of devices     *)
(* (mqtt_client.c:36-43).                                                   *)
THEOREM SessionsComplete == Spec => []SessionComplete
<1>1. IInv => SessionComplete  BY DEF IInv
<1> QED  BY <1>1, Invariance, PTL

-----------------------------------------------------------------------------
(* The mapper: MatchAgrees apart, what its run checks.                      *)

(* Readings.  Rounding moves a number by half of its step at most.          *)
LEMMA RoundsToHundred ==
  ASSUME NEW n \in Nat
  PROVE  /\ RoundHalfEven(n, 100) \in Nat
         /\ 100 * RoundHalfEven(n, 100) - n \in -50 .. 50
BY SMT DEF RoundHalfEven

LEMMA RoundsToScale ==
  ASSUME NEW n \in Nat, NEW d \in {64, 128}
  PROVE  RoundHalfEven(n, d) * d \in Nat /\ RoundHalfEven(n, d) * d - n \in -64 .. 64
<1>1. CASE d = 64  BY <1>1, SMT DEF RoundHalfEven
<1>2. CASE d = 128 BY <1>2, SMT DEF RoundHalfEven
<1> QED BY <1>1, <1>2

(* The steps a reading of six digits is rounded with.                       *)
Scales ==
  {1024, 2048, 4096, 8192, 16384, 32768, 65536, 131072, 262144, 524288, 1048576, 2097152,
   4194304, 8388608, 16777216, 33554432, 67108864, 134217728, 268435456, 536870912, 1073741824}

(* The mantissa of a/100 is found, and a stands in the scaled range.        *)
LEMMA ScaleFound ==
  ASSUME NEW a \in Nat, 0 < a, a <= 999999
  PROVE  LET s == Scale(a, 100) IN
         s \in Scales /\ 838860800 <= a * s /\ a * s < 1677721600
<1>1. \E s \in PowersOfTwo : IsMantissa((a * s) \div 100)
  BY SMT DEF PowersOfTwo, IsMantissa
<1> DEFINE s == Scale(a, 100)
<1>2. s \in PowersOfTwo /\ IsMantissa((a * s) \div 100)
  BY <1>1 DEF Scale
<1> HIDE DEF s
<1>3. s \in Scales /\ 838860800 <= a * s /\ a * s < 1677721600
  BY <1>2, SMT DEF PowersOfTwo, IsMantissa, Scales
<1> QED  BY <1>3 DEF s

(* The product by 100 is six or seven bits longer than a mantissa.          *)
LEMMA UnscaleFound ==
  ASSUME NEW n \in Nat, 838860800 <= n, n <= 1677721600
  PROVE  Unscale(n) \in {64, 128}
<1>1. \E s \in PowersOfTwo : IsMantissa(n \div s)
  BY SMT DEF PowersOfTwo, IsMantissa
<1> DEFINE s == Unscale(n)
<1>2. s \in PowersOfTwo /\ IsMantissa(n \div s)
  BY <1>1 DEF Unscale
<1> HIDE DEF s
<1>3. s \in {64, 128}
  BY <1>2, SMT DEF PowersOfTwo, IsMantissa
<1> QED  BY <1>3 DEF s

(* Both roundings together stay below one step, so the cut loses one at most.*)
LEMMA CutIsClose ==
  ASSUME NEW a \in Nat, 0 < a, a <= 999999, NEW s \in Scales, NEW p \in Nat,
         p - a * s \in -114 .. 114
  PROVE  p \div s \in a - 1 .. a
BY SMT DEF Scales

(* multiply_100 of any reading of six digits, of either sign.               *)
LEMMA HundredthsClose ==
  ASSUME NEW h \in Int, -999999 <= h, h <= 999999
  PROVE  Hundredths(h) \in Int /\ Hundredths(h) - h \in -1 .. 1
<1>1. CASE h = 0
  BY <1>1, SMT DEF Hundredths
<1>2. CASE h # 0
  <2> DEFINE a == Magnitude(h)
             s == Scale(a, 100)
             q == RoundHalfEven(a * s, 100)
             d == Unscale(100 * q)
             p == RoundHalfEven(100 * q, d) * d
  <2>1. a \in Nat /\ 0 < a /\ a <= 999999 /\ a = (IF h < 0 THEN -h ELSE h)
    BY <1>2, SMT DEF Magnitude
  <2>2. Hundredths(h) = (IF h < 0 THEN -(p \div s) ELSE p \div s)
    BY <1>2, SMT DEF Hundredths, Signed
  <2> HIDE DEF a
  <2>3. s \in Scales /\ 838860800 <= a * s /\ a * s < 1677721600
    BY <2>1, ScaleFound, SMT
  <2> HIDE DEF s
  <2>4. a * s \in Nat
    BY <2>1, <2>3, SMT DEF Scales
  <2>5. q \in Nat /\ 100 * q - a * s \in -50 .. 50
    BY <2>4, RoundsToHundred, SMT
  <2> HIDE DEF q
  <2>6. 100 * q \in Nat /\ 838860800 <= 100 * q /\ 100 * q <= 1677721600
    BY <2>3, <2>4, <2>5, SMT
  <2>7. d \in {64, 128}
    BY <2>6, UnscaleFound, SMT
  <2> HIDE DEF d
  <2>8. p \in Nat /\ p - 100 * q \in -64 .. 64
    BY <2>6, <2>7, RoundsToScale, SMT
  <2> HIDE DEF p
  <2>9. p - a * s \in -114 .. 114
    BY <2>4, <2>5, <2>6, <2>8, SMT
  <2>10. p \div s \in a - 1 .. a
    BY <2>1, <2>3, <2>8, <2>9, CutIsClose, SMT
  <2> QED  BY <2>1, <2>2, <2>10, SMT
<1> QED  BY <1>1, <1>2, SMT

(* What a translation is made of, when there is one.                        *)
LEMMA TranslateIs ==
  ASSUME NEW rules, NEW m
  PROVE  LET rule == FirstRule(rules, m.topic)
             text == RawText(rules, m)
             value == ApplyTransform(text, rule.transform)
             t == Translate(rules, m) IN
         /\ t = Failed \/ t.ret = 0
         /\ t.ret = 0 => /\ Matching(rules, m.topic) # {} /\ m.payload.json
                         /\ text # NoText /\ rule.matter_cluster \in CLUSTER_MAP
                         /\ t.cluster = rule.matter_cluster
                         /\ t.value_int = value.int /\ t.value_bool = value.bool
                         /\ t.is_command = (rule.matter_cluster = "onoff")
                         /\ t.command_name = IF rule.matter_cluster = "onoff"
                                             THEN ResolveCommand(value.bool) ELSE ""
<1> DEFINE rule == FirstRule(rules, m.topic)
           text == RawText(rules, m)
           value == ApplyTransform(text, rule.transform)
           failed == \/ Matching(rules, m.topic) = {} \/ ~m.payload.json
                      \/ text = NoText \/ rule.matter_cluster \notin CLUSTER_MAP
           t == Translate(rules, m)
<1>1. t = IF failed THEN Failed
          ELSE [ret |-> 0, node_id |-> rule.node_id, cluster |-> rule.matter_cluster,
                value_int |-> value.int, value_bool |-> value.bool,
                is_command |-> rule.matter_cluster = "onoff",
                command_name |-> IF rule.matter_cluster = "onoff"
                                 THEN ResolveCommand(value.bool) ELSE ""]
  BY DEF Translate
<1> HIDE DEF rule, text, value, t
<1>2. CASE failed
  <2>1. t = Failed  BY <1>1, <1>2
  <2>2. t.ret = -1      BY <2>1 DEF Failed
  <2> QED  BY <2>1, <2>2 DEF t
<1>3. CASE ~failed
  <2>1. /\ t.ret = 0 /\ t.cluster = rule.matter_cluster
        /\ t.value_int = value.int /\ t.value_bool = value.bool
        /\ t.is_command = (rule.matter_cluster = "onoff")
        /\ t.command_name = IF rule.matter_cluster = "onoff"
                            THEN ResolveCommand(value.bool) ELSE ""
    BY <1>1, <1>3
  <2>2. /\ Matching(rules, m.topic) # {} /\ m.payload.json /\ text # NoText
        /\ rule.matter_cluster \in CLUSTER_MAP
    BY <1>3
  <2> QED  BY <2>1, <2>2 DEF rule, text, value, t
<1> QED  BY <1>2, <1>3

(* The text that apply_transform is given is one of the message's.          *)
LEMMA TextIs ==
  ASSUME NEW rules, NEW m, IsMessage(m), RawText(rules, m) # NoText
  PROVE  LET field == FirstRule(rules, m.topic).mqtt_field IN
         /\ field \in DOMAIN m.payload.fields
         /\ RawText(rules, m) = m.payload.fields[field].text
         /\ IsText(RawText(rules, m))
BY DEF RawText, JsonGetField, IsMessage

(* What each transform makes of a text.                                     *)
LEMMA ValueIs ==
  ASSUME NEW text, IsText(text), NEW transform
  PROVE  LET value == ApplyTransform(text, transform) IN
         /\ value.int \in Int /\ value.bool \in {0, 1}
         /\ transform = "multiply_100" => value.int = Hundredths(text.h)
         /\ transform = "invert" => value = Invert(text)
         /\ transform \notin {"multiply_100", "invert"} => value = NoneTransform(text)
<1>1. text.h \in Int /\ -999999 <= text.h /\ text.h <= 999999
  BY SMT DEF IsText
<1>2. Hundredths(text.h) \in Int /\ ToInt(text.h) \in Int
  BY <1>1, HundredthsClose, SMT DEF ToInt, Signed, Magnitude
<1>3. AsBool(ToInt(text.h)) \in {0, 1}
  BY DEF AsBool
<1>4. CASE transform = "multiply_100"
  BY <1>2, <1>4, SMT DEF ApplyTransform
<1>5. CASE transform = "invert"
  <2>1. ApplyTransform(text, transform) = Invert(text)
    BY <1>5, SMT DEF ApplyTransform
  <2> QED  BY <1>3, <1>5, <2>1, SMT DEF Invert
<1>6. CASE transform \notin {"multiply_100", "invert"}
  <2>1. ApplyTransform(text, transform) = NoneTransform(text)
    BY <1>6, SMT DEF ApplyTransform
  <2> QED  BY <1>2, <1>6, <2>1, SMT DEF NoneTransform, AsBool
<1> QED  BY <1>4, <1>5, <1>6

(* A translation is one that matter_client can format.                      *)
LEMMA TranslateTyped ==
  ASSUME NEW rules, NEW m, IsMessage(m)
  PROVE  LET t == Translate(rules, m) IN
         \/ t = Failed
         \/ /\ t.ret = 0 /\ t.cluster \in CLUSTER_MAP
            /\ t.value_int \in Int /\ t.value_bool \in {0, 1}
            /\ t.command_name \in IF t.is_command THEN {"On", "Off"} ELSE {""}
<1> DEFINE t == Translate(rules, m)
           cluster == FirstRule(rules, m.topic).matter_cluster
           value == ApplyTransform(RawText(rules, m), FirstRule(rules, m.topic).transform)
<1> SUFFICES ASSUME t # Failed
             PROVE  /\ t.ret = 0 /\ t.cluster \in CLUSTER_MAP
                    /\ t.value_int \in Int /\ t.value_bool \in {0, 1}
                    /\ t.command_name \in IF t.is_command THEN {"On", "Off"} ELSE {""}
  OBVIOUS
<1>1. /\ t.ret = 0 /\ RawText(rules, m) # NoText
      /\ cluster \in CLUSTER_MAP /\ t.cluster = cluster
      /\ t.value_int = value.int /\ t.value_bool = value.bool
      /\ t.is_command = (cluster = "onoff")
      /\ t.command_name = IF cluster = "onoff" THEN ResolveCommand(value.bool) ELSE ""
  BY TranslateIs
<1>2. value.int \in Int /\ value.bool \in {0, 1}
  BY <1>1, TextIs, ValueIs
<1> HIDE DEF t, cluster, value
<1>3. t.command_name \in IF t.is_command THEN {"On", "Off"} ELSE {""}
  BY <1>1 DEF ResolveCommand
<1> QED  BY <1>1, <1>2, <1>3

(* Before the first message there is no command.                            *)
LEMMA NoMessageFails ==
  ASSUME NEW rules
  PROVE  IsMessage(NoMessage) /\ Translate(rules, NoMessage) = Failed
<1>1. NoMessage.payload.json = FALSE
  BY DEF NoMessage, NotJson
<1>2. NoMessage.payload.fields = <<>> /\ DOMAIN <<>> = {}
  BY DEF NoMessage, NotJson
<1>3. IsMessage(NoMessage)
  BY <1>2 DEF IsMessage, NoMessage, NotJson
<1> QED  BY <1>1, <1>3 DEF Translate

(* The mapper keeps its invariant.                                          *)
LEMMA MapperInductive ==
  /\ MapperInit => MapperIInv
  /\ MapperIInv /\ [MapperNext]_mapperVars => MapperIInv'
<1>1. MapperInit => MapperIInv
  <2>1. NoRules \in Seq(DeviceRule)
    BY SMT DEF NoRules
  <2> QED  BY <2>1, NoMessageFails DEF MapperInit, MapperIInv, MapperTypeOK
<1>2. ASSUME MapperIInv, NEW rules \in Config, mapper_init(rules) PROVE MapperIInv'
  <2>1. g_config' = rules /\ msg' = NoMessage /\ cmd' = cmd /\ cmd = Failed
    BY <1>2, NoMessageFails DEF MapperIInv, mapper_init
  <2> QED  BY <2>1, NoMessageFails, ConfigAssumption DEF MapperIInv, MapperTypeOK
<1>3. ASSUME MapperIInv, NEW m \in Message, mapper_translate(m) PROVE MapperIInv'
  <2>1. cmd' = Translate(g_config, m) /\ msg' = m /\ g_config' = g_config
    BY <1>3 DEF mapper_translate
  <2>2. IsMessage(m)
    BY MessageAssumption
  <2>3. MapperTypeOK'
    BY <2>1, <2>2, TranslateTyped DEF MapperTypeOK
  <2> QED  BY <1>3, <2>1, <2>2, <2>3 DEF MapperIInv
<1>4. ASSUME MapperIInv, mapper_destroy PROVE MapperIInv'
  <2>1. NoRules \in Seq(DeviceRule)
    BY SMT DEF NoRules
  <2>2. g_config' = NoRules /\ msg' = NoMessage /\ cmd' = Failed
    BY <1>4 DEF mapper_destroy
  <2> QED  BY <2>1, <2>2, NoMessageFails DEF MapperIInv, MapperTypeOK
<1>5. ASSUME MapperIInv, UNCHANGED mapperVars PROVE MapperIInv'
  BY <1>5 DEF MapperIInv, MapperTypeOK, mapperVars
<1> QED  BY <1>1, <1>2, <1>3, <1>4, <1>5 DEF MapperNext

(* The loop over the rules stops at the first that matches: the parts of a  *)
(* finite set up to each of its numbers are well founded.                   *)
LEMMA FirstExists ==
  ASSUME NEW n \in Nat, NEW S \in SUBSET (1 .. n), S # {}
  PROVE  \E k \in S : \A j \in S : k <= j
<1> DEFINE UpTo(k) == {j \in S : j <= k}
           T == {UpTo(k) : k \in S}
<1>1. IsFiniteSet(S)
  <2>1. IsFiniteSet(1 .. n)  BY FS_Interval
  <2> QED  BY <2>1, FS_Subset
<1>2. T \in SUBSET FiniteSubsetsOf(S) /\ T # {}
  <2>1. ASSUME NEW k \in S PROVE UpTo(k) \in FiniteSubsetsOf(S)
    <3>1. UpTo(k) \subseteq S  OBVIOUS
    <3>2. IsFiniteSet(UpTo(k))  BY <1>1, <3>1, FS_Subset
    <3> QED  BY <3>1, <3>2 DEF FiniteSubsetsOf
  <2>2. PICK k \in S : TRUE  OBVIOUS
  <2>3. UpTo(k) \in T  OBVIOUS
  <2> QED  BY <2>1, <2>3
<1>3. PICK x \in T : \A y \in T : ~(<<y, x>> \in StrictSubsetOrdering(S))
  <2>1. IsWellFoundedOn(StrictSubsetOrdering(S), FiniteSubsetsOf(S))
    BY FS_StrictSubsetOrderingWellFounded
  <2> QED  BY <1>2, <2>1, WFMin
<1>4. PICK k \in S : x = UpTo(k)
  OBVIOUS
<1>5. ASSUME NEW j \in S, j < k PROVE FALSE
  <2>1. k \in Nat /\ j \in Nat
    OBVIOUS
  <2>2. UpTo(j) \subseteq UpTo(k) /\ k \in UpTo(k) /\ k \notin UpTo(j)
    <3>1. ASSUME NEW l \in UpTo(j) PROVE l \in UpTo(k)
      <4>1. l \in S /\ l <= j /\ l \in Nat  OBVIOUS
      <4> QED  BY <1>5, <2>1, <4>1
    <3>2. k <= k /\ ~(k <= j)  BY <1>5, <2>1
    <3> QED  BY <3>1, <3>2
  <2>3. UpTo(j) \in T /\ <<UpTo(j), UpTo(k)>> \in StrictSubsetOrdering(S)
    BY <2>2 DEF StrictSubsetOrdering
  <2> QED  BY <1>3, <1>4, <2>3
<1>6. \A j \in S : k <= j
  <2>1. ASSUME NEW j \in S PROVE ~(j < k)
    BY <1>5
  <2> QED  BY <2>1
<1> QED  BY <1>6

(* Two messages whose texts are worth the same give the same command.       *)
LEMMA SameCommand ==
  ASSUME NEW rules, NEW m1, NEW m2, m1.topic = m2.topic, m1.payload.json = m2.payload.json,
         RawText(rules, m1) # NoText, RawText(rules, m2) # NoText,
         ApplyTransform(RawText(rules, m1), FirstRule(rules, m1.topic).transform)
           = ApplyTransform(RawText(rules, m2), FirstRule(rules, m2.topic).transform)
  PROVE  Translate(rules, m1) = Translate(rules, m2)
BY DEF Translate

(* What is known of the last command when there is one.                     *)
LEMMA TranslatedIs ==
  ASSUME MapperIInv, cmd.ret = 0
  PROVE  /\ IsMessage(msg) /\ cmd = Translate(g_config, msg)
         /\ Matching(g_config, msg.topic) # {} /\ msg.payload.json
         /\ Text # NoText /\ IsText(Text)
         /\ Rule.mqtt_field \in DOMAIN msg.payload.fields
         /\ Text = msg.payload.fields[Rule.mqtt_field].text
         /\ Rule.matter_cluster \in CLUSTER_MAP
         /\ cmd.value_int = ApplyTransform(Text, Rule.transform).int
         /\ cmd.value_bool = ApplyTransform(Text, Rule.transform).bool
<1>1. IsMessage(msg) /\ cmd = Translate(g_config, msg)
  BY DEF MapperIInv
<1> QED  BY <1>1, TranslateIs, TextIs DEF Rule, Text

(* A reading reaches the Matter server within a hundredth of what the       *)
(* sensor sent, for any rules and any reading of six digits, of either sign *)
(* (mapper.c:78-80).                                                        *)
THEOREM ReadingsAreClose == MapperSpec => []HundredthsWithinOne
<1>1. MapperIInv => HundredthsWithinOne
  <2> SUFFICES ASSUME MapperIInv, cmd.ret = 0, Rule.transform = "multiply_100"
               PROVE  cmd.value_int - Text.h \in -1 .. 1
    BY DEF HundredthsWithinOne
  <2>1. IsText(Text) /\ cmd.value_int = Hundredths(Text.h)
    BY TranslatedIs, ValueIs
  <2>2. Text.h \in Int /\ -999999 <= Text.h /\ Text.h <= 999999
    BY <2>1, SMT DEF IsText
  <2> QED  BY <2>1, <2>2, HundredthsClose, SMT
<1> QED  BY <1>1, MapperInductive, PTL DEF MapperSpec

(* A command is what the rules in force make of the message, and a boolean, *)
(* a number and either in quotes switch alike, for any rules and any other  *)
(* fields of the payload (mapper.c:89-105, 128-137).                        *)
THEOREM EncodingsMeanTheSame == MapperSpec => []EncodingsAgree
<1>1. MapperIInv => EncodingsAgree
  <2> SUFFICES ASSUME MapperIInv, cmd.ret = 0, Rule.transform = "none",
                      NEW E \in Encodings,
                      msg.payload.fields[Rule.mqtt_field] \in E, NEW v \in E
               PROVE  Translate(g_config, [msg EXCEPT !.payload.fields[Rule.mqtt_field] = v]) = cmd
    BY DEF EncodingsAgree
  <2> DEFINE f == Rule.mqtt_field
             other == [msg EXCEPT !.payload.fields[f] = v]
  <2>1. /\ IsMessage(msg) /\ cmd = Translate(g_config, msg)
        /\ f \in DOMAIN msg.payload.fields /\ Text = msg.payload.fields[f].text
        /\ Text # NoText
    BY TranslatedIs
  <2>2. /\ other.topic = msg.topic /\ other.payload.json = msg.payload.json
        /\ f \in DOMAIN other.payload.fields /\ other.payload.fields[f] = v
    BY <2>1 DEF IsMessage
  <2> HIDE DEF other
  <2>3. RawText(g_config, other) = v.text
    BY <2>2 DEF RawText, JsonGetField, Rule
  <2>4. ASSUME NEW x \in E, NEW y \in E
        PROVE  x.text # NoText /\ NoneTransform(x.text) = NoneTransform(y.text)
    <3>1. ToInt(0) = 0 /\ ToInt(100) = 1
      BY SMT DEF ToInt, Signed, Magnitude
    <3>2. x.text # NoText /\ y.text # NoText
      BY DEF Encodings, Bool, Number, String, Word, Decimal, NoText
    <3>3. \/ /\ x.text.spelling = "true" \/ (x.text.spelling # "true" /\ x.text.h = 100)
             /\ y.text.spelling = "true" \/ (y.text.spelling # "true" /\ y.text.h = 100)
          \/ /\ x.text.spelling # "true" /\ x.text.h = 0
             /\ y.text.spelling # "true" /\ y.text.h = 0
      BY DEF Encodings, Bool, Number, String, Word, Decimal
    <3> QED  BY <3>1, <3>2, <3>3 DEF NoneTransform
  <2>5. v.text # NoText /\ NoneTransform(Text) = NoneTransform(v.text)
    BY <2>1, <2>4
  <2>6. /\ RawText(g_config, msg) = Text
        /\ FirstRule(g_config, msg.topic).transform = "none"
        /\ FirstRule(g_config, other.topic).transform = "none"
    BY <2>2 DEF Text, Rule
  <2>7. \A text : ApplyTransform(text, "none") = NoneTransform(text)
    BY DEF ApplyTransform
  <2>8. Translate(g_config, other) = Translate(g_config, msg)
    <3>1. /\ RawText(g_config, other) # NoText /\ RawText(g_config, msg) # NoText
      BY <2>1, <2>3, <2>5, <2>6
    <3>2. ApplyTransform(RawText(g_config, other),
                             FirstRule(g_config, other.topic).transform)
            = ApplyTransform(RawText(g_config, msg),
                                 FirstRule(g_config, msg.topic).transform)
      BY <2>3, <2>5, <2>6, <2>7
    <3> QED  BY <2>2, <3>1, <3>2, SameCommand
  <2> QED  BY <2>1, <2>8 DEF other
<1> QED  BY <1>1, MapperInductive, PTL DEF MapperSpec

(* The rules with the plain transform match what the rules match, and the   *)
(* same rule comes first.                                                   *)
LEMMA PlainIs ==
  ASSUME NEW rules \in Seq(DeviceRule), NEW topic, Matching(rules, topic) # {}
  PROVE  /\ Matching(Plain(rules), topic) = Matching(rules, topic)
         /\ LET rule == FirstRule(rules, topic)
                plain == FirstRule(Plain(rules), topic)
            IN  /\ plain.transform = "none" /\ plain.mqtt_field = rule.mqtt_field
                /\ plain.matter_cluster = rule.matter_cluster
<1> DEFINE plain == Plain(rules)
           S == Matching(rules, topic)
<1>1. /\ DOMAIN rules = 1 .. Len(rules) /\ Len(rules) \in Nat
      /\ \A k \in DOMAIN rules : rules[k] \in DeviceRule
  OBVIOUS
<1>2. /\ DOMAIN plain = DOMAIN rules
      /\ \A k \in DOMAIN rules :
           /\ plain[k].transform = "none" /\ plain[k].mqtt_topic = rules[k].mqtt_topic
           /\ plain[k].mqtt_field = rules[k].mqtt_field
           /\ plain[k].matter_cluster = rules[k].matter_cluster
  BY <1>1 DEF Plain, DeviceRule
<1> HIDE DEF plain
<1>3. Matching(plain, topic) = S
  BY <1>2 DEF Matching
<1>4. S \subseteq DOMAIN rules
  BY DEF Matching
<1> HIDE DEF S
<1> DEFINE k == CHOOSE n \in S : \A j \in S : n <= j
<1>5. k \in DOMAIN rules
  <2>1. \E n \in S : \A j \in S : n <= j
    BY <1>1, <1>4, FirstExists DEF S
  <2>2. k \in S
    BY <2>1
  <2> QED  BY <1>4, <2>2
<1>6. FirstRule(rules, topic) = rules[k] /\ FirstRule(plain, topic) = plain[k]
  BY <1>3 DEF FirstRule, S
<1> QED  BY <1>2, <1>3, <1>5, <1>6 DEF plain, S

(* invert reverses the plain transform for every value but a JSON true, for *)
(* any rules before and after the one that matches (mapper.c:82-87).        *)
THEOREM InvertIsReverse == MapperSpec => []InvertReverses
<1>1. MapperIInv => InvertReverses
  <2> DEFINE plain == Plain(g_config)
             text == Text
  <2> SUFFICES ASSUME MapperIInv, cmd.ret = 0, Rule.transform = "invert"
               PROVE  cmd.value_bool = 1 - Translate(plain, msg).value_bool
                        <=> text.spelling # "true"
    BY DEF InvertReverses
  <2>1. /\ cmd = Translate(g_config, msg) /\ Matching(g_config, msg.topic) # {}
        /\ text # NoText /\ IsText(text)
        /\ Rule.matter_cluster \in CLUSTER_MAP
        /\ cmd.value_bool = ApplyTransform(text, Rule.transform).bool
    BY TranslatedIs
  <2>2. g_config \in Seq(DeviceRule)
    BY DEF MapperIInv
  <2>3. /\ Matching(plain, msg.topic) # {}
        /\ FirstRule(plain, msg.topic).transform = "none"
        /\ FirstRule(plain, msg.topic).matter_cluster = Rule.matter_cluster
        /\ FirstRule(plain, msg.topic).mqtt_field = Rule.mqtt_field
    BY <2>1, <2>2, PlainIs DEF Rule
  <2> HIDE DEF plain
  <2>4. RawText(plain, msg) = text
    BY <2>3 DEF RawText, Text, Rule
  <2>5. Translate(plain, msg).value_bool = NoneTransform(text).bool
    <3>1. msg.payload.json
      BY TranslatedIs
    <3>2. ApplyTransform(text, "none") = NoneTransform(text)
      BY DEF ApplyTransform
    <3> QED  BY <2>1, <2>3, <2>4, <3>1, <3>2 DEF Translate
  <2>6. cmd.value_bool = Invert(text).bool
    BY <2>1, ValueIs
  <2> HIDE DEF text
  <2>7. Invert(text).bool = 1 - NoneTransform(text).bool <=> text.spelling # "true"
    <3>1. CASE text.spelling = "true"
      <4>1. text.h = 0
        BY <2>1, <3>1, SMT DEF IsText
      <4>2. ToInt(0) = 0
        BY SMT DEF ToInt, Signed, Magnitude
      <4>3. Invert(text).bool = 1 /\ NoneTransform(text).bool = 1
        BY <3>1, <4>1, <4>2, SMT DEF Invert, NoneTransform, AsBool
      <4> QED  BY <3>1, <4>3, SMT
    <3>2. CASE text.spelling # "true"
      <4>1. NoneTransform(text).bool = AsBool(ToInt(text.h))
        BY <3>2 DEF NoneTransform
      <4>2. Invert(text).bool = 1 - AsBool(ToInt(text.h))
        BY DEF Invert
      <4> QED  BY <3>2, <4>1, <4>2
    <3> QED  BY <3>1, <3>2
  <2> QED  BY <2>5, <2>6, <2>7
<1> QED  BY <1>1, MapperInductive, PTL DEF MapperSpec
=============================================================================

----------------------------- MODULE MqttClient -----------------------------
(***************************************************************************)
(* src/mqtt/mqtt_client.c: the loop of the MQTT thread and the callbacks   *)
(* that libmosquitto makes from inside mosquitto_loop, on the same thread. *)
(* Messages, which change none of this, are Bridge's OnMessage.            *)
(***************************************************************************)
EXTENDS Integers

CONSTANT N   \* config->device_count, one topic each

ASSUME DeviceAssumption == N \in Nat

VARIABLES
  state, running,      \* mqtt_client_t
  pc,                  \* where the thread is
  i,                   \* the topic on_connect is at
  ret,                 \* what mosquitto_loop returned
  sock,                \* libmosquitto: "none", "tcp" (CONNECT sent), "up" (acknowledged)
  subscribed, refused  \* the topics of this session, and those that failed

session == <<subscribed, refused>>
vars == <<state, running, pc, i, ret, sock, session>>

Topics == 1 .. N
Lost == {"DISCONNECTED", "RECONNECTING"}

(* The state after mqtt_client_init.                                        *)
Init ==
  /\ state = "DISCONNECTED" /\ running = TRUE
  /\ pc = "top" /\ i = 1 /\ ret = "ok"
  /\ sock = "none" /\ subscribed = {} /\ refused = {}

-----------------------------------------------------------------------------
(* libmosquitto, as far as the client can see it.  The session is clean: a  *)
(* new connection starts without subscriptions.                             *)

Opens == sock' = "tcp" /\ subscribed' = {} /\ refused' = {}
Closes == sock' = "none" /\ subscribed' = {} /\ refused' = {}

-----------------------------------------------------------------------------
(* mqtt_client_run.                                                         *)

At(l) == pc = l

(* The while condition and the test for a lost connection.                  *)
LoopTopUnlessLost ==
  /\ At("top")
  /\ \/ state \in Lost /\ state' = "CONNECTING" /\ pc' = "connect"
     \/ ~running /\ state \notin Lost /\ pc' = "exited" /\ UNCHANGED state
     \/ running /\ state \notin Lost /\ pc' = "loop" /\ UNCHANGED state
  /\ UNCHANGED <<running, i, ret, sock, session>>
LoopTop ==
  /\ At("top")
  /\ \/ ~running /\ pc' = "exited" /\ UNCHANGED state
     \/ running /\ state \in Lost /\ state' = "CONNECTING" /\ pc' = "connect"
     \/ running /\ state \notin Lost /\ pc' = "loop" /\ UNCHANGED state
  /\ UNCHANGED <<running, i, ret, sock, session>>

(* mosquitto_connect closes what there was and sends CONNECT.               *)
ConnectFailsSilently ==
  /\ At("connect") /\ Closes
  /\ pc' = "sleep" /\ UNCHANGED <<state, running, i, ret>>
ConnectFails ==
  /\ At("connect") /\ Closes
  /\ state' = "RECONNECTING" /\ pc' = "sleep"
  /\ UNCHANGED <<running, i, ret>>
ConnectSent ==
  /\ At("connect") /\ Opens
  /\ pc' = "loop"
  /\ UNCHANGED <<state, running, i, ret>>

(* sleep(RETRY_DELAY_S) and continue.                                       *)
Sleep == At("sleep") /\ pc' = "top" /\ UNCHANGED <<state, running, i, ret, sock, session>>

(* mosquitto_loop returns: an error whenever there is no socket, and also   *)
(* when waiting on one fails, without a callback.                           *)
LoopReturns ==
  /\ At("loop")
  /\ \E r \in {"ok", "error"} : (sock = "none" => r = "error") /\ ret' = r
  /\ pc' = "check"
  /\ UNCHANGED <<state, running, i, sock, session>>

(* A loop error counts only while the client takes itself for connected.    *)
CheckKeepsState ==
  /\ At("check")
  /\ pc' = IF ret = "error" /\ state = "CONNECTED" THEN "reconnect" ELSE "top"
  /\ UNCHANGED <<state, running, i, ret, sock, session>>
Check ==
  /\ At("check")
  /\ IF ret = "error" /\ state = "CONNECTED"
       THEN state' = "RECONNECTING" /\ pc' = "reconnect"
       ELSE pc' = "top" /\ UNCHANGED state
  /\ UNCHANGED <<running, i, ret, sock, session>>

(* mosquitto_reconnect, whose result nobody reads.                          *)
Reconnect ==
  /\ At("reconnect")
  /\ Opens \/ Closes
  /\ pc' = "top"
  /\ UNCHANGED <<state, running, i, ret>>

-----------------------------------------------------------------------------
(* Callbacks inside mosquitto_loop.                                         *)

(* on_connect with rc = 0: CONNECTED, then one subscribe per topic.         *)
OnConnectResumes ==
  /\ At("loop") /\ sock = "tcp"
  /\ sock' = "up" /\ state' = "CONNECTED"
  /\ pc' = "subscribe" /\ i' = i
  /\ UNCHANGED <<running, ret, session>>
OnConnect ==
  /\ At("loop") /\ sock = "tcp"
  /\ sock' = "up" /\ state' = "CONNECTED"
  /\ pc' = "subscribe" /\ i' = 1
  /\ UNCHANGED <<running, ret, session>>

Subscribe ==
  /\ At("subscribe") /\ i <= N
  /\ \/ subscribed' = subscribed \cup {i} /\ UNCHANGED refused
     \/ refused' = refused \cup {i} /\ UNCHANGED subscribed
  /\ i' = i + 1
  /\ UNCHANGED <<state, running, pc, ret, sock>>
Subscribed ==
  /\ At("subscribe") /\ i > N
  /\ pc' = "loop"
  /\ UNCHANGED <<state, running, i, ret, sock, session>>

(* on_connect with rc # 0; the library then closes, as for any loss.        *)
OnConnectRefused ==
  /\ At("loop") /\ sock = "tcp"
  /\ state' = "RECONNECTING" /\ pc' = "refused"
  /\ UNCHANGED <<running, i, ret, sock, session>>

(* The connection is lost, or 60 s pass without an answer: the library      *)
(* closes it, calls on_disconnect, and the loop returns an error.           *)
OnDisconnectUnlessConnecting ==
  /\ pc \in {"loop", "refused"} /\ sock # "none"
  /\ state' = (IF state = "CONNECTING" THEN state ELSE "RECONNECTING")
  /\ Closes /\ ret' = "error" /\ pc' = "check"
  /\ UNCHANGED <<running, i>>
OnDisconnect ==
  /\ pc \in {"loop", "refused"} /\ sock # "none"
  /\ state' = "RECONNECTING"
  /\ Closes /\ ret' = "error" /\ pc' = "check"
  /\ UNCHANGED <<running, i>>

-----------------------------------------------------------------------------
(* mqtt_client_stop, from the main thread at any time.                      *)
Stop ==
  /\ running /\ running' = FALSE
  /\ UNCHANGED <<state, pc, i, ret, sock, session>>

(* mqtt_client_destroy, after the join.  mosquitto_disconnect may make the  *)
(* callback when there is a connection to end.                              *)
Destroy ==
  /\ At("exited") /\ pc' = "destroyed"
  /\ UNCHANGED state \/ (sock # "none" /\ state' = "RECONNECTING")
  /\ Closes
  /\ UNCHANGED <<running, i, ret>>

Answer == OnConnect \/ OnConnectRefused \/ OnDisconnect
ThreadStep ==
  \/ LoopTop \/ ConnectFails \/ ConnectSent \/ Sleep \/ LoopReturns \/ Check
  \/ Reconnect \/ Subscribe \/ Subscribed \/ OnConnectRefused \/ OnConnect
  \/ OnDisconnect

Next == ThreadStep \/ Stop \/ Destroy

(* Calls into the library return (mosquitto_loop after 100 ms), and its     *)
(* keepalive gives up an attempt that nobody answers, however often the     *)
(* loop returns before.  Nothing obliges the broker to accept.              *)
Fairness ==
  /\ WF_vars(ThreadStep)
  /\ SF_vars(At("loop") /\ sock = "tcp" /\ Answer)

Spec == Init /\ [][Next]_vars /\ Fairness

-----------------------------------------------------------------------------
(* Type invariant: mqtt_client_t, and what the library keeps.               *)
TypeOK ==
  /\ state \in Lost \cup {"CONNECTING", "CONNECTED"}
  /\ running \in BOOLEAN
  /\ pc \in {"top", "connect", "sleep", "loop", "check", "reconnect",
             "subscribe", "refused", "exited", "destroyed"}
  /\ i \in 1 .. N + 1
  /\ ret \in {"ok", "error"}
  /\ sock \in {"none", "tcp", "up"}
  /\ subscribed \subseteq Topics /\ refused \subseteq Topics

(* At the top of the loop and when mosquitto_loop is entered, the state of  *)
(* the client is the state of its socket: it never waits on a connection    *)
(* that is gone, and never gives up one that is there (lines 46-57, the     *)
(* callback, against 149-154, the error path, which both reset the state).  *)
StateMatchesSocket ==
  pc \in {"top", "loop"} =>
    /\ state = "CONNECTED" <=> sock = "up"
    /\ state = "CONNECTING" => sock = "tcp"

(* A client that is connected has tried every topic in this session, after  *)
(* any number of losses: no session starts with a hole in its subscriptions *)
(* (lines 36-43).                                                           *)
SessionComplete ==
  state = "CONNECTED" /\ sock = "up" /\ pc # "subscribe" =>
    subscribed \cup refused = Topics

(* The inductive invariant behind the two.                                  *)
SocketAt ==
  /\ pc = "connect" => state = "CONNECTING"
  /\ pc = "refused" => state = "RECONNECTING"
  /\ pc \in {"sleep", "reconnect"} => state = "RECONNECTING"
  /\ pc = "sleep" => sock = "none"
  /\ pc = "subscribe" => state = "CONNECTED" /\ sock = "up"
  /\ pc = "subscribe" => 1 .. (i - 1) \subseteq subscribed \cup refused
  /\ pc = "check" =>
       /\ state # "DISCONNECTED"
       /\ state = "CONNECTED" <=> sock = "up"
       /\ state = "CONNECTING" => sock = "tcp"
  /\ pc = "loop" => state \notin Lost
  /\ pc = "top" => (state = "DISCONNECTED" => sock = "none")
IInv == TypeOK /\ StateMatchesSocket /\ SessionComplete /\ SocketAt

(* An attempt ends: with a connection, or with another attempt, as long as  *)
(* nobody stops the client; a client without a connection never rests.      *)
KeepsTrying ==
  /\ state = "CONNECTING" /\ running ~> state # "CONNECTING" \/ ~running
  /\ state \in Lost /\ running ~> state = "CONNECTING" \/ ~running

(* mqtt_client_stop ends the loop, wherever the thread is, whatever the     *)
(* broker does: bridge_destroy can join it.                                 *)
StopEndsRun == ~running ~> pc \in {"exited", "destroyed"}
=============================================================================

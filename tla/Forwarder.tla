----------------------------- MODULE Forwarder -----------------------------
(***************************************************************************)
(* What the daemon promises about the messages the broker delivers, without *)
(* its threads: they wait in one line, and each that was accepted leaves   *)
(* the line once, in order, by one of four ways out (the metrics of        *)
(* src/bridge.h, and the one way that no metric counts).                   *)
(***************************************************************************)
EXTENDS Naturals, Sequences

CONSTANTS Message,
          Mapped,    \* the messages some mapping rule translates
          Capacity   \* RB_CAPACITY; one more may be in the dispatcher's hand

VARIABLES pending,    \* accepted and not yet settled, oldest first
          tally,      \* what became of all messages so far
          connected,  \* the Matter server can be reached
          phase,      \* "serving", then "last" or "done" once stopped
          open        \* the line takes messages

vars == <<pending, tally, connected, phase, open>>

Fates == {"sent", "dropped", "errors", "unmapped"}

Init ==
  /\ pending = <<>>
  /\ tally = [f \in Fates \cup {"accepted", "refused"} |-> 0]
  /\ connected = FALSE
  /\ phase = "serving"
  /\ open = TRUE

Add(f) == tally' = [tally EXCEPT ![f] = tally[f] + 1]

Accept(m) ==
  /\ open /\ Len(pending) <= Capacity
  /\ pending' = Append(pending, m)
  /\ Add("accepted")
  /\ UNCHANGED <<connected, phase, open>>

(* Only a line that is full refuses, as long as it is open.                 *)
Refuse ==
  /\ open /\ Len(pending) >= Capacity
  /\ Add("refused")
  /\ UNCHANGED <<pending, connected, phase, open>>

(* The oldest message, one of M, is settled; after a stop, it was the last. *)
Settle(f, M) ==
  /\ phase # "done"
  /\ pending # <<>> /\ Head(pending) \in M
  /\ pending' = Tail(pending)
  /\ Add(f)
  /\ phase' = IF phase = "serving" THEN "serving" ELSE "done"
  /\ UNCHANGED <<connected, open>>

Forward == connected /\ Settle("sent", Mapped)
Fail == Settle("errors", Mapped)
Drop == ~connected /\ Settle("dropped", Message)
Ignore == Settle("unmapped", Message \ Mapped)

LinkChanges == connected' = ~connected /\ UNCHANGED <<pending, tally, phase, open>>

(* A stop lets one more message through at most, and what then waits stays. *)
Stop ==
  /\ phase = "serving" /\ phase' \in {"last", "done"}
  /\ UNCHANGED <<pending, tally, connected, open>>

(* The line is closed only after the stop.                                  *)
Close ==
  /\ phase # "serving" /\ open' = FALSE
  /\ UNCHANGED <<pending, tally, connected, phase>>

Next ==
  \/ \E m \in Message : Accept(m)
  \/ Refuse \/ Forward \/ Fail \/ Drop \/ Ignore
  \/ LinkChanges \/ Stop \/ Close

Spec == Init /\ [][Next]_vars
=============================================================================

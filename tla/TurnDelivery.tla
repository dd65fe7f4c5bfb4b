---------------------------- MODULE TurnDelivery ----------------------------
(***************************************************************************)
(* What background persistence promises to the interviews: the writes of a *)
(* session are sent to the Core API in the order they were scheduled, one  *)
(* at a time, each once; no session waits for another.                     *)
(***************************************************************************)
EXTENDS Integers

CONSTANTS
  Sessions,
  MaxItems   \* bound: writes scheduled per session

VARIABLES
  scheduled,  \* scheduled[s]: writes scheduled for session s
  sent,       \* sent[s]: writes sent
  busy        \* busy[s]: the last one sent is not answered yet

vars == <<scheduled, sent, busy>>

Init ==
  /\ scheduled = [s \in Sessions |-> 0]
  /\ sent = [s \in Sessions |-> 0]
  /\ busy = [s \in Sessions |-> FALSE]

Schedule(s) ==
  /\ scheduled[s] < MaxItems
  /\ scheduled' = [scheduled EXCEPT ![s] = @ + 1]
  /\ UNCHANGED <<sent, busy>>

Send(s) ==
  /\ ~busy[s]
  /\ sent[s] < scheduled[s]
  /\ sent' = [sent EXCEPT ![s] = @ + 1]
  /\ busy' = [busy EXCEPT ![s] = TRUE]
  /\ UNCHANGED scheduled

\* A write succeeds or fails; a failed one is not sent again.
Answer(s) ==
  /\ busy[s]
  /\ busy' = [busy EXCEPT ![s] = FALSE]
  /\ UNCHANGED <<scheduled, sent>>

Next == \E s \in Sessions : Schedule(s) \/ Send(s) \/ Answer(s)

Spec == Init /\ [][Next]_vars
=============================================================================

----------------------- MODULE BackgroundPersistence -----------------------
(***************************************************************************)
(* The background persistence of turns, violations and elapsed time: one   *)
(* asyncio task per write, serialised by a lock per session.  A lock is    *)
(* made by the first task that needs it and dropped by the callback of the *)
(* last one, so that the table of locks does not grow for ever.            *)
(*                                                                         *)
(* A task is cut where the event loop may run another one: before its      *)
(* first step, while it waits for the lock, while it waits for the Core    *)
(* API, and before its callback.  asyncio.Lock is fair and the event loop  *)
(* takes the first steps of tasks in the order of their creation, so that  *)
(* those waiting for a lock are served by number.  A lock is held as long  *)
(* as one of its tasks is writing; between the release and the next one's  *)
(* step it is free, though somebody waits.                                 *)
(***************************************************************************)
EXTENDS Integers

CONSTANTS
  Sessions,
  MaxItems,  \* bound: writes scheduled per session
  Drainers   \* the finalizers, or a shutdown, that drain

ASSUME PersistenceAssumption == MaxItems \in Nat

VARIABLES
  scheduled,  \* scheduled[s]: tasks created for session s
  phase,      \* phase[s][n]: where the n-th task of s is
  lockOf,     \* lockOf[s][n]: the lock it asked for, by number
  table,      \* _session_locks: table[s] is the lock's number, 0 without one
  made,       \* made[s]: locks made for s so far
  sent,       \* sent[s]: writes sent for s
  drain       \* drain[d]: what drainer d waits for

tasks == <<scheduled, phase, lockOf>>
locks == <<table, made>>
vars == <<tasks, locks, sent, drain>>

Items == 1 .. MaxItems
Phase == {"unborn", "created", "waiting", "writing", "returned", "gone"}

\* The tasks in _background_persistence_tasks.
Tracked == {"created", "waiting", "writing", "returned"}
Active(s) == {n \in Items : phase[s][n] \in Tracked}

Drain == [stage : {"idle", "waiting", "over"},
          tasks : SUBSET (Sessions \X Items),  \* those gathered
          upto : [Sessions -> 0 .. MaxItems]]  \* history: scheduled by then

Init ==
  /\ scheduled = [s \in Sessions |-> 0]
  /\ phase = [s \in Sessions |-> [n \in Items |-> "unborn"]]
  /\ lockOf = [s \in Sessions |-> [n \in Items |-> 0]]
  /\ table = [s \in Sessions |-> 0]
  /\ made = [s \in Sessions |-> 0]
  /\ sent = [s \in Sessions |-> 0]
  /\ drain = [d \in Drainers |-> [stage |-> "idle", tasks |-> {},
                                  upto |-> [s \in Sessions |-> 0]]]

Move(s, n, to) == phase' = [phase EXCEPT ![s][n] = to]

-----------------------------------------------------------------------------
\* _schedule, schedule_elapsed_persistence and _track_task: a copy of the turn
\* is handed to a new task, which is tracked at once.
Schedule(s) ==
  /\ scheduled[s] < MaxItems
  /\ scheduled' = [scheduled EXCEPT ![s] = @ + 1]
  /\ Move(s, scheduled[s] + 1, "created")
  /\ UNCHANGED <<lockOf, locks, sent, drain>>

\* The lock is held by a task that writes, and asked for by those that wait.
Held(s, g) == \E m \in Items : phase[s][m] = "writing" /\ lockOf[s][m] = g
Wanted(s, g) == \E m \in Items : phase[s][m] = "waiting" /\ lockOf[s][m] = g

SessionLock(s) == IF table[s] = 0 THEN made[s] + 1 ELSE table[s]

Write(s, n) ==
  /\ Move(s, n, "writing")
  /\ sent' = [sent EXCEPT ![s] = @ + 1]

\* The first step of persist_turn: setdefault of the lock, which is taken at
\* once when it is free and nobody waits for it.
Start(s, n) ==
  /\ phase[s][n] = "created"
  /\ \A m \in Items : m < n => phase[s][m] # "created"
  /\ table' = [table EXCEPT ![s] = SessionLock(s)]
  /\ made' = [made EXCEPT ![s] = IF table[s] = 0 THEN @ + 1 ELSE @]
  /\ lockOf' = [lockOf EXCEPT ![s][n] = SessionLock(s)]
  /\ \/ /\ Held(s, SessionLock(s)) \/ Wanted(s, SessionLock(s))
        /\ Move(s, n, "waiting")
        /\ UNCHANGED sent
     \/ /\ ~Held(s, SessionLock(s)) /\ ~Wanted(s, SessionLock(s))
        /\ Write(s, n)
  /\ UNCHANGED <<scheduled, drain>>

\* The longest waiter takes the lock that was released.
Acquire(s, n) ==
  /\ phase[s][n] = "waiting"
  /\ ~Held(s, lockOf[s][n])
  /\ \A m \in Items : m < n /\ lockOf[s][m] = lockOf[s][n]
                        => phase[s][m] # "waiting"
  /\ Write(s, n)
  /\ UNCHANGED <<scheduled, lockOf, locks, drain>>

\* Mutant: a write that fails is sent again.
ReturnOrResend(s, n) ==
  /\ phase[s][n] = "writing"
  /\ \/ Move(s, n, "returned") /\ UNCHANGED sent
     \/ sent' = [sent EXCEPT ![s] = @ + 1] /\ UNCHANGED phase
  /\ UNCHANGED <<scheduled, lockOf, locks, drain>>

\* Mutant: without a timeout the write on a session's first lock never ends.
ReturnHolding(s, n) ==
  /\ phase[s][n] = "writing"
  /\ lockOf[s][n] > 1
  /\ Move(s, n, "returned")
  /\ UNCHANGED <<scheduled, lockOf, locks, sent, drain>>

\* The Core API has answered, or the call has failed: the lock is released.
Return(s, n) ==
  /\ phase[s][n] = "writing"
  /\ Move(s, n, "returned")
  /\ UNCHANGED <<scheduled, lockOf, locks, sent, drain>>

\* Mutant: the lock is dropped whenever it is not held.
DropFreeLock(s, n) == ~Held(s, table[s])

\* Mutant: the task still counts as active in its own callback.
DropWhenNoneActive(s, n) == Active(s) = {} /\ ~Held(s, table[s])

\* No other task of the session is tracked, and the lock is not held.
DropLock(s, n) == Active(s) = {n} /\ ~Held(s, table[s])

\* _task_finished; an error is logged and the write is lost.
TaskFinished(s, n) ==
  /\ phase[s][n] = "returned"
  /\ Move(s, n, "gone")
  /\ table' = [table EXCEPT ![s] = IF DropLock(s, n) THEN 0 ELSE @]
  /\ UNCHANGED <<scheduled, lockOf, made, sent, drain>>

-----------------------------------------------------------------------------
\* Mutant: only the writes on their way are awaited.
GatherWriting(S) ==
  {t \in S \X Items : phase[t[1]][t[2]] \in {"writing", "returned"}}

\* The tasks of some sessions as they are tracked now.
Gather(S) == {t \in S \X Items : t[2] \in Active(t[1])}

\* drain_background_persistence, of one session or of all.
StartDrain(d, S) ==
  /\ drain[d].stage = "idle"
  /\ drain' = [drain EXCEPT ![d] =
       [stage |-> "waiting", tasks |-> Gather(S),
        upto |-> [s \in Sessions |-> IF s \in S THEN scheduled[s] ELSE 0]]]
  /\ UNCHANGED <<tasks, locks, sent>>

\* gather returns when the last of them has ended, however it ended.
EndDrain(d) ==
  /\ drain[d].stage = "waiting"
  /\ \A t \in drain[d].tasks : phase[t[1]][t[2]] = "gone"
  /\ drain' = [drain EXCEPT ![d].stage = "over"]
  /\ UNCHANGED <<tasks, locks, sent>>

TaskStep(s, n) ==
  Start(s, n) \/ Acquire(s, n) \/ Return(s, n) \/ TaskFinished(s, n)

Drainable == {{s} : s \in Sessions} \union {Sessions}

Next ==
  \/ \E s \in Sessions : Schedule(s) \/ \E n \in Items : TaskStep(s, n)
  \/ \E d \in Drainers : EndDrain(d) \/ \E S \in Drainable : StartDrain(d, S)

Spec == Init /\ [][Next]_vars

\* The event loop runs what is ready and the Core API's client has a timeout;
\* nobody has to schedule a turn or to drain.
FairSpec ==
  /\ Spec
  /\ \A s \in Sessions : WF_vars(\E n \in Items : TaskStep(s, n))
  /\ \A d \in Drainers : WF_vars(EndDrain(d))

-----------------------------------------------------------------------------
\* Properties.

TypeOK ==
  /\ scheduled \in [Sessions -> 0 .. MaxItems]
  /\ phase \in [Sessions -> [Items -> Phase]]
  /\ lockOf \in [Sessions -> [Items -> Nat]]
  /\ table \in [Sessions -> Nat] /\ made \in [Sessions -> Nat]
  /\ sent \in [Sessions -> 0 .. MaxItems]
  /\ drain \in [Drainers -> Drain]

\* Although locks are dropped and made again while turns keep coming, the
\* writes of a session go out one by one in the order of the interview.
Delivery == INSTANCE TurnDelivery WITH
  busy <- [s \in Sessions |-> \E n \in Items : phase[s][n] = "writing"]

ImplementsDelivery == Delivery!Spec

\* A session with nothing pending keeps no lock.
NoLockLeftBehind == \A s \in Sessions : Active(s) = {} => table[s] = 0

\* When a drain returns, everything scheduled before it was called has been
\* sent and answered; what was scheduled meanwhile need not be.
DrainFlushes ==
  [][\A d \in Drainers, s \in Sessions :
       drain[d].stage = "waiting" /\ drain'[d].stage = "over" =>
         /\ drain[d].upto[s] <= sent[s]
         /\ \A n \in 1 .. drain[d].upto[s] : phase[s][n] # "writing"]_vars

\* Everything scheduled is sent in the end (a session schedules finitely much).
EverythingSent == \A s \in Sessions : <>[](sent[s] = scheduled[s])
=============================================================================

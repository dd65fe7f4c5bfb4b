------------------------------ MODULE KeyPool ------------------------------
(***************************************************************************)
(* The pool of Groq keys that the live calls of one process share.  A call *)
(* rotates the pool by the slot of its turn, takes a list of the keys that *)
(* are usable at that moment, and asks one after the other: a failure      *)
(* either lets its key cool down, or disables it, or ends the call.        *)
(*                                                                         *)
(* A call is cut where it awaits the provider; nothing else interleaves.   *)
(* With LiveKit's default of a process per job there is one caller at a    *)
(* time; jobs run as threads of one process share the pool.                *)
(*                                                                         *)
(* Time: cooling[k] is what is left of _key_unavailable_until[k] - now,    *)
(* and 0 when the entry is absent or has expired.                          *)
(***************************************************************************)
EXTENDS Integers, Sequences

CONSTANTS
  Callers,            \* the callers of one process
  Keys, NoKey,        \* API keys, and a setting that is empty
  Pool,               \* _api_key_pool: keys without repetition
  RateLimitCooldown,  \* GROQ_KEY_RATE_LIMIT_COOLDOWN_SECS
  TransientCooldown,  \* GROQ_KEY_TRANSIENT_COOLDOWN_SECS
  MaxRetryAfter       \* bound: the greatest retry-after of the provider

N == Len(Pool)

ASSUME PoolAssumption ==
  /\ Pool \in Seq(Keys) /\ N > 0
  /\ \A i, j \in 1 .. N : Pool[i] = Pool[j] => i = j
  /\ RateLimitCooldown \in Nat /\ TransientCooldown \in Nat
  /\ MaxRetryAfter \in Nat

VARIABLES
  cooling,   \* cooling[k]: how long k is still unavailable
  disabled,  \* _disabled_keys
  call,      \* call[c]: the call of caller c
  rejected   \* history: the keys the provider has ever rejected

vars == <<cooling, disabled, call, rejected>>

\* Offsets into the rotated pool: 0 is the slot's own key.
Offsets == 0 .. N - 1

\* How a call ends: with an answer or an error raised to the caller, without a
\* candidate, or with the last of its candidates.
Outcome == {"over", "no_key", "exhausted"}
Call == [stage : {"idle", "asking"},
         slot : Offsets,
         at : Offsets,              \* the candidate being asked
         left : SUBSET Offsets,     \* the candidates after it
         unusable : SUBSET Keys,    \* history: keys left out at the start
         failed : SUBSET Keys,      \* history: keys that failed this call
         outcome : Outcome]

Ended(outcome) ==
  [stage |-> "idle", slot |-> 0, at |-> 0, left |-> {}, unusable |-> {},
   failed |-> {}, outcome |-> outcome]

\* The key at an offset of the rotated pool: (start + offset) % len(pool).
Place(slot, o) == IF slot + o < N THEN slot + o + 1 ELSE slot + o - N + 1
KeyAt(slot, o) == Pool[Place(slot, o)]
Asked(c) == KeyAt(call[c].slot, call[c].at)

First(S) == {o \in S : \A p \in S : o <= p}

Init ==
  /\ cooling = [k \in Keys |-> 0]
  /\ disabled = {}
  /\ call = [c \in Callers |-> Ended("over")]
  /\ rejected = {}

-----------------------------------------------------------------------------
\* The configuration of the pool.

\* The keys among some settings, each at its first place.
DistinctKeys(settings) ==
  LET Kept[i \in 0 .. Len(settings)] ==
        IF i = 0 THEN <<>>
        ELSE IF \/ settings[i] = NoKey
                \/ \E j \in 1 .. (i - 1) : settings[j] = settings[i]
             THEN Kept[i - 1]
             ELSE Append(Kept[i - 1], settings[i])
  IN Kept[Len(settings)]

\* Keys of their own for interviews, otherwise the service's other keys.
ApiKeyPool(configured, source) ==
  LET own == DistinctKeys(configured)
  IN IF own # <<>> THEN own ELSE DistinctKeys(source)

-----------------------------------------------------------------------------
\* A call.

Usable(k) == k \notin disabled /\ cooling[k] = 0

\* Mutant: keys that cool down are candidates as well.
CandidatesWithCooling(slot) == {o \in Offsets : KeyAt(slot, o) \notin disabled}

\* _ordered_candidates: the offsets of the usable keys.
Candidates(slot) == {o \in Offsets : Usable(KeyAt(slot, o))}

\* Mutant: the most distant candidate is asked first.
AskFromTheEnd(c, slot, candidates, unusable, failed) ==
  \E o \in {q \in candidates : \A p \in candidates : p <= q} :
    call' = [call EXCEPT ![c] =
               [stage |-> "asking", slot |-> slot, at |-> o,
                left |-> candidates \ {o}, unusable |-> unusable,
                failed |-> failed, outcome |-> "over"]]

\* The next turn of the loop over the candidates.
Ask(c, slot, candidates, unusable, failed) ==
  \E o \in First(candidates) :
    call' = [call EXCEPT ![c] =
               [stage |-> "asking", slot |-> slot, at |-> o,
                left |-> candidates \ {o}, unusable |-> unusable,
                failed |-> failed, outcome |-> "over"]]

End(c, outcome) == call' = [call EXCEPT ![c] = Ended(outcome)]

\* The slot is the session's offset plus the number of the turn.
Begin(c) ==
  /\ call[c].stage = "idle"
  /\ \E slot \in Offsets :
       \/ /\ Candidates(slot) = {}
          /\ End(c, "no_key")
       \/ Ask(c, slot, Candidates(slot), {k \in Keys : ~Usable(k)}, {})
  /\ UNCHANGED <<cooling, disabled, rejected>>

\* Mutant: one other key is tried, no more.
RotateOnce(c) ==
  LET t == call[c]
  IN \/ /\ t.left = {} \/ t.failed # {}
        /\ End(c, "exhausted")
     \/ /\ t.failed = {}
        /\ Ask(c, t.slot, t.left, t.unusable, {Asked(c)})

Rotate(c) ==
  LET t == call[c]
  IN \/ /\ t.left = {}
        /\ End(c, "exhausted")
     \/ Ask(c, t.slot, t.left, t.unusable, t.failed \union {Asked(c)})

\* Mutant: a success forgets everything held against the key.
AnswerAndForgive(c) ==
  /\ call[c].stage = "asking"
  /\ cooling' = [cooling EXCEPT ![Asked(c)] = 0]
  /\ disabled' = disabled \ {Asked(c)}
  /\ End(c, "over")
  /\ UNCHANGED rejected

\* The provider answers: the key's cooldown is removed, whoever has set it.
\* The answer may still not be valid for the schema.
Answer(c) ==
  /\ call[c].stage = "asking"
  /\ cooling' = [cooling EXCEPT ![Asked(c)] = 0]
  /\ End(c, "over")
  /\ UNCHANGED <<disabled, rejected>>

\* Mutant: a negative retry-after is not clamped.
CooldownsUnclamped ==
  (-1 .. MaxRetryAfter) \union {RateLimitCooldown, TransientCooldown}

\* A rate limit, with or without retry-after, or a transient failure.
Cooldowns == (0 .. MaxRetryAfter) \union {RateLimitCooldown, TransientCooldown}

\* The new cooldown replaces the old one, a longer one included.
FailTransiently(c) ==
  /\ call[c].stage = "asking"
  /\ \E cooldown \in Cooldowns :
       cooling' = [cooling EXCEPT ![Asked(c)] = cooldown]
  /\ Rotate(c)
  /\ UNCHANGED <<disabled, rejected>>

\* The provider rejects the key for good.
Reject(c) ==
  /\ call[c].stage = "asking"
  /\ disabled' = disabled \union {Asked(c)}
  /\ cooling' = [cooling EXCEPT ![Asked(c)] = 0]
  /\ rejected' = rejected \union {Asked(c)}
  /\ Rotate(c)

\* Another error of the request is raised at once and not held against the
\* key; neither is the cancellation of the caller.
Raise(c) ==
  /\ call[c].stage = "asking"
  /\ End(c, "over")
  /\ UNCHANGED <<cooling, disabled, rejected>>

Tick ==
  /\ \E k \in Keys : cooling[k] > 0
  /\ cooling' = [k \in Keys |-> IF cooling[k] > 0 THEN cooling[k] - 1 ELSE 0]
  /\ UNCHANGED <<disabled, call, rejected>>

\* Every request ends: the clients have a timeout and no retries of their own.
Respond(c) == Answer(c) \/ FailTransiently(c) \/ Reject(c) \/ Raise(c)

Next ==
  \/ Tick
  \/ \E c \in Callers : Begin(c) \/ Respond(c)

Spec == Init /\ [][Next]_vars

FairSpec ==
  /\ Spec
  /\ WF_vars(Tick)
  /\ \A c \in Callers : WF_vars(Respond(c))

-----------------------------------------------------------------------------
\* Properties.

TypeOK ==
  /\ cooling \in [Keys -> Nat]
  /\ disabled \subseteq Keys
  /\ call \in [Callers -> Call]
  /\ rejected \subseteq Keys

\* A call moves past a key only when it was unusable at the start or has
\* failed this call, and asks none of those again: the order of the rotation
\* is kept, whatever other calls do to the keys meanwhile.
FallbackInOrder ==
  \A c \in Callers :
    call[c].stage = "asking" =>
      LET spent == call[c].unusable \union call[c].failed
      IN /\ Asked(c) \notin spent
         /\ \A o \in Offsets :
              o < call[c].at => KeyAt(call[c].slot, o) \in spent

\* A call fails for want of a key only when every key of the pool was
\* unusable at its start or has failed it.
FailsOnlyWhenExhausted ==
  [][\A c \in Callers :
       call[c].stage = "asking" /\ call'[c].outcome = "exhausted" =>
         \A i \in 1 .. N :
           Pool[i] \in call[c].unusable \union call[c].failed \union {Asked(c)}
    ]_vars

\* A key that the provider has rejected is no candidate of any call begun
\* afterward, though calls in flight may still get an answer with it.
RejectedStayOut ==
  [][\A c \in Callers :
       call[c].stage = "idle" /\ call'[c].stage = "asking" =>
         \A o \in call'[c].left \union {call'[c].at} :
           KeyAt(call'[c].slot, o) \notin rejected]_vars

\* A key that cools down is usable again or disabled: calls in flight may
\* renew its cooldown, but not for ever.
KeysRecover == \A k \in Keys : cooling[k] > 0 ~> cooling[k] = 0
=============================================================================

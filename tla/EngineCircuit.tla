----------------------------- MODULE EngineCircuit -----------------------------
(***************************************************************************)
(* The circuit breaker between core-backend and the AI engine              *)
(* (lib/engineCircuitBreaker.ts) together with its only user, the /predict *)
(* handler (controllers/signal.controller.ts).  The handler asks the       *)
(* breaker, posts to the engine (retries included) and reports the         *)
(* outcome; any number of requests may be waiting for the engine at once,  *)
(* while each piece of synchronous code between two awaits is one action.  *)
(*                                                                         *)
(* Time is counted in ticks, and kept as what remains of each deadline.    *)
(***************************************************************************)
EXTENDS Naturals

CONSTANTS
    Requests,           \* /predict requests that may be under way at once
    FailureThreshold,   \* AI_ENGINE_CIRCUIT_FAILURES
    Window,             \* AI_ENGINE_CIRCUIT_WINDOW_MS, in ticks
    Cooldown            \* AI_ENGINE_CIRCUIT_OPEN_MS, in ticks

ASSUME SettingsAssumption ==
    /\ FailureThreshold \in Nat \ {0}
    /\ Window \in Nat \ {0}
    /\ Cooldown \in Nat \ {0}

VARIABLES
    life,      \* failuresByKey: for how long the i-th newest failure still counts
    tripped,   \* openUntilByKey has a deadline...
    openFor,   \* ...which is this far ahead
    halfOpen,  \* halfOpenKeys has the key
    calls,     \* what each request does: idle, waiting for the engine, and then as the probe
    up         \* does the engine work?

vars == <<life, tripped, openFor, halfOpen, calls, up>>
breaker == <<life, tripped, openFor, halfOpen>>

(* Only the FailureThreshold newest failures can tell whether the threshold is *)
(* reached; pruneFailures drops those whose life is over.                      *)
Ranks == 1..FailureThreshold
NoFailures == [i \in Ranks |-> 0]
WithFailure == [i \in Ranks |-> IF i = 1 THEN Window ELSE life[i - 1]]
ThresholdReached(l) == l[FailureThreshold] > 0

Init ==
    /\ life = NoFailures /\ tripped = FALSE /\ openFor = 0 /\ halfOpen = FALSE
    /\ calls = [r \in Requests |-> "idle"]
    /\ up \in BOOLEAN

-----------------------------------------------------------------------------
(* engineCircuitOpen. *)
IsOpen == tripped /\ openFor > 0

Trip == tripped' = TRUE /\ openFor' = Cooldown

(* mutant: the threshold must be exceeded *)
RecordLateFailure ==
    /\ life' = WithFailure /\ UNCHANGED halfOpen
    /\ IF ThresholdReached(life) THEN Trip ELSE UNCHANGED <<tripped, openFor>>

(* recordEngineFailure. *)
RecordFailure ==
    IF halfOpen
    THEN halfOpen' = FALSE /\ Trip /\ UNCHANGED life
    ELSE /\ life' = WithFailure /\ UNCHANGED halfOpen
         /\ IF ThresholdReached(life') THEN Trip ELSE UNCHANGED <<tripped, openFor>>

(* recordEngineSuccess. *)
RecordSuccess ==
    life' = NoFailures /\ tripped' = FALSE /\ openFor' = 0 /\ halfOpen' = FALSE

-----------------------------------------------------------------------------
(* The circuit lets a request through.  When the cooldown is over, this makes *)
(* it half-open, and the request is the probe.                                *)
Admit(r) ==
    /\ calls[r] = "idle" /\ ~IsOpen
    /\ tripped' = FALSE /\ openFor' = 0 /\ halfOpen' = (halfOpen \/ tripped)
    /\ calls' = [calls EXCEPT ![r] = IF tripped THEN "probe" ELSE "posted"]
    /\ UNCHANGED <<life, up>>

(* The circuit is open: the request fails with CIRCUIT_OPEN.  The handler     *)
(* catches that error like any other, classifyAiEngineFailure makes it        *)
(* "unreachable", and an unreachable engine is recorded as a failure.         *)
Refuse(r) ==
    /\ calls[r] = "idle" /\ IsOpen
    /\ RecordFailure
    /\ UNCHANGED <<calls, up>>

Return(r) == calls' = [calls EXCEPT ![r] = "idle"] /\ UNCHANGED up

(* A verdict with a direction and a valid target and confidence. *)
Succeed(r) ==
    /\ calls[r] # "idle" /\ up
    /\ RecordSuccess
    /\ Return(r)

(* The engine is unreachable, too slow, or answers 429 or 5xx. *)
Fail(r) ==
    /\ calls[r] # "idle" /\ ~up
    /\ RecordFailure
    /\ Return(r)

(* Outcomes the breaker is not told of: an answer without a usable verdict     *)
(* (served as a waiting payload), or a permanent error.                       *)
Unrecorded(r) ==
    /\ calls[r] # "idle"
    /\ Return(r)
    /\ UNCHANGED breaker

(* mutant: no failure is ever too old *)
TickKeepingFailures ==
    /\ life' = [i \in Ranks |-> IF life[i] > 0 THEN life[i] + 1 ELSE 0]
    /\ openFor' = IF openFor > 0 THEN openFor - 1 ELSE 0
    /\ UNCHANGED <<tripped, halfOpen, calls, up>>

(* Time passes. *)
Tick ==
    /\ life' = [i \in Ranks |-> IF life[i] > 0 THEN life[i] - 1 ELSE 0]
    /\ openFor' = IF openFor > 0 THEN openFor - 1 ELSE 0
    /\ UNCHANGED <<tripped, halfOpen, calls, up>>

(* The engine breaks down or comes back. *)
EngineChanges == up' = ~up /\ UNCHANGED <<breaker, calls>>

Arrive(r) == Admit(r) \/ Refuse(r)
Next ==
    \/ \E r \in Requests : Arrive(r) \/ Succeed(r) \/ Fail(r) \/ Unrecorded(r)
    \/ Tick
    \/ EngineChanges

Spec == Init /\ [][Next]_vars

(* Clients poll: a request slot that is free is used again.  Every post ends,   *)
(* at the latest by PREDICT_TIMEOUT_MS, and it is not always one without a      *)
(* usable verdict.                                                            *)
Fairness ==
    /\ WF_vars(Tick)
    /\ \A r \in Requests : WF_vars(Arrive(r)) /\ SF_vars(Succeed(r)) /\ WF_vars(Fail(r))

FairSpec == Spec /\ Fairness

-----------------------------------------------------------------------------
(* The breaker's state and the requests' stay typed. *)
TypeOK ==
    /\ life \in [Ranks -> 0..Window]
    /\ tripped \in BOOLEAN /\ openFor \in 0..Cooldown /\ halfOpen \in BOOLEAN
    /\ calls \in [Requests -> {"idle", "posted", "probe"}]
    /\ up \in BOOLEAN

(* FailureThreshold failures within the window always leave the circuit open  *)
(* or half-open, in whatever order the requests under way come back.          *)
ThresholdTrips == ThresholdReached(life) => tripped \/ halfOpen

(* A circuit that is half-open has no deadline: a probe's failure sets it, and *)
(* nothing a late request reports can leave both.                             *)
HalfOpenIsNotOpen == halfOpen => ~tripped

(* Only a success closes a circuit that is open or half-open: time and late    *)
(* failures do not.                                                           *)
OnlySuccessCloses ==
    [][(tripped \/ halfOpen) /\ ~(tripped' \/ halfOpen') => up /\ life' = NoFailures]_vars

Attempted == \E r \in Requests : calls[r] # "idle"

(* "After the cooldown, half-open": an engine that works again for good is      *)
(* sooner or later asked again, while clients keep polling.                   *)
RecoveredEngineIsUsed == <>[]up => []<>Attempted
=============================================================================

------------------------------ MODULE SignalLock ------------------------------
(***************************************************************************)
(* The expiry-scoped signal lock of the AI engine (services/signal_lock.py) *)
(* with its two users, /tick-signal and /predict (api/v1/signals.py), for   *)
(* one lock identity.  Locks of different identities share nothing.         *)
(*                                                                         *)
(* A request is a coroutine.  With Redis, every command is awaited and     *)
(* other requests, of this replica or another, run in between; with the    *)
(* in-process fallback, get and acquire contain no real suspension, and     *)
(* only the inference (asyncio.to_thread, the models) lets others run.     *)
(***************************************************************************)
EXTENDS Naturals

CONSTANTS
    Callers,        \* requests for this identity that may be under way at once
    Shared,         \* TRUE: Redis; FALSE: the in-process fallback, one process
    Expiry,         \* the lock's duration
    Grace,          \* TTL_GRACE_SECONDS
    MaxTime,        \* bound: the last instant
    MaxLockFaults   \* bound: Redis commands that raise, and replicas that stop

ASSUME LockAssumption ==
    /\ Shared \in BOOLEAN
    /\ Expiry \in Nat \ {0} /\ Grace \in Nat
    /\ MaxTime \in Nat /\ MaxLockFaults \in Nat

VARIABLES
    now,            \* the clock
    cell,           \* what is stored under the lock's key, with Redis' own deadline
    call,           \* the requests
    lockFaults      \* how many faults may still happen

lockVars == <<now, cell, call, lockFaults>>

Signals == {"BUY", "SELL"}                  \* DIRECTIONAL_SIGNALS
Fresh == Signals \cup {"NONE"}              \* NONE: a verdict that is not committable
Verdicts == Fresh \cup {"unknown"}
NoPayload == [signal |-> "NONE", expires |-> 0, dies |-> 0]
Payload == [signal : Signals, expires : Nat, dies : Nat]

(* A request: what it awaits, which call of get it is in (the caller's look, *)
(* the one of acquire, or the one after a lost SET NX), the `now` that call   *)
(* uses, the verdict it has inferred, and what it answered in the end.        *)
Call == [at : {"idle", "infer", "get", "drop", "set"}, phase : {"look", "acquire", "lost"},
         clock : Nat, fresh : Verdicts, answer : Verdicts]
NoCall == [at |-> "idle", phase |-> "look", clock |-> 0, fresh |-> "unknown", answer |-> "unknown"]

LockInit ==
    /\ now = 0 /\ cell = NoPayload
    /\ call = [r \in Callers |-> NoCall]
    /\ lockFaults = MaxLockFaults

-----------------------------------------------------------------------------
(* The event loop runs this request: without Redis, nobody else is inside get *)
(* or acquire.                                                                *)
Runs(r) == Shared \/ \A q \in Callers \ {r} : call[q].at \notin {"get", "drop", "set"}

Finish(r, v) == call' = [call EXCEPT ![r] = [NoCall EXCEPT !.answer = v]]

(* /tick-signal looks at the lock before it computes anything... *)
StartTick(r) ==
    /\ call[r].at = "idle" /\ Runs(r)
    /\ call' = [call EXCEPT ![r] = [NoCall EXCEPT !.at = "get", !.clock = now]]
    /\ UNCHANGED <<now, cell, lockFaults>>

(* ...and /predict computes first. *)
StartPredict(r) ==
    /\ call[r].at = "idle"
    /\ call' = [call EXCEPT ![r] = [NoCall EXCEPT !.at = "infer"]]
    /\ UNCHANGED <<now, cell, lockFaults>>

Infer(r) ==
    /\ call[r].at = "infer" /\ Runs(r)
    /\ \E v \in Fresh :
        call' = [call EXCEPT ![r].fresh = v, ![r].at = "get", ![r].clock = now]
    /\ UNCHANGED <<now, cell, lockFaults>>

(* mutant: acquire does not look *)
HeldOverwritten(r) ==
    IF call[r].phase = "look" THEN Finish(r, cell.signal)
    ELSE call' = [call EXCEPT ![r].at = "set"]

(* get returned a contract.  The caller's own look serves it; what acquire     *)
(* returns is used by nobody, and the fresh verdict is answered.               *)
Held(r) == Finish(r, IF call[r].phase = "look" THEN cell.signal ELSE call[r].fresh)

(* get returned None. *)
Missing(r) ==
    \/ /\ call[r].phase = "look" /\ call[r].fresh = "unknown"
       /\ call' = [call EXCEPT ![r].at = "infer", ![r].phase = "acquire"]
    \/ /\ call[r].phase = "look" /\ call[r].fresh # "unknown"
       /\ call' = [call EXCEPT ![r].phase = "acquire", ![r].at = "get", ![r].clock = now]
    \/ /\ call[r].phase = "acquire" /\ call[r].fresh \in Signals
       /\ call' = [call EXCEPT ![r].at = "set"]
    \/ /\ call[r].phase = "acquire" => call[r].fresh \notin Signals
       /\ call[r].phase # "look"
       /\ Finish(r, call[r].fresh)

(* get reads the key; a payload past its own deadline is to be dropped. *)
Get(r) ==
    /\ call[r].at = "get"
    /\ \/ cell = NoPayload /\ Missing(r)
       \/ cell # NoPayload /\ cell.expires > call[r].clock /\ Held(r)
       \/ /\ cell # NoPayload /\ cell.expires <= call[r].clock
          /\ call' = [call EXCEPT ![r].at = "drop"]
    /\ UNCHANGED <<now, cell, lockFaults>>

(* The key is deleted, whatever it holds by now. *)
Drop(r) ==
    /\ call[r].at = "drop"
    /\ cell' = NoPayload
    /\ Missing(r)
    /\ UNCHANGED <<now, lockFaults>>

Fill(r) ==
    cell' = [signal |-> call[r].fresh, expires |-> call[r].clock + Expiry,
             dies |-> now + Expiry + Grace]

(* SET NX with the TTL, or the assignment to the in-process map. *)
Set(r) ==
    /\ call[r].at = "set"
    /\ \/ /\ Shared /\ cell # NoPayload
          /\ call' = [call EXCEPT ![r].at = "get", ![r].phase = "lost"]
          /\ UNCHANGED cell
       \/ ~(Shared /\ cell # NoPayload) /\ Fill(r) /\ Finish(r, call[r].fresh)
    /\ UNCHANGED <<now, lockFaults>>

Fault == Shared /\ lockFaults > 0 /\ lockFaults' = lockFaults - 1

(* A Redis command raises, before or after it took effect.  get answers None,  *)
(* acquire answers None.                                                     *)
RedisFails(r) ==
    /\ Fault
    /\ \/ call[r].at = "get" /\ UNCHANGED cell /\ Missing(r)
       \/ call[r].at = "drop" /\ cell' \in {cell, NoPayload} /\ Missing(r)
       \/ /\ call[r].at = "set" /\ Finish(r, call[r].fresh)
          /\ \/ UNCHANGED cell
             \/ cell = NoPayload /\ Fill(r)
    /\ UNCHANGED now

(* The replica that handles r stops. *)
ReplicaStops(r) ==
    /\ Fault
    /\ call[r].at # "idle"
    /\ call' = [call EXCEPT ![r] = NoCall]
    /\ UNCHANGED <<now, cell>>

(* Time passes, and Redis removes what has reached its TTL. *)
Tick ==
    /\ now < MaxTime
    /\ now' = now + 1
    /\ cell' = IF Shared /\ cell.dies <= now' THEN NoPayload ELSE cell
    /\ UNCHANGED <<call, lockFaults>>

LockStep(r) ==
    \/ StartTick(r) \/ StartPredict(r) \/ Infer(r) \/ Get(r) \/ Drop(r) \/ Set(r)
    \/ RedisFails(r) \/ ReplicaStops(r)

LockNext == Tick \/ \E r \in Callers : LockStep(r)

LockSpec == LockInit /\ [][LockNext]_lockVars

-----------------------------------------------------------------------------
(* The state is well-formed; what is stored is always a committable verdict. *)
LockTypeOK ==
    /\ now \in 0..MaxTime /\ lockFaults \in 0..MaxLockFaults
    /\ cell \in Payload \cup {NoPayload}
    /\ call \in [Callers -> Call]

InForce == cell.expires > now

(* The lock implements the contract of ExpiryContract: a verdict in force is   *)
(* neither overwritten nor removed before its deadline, and no store's TTL and *)
(* no late write extends it.                                                  *)
Contract == INSTANCE ExpiryContract WITH
    contract <- IF InForce THEN [signal |-> cell.signal, expires |-> cell.expires]
                ELSE [signal |-> "NONE", expires |-> 0]
ContractHonoured == Contract!Spec
=============================================================================

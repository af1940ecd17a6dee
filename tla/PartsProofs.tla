----------------------------- MODULE PartsProofs -----------------------------
(***************************************************************************)
(* Proofs about the signal lock of the AI engine, and the types of all the *)
(* parts of MCParts.                                                       *)
(*                                                                         *)
(* Without Redis the lock implements the contract of ExpiryContract, for   *)
(* any number of requests, any expiry and any bounds.  The argument: only  *)
(* one request is inside get or acquire at a time, so what its get found   *)
(* still holds when it writes or deletes.  The same argument fails with    *)
(* Redis, and so does the property.  What is stored is committable in      *)
(* either case (SharedInv).                                                *)
(*                                                                         *)
(* The other parts share no state: a step of one is a stutter of the rest, *)
(* so that their invariants hold together (PartsInv).                      *)
(***************************************************************************)
EXTENDS MCParts, RiskStateProofs, ClientProofs, RiskLimitsProofs, TickProofs

-----------------------------------------------------------------------------
(* The lock in one process.                                                    *)

Inside(r) == call[r].at \in {"get", "drop", "set"}

(* Only a request with a committable verdict writes. *)
Committable == \A r \in Callers : call[r].at = "set" => call[r].fresh \in Signals
(* No request uses a time that has not come. *)
ClockPast == \A r \in Callers : call[r].clock <= now
(* One request at a time is inside get or acquire. *)
OneInside == \A q, r \in Callers : Inside(q) /\ Inside(r) => q = r
(* What get found still holds when the request writes or deletes. *)
SetOnEmpty == \A r \in Callers : call[r].at = "set" => cell = NoPayload
DropExpired == \A r \in Callers : call[r].at = "drop" => cell.expires <= call[r].clock

LocalInv ==
    LockTypeOK /\ Committable /\ ClockPast /\ OneInside /\ SetOnEmpty /\ DropExpired

(* Strings are told apart, and a call's fields are typed. *)
LEMMA CallFields ==
  ASSUME NEW c \in Call
  PROVE  /\ c.at \in {"idle", "infer", "get", "drop", "set"}
         /\ c.phase \in {"look", "acquire", "lost"}
         /\ c.clock \in Nat /\ c.fresh \in Verdicts /\ c.answer \in Verdicts
  BY DEF Call

(* The fields of what is stored are typed. *)
LEMMA CellFields ==
  ASSUME NEW p \in Payload \cup {NoPayload}
  PROVE  p.expires \in Nat /\ p.dies \in Nat
  BY DEF Payload, NoPayload

(* A step that changes one request and, alone inside, the cell, keeps LocalInv. *)
LEMMA UpdateKeepsInv ==
  ASSUME LocalInv, NEW r \in Callers, NEW c \in Call,
         call' = [call EXCEPT ![r] = c],
         now' = now, lockFaults' = lockFaults,
         c.clock <= now,
         cell' \in Payload \cup {NoPayload},
         c.at = "set" => cell' = NoPayload /\ c.fresh \in Signals,
         c.at = "drop" => cell'.expires <= c.clock,
         cell' = cell \/ \A q \in Callers \ {r} : ~Inside(q),
         c.at \in {"get", "drop", "set"} => \A q \in Callers \ {r} : ~Inside(q)
  PROVE  LocalInv'
<1>1. /\ call \in [Callers -> Call]
      /\ call'[r] = c
      /\ \A q \in Callers \ {r} : call'[q] = call[q]
  BY DEF LocalInv, LockTypeOK
<1>2. LockTypeOK'
  BY <1>1 DEF LocalInv, LockTypeOK
<1>3. Committable'
  BY <1>1 DEF LocalInv, Committable
<1>4. ClockPast'
  BY <1>1 DEF LocalInv, ClockPast
<1>5. OneInside'
  BY <1>1 DEF LocalInv, OneInside, Inside
<1>6. SetOnEmpty'
  BY <1>1 DEF LocalInv, SetOnEmpty, Inside
<1>7. DropExpired'
  BY <1>1 DEF LocalInv, DropExpired, Inside
<1> QED BY <1>2, <1>3, <1>4, <1>5, <1>6, <1>7 DEF LocalInv

(* What Finish makes of a request. *)
LEMMA FinishShape ==
  ASSUME NEW r \in Callers, NEW v \in Verdicts, Finish(r, v), now \in Nat
  PROVE  \E c \in Call :
            /\ call' = [call EXCEPT ![r] = c]
            /\ c.at = "idle" /\ c.clock <= now
<1> DEFINE c == [NoCall EXCEPT !.answer = v]
<1>0. "unknown" \in Verdicts
  BY DEF Verdicts
<1>1. c \in Call
  BY <1>0 DEF NoCall, Call
<1>2. c.at = "idle" /\ c.clock <= now
  BY DEF NoCall
<1>3. call' = [call EXCEPT ![r] = c]
  BY DEF Finish
<1> HIDE DEF c
<1> QED BY <1>1, <1>2, <1>3, Zenon

(* What a get that found nothing makes of a request: it never deletes next,    *)
(* and writes only a committable verdict.                                     *)
LEMMA MissingShape ==
  ASSUME LockTypeOK, ClockPast, NEW r \in Callers, Missing(r)
  PROVE  \E c \in Call :
            /\ call' = [call EXCEPT ![r] = c]
            /\ c.clock <= now /\ c.at # "drop"
            /\ c.at = "set" => c.fresh \in Signals
<1> DEFINE d == call[r]
<1>0. d \in Call /\ d.clock <= now /\ now \in Nat
  BY DEF LockTypeOK, ClockPast
<1>1. CASE d.phase = "look" /\ d.fresh = "unknown"
  <2> DEFINE c == [d EXCEPT !.at = "infer", !.phase = "acquire"]
  <2>1. call' = [call EXCEPT ![r] = c]
    BY <1>1 DEF Missing, LockTypeOK
  <2>2. c \in Call /\ c.clock = d.clock /\ c.at = "infer"
    BY <1>0 DEF Call
  <2> QED BY <1>0, <2>1, <2>2
<1>2. CASE d.phase = "look" /\ d.fresh # "unknown"
  <2> DEFINE c == [d EXCEPT !.phase = "acquire", !.at = "get", !.clock = now]
  <2>1. call' = [call EXCEPT ![r] = c]
    BY <1>2 DEF Missing, LockTypeOK
  <2>2. c \in Call /\ c.at = "get"
    BY <1>0 DEF Call
  <2>3. c.clock <= now /\ c.at # "drop" /\ c.at # "set"
    BY <1>0
  <2> HIDE DEF c
  <2> QED BY <2>1, <2>2, <2>3, Zenon
<1>3. CASE d.phase = "acquire" /\ d.fresh \in Signals
  <2> DEFINE c == [d EXCEPT !.at = "set"]
  <2>1. call' = [call EXCEPT ![r] = c]
    BY <1>3 DEF Missing, LockTypeOK
  <2>2. c \in Call /\ c.clock = d.clock /\ c.at = "set" /\ c.fresh = d.fresh
    BY <1>0 DEF Call
  <2> QED BY <1>0, <1>3, <2>1, <2>2
<1>4. CASE d.phase # "look" /\ (d.phase = "acquire" => d.fresh \notin Signals)
  <2>1. Finish(r, d.fresh) /\ d.fresh \in Verdicts
    BY <1>0, <1>4, CallFields DEF Missing
  <2> QED BY <1>0, <2>1, FinishShape
<1> QED BY <1>1, <1>2, <1>3, <1>4 DEF Missing

(* Whatever a get that found a contract makes of a request, it has returned. *)
LEMMA HeldShape ==
  ASSUME LockTypeOK, NEW r \in Callers, Held(r), cell # NoPayload
  PROVE  \E c \in Call :
            /\ call' = [call EXCEPT ![r] = c]
            /\ c.at = "idle" /\ c.clock <= now
<1> DEFINE v == IF call[r].phase = "look" THEN cell.signal ELSE call[r].fresh
<1>1. cell.signal \in Verdicts
  BY DEF LockTypeOK, Payload, Verdicts, Fresh
<1>2. call[r].fresh \in Verdicts
  BY CallFields DEF LockTypeOK
<1>3. v \in Verdicts /\ Finish(r, v) /\ now \in Nat
  BY <1>1, <1>2 DEF Held, LockTypeOK
<1> HIDE DEF v
<1> QED BY <1>3, FinishShape

(* What a request that is to write commits. *)
LEMMA FillShape ==
  ASSUME LockTypeOK, Committable, NEW r \in Callers, call[r].at = "set", Fill(r)
  PROVE  /\ cell' \in Payload
         /\ cell'.expires = call[r].clock + Expiry
         /\ cell'.signal \in Signals
<1>1. call[r].clock \in Nat /\ call[r].fresh \in Signals /\ now \in Nat
  BY CallFields DEF LockTypeOK, Committable
<1>2. call[r].clock + Expiry \in Nat /\ now + Expiry + Grace \in Nat
  BY <1>1, LockAssumption DEF LockAssumption
<1> QED BY <1>1, <1>2 DEF Fill, Payload

(* Initially nothing is stored and no request is under way. *)
LEMMA InitLocal == LockInit => LocalInv
<1> SUFFICES ASSUME LockInit PROVE LocalInv
  OBVIOUS
<1>1. "unknown" \in Verdicts
  BY DEF Verdicts
<1>2. NoCall \in Call /\ NoCall.at = "idle" /\ NoCall.clock = 0
  BY <1>1 DEF NoCall, Call
<1>3. \A r \in Callers : call[r] = NoCall
  BY DEF LockInit
<1>4. call \in [Callers -> Call]
  BY <1>2 DEF LockInit
<1>5. now = 0 /\ cell = NoPayload /\ lockFaults = MaxLockFaults
  BY DEF LockInit
<1>6. LockTypeOK
  BY <1>4, <1>5, LockAssumption DEF LockTypeOK, LockAssumption
<1>7. Committable /\ ClockPast /\ OneInside /\ SetOnEmpty /\ DropExpired
  BY <1>2, <1>3, <1>5 DEF Committable, ClockPast, OneInside, SetOnEmpty, DropExpired, Inside
<1> QED BY <1>6, <1>7 DEF LocalInv

(* Without Redis every step keeps the invariant. *)
LEMMA StepKeepsInv ==
  ASSUME ~Shared, LocalInv, [LockNext]_lockVars
  PROVE  LocalInv'
<1>0. /\ LockTypeOK /\ Committable /\ ClockPast
      /\ now \in Nat /\ cell \in Payload \cup {NoPayload}
      /\ call \in [Callers -> Call]
  BY DEF LocalInv, LockTypeOK
<1>1. ASSUME NEW r \in Callers, StartTick(r) PROVE LocalInv'
  <2> DEFINE c == [NoCall EXCEPT !.at = "get", !.clock = now]
  <2>0. "unknown" \in Verdicts
    BY DEF Verdicts
  <2>1. c \in Call /\ c.at = "get"
    BY <1>0, <2>0 DEF NoCall, Call
  <2>2. c.clock <= now
    BY <1>0 DEF NoCall
  <2>3. call' = [call EXCEPT ![r] = c] /\ now' = now /\ cell' = cell /\ lockFaults' = lockFaults
    BY <1>1 DEF StartTick
  <2>4. \A q \in Callers \ {r} : ~Inside(q)
    BY <1>1 DEF StartTick, Runs, Inside
  <2> HIDE DEF c
  <2> QED BY <1>0, <2>1, <2>2, <2>3, <2>4, UpdateKeepsInv
<1>2. ASSUME NEW r \in Callers, StartPredict(r) PROVE LocalInv'
  <2> DEFINE c == [NoCall EXCEPT !.at = "infer"]
  <2>0. "unknown" \in Verdicts
    BY DEF Verdicts
  <2>1. c \in Call /\ c.at = "infer"
    BY <1>0, <2>0 DEF NoCall, Call
  <2>2. c.clock <= now
    BY <1>0 DEF NoCall
  <2>3. call' = [call EXCEPT ![r] = c] /\ now' = now /\ cell' = cell /\ lockFaults' = lockFaults
    BY <1>2 DEF StartPredict
  <2> HIDE DEF c
  <2> QED BY <1>0, <2>1, <2>2, <2>3, UpdateKeepsInv
<1>3. ASSUME NEW r \in Callers, Infer(r) PROVE LocalInv'
  <2>1. PICK v \in Fresh :
          call' = [call EXCEPT ![r].fresh = v, ![r].at = "get", ![r].clock = now]
    BY <1>3 DEF Infer
  <2> DEFINE c == [call[r] EXCEPT !.fresh = v, !.at = "get", !.clock = now]
  <2>2. call[r] \in Call /\ v \in Verdicts
    BY <1>0 DEF Verdicts
  <2>3. c \in Call /\ c.at = "get"
    BY <1>0, <2>2 DEF Call
  <2>4. c.clock <= now
    BY <1>0, <2>2 DEF Call
  <2>5. call' = [call EXCEPT ![r] = c] /\ now' = now /\ cell' = cell /\ lockFaults' = lockFaults
    BY <1>0, <1>3, <2>1 DEF Infer
  <2>6. \A q \in Callers \ {r} : ~Inside(q)
    BY <1>3 DEF Infer, Runs, Inside
  <2> HIDE DEF c
  <2> QED BY <1>0, <2>3, <2>4, <2>5, <2>6, UpdateKeepsInv
<1>4. ASSUME NEW r \in Callers, Get(r) PROVE LocalInv'
  <2>1. now' = now /\ cell' = cell /\ lockFaults' = lockFaults
    BY <1>4 DEF Get
  <2>2. \A q \in Callers \ {r} : ~Inside(q)
    BY <1>4 DEF Get, LocalInv, OneInside, Inside
  <2>3. CASE cell = NoPayload /\ Missing(r)
    <3>1. PICK c \in Call : /\ call' = [call EXCEPT ![r] = c]
                            /\ c.clock <= now /\ c.at # "drop"
                            /\ c.at = "set" => c.fresh \in Signals
      BY <1>0, <2>3, MissingShape
    <3> QED BY <1>0, <2>1, <2>2, <2>3, <3>1, UpdateKeepsInv
  <2>4. CASE cell # NoPayload /\ Held(r)
    <3>1. PICK c \in Call : /\ call' = [call EXCEPT ![r] = c]
                            /\ c.at = "idle" /\ c.clock <= now
      BY <1>0, <2>4, HeldShape
    <3> QED BY <1>0, <2>1, <3>1, UpdateKeepsInv
  <2>5. CASE /\ cell # NoPayload /\ cell.expires <= call[r].clock
             /\ call' = [call EXCEPT ![r].at = "drop"]
    <3> DEFINE c == [call[r] EXCEPT !.at = "drop"]
    <3>1. call[r] \in Call /\ call[r].clock <= now
      BY <1>0 DEF ClockPast
    <3>2. c \in Call /\ c.at = "drop" /\ c.clock = call[r].clock
      BY <3>1 DEF Call
    <3>3. call' = [call EXCEPT ![r] = c]
      BY <1>0, <2>5
    <3> HIDE DEF c
    <3> QED BY <1>0, <2>1, <2>2, <2>5, <3>1, <3>2, <3>3, UpdateKeepsInv
  <2> QED BY <1>4, <2>3, <2>4, <2>5 DEF Get
<1>5. ASSUME NEW r \in Callers, Drop(r) PROVE LocalInv'
  <2>1. now' = now /\ cell' = NoPayload /\ lockFaults' = lockFaults /\ Missing(r)
    BY <1>5 DEF Drop
  <2>2. \A q \in Callers \ {r} : ~Inside(q)
    BY <1>5 DEF Drop, LocalInv, OneInside, Inside
  <2>3. PICK c \in Call : /\ call' = [call EXCEPT ![r] = c]
                          /\ c.clock <= now /\ c.at # "drop"
                          /\ c.at = "set" => c.fresh \in Signals
    BY <1>0, <2>1, MissingShape
  <2> QED BY <1>0, <2>1, <2>2, <2>3, UpdateKeepsInv
<1>6. ASSUME NEW r \in Callers, Set(r) PROVE LocalInv'
  <2>1. now' = now /\ lockFaults' = lockFaults /\ Fill(r) /\ Finish(r, call[r].fresh) /\ call[r].at = "set"
    BY <1>6 DEF Set
  <2>2. \A q \in Callers \ {r} : ~Inside(q)
    BY <2>1 DEF LocalInv, OneInside, Inside
  <2>3. call[r].fresh \in Verdicts
    BY <1>0, CallFields
  <2>4. PICK c \in Call : /\ call' = [call EXCEPT ![r] = c]
                          /\ c.at = "idle" /\ c.clock <= now
    BY <1>0, <2>1, <2>3, FinishShape
  <2>5. cell' \in Payload
    BY <1>0, <2>1, FillShape
  <2> QED BY <1>0, <2>1, <2>2, <2>4, <2>5, UpdateKeepsInv
<1>7. ASSUME NEW r \in Callers, RedisFails(r) \/ ReplicaStops(r) PROVE LocalInv'
  BY <1>7 DEF RedisFails, ReplicaStops, Fault
<1>8. CASE Tick
  <2>1. now' = now + 1 /\ now' \in 0..MaxTime
    BY <1>0, <1>8, LockAssumption DEF Tick, LockAssumption, LockTypeOK
  <2>2. cell' = cell /\ call' = call /\ lockFaults' = lockFaults
    BY <1>8 DEF Tick
  <2>3. LockTypeOK'
    BY <1>0, <2>1, <2>2 DEF LockTypeOK
  <2>4. ClockPast'
    BY <1>0, <2>1, <2>2, CallFields DEF ClockPast
  <2>5. (Committable /\ OneInside /\ SetOnEmpty /\ DropExpired)'
    BY <2>2 DEF LocalInv, Committable, OneInside, SetOnEmpty, DropExpired, Inside
  <2> QED BY <2>3, <2>4, <2>5 DEF LocalInv
<1>9. CASE UNCHANGED lockVars
  BY <1>9 DEF lockVars, LocalInv, LockTypeOK, Committable, ClockPast, OneInside, SetOnEmpty, DropExpired, Inside
<1> QED BY <1>1, <1>2, <1>3, <1>4, <1>5, <1>6, <1>7, <1>8, <1>9 DEF LockNext, LockStep

(* Without Redis the invariant always holds. *)
LEMMA AlwaysLocalInv ==
  ASSUME ~Shared
  PROVE  LockSpec => []LocalInv
<1>1. LocalInv /\ [LockNext]_lockVars => LocalInv'
  BY StepKeepsInv
<1> QED BY InitLocal, <1>1, PTL DEF LockSpec

(* The verdict in force, as ExpiryContract sees it. *)
Mapped == IF InForce THEN [signal |-> cell.signal, expires |-> cell.expires]
          ELSE [signal |-> "NONE", expires |-> 0]

(* The initial state is an initial state of the contract. *)
LEMMA InitRefines == LockInit => Contract!Init
  BY DEF LockInit, Contract!Init, Contract!NoContract, InForce, NoPayload

(* A step that changes neither the clock nor what is stored is a stutter. *)
LEMMA StutterRefines ==
  ASSUME now' = now, cell' = cell
  PROVE  Mapped' = Mapped
  BY DEF Mapped, InForce

(* A delete finds nothing in force. *)
LEMMA DropRefines ==
  ASSUME LocalInv, NEW r \in Callers, Drop(r)
  PROVE  Mapped' = Mapped /\ now' = now
<1>1. cell.expires <= now /\ now \in Nat
  BY CellFields, CallFields DEF LocalInv, LockTypeOK, DropExpired, ClockPast, Drop
<1>2. ~InForce
  BY <1>1, CellFields DEF InForce, LocalInv, LockTypeOK
<1>3. ~InForce' /\ now' = now
  BY <1>1 DEF Drop, InForce, NoPayload
<1> QED BY <1>2, <1>3 DEF Mapped

(* A write to an empty cell commits a verdict, for no longer than Expiry; one that  *)
(* is already past its deadline never comes into force.                         *)
LEMMA FillRefines ==
  ASSUME LockTypeOK, Committable, ClockPast, NEW r \in Callers,
         call[r].at = "set", cell = NoPayload, Fill(r), now' = now
  PROVE  Contract!Commit \/ (Mapped' = Mapped /\ now' = now)
<1>1. now \in Nat /\ ~InForce
  BY DEF LockTypeOK, InForce, NoPayload
<1>2. /\ cell'.expires = call[r].clock + Expiry /\ cell'.signal \in Signals
      /\ call[r].clock \in Nat /\ call[r].clock <= now /\ Expiry \in Nat
  BY FillShape, CallFields, LockAssumption DEF LockTypeOK, ClockPast, LockAssumption
<1>3. CASE InForce'
  <2>1. cell'.expires \in (now + 1)..(now + Expiry)
    BY <1>1, <1>2, <1>3 DEF InForce
  <2> QED BY <1>1, <1>2, <1>3, <2>1 DEF Contract!Commit, Contract!NoContract
<1>4. CASE ~InForce'
  BY <1>1, <1>4 DEF Mapped
<1> QED BY <1>3, <1>4

LEMMA SetRefines ==
  ASSUME ~Shared, LocalInv, NEW r \in Callers, Set(r)
  PROVE  Contract!Commit \/ (Mapped' = Mapped /\ now' = now)
<1>1. call[r].at = "set" /\ Fill(r) /\ now' = now
  BY DEF Set
<1>2. cell = NoPayload
  BY <1>1 DEF LocalInv, SetOnEmpty
<1> QED BY <1>1, <1>2, FillRefines DEF LocalInv

(* Time ends a contract at its deadline and at no other moment. *)
LEMMA TickRefines ==
  ASSUME ~Shared, LocalInv, Tick
  PROVE  Contract!Pass
<1>1. now' = now + 1 /\ cell' = cell /\ now \in Nat /\ cell.expires \in Nat
  BY CellFields DEF Tick, LocalInv, LockTypeOK
<1>2. InForce' <=> cell.expires > now + 1
  BY <1>1 DEF InForce
<1> QED BY <1>1, <1>2 DEF Contract!Pass, Contract!Matured, Contract!NoContract, InForce

LEMMA LocalRefines ==
  ASSUME ~Shared, LocalInv, [LockNext]_lockVars
  PROVE  Contract!Next \/ (now' = now /\ Mapped' = Mapped)
<1>1. ASSUME NEW r \in Callers, LockStep(r), ~Set(r), ~Drop(r)
      PROVE  now' = now /\ cell' = cell
  BY <1>1 DEF LockStep, StartTick, StartPredict, Infer, Get, RedisFails, ReplicaStops, Fault
<1>2. ASSUME NEW r \in Callers, LockStep(r)
      PROVE  Contract!Next \/ (now' = now /\ Mapped' = Mapped)
  BY <1>1, <1>2, StutterRefines, DropRefines, SetRefines DEF Contract!Next
<1>3. CASE Tick
  BY <1>3, TickRefines DEF Contract!Next
<1>4. CASE UNCHANGED lockVars
  BY <1>4, StutterRefines DEF lockVars
<1> QED BY <1>2, <1>3, <1>4 DEF LockNext

(* Without Redis the lock implements the contract: a verdict in force is        *)
(* neither overwritten nor removed nor extended by any number of requests.     *)
THEOREM LocalLockHonoursContract ==
  ASSUME ~Shared
  PROVE  LockSpec => ContractHonoured
<1>1. LocalInv /\ [LockNext]_lockVars => [Contract!Next]_<<now, Mapped>>
  BY LocalRefines
<1> QED BY <1>1, InitRefines, AlwaysLocalInv, PTL DEF LockSpec, ContractHonoured, Contract!Spec, Mapped

-----------------------------------------------------------------------------
(* The lock wherever it is.                                                    *)

SharedInv == LockTypeOK /\ Committable /\ ClockPast

(* A step that changes one request, and stores nothing or a committable verdict. *)
LEMMA UpdateKeepsTypes ==
  ASSUME SharedInv, NEW r \in Callers, NEW c \in Call,
         call' = [call EXCEPT ![r] = c], c.clock <= now,
         c.at = "set" => c.fresh \in Signals,
         now' = now, lockFaults' \in 0..MaxLockFaults,
         cell' \in Payload \cup {NoPayload}
  PROVE  SharedInv'
<1>1. /\ call \in [Callers -> Call]
      /\ call'[r] = c
      /\ \A q \in Callers \ {r} : call'[q] = call[q]
  BY DEF SharedInv, LockTypeOK
<1>2. LockTypeOK'
  BY <1>1 DEF SharedInv, LockTypeOK
<1>3. Committable'
  BY <1>1 DEF SharedInv, Committable
<1>4. ClockPast'
  BY <1>1 DEF SharedInv, ClockPast
<1> QED BY <1>2, <1>3, <1>4 DEF SharedInv

(* What a step of a request does, in one process or on Redis, without what lets   *)
(* it happen.                                                                  *)
Effect(r) ==
    /\ now' = now /\ (lockFaults' = lockFaults \/ (lockFaults > 0 /\ lockFaults' = lockFaults - 1))
    /\ \/ call' = [call EXCEPT ![r] = [NoCall EXCEPT !.at = "get", !.clock = now]] /\ cell' = cell
       \/ call' = [call EXCEPT ![r] = [NoCall EXCEPT !.at = "infer"]] /\ cell' = cell
       \/ /\ \E v \in Fresh : call' = [call EXCEPT ![r].fresh = v, ![r].at = "get", ![r].clock = now]
          /\ cell' = cell
       \/ Missing(r) /\ cell' \in {cell, NoPayload}
       \/ Held(r) /\ cell # NoPayload /\ cell' = cell
       \/ call' = [call EXCEPT ![r].at = "drop"] /\ cell' = cell
       \/ call' = [call EXCEPT ![r].at = "get", ![r].phase = "lost"] /\ cell' = cell
       \/ call[r].at = "set" /\ Finish(r, call[r].fresh) /\ (cell' = cell \/ Fill(r))
       \/ call' = [call EXCEPT ![r] = NoCall] /\ cell' = cell

LEMMA StepHasEffect == ASSUME NEW r, LockStep(r) PROVE Effect(r)
<1>1. CASE StartTick(r) \/ StartPredict(r) \/ Infer(r)
  BY <1>1 DEF StartTick, StartPredict, Infer, Effect
<1>2. CASE Get(r) \/ Drop(r) \/ Set(r)
  BY <1>2 DEF Get, Drop, Set, Effect
<1>3. CASE RedisFails(r) \/ ReplicaStops(r)
  BY <1>3 DEF RedisFails, ReplicaStops, Fault, Effect
<1> QED BY <1>1, <1>2, <1>3 DEF LockStep

(* The operators of the instance that Shared does not occur in are the same.     *)
LEMMA RedisHelpers ==
  ASSUME NEW r
  PROVE  /\ Redis!Missing(r) <=> Missing(r)
         /\ Redis!Held(r) <=> Held(r)
         /\ Redis!Fill(r) <=> Fill(r)
         /\ Redis!NoPayload = NoPayload /\ Redis!NoCall = NoCall /\ Redis!Fresh = Fresh
         /\ \A v : Redis!Finish(r, v) <=> Finish(r, v)
<1>1. Redis!NoPayload = NoPayload /\ Redis!NoCall = NoCall /\ Redis!Fresh = Fresh /\ Redis!Signals = Signals
  BY DEF Redis!NoPayload, NoPayload, Redis!NoCall, NoCall, Redis!Fresh, Fresh, Redis!Signals, Signals
<1>2. \A v : Redis!Finish(r, v) <=> Finish(r, v)
  BY <1>1 DEF Redis!Finish, Finish
<1>3. Redis!Missing(r) <=> Missing(r)
  BY <1>1, <1>2 DEF Redis!Missing, Missing
<1>4. Redis!Held(r) <=> Held(r)
  BY <1>2 DEF Redis!Held, Held
<1>5. Redis!Fill(r) <=> Fill(r)
  BY DEF Redis!Fill, Fill
<1> QED BY <1>1, <1>2, <1>3, <1>4, <1>5

LEMMA RedisHasEffect == ASSUME NEW r, Redis!LockStep(r) PROVE Effect(r)
<1>1. CASE Redis!StartTick(r) \/ Redis!StartPredict(r) \/ Redis!Infer(r)
  BY <1>1, RedisHelpers DEF Redis!StartTick, Redis!StartPredict, Redis!Infer, Effect
<1>2. CASE Redis!Get(r) \/ Redis!Drop(r) \/ Redis!Set(r)
  BY <1>2, RedisHelpers DEF Redis!Get, Redis!Drop, Redis!Set, Effect
<1>3. CASE Redis!RedisFails(r) \/ Redis!ReplicaStops(r)
  BY <1>3, RedisHelpers DEF Redis!RedisFails, Redis!ReplicaStops, Redis!Fault, Effect
<1> QED BY <1>1, <1>2, <1>3 DEF Redis!LockStep

LEMMA NoCallTyped == NoCall \in Call /\ NoCall.at = "idle" /\ NoCall.clock = 0
<1>1. "unknown" \in Verdicts
  BY DEF Verdicts
<1> QED BY <1>1 DEF NoCall, Call

LEMMA EffectKeeps ==
  ASSUME SharedInv, NEW r \in Callers, Effect(r)
  PROVE  SharedInv'
<1>0. /\ LockTypeOK /\ Committable /\ ClockPast
      /\ now \in Nat /\ cell \in Payload \cup {NoPayload}
      /\ call \in [Callers -> Call]
  BY DEF SharedInv, LockTypeOK
<1>1. now' = now /\ lockFaults' \in 0..MaxLockFaults
  <2>1. lockFaults \in 0..MaxLockFaults /\ MaxLockFaults \in Nat
    BY <1>0, LockAssumption DEF LockTypeOK, LockAssumption
  <2>2. now' = now /\ (lockFaults' = lockFaults \/ (lockFaults > 0 /\ lockFaults' = lockFaults - 1))
    BY DEF Effect
  <2> QED BY <2>1, <2>2
<1>2. call[r] \in Call /\ call[r].clock <= now /\ (call[r].at = "set" => call[r].fresh \in Signals)
  BY <1>0 DEF ClockPast, Committable
<1>3. ASSUME NEW c \in Call, call' = [call EXCEPT ![r] = c], c.clock <= now,
             c.at = "set" => c.fresh \in Signals, cell' \in Payload \cup {NoPayload}
      PROVE  SharedInv'
  BY <1>1, <1>3, UpdateKeepsTypes
<1>4. CASE call' = [call EXCEPT ![r] = [NoCall EXCEPT !.at = "get", !.clock = now]] /\ cell' = cell
  <2> DEFINE c == [NoCall EXCEPT !.at = "get", !.clock = now]
  <2>1. c \in Call /\ c.at = "get" /\ c.clock = now
    BY <1>0, NoCallTyped DEF Call
  <2>2. call' = [call EXCEPT ![r] = c] /\ cell' = cell
    BY <1>4
  <2> HIDE DEF c
  <2>3. c.clock <= now /\ c.at # "set"
    BY <1>0, <2>1
  <2> QED BY <1>0, <1>3, <1>4, <2>2, <2>1, <2>3
<1>5. CASE call' = [call EXCEPT ![r] = [NoCall EXCEPT !.at = "infer"]] /\ cell' = cell
  <2> DEFINE c == [NoCall EXCEPT !.at = "infer"]
  <2>1. c \in Call /\ c.at = "infer" /\ c.clock = 0
    BY NoCallTyped DEF Call
  <2>2. call' = [call EXCEPT ![r] = c] /\ cell' = cell
    BY <1>5
  <2> HIDE DEF c
  <2>3. c.clock <= now /\ c.at # "set"
    BY <1>0, <2>1
  <2> QED BY <1>0, <1>3, <1>5, <2>2, <2>1, <2>3
<1>6. CASE /\ \E v \in Fresh : call' = [call EXCEPT ![r].fresh = v, ![r].at = "get", ![r].clock = now]
           /\ cell' = cell
  <2>1. PICK v \in Fresh : call' = [call EXCEPT ![r].fresh = v, ![r].at = "get", ![r].clock = now]
    BY <1>6
  <2> DEFINE c == [call[r] EXCEPT !.fresh = v, !.at = "get", !.clock = now]
  <2>2. v \in Verdicts
    BY DEF Verdicts
  <2>3. c \in Call /\ c.at = "get" /\ c.clock = now
    BY <1>0, <1>2, <2>2 DEF Call
  <2>4. call' = [call EXCEPT ![r] = c]
    BY <1>0, <2>1
  <2> HIDE DEF c
  <2>5. c.clock <= now /\ c.at # "set"
    BY <1>0, <2>3
  <2> QED BY <1>0, <1>3, <1>6, <2>3, <2>4, <2>5
<1>7. CASE Missing(r) /\ cell' \in {cell, NoPayload}
  <2>1. PICK c \in Call : /\ call' = [call EXCEPT ![r] = c]
                          /\ c.clock <= now
                          /\ c.at = "set" => c.fresh \in Signals
    BY <1>0, <1>7, MissingShape
  <2> QED BY <1>0, <1>3, <1>7, <2>1
<1>8. CASE Held(r) /\ cell # NoPayload /\ cell' = cell
  <2>1. PICK c \in Call : /\ call' = [call EXCEPT ![r] = c]
                          /\ c.at = "idle" /\ c.clock <= now
    BY <1>0, <1>8, HeldShape
  <2> QED BY <1>0, <1>3, <1>8, <2>1
<1>9. CASE call' = [call EXCEPT ![r].at = "drop"] /\ cell' = cell
  <2> DEFINE c == [call[r] EXCEPT !.at = "drop"]
  <2>1. c \in Call /\ c.at = "drop" /\ c.clock = call[r].clock
    BY <1>2 DEF Call
  <2>2. call' = [call EXCEPT ![r] = c]
    BY <1>0, <1>9
  <2> HIDE DEF c
  <2> QED BY <1>0, <1>2, <1>3, <1>9, <2>1, <2>2
<1>10. CASE call' = [call EXCEPT ![r].at = "get", ![r].phase = "lost"] /\ cell' = cell
  <2> DEFINE c == [call[r] EXCEPT !.at = "get", !.phase = "lost"]
  <2>1. c \in Call /\ c.at = "get" /\ c.clock = call[r].clock
    BY <1>2 DEF Call
  <2>2. call' = [call EXCEPT ![r] = c]
    BY <1>0, <1>10
  <2> HIDE DEF c
  <2> QED BY <1>0, <1>2, <1>3, <1>10, <2>1, <2>2
<1>11. CASE call[r].at = "set" /\ Finish(r, call[r].fresh) /\ (cell' = cell \/ Fill(r))
  <2>1. call[r].fresh \in Verdicts
    BY <1>2, CallFields
  <2>2. PICK c \in Call : /\ call' = [call EXCEPT ![r] = c]
                          /\ c.at = "idle" /\ c.clock <= now
    BY <1>0, <1>11, <2>1, FinishShape
  <2>3. cell' \in Payload \cup {NoPayload}
    BY <1>0, <1>11, FillShape
  <2> QED BY <1>3, <2>2, <2>3
<1>12. CASE call' = [call EXCEPT ![r] = NoCall] /\ cell' = cell
  <2>1. NoCall.clock <= now /\ NoCall.at # "set"
    BY <1>0, NoCallTyped
  <2> QED BY <1>0, <1>3, <1>12, <2>1, NoCallTyped
<1> QED BY <1>4, <1>5, <1>6, <1>7, <1>8, <1>9, <1>10, <1>11, <1>12 DEF Effect

(* Time passes, and may take what is stored with it.                            *)
LEMMA TickKeepsTypes ==
  ASSUME SharedInv, now < MaxTime, now' = now + 1, cell' \in {cell, NoPayload},
         UNCHANGED <<call, lockFaults>>
  PROVE  SharedInv'
<1>1. now' \in 0..MaxTime /\ now \in Nat
  BY LockAssumption DEF SharedInv, LockTypeOK, LockAssumption
<1>2. LockTypeOK'
  BY <1>1 DEF SharedInv, LockTypeOK
<1>3. Committable'
  BY DEF SharedInv, Committable
<1>4. ClockPast'
  <2> SUFFICES ASSUME NEW r \in Callers PROVE call'[r].clock <= now'
    BY DEF ClockPast
  <2>1. call[r].clock <= now /\ call[r].clock \in Nat
    BY CallFields DEF SharedInv, ClockPast, LockTypeOK
  <2> QED BY <1>1, <2>1
<1> QED BY <1>2, <1>3, <1>4 DEF SharedInv

LEMMA SharedStarts == LockInit => SharedInv
  BY InitLocal DEF LocalInv, SharedInv

LEMMA SharedStutters == SharedInv /\ UNCHANGED lockVars => SharedInv'
  BY DEF lockVars, SharedInv, LockTypeOK, Committable, ClockPast

LEMMA SharedKeeps ==
  ASSUME SharedInv, [LockNext]_lockVars
  PROVE  SharedInv'
<1>1. CASE Tick
  BY <1>1, TickKeepsTypes DEF Tick
<1>2. CASE \E r \in Callers : LockStep(r)
  BY <1>2, StepHasEffect, EffectKeeps
<1> QED BY <1>1, <1>2, SharedStutters DEF LockNext

LEMMA RedisKeeps ==
  ASSUME SharedInv, Redis!Tick \/ Redis!LockStep(Client)
  PROVE  SharedInv'
<1>1. CASE Redis!Tick
  BY <1>1, TickKeepsTypes, RedisHelpers DEF Redis!Tick
<1>2. CASE Redis!LockStep(Client)
  <2>1. Client \in Callers
    BY PartsAssumption DEF PartsAssumption, Client
  <2> QED BY <1>2, <2>1, RedisHasEffect, EffectKeeps
<1> QED BY <1>1, <1>2

(* Only committable verdicts are ever stored, whether in one process' map or in     *)
(* Redis with its faults, and no request commits another kind.                    *)
THEOREM LockTyped == LockSpec => []LockTypeOK
<1>1. SharedInv /\ [LockNext]_lockVars => SharedInv'
  BY SharedKeeps
<1>2. SharedInv => LockTypeOK
  BY DEF SharedInv
<1> QED BY <1>1, <1>2, SharedStarts, PTL DEF LockSpec

-----------------------------------------------------------------------------
(* The parts beside each other.                                                *)

PartsInv ==
    /\ Inv /\ SharedInv /\ StoreInv /\ PanelInv
    /\ GridInv /\ TapeInv /\ ChartInv /\ LimitsTypeOK

partsVars == <<part, engineVars, lockVars, clientVars, barVars>>

LEMMA PartsStart == PartsInit => PartsInv
<1> SUFFICES ASSUME PartsInit PROVE PartsInv
  OBVIOUS
<1>1. LockInit /\ StoreInit /\ PanelInit /\ TapeInit /\ ChartInit /\ GridInit /\ LimitsInit
  BY DEF PartsInit
<1>2. StartOn(0) \/ StartOn(1)
  BY DEF PartsInit, LosingInit, DaysInit
<1>3. Inv
  BY <1>2, InvStart DEF StartOn
<1> QED BY <1>1, <1>3, SharedStarts, StoreInitially, PanelStarts, GridStarts, TapeStarts,
           ChartStarts, InitTyped DEF PartsInv

(* A step of one part is a stutter of the others.                                *)
LEMMA OnePartMoves ==
  ASSUME [PartsNext]_partsVars
  PROVE  /\ [Next]_vars /\ [LimitsNext]_limitVars
         /\ [StoreNext]_storeVars /\ [PanelNext]_panelVars /\ [GridNext]_gridVars
         /\ [TapeNext]_tapeVars /\ [ChartNext]_chartVars
         /\ [LockNext]_lockVars \/ Redis!Tick \/ Redis!LockStep(Client)
<1>1. CASE UNCHANGED partsVars
  BY <1>1 DEF partsVars, engineVars, clientVars, barVars
<1>2. CASE UNCHANGED <<engineVars, clientVars, barVars>> /\ (LockNext \/ Redis!Tick \/ Redis!LockStep(Client))
  BY <1>2 DEF engineVars, clientVars, barVars
<1>3. CASE /\ UNCHANGED <<engineVars, lockVars, barVars>>
           /\ \/ StoreNext /\ UNCHANGED <<panelVars, gridVars>>
              \/ PanelNext /\ UNCHANGED <<storeVars, gridVars>>
              \/ GridNext /\ UNCHANGED <<storeVars, panelVars>>
  BY <1>3 DEF engineVars, barVars
<1>4. CASE /\ UNCHANGED <<lockVars, clientVars>>
           /\ \/ TapeNext /\ UNCHANGED <<engineVars, chartVars>>
              \/ ChartNext /\ UNCHANGED <<engineVars, tapeVars>>
              \/ UNCHANGED <<vars, barVars>> /\ (LimitsNext \/ LimitsEnd)
              \/ Next /\ UNCHANGED <<limitVars, barVars>>
  BY <1>4 DEF engineVars, clientVars, barVars, LimitsEnd
<1> QED BY <1>1, <1>2, <1>3, <1>4 DEF PartsNext

LEMMA PartsKeep ==
  ASSUME PartsInv, [PartsNext]_partsVars
  PROVE  PartsInv'
<1>1. SharedInv'
  BY OnePartMoves, SharedKeeps, RedisKeeps DEF PartsInv
<1>2. Inv' /\ LimitsTypeOK'
  BY OnePartMoves, InvNext, NextTyped DEF PartsInv
<1>3. StoreInv' /\ PanelInv' /\ GridInv'
  BY OnePartMoves, StoreInductive, PanelInductive, GridKeeps DEF PartsInv
<1>4. TapeInv' /\ ChartInv'
  BY OnePartMoves, TapeStepMade, ChartKeeps DEF PartsInv
<1> QED BY <1>1, <1>2, <1>3, <1>4 DEF PartsInv

(* Every part keeps its types, for any requests, clicks, ticks, bounds and faults:   *)
(* the tape and the chart stay within their caps, the lock is filled with committable *)
(* verdicts only, the row is never of a future day.                               *)
THEOREM PartsTyped == PartsSpec => []PartsTypeOK
<1>1. PartsInv => PartsTypeOK
  BY TapeTypesOK, ChartInvTypes
  DEF PartsInv, PartsTypeOK, Inv, SharedInv, StoreInv, PanelInv, GridInv
<1>2. PartsInv /\ [PartsNext]_partsVars => PartsInv'
  BY PartsKeep
<1> QED BY <1>1, <1>2, PartsStart, PTL DEF PartsSpec, partsVars

-----------------------------------------------------------------------------
(* One request at a time on Redis.                                             *)

(* Redis removes nothing before its deadline. *)
Outlives == cell.expires <= cell.dies
(* The other requests have not begun. *)
Alone == \A r \in Callers \ {Client} : ~Inside(r)

OnRedis == SharedInv /\ Outlives /\ Alone /\ DropExpired

LEMMA RedisStarts == LockInit => OnRedis
<1> SUFFICES ASSUME LockInit PROVE OnRedis
  OBVIOUS
<1>1. LocalInv
  BY InitLocal
<1>2. cell = NoPayload /\ \A r \in Callers : call[r] = NoCall
  BY DEF LockInit
<1>3. Outlives /\ Alone
  BY <1>2, NoCallTyped DEF Outlives, Alone, Inside, NoPayload
<1> QED BY <1>1, <1>3 DEF LocalInv, SharedInv, OnRedis

(* A request that goes on to drop what is stored has just seen that it expired. *)
DropsLate(r) == call'[r].at = "drop" => cell' = cell /\ cell.expires <= call'[r].clock

(* What is stored stays, or is removed after its deadline, or was nothing.        *)
Written(r) ==
    \/ cell' = cell
    \/ cell' = NoPayload /\ cell.expires <= now
    \/ cell = NoPayload /\ call[r].at = "set" /\ Fill(r)

LEMMA MissingNeverDrops ==
  ASSUME SharedInv, NEW r \in Callers, Missing(r)
  PROVE  call'[r].at # "drop" /\ \A q \in Callers \ {r} : call'[q] = call[q]
<1>1. PICK c \in Call : call' = [call EXCEPT ![r] = c] /\ c.at # "drop"
  BY MissingShape DEF SharedInv
<1>2. call \in [Callers -> Call]
  BY DEF SharedInv, LockTypeOK
<1> QED BY <1>1, <1>2

LEMMA FinishedNeverDrops ==
  ASSUME SharedInv, NEW r \in Callers, NEW v, Finish(r, v)
  PROVE  call'[r].at # "drop" /\ \A q \in Callers \ {r} : call'[q] = call[q]
  BY DEF Finish, NoCall, SharedInv, LockTypeOK

LEMMA RedisStep ==
  ASSUME OnRedis, NEW r \in Callers, Redis!LockStep(r)
  PROVE  /\ now' = now /\ \A q \in Callers \ {r} : call'[q] = call[q]
         /\ DropsLate(r) /\ Written(r)
<1>0. SharedInv /\ DropExpired /\ call \in [Callers -> Call] /\ call[r] \in Call
  BY DEF OnRedis, SharedInv, LockTypeOK
<1>1. CASE Redis!StartTick(r) \/ Redis!StartPredict(r) \/ Redis!ReplicaStops(r)
  <2>1. now' = now /\ cell' = cell
    BY <1>1 DEF Redis!StartTick, Redis!StartPredict, Redis!ReplicaStops, Redis!Fault
  <2>2. CASE call' = [call EXCEPT ![r] = [NoCall EXCEPT !.at = "get", !.clock = now]]
    BY <1>0, <2>1, <2>2 DEF NoCall, DropsLate, Written
  <2>3. CASE call' = [call EXCEPT ![r] = [NoCall EXCEPT !.at = "infer"]]
    BY <1>0, <2>1, <2>3 DEF NoCall, DropsLate, Written
  <2>4. CASE call' = [call EXCEPT ![r] = NoCall]
    BY <1>0, <2>1, <2>4 DEF NoCall, DropsLate, Written
  <2> QED BY <1>1, <2>2, <2>3, <2>4, RedisHelpers
          DEF Redis!StartTick, Redis!StartPredict, Redis!ReplicaStops
<1>2. CASE Redis!Infer(r)
  <2>1. now' = now /\ cell' = cell
    BY <1>2 DEF Redis!Infer
  <2>2. PICK v : call' = [call EXCEPT ![r].fresh = v, ![r].at = "get", ![r].clock = now]
    BY <1>2 DEF Redis!Infer
  <2>3. call'[r].at = "get" /\ \A q \in Callers \ {r} : call'[q] = call[q]
    BY <1>0, <2>2 DEF Call
  <2> QED BY <2>1, <2>3 DEF DropsLate, Written
<1>3. CASE Redis!Get(r)
  <2>1. now' = now /\ cell' = cell
    BY <1>3 DEF Redis!Get
  <2>2. CASE Missing(r)
    BY <1>0, <2>1, <2>2, MissingNeverDrops DEF DropsLate, Written
  <2>3. CASE Held(r)
    BY <1>0, <2>1, <2>3, FinishedNeverDrops DEF Held, DropsLate, Written
  <2>4. CASE cell.expires <= call[r].clock /\ call' = [call EXCEPT ![r].at = "drop"]
    <3>1. call'[r].clock = call[r].clock /\ \A q \in Callers \ {r} : call'[q] = call[q]
      BY <1>0, <2>4 DEF Call
    <3> QED BY <2>1, <2>4, <3>1 DEF DropsLate, Written
  <2> QED BY <1>3, <2>2, <2>3, <2>4, RedisHelpers DEF Redis!Get
<1>4. CASE Redis!Drop(r)
  <2>1. now' = now /\ cell' = NoPayload /\ Missing(r) /\ call[r].at = "drop"
    BY <1>4, RedisHelpers DEF Redis!Drop
  <2>2. cell.expires <= now
    BY <1>0, <2>1, CellFields, CallFields DEF SharedInv, LockTypeOK, ClockPast, DropExpired
  <2> QED BY <1>0, <2>1, <2>2, MissingNeverDrops DEF DropsLate, Written
<1>5. CASE Redis!Set(r)
  <2>1. now' = now /\ call[r].at = "set"
    BY <1>5 DEF Redis!Set
  <2>2. CASE cell' = cell /\ call' = [call EXCEPT ![r].at = "get", ![r].phase = "lost"]
    <3>1. call'[r].at = "get" /\ \A q \in Callers \ {r} : call'[q] = call[q]
      BY <1>0, <2>2 DEF Call
    <3> QED BY <2>1, <2>2, <3>1 DEF DropsLate, Written
  <2>3. CASE cell = NoPayload /\ Fill(r) /\ Finish(r, call[r].fresh)
    BY <1>0, <2>1, <2>3, FinishedNeverDrops DEF DropsLate, Written
  <2> QED BY <1>5, <2>2, <2>3, RedisHelpers DEF Redis!Set
<1>6. CASE Redis!RedisFails(r)
  <2>1. now' = now
    BY <1>6 DEF Redis!RedisFails
  <2>2. CASE Missing(r) /\ cell' = cell
    BY <1>0, <2>1, <2>2, MissingNeverDrops DEF DropsLate, Written
  <2>3. CASE call[r].at = "drop" /\ cell' = NoPayload /\ Missing(r)
    <3>1. cell.expires <= now
      BY <1>0, <2>3, CellFields, CallFields DEF SharedInv, LockTypeOK, ClockPast, DropExpired
    <3> QED BY <1>0, <2>1, <2>3, <3>1, MissingNeverDrops DEF DropsLate, Written
  <2>4. CASE call[r].at = "set" /\ Finish(r, call[r].fresh) /\ (cell' = cell \/ (cell = NoPayload /\ Fill(r)))
    BY <1>0, <2>1, <2>4, FinishedNeverDrops DEF DropsLate, Written
  <2> QED BY <1>6, <2>2, <2>3, <2>4, RedisHelpers DEF Redis!RedisFails
<1> QED BY <1>1, <1>2, <1>3, <1>4, <1>5, <1>6 DEF Redis!LockStep

LEMMA ClientCalls == Client \in Callers
  BY PartsAssumption DEF PartsAssumption, Client

LEMMA OnRedisKeeps ==
  ASSUME OnRedis, Redis!Tick \/ Redis!LockStep(Client)
  PROVE  OnRedis'
<1>1. SharedInv'
  BY RedisKeeps DEF OnRedis
<1>2. CASE Redis!Tick
  <2>1. cell' \in {cell, NoPayload} /\ call' = call
    BY <1>2, RedisHelpers DEF Redis!Tick
  <2>2. Outlives' /\ Alone'
    BY <2>1 DEF OnRedis, Outlives, Alone, Inside, NoPayload
  <2>3. DropExpired'
    BY <2>1, CallFields DEF OnRedis, SharedInv, LockTypeOK, DropExpired, NoPayload
  <2> QED BY <1>1, <2>2, <2>3 DEF OnRedis
<1>3. CASE Redis!LockStep(Client)
  <2> DEFINE r == Client
  <2>0. r \in Callers
    BY ClientCalls
  <2> HIDE DEF r
  <2>1. /\ now' = now /\ \A q \in Callers \ {r} : call'[q] = call[q]
        /\ DropsLate(r) /\ Written(r)
    BY <1>3, <2>0, RedisStep DEF r
  <2>2. Alone' /\ \A q \in Callers \ {r} : ~Inside(q)'
    BY <2>1 DEF OnRedis, Alone, Inside, r
  <2>3. Outlives'
    <3>1. CASE call[r].at = "set" /\ Fill(r)
      <4>1. call[r].clock \in Nat /\ call[r].clock <= now /\ now \in Nat /\ Expiry \in Nat /\ Grace \in Nat
        BY <2>0, CallFields, LockAssumption DEF OnRedis, SharedInv, LockTypeOK, ClockPast, LockAssumption
      <4> QED BY <3>1, <4>1 DEF Fill, Outlives
    <3>2. CASE cell' \in {cell, NoPayload}
      BY <3>2 DEF OnRedis, Outlives, NoPayload
    <3> QED BY <2>1, <3>1, <3>2 DEF Written
  <2>4. DropExpired'
    BY <2>0, <2>1, <2>2 DEF DropExpired, DropsLate, Inside
  <2> QED BY <1>1, <2>2, <2>3, <2>4 DEF OnRedis
<1> QED BY <1>2, <1>3

LEMMA OnRedisRefines ==
  ASSUME OnRedis, Redis!Tick \/ Redis!LockStep(Client)
  PROVE  Contract!Next \/ (now' = now /\ Mapped' = Mapped)
<1>0. SharedInv /\ now \in Nat /\ cell.expires \in Nat /\ cell.dies \in Nat /\ cell.expires <= cell.dies
  BY CellFields DEF OnRedis, SharedInv, LockTypeOK, Outlives
<1>1. CASE Redis!Tick
  <2>1. now' = now + 1 /\ cell' = IF cell.dies <= now' THEN NoPayload ELSE cell
    BY <1>1, RedisHelpers DEF Redis!Tick
  <2>2. CASE cell' = cell
    <3>1. InForce' <=> cell.expires > now + 1
      BY <2>1, <2>2 DEF InForce
    <3>2. Contract!Pass
      BY <1>0, <2>1, <2>2, <3>1 DEF Contract!Pass, Contract!Matured, Contract!NoContract, InForce
    <3> QED BY <3>2 DEF Contract!Next
  <2>3. CASE cell' = NoPayload /\ cell.dies <= now'
    <3>1. cell.expires <= now' /\ ~InForce'
      BY <1>0, <2>1, <2>3 DEF InForce, NoPayload
    <3>2. Contract!Pass
      BY <1>0, <2>1, <3>1 DEF Contract!Pass, Contract!Matured, Contract!NoContract, InForce
    <3> QED BY <3>2 DEF Contract!Next
  <2> QED BY <2>1, <2>2, <2>3
<1>2. CASE Redis!LockStep(Client)
  <2>1. now' = now /\ Written(Client) /\ Client \in Callers
    BY <1>2, ClientCalls, RedisStep
  <2>2. CASE cell' = cell
    BY <2>1, <2>2, StutterRefines
  <2>3. CASE cell' = NoPayload /\ cell.expires <= now
    <3>1. ~InForce /\ ~InForce'
      BY <1>0, <2>1, <2>3 DEF InForce, NoPayload
    <3> QED BY <2>1, <3>1 DEF Mapped
  <2>4. CASE cell = NoPayload /\ call[Client].at = "set" /\ Fill(Client)
    BY <1>0, <2>1, <2>4, FillRefines DEF SharedInv, Contract!Next
  <2> QED BY <2>1, <2>2, <2>3, <2>4 DEF Written
<1> QED BY <1>1, <1>2

(* The part map runs the lock of one process, the part redis that on Redis.       *)
PlaceInv == IF part = "redis" THEN OnRedis ELSE LocalInv

LEMMA LockMoves ==
  ASSUME [PartsNext]_partsVars
  PROVE  /\ part' = part
         /\ \/ UNCHANGED lockVars
            \/ part = "redis" /\ (Redis!Tick \/ Redis!LockStep(Client))
            \/ part # "redis" /\ LockNext
  BY DEF PartsNext, partsVars

LEMMA PlaceStays == PlaceInv /\ part' = part /\ UNCHANGED lockVars => PlaceInv'
  BY DEF PlaceInv, OnRedis, SharedInv, Outlives, Alone, DropExpired, LocalInv, lockVars,
         LockTypeOK, Committable, ClockPast, OneInside, SetOnEmpty, Inside

(* The contract of the lock is honoured by requests that overlap in one process,     *)
(* and on Redis by requests that do not, whatever commands fail and whenever a         *)
(* replica stops or Redis drops what has reached its own deadline.                  *)
THEOREM PartsHonourContract ==
  ASSUME ~Shared
  PROVE  PartsSpec => ContractHonoured
<1>1. PartsInit => PlaceInv /\ Contract!Init
  BY InitLocal, RedisStarts, InitRefines DEF PartsInit, PlaceInv
<1>2. PlaceInv /\ [PartsNext]_partsVars => PlaceInv'
  <2> SUFFICES ASSUME PlaceInv, [PartsNext]_partsVars PROVE PlaceInv'
    OBVIOUS
  <2>1. CASE part = "redis" /\ (Redis!Tick \/ Redis!LockStep(Client))
    BY <2>1, LockMoves, OnRedisKeeps DEF PlaceInv
  <2>2. CASE part # "redis" /\ LockNext
    BY <2>2, LockMoves, StepKeepsInv DEF PlaceInv
  <2> QED BY <2>1, <2>2, LockMoves, PlaceStays
<1>3. PlaceInv /\ [PartsNext]_partsVars => [Contract!Next]_<<now, Mapped>>
  <2> SUFFICES ASSUME PlaceInv, [PartsNext]_partsVars
               PROVE  Contract!Next \/ (now' = now /\ Mapped' = Mapped)
    OBVIOUS
  <2>1. CASE part = "redis" /\ (Redis!Tick \/ Redis!LockStep(Client))
    BY <2>1, OnRedisRefines DEF PlaceInv
  <2>2. CASE part # "redis" /\ LockNext
    BY <2>2, LocalRefines DEF PlaceInv
  <2>3. CASE UNCHANGED lockVars
    BY <2>3, StutterRefines DEF lockVars
  <2> QED BY <2>1, <2>2, <2>3, LockMoves
<1> QED BY <1>1, <1>2, <1>3, PTL DEF PartsSpec, partsVars, ContractHonoured, Contract!Spec, Mapped
=============================================================================

---------------------------- MODULE RiskLimitsProofs ---------------------------
(***************************************************************************)
(* Proofs about RiskLimits, for any tasks, limits, equities and bounds.    *)
(*                                                                         *)
(* Kill switch: each order placed since it was engaged was let through by  *)
(* one task before; orders placed plus tasks still let through never       *)
(* exceed the tasks there are (KillInv).                                   *)
(* Daily loss: the loss a task has seen is at the limit for as long as it  *)
(* is remembered (Reported), because the baseline of a day only comes into *)
(* being once and a restart judges by it (Sunk); a task that may still     *)
(* place an order has judged before (Hopeful), and CountInv counts those.  *)
(* Limits: an order that is pending is in one task's hands or written off  *)
(* by a restart (HandsInv), and what is placed together with what is still *)
(* let through passes a limit by one order for each other task at most     *)
(* (BoundsInv: open orders, holdings, orders of the day).                  *)
(***************************************************************************)
EXTENDS RiskLimits, FiniteSetTheorems, TLAPS

-----------------------------------------------------------------------------
(* The types.                                                                  *)

Tasks == Reading \cup Ordering \cup Answered \cup {AtRest}
Past == [level : Equities \cup {Never}, inserted : Nat, placed : Nat]

(* What a task may be, by where it is. *)
LEMMA TaskKinds ==
  ASSUME NEW t \in Tasks
  PROVE  /\ t.at \in {"idle", "judge", "insert", "place", "mark"}
         /\ t.at = "idle" <=> t = AtRest
         /\ t.at = "judge" => t \in Reading
         /\ t.at \in {"insert", "place"} => t \in Ordering
         /\ t.at = "mark" => t \in Answered
         /\ t # AtRest => t.order \in Numbers
  BY DEF Tasks, Reading, Ordering, Answered, AtRest

(* What is seen of the orders is counted in whole numbers. *)
LEMMA OrdersCounted ==
  ASSUME NEW S \in SUBSET Numbers
  PROVE  IsFiniteSet(S) /\ Cardinality(S) \in 0..MaxOrders
<1>1. IsFiniteSet(Numbers) /\ Cardinality(Numbers) = MaxOrders
  <2>1. MaxOrders \in Nat /\ MaxOrders >= 1
    BY LimitsAssumption DEF LimitsAssumption
  <2>2. IsFiniteSet(1..MaxOrders) /\ Cardinality(1..MaxOrders) = MaxOrders - 1 + 1
    BY <2>1, FS_Interval
  <2> QED BY <2>1, <2>2 DEF Numbers
<1>2. IsFiniteSet(S) /\ Cardinality(S) <= Cardinality(Numbers)
  BY <1>1, FS_Subset
<1> QED BY <1>1, <1>2, FS_CardinalityType, LimitsAssumption DEF LimitsAssumption

LEMMA InitTyped == LimitsInit => LimitsTypeOK
<1> SUFFICES ASSUME LimitsInit PROVE LimitsTypeOK
  OBVIOUS
<1>1. Never \notin Nat /\ 0 \in UtcDays
  BY LimitsAssumption DEF Never, UtcDays, LimitsAssumption
<1>2. orders \in [Numbers -> [status : Statuses, day : UtcDays]]
  BY <1>1 DEF LimitsInit, Statuses
<1>3. past \in Past
  BY DEF LimitsInit, Past
<1>4. opening \in [day : UtcDays, equity : Equities] /\ equity \in Equities
  BY <1>1, LimitsAssumption DEF LimitsInit, LimitsAssumption
<1>5. engaged \in BOOLEAN
  BY Zenon DEF LimitsInit
<1>6. stops \in 0..MaxStops
  BY LimitsAssumption DEF LimitsInit, LimitsAssumption
<1>7. worker \in [Workers -> Tasks] /\ venue \in [Numbers -> Fates]
  BY DEF LimitsInit, Tasks, Fates
<1>8. baseline \in [UtcDays -> (Equities \ {0}) \cup {Never}] /\ utcDay \in UtcDays
  BY <1>1 DEF LimitsInit
<1>9. mode \in Modes /\ limits \in Limits
  BY DEF LimitsInit
<1> QED BY <1>2, <1>3, <1>4, <1>5, <1>6, <1>7, <1>8, <1>9 DEF LimitsTypeOK, Past, Tasks

(* So is the history, when a loss that was seen is forgotten. *)
LEMMA PastTyped ==
  ASSUME past \in Past
  PROVE  /\ [past EXCEPT !.level = Never, !.inserted = 0] \in Past
         /\ \A e : PastAt(e) \in Past
  BY DEF PastAt, Past

(* The steps of a task. *)
LEMMA TakeTyped ==
  ASSUME LimitsTypeOK, NEW w \in Workers, TakeSignal(w)
  PROVE  LimitsTypeOK'
<1>1. opening \in [day : UtcDays, equity : Equities] /\ equity \in Equities /\ utcDay \in UtcDays
      /\ worker \in [Workers -> Tasks]
  BY DEF LimitsTypeOK, Tasks
<1>2. opening' \in [day : UtcDays, equity : Equities]
  BY <1>1 DEF TakeSignal
<1>3. FilledOrders \in 0..MaxOrders /\ 0 \in 0..MaxOrders
  BY OrdersCounted, LimitsAssumption DEF FilledOrders, LimitsAssumption
<1>4. equity \in Int /\ opening'.equity \in Int
  <2>1. Equities \subseteq Int
    BY LimitsAssumption DEF LimitsAssumption
  <2> QED BY <1>1, <1>2, <2>1
<1>5. PICK n \in Numbers :
        worker' = [worker EXCEPT ![w] =
                [at |-> "judge", order |-> n, day |-> utcDay, equity |-> equity,
                 held |-> IF mode = "spot" THEN 0 ELSE FilledOrders,
                 loss |-> IF Paper THEN opening'.equity - equity ELSE 0]]
  BY DEF TakeSignal
<1>6. worker' \in [Workers -> Tasks]
  <2> DEFINE held == IF mode = "spot" THEN 0 ELSE FilledOrders
             loss == IF Paper THEN opening'.equity - equity ELSE 0
             read == [at |-> "judge", order |-> n, day |-> utcDay, equity |-> equity,
                      held |-> held, loss |-> loss]
  <2>1. held \in 0..MaxOrders /\ loss \in Int
    BY <1>3, <1>4
  <2> HIDE DEF held, loss
  <2>2. read \in Reading
    BY <1>1, <2>1 DEF Reading
  <2> QED BY <1>1, <1>5, <2>2 DEF Tasks, held, loss
<1> QED BY <1>2, <1>6 DEF LimitsTypeOK, TakeSignal, Tasks

LEMMA JudgeTyped ==
  ASSUME LimitsTypeOK, NEW w \in Workers, Judge(w)
  PROVE  LimitsTypeOK'
<1>1. worker \in [Workers -> Tasks] /\ worker[w] \in Reading /\ utcDay \in UtcDays
  BY TaskKinds DEF LimitsTypeOK, Judge, Tasks
<1>2. baseline' \in [UtcDays -> (Equities \ {0}) \cup {Never}]
  <2>1. CASE worker[w].equity > 0
    <3>1. worker[w].day \in UtcDays /\ worker[w].equity \in Equities \ {0}
      BY <1>1, <2>1 DEF Reading
    <3>2. Baseline(w) \in (Equities \ {0}) \cup {Never}
      BY <3>1 DEF Baseline, LimitsTypeOK
    <3> QED BY <2>1, <3>1, <3>2 DEF Judge, LimitsTypeOK
  <2>2. CASE ~(worker[w].equity > 0)
    BY <2>2 DEF Judge, LimitsTypeOK
  <2> QED BY <2>1, <2>2
<1>3. worker' \in [Workers -> Tasks]
  <2>1. [at |-> "insert", order |-> worker[w].order] \in Tasks /\ AtRest \in Tasks
    BY <1>1 DEF Reading, Ordering, Tasks
  <2> QED BY <1>1, <2>1 DEF Judge, Finishes
<1>4. orders' \in [Numbers -> [status : Statuses, day : UtcDays]]
  BY <1>1 DEF Judge, Recorded, LimitsTypeOK, Reading, Statuses
<1>5. past' \in Past
  <2>1. past \in Past /\ worker[w].equity \in Equities
    BY <1>1 DEF Past, LimitsTypeOK, Reading
  <2>2. past' = past \/ past' = [past EXCEPT !.level = worker[w].equity, !.inserted = 0]
    BY DEF Judge
  <2>3. [past EXCEPT !.level = worker[w].equity, !.inserted = 0] \in Past
    BY <2>1 DEF Past
  <2> QED BY <2>1, <2>2, <2>3
<1> QED BY <1>2, <1>3, <1>4, <1>5 DEF Judge, LimitsTypeOK, Past, Tasks

LEMMA InsertTyped ==
  ASSUME LimitsTypeOK, NEW w \in Workers, InsertIntent(w)
  PROVE  LimitsTypeOK'
<1>1. worker \in [Workers -> Tasks] /\ worker[w] \in Ordering /\ utcDay \in UtcDays
  BY TaskKinds DEF LimitsTypeOK, InsertIntent, Tasks
<1>2. worker' \in [Workers -> Tasks]
  BY <1>1 DEF InsertIntent, Ordering, Tasks
<1>3. orders' \in [Numbers -> [status : Statuses, day : UtcDays]]
  BY <1>1 DEF InsertIntent, Recorded, LimitsTypeOK, Ordering, Statuses, Pending
<1>4. past' \in Past
  BY DEF InsertIntent, Past, LimitsTypeOK
<1> QED BY <1>2, <1>3, <1>4 DEF InsertIntent, LimitsTypeOK, Past, Tasks

LEMMA PlaceTyped ==
  ASSUME LimitsTypeOK, NEW w \in Workers, Place(w)
  PROVE  LimitsTypeOK'
<1>1. worker \in [Workers -> Tasks] /\ worker[w] \in Ordering
  BY TaskKinds DEF LimitsTypeOK, Place, Tasks
<1>2. PICK fate \in {"none", "open", "filled"}, answer \in Statuses :
        /\ venue' = [venue EXCEPT ![worker[w].order] = fate]
        /\ worker' = [worker EXCEPT ![w] = [at |-> "mark", order |-> @.order, answer |-> answer]]
  BY DEF Place
<1>3. venue' \in [Numbers -> Fates]
  BY <1>1, <1>2 DEF LimitsTypeOK, Ordering, Fates
<1>4. worker' \in [Workers -> Tasks]
  BY <1>1, <1>2 DEF Ordering, Answered, Tasks
<1>5. equity' \in Equities
  BY DEF Place, LimitsTypeOK
<1>6. past' \in Past
  <2>1. PastAt(equity') \in Past
    BY PastTyped DEF LimitsTypeOK, Past
  <2>2. past.placed + 1 \in Nat
    BY DEF LimitsTypeOK
  <2>3. past' = [PastAt(equity') EXCEPT !.placed = IF engaged THEN @ + 1 ELSE 0]
    BY DEF Place
  <2> QED BY <2>1, <2>3 DEF Past
<1> QED BY <1>3, <1>4, <1>5, <1>6 DEF Place, LimitsTypeOK, Past, Tasks

LEMMA MarkTyped ==
  ASSUME LimitsTypeOK, NEW w \in Workers, MarkStatus(w)
  PROVE  LimitsTypeOK'
<1>1. worker \in [Workers -> Tasks] /\ worker[w] \in Answered
  BY TaskKinds DEF LimitsTypeOK, MarkStatus, Tasks
<1>2. worker' \in [Workers -> Tasks]
  BY <1>1 DEF MarkStatus, Finishes, Tasks
<1>3. orders' \in [Numbers -> [status : Statuses, day : UtcDays]]
  BY <1>1 DEF MarkStatus, SetStatus, LimitsTypeOK, Answered, Statuses
<1> QED BY <1>2, <1>3 DEF MarkStatus, LimitsTypeOK, Tasks

(* The steps of the reconcile loop and of the world. *)
LEMMA OthersTyped ==
  ASSUME LimitsTypeOK,
         \/ \E w \in Workers, n \in Numbers : Resubmit(w, n)
         \/ \E n \in Numbers : Reconcile(n) \/ VenueActs(n)
         \/ StopEngine \/ EquityMoves \/ Engage \/ NextDay
  PROVE  LimitsTypeOK'
<1>1. ASSUME NEW w \in Workers, NEW n \in Numbers, Resubmit(w, n) PROVE LimitsTypeOK'
  <2>1. worker' \in [Workers -> Tasks]
    BY <1>1 DEF Resubmit, LimitsTypeOK, Tasks, Ordering
  <2> QED BY <1>1, <2>1 DEF Resubmit, LimitsTypeOK, Tasks
<1>2. ASSUME NEW n \in Numbers, Reconcile(n) PROVE LimitsTypeOK'
  <2>1. orders' \in [Numbers -> [status : Statuses, day : UtcDays]]
    BY <1>2 DEF Reconcile, SetStatus, LimitsTypeOK, Statuses
  <2> QED BY <1>2, <2>1 DEF Reconcile, LimitsTypeOK
<1>3. ASSUME NEW n \in Numbers, VenueActs(n) PROVE LimitsTypeOK'
  <2>1. venue' \in [Numbers -> Fates]
    BY <1>3 DEF VenueActs, LimitsTypeOK, Fates
  <2> QED BY <1>3, <2>1 DEF VenueActs, LimitsTypeOK
<1>4. CASE StopEngine
  <2>1. stops' \in 0..MaxStops
    BY <1>4, LimitsAssumption DEF StopEngine, LimitsTypeOK, LimitsAssumption
  <2>2. worker' \in [Workers -> Tasks] /\ venue' \in [Numbers -> Fates]
    BY <1>4 DEF StopEngine, LimitsTypeOK, Tasks, Fates
  <2>3. equity' \in Equities /\ opening' \in [day : UtcDays, equity : Equities]
    <3>1. Balance \in Equities /\ utcDay \in UtcDays
      BY LimitsAssumption DEF LimitsAssumption, LimitsTypeOK
    <3>2. [day |-> utcDay, equity |-> Balance] \in [day : UtcDays, equity : Equities]
      BY <3>1
    <3> QED BY <1>4, <3>1, <3>2 DEF StopEngine, LimitsTypeOK
  <2>4. past' \in Past
    <3>1. past \in Past
      BY DEF LimitsTypeOK, Past
    <3> QED BY <1>4, <3>1, PastTyped DEF StopEngine
  <2> QED BY <1>4, <2>1, <2>2, <2>3, <2>4 DEF StopEngine, LimitsTypeOK, Past, Tasks
<1>5. CASE EquityMoves
  <2>1. past' \in Past
    BY <1>5, PastTyped DEF EquityMoves, LimitsTypeOK, Past
  <2> QED BY <1>5, <2>1 DEF EquityMoves, LimitsTypeOK, Past
<1>6. CASE Engage
  <2>1. engaged' \in BOOLEAN /\ past' \in Past
    BY <1>6 DEF Engage, LimitsTypeOK, Past
  <2> QED BY <1>6, <2>1 DEF Engage, LimitsTypeOK, Past
<1>7. CASE NextDay
  <2>0. LastDay \in Nat
    BY LimitsAssumption DEF LimitsAssumption
  <2>1. utcDay' \in UtcDays
    BY <1>7, <2>0 DEF NextDay, LimitsTypeOK, UtcDays
  <2>2. past \in Past
    BY DEF LimitsTypeOK, Past
  <2>3. past' \in Past
    BY <1>7, <2>2, PastTyped DEF NextDay
  <2> QED BY <1>7, <2>1, <2>3 DEF NextDay, LimitsTypeOK, Past
<1> QED BY <1>1, <1>2, <1>3, <1>4, <1>5, <1>6, <1>7

LEMMA NextTyped == LimitsTypeOK /\ [LimitsNext]_limitVars => LimitsTypeOK'
<1> SUFFICES ASSUME LimitsTypeOK, [LimitsNext]_limitVars PROVE LimitsTypeOK'
  OBVIOUS
<1>1. CASE UNCHANGED limitVars
  BY <1>1 DEF limitVars, LimitsTypeOK
<1> QED BY <1>1, TakeTyped, JudgeTyped, InsertTyped, PlaceTyped, MarkTyped, OthersTyped DEF LimitsNext

LEMMA TypesAlways == LimitsSpec => []LimitsTypeOK
  BY InitTyped, NextTyped, PTL DEF LimitsSpec

(* Tasks are finitely many. *)
LEMMA SomeTasks ==
  ASSUME NEW S \in SUBSET Workers
  PROVE  /\ IsFiniteSet(S) /\ Cardinality(S) \in Nat /\ Cardinality(Workers) \in Nat
         /\ Cardinality(S) <= Cardinality(Workers)
         /\ \A T \in SUBSET S : Cardinality(T) <= Cardinality(S)
         /\ \A w \in S : Cardinality(S \ {w}) = Cardinality(S) - 1
<1>1. IsFiniteSet(Workers) /\ IsFiniteSet(S)
  BY LimitsAssumption, FS_Subset DEF LimitsAssumption
<1> QED BY <1>1, FS_Subset, FS_CardinalityType, FS_RemoveElement

(* What a task reads with its signal. *)
LEMMA TakeReads ==
  ASSUME LimitsTypeOK, NEW w \in Workers, TakeSignal(w)
  PROVE  /\ worker'[w].at = "judge"
         /\ worker'[w].day = utcDay
         /\ worker'[w].equity = equity
         /\ worker'[w].loss = IF Paper THEN opening'.equity - equity ELSE 0
         /\ \A v \in Workers : v # w => worker'[v] = worker[v]
<1>1. worker \in [Workers -> Tasks]
  BY DEF LimitsTypeOK, Tasks
<1>2. PICK n \in Numbers :
        worker' = [worker EXCEPT ![w] =
                [at |-> "judge", order |-> n, day |-> utcDay, equity |-> equity,
                 held |-> IF mode = "spot" THEN 0 ELSE FilledOrders,
                 loss |-> IF Paper THEN opening'.equity - equity ELSE 0]]
  BY DEF TakeSignal
<1> QED BY <1>1, <1>2

-----------------------------------------------------------------------------
(* The kill switch.                                                            *)

(* The tasks that have been let through and have not placed their order yet.   *)
Placing == {w \in Workers : worker[w].at \in {"insert", "place"}}

(* While the switch is engaged no task is let through: each of those orders     *)
(* that are placed is of a task that was.                                       *)
KillInv == engaged => past.placed + Cardinality(Placing) <= Cardinality(Workers)

LEMMA PlacingKept ==
  ASSUME LimitsTypeOK, KillInv, engaged, Placing' \subseteq Placing,
         past'.placed <= past.placed, past'.placed \in Nat
  PROVE  KillInv'
<1>1. Placing \in SUBSET Workers /\ past.placed \in Nat
  BY DEF Placing, LimitsTypeOK
<1>2. Cardinality(Placing') <= Cardinality(Placing) /\ Cardinality(Placing') \in Nat
      /\ Cardinality(Placing) \in Nat /\ Cardinality(Workers) \in Nat
  <2>1. Placing' \in SUBSET Placing /\ Placing' \in SUBSET Workers
    BY <1>1
  <2> HIDE DEF Placing
  <2> QED BY <1>1, <2>1, SomeTasks
<1>3. past.placed + Cardinality(Placing) <= Cardinality(Workers)
  BY DEF KillInv
<1> HIDE DEF Placing
<1> QED BY <1>1, <1>2, <1>3 DEF KillInv

LEMMA KillStep == LimitsTypeOK /\ KillInv /\ [LimitsNext]_limitVars => KillInv'
<1> SUFFICES ASSUME LimitsTypeOK, KillInv, [LimitsNext]_limitVars PROVE KillInv'
  OBVIOUS
<1>0. /\ worker \in [Workers -> Tasks] /\ past \in Past /\ LimitsTypeOK'
      /\ past.placed \in Nat /\ past'.placed \in Nat
  BY NextTyped DEF LimitsTypeOK, Tasks, Past
<1>1. CASE ~engaged'
  BY <1>1 DEF KillInv
<1>2. CASE Engage
  <2>1. past'.placed = 0 /\ Placing' \in SUBSET Workers
    BY <1>0, <1>2 DEF Engage, Placing, Past
  <2>2. Cardinality(Placing') <= Cardinality(Workers) /\ Cardinality(Placing') \in Nat
    <3> HIDE DEF Placing
    <3> QED BY <2>1, SomeTasks
  <2> QED BY <2>1, <2>2 DEF KillInv
<1>3. ASSUME engaged, UNCHANGED past, Placing' \subseteq Placing PROVE KillInv'
  BY <1>0, <1>3, PlacingKept
<1>4. ASSUME NEW w \in Workers, engaged, Judge(w) PROVE KillInv'
  <2>1. ~Allowed(w)
    BY <1>4 DEF Allowed
  <2>2. worker' = [worker EXCEPT ![w] = AtRest]
    BY <1>4, <2>1 DEF Judge, Finishes
  <2>3. Placing' \subseteq Placing
    BY <1>0, <2>2 DEF Placing, AtRest
  <2>4. past'.placed = past.placed
    BY <1>0, <1>4 DEF Judge, Past
  <2> QED BY <1>0, <1>4, <2>3, <2>4, PlacingKept
<1>5. ASSUME NEW w \in Workers, engaged, InsertIntent(w) PROVE KillInv'
  <2>1. worker' = [worker EXCEPT ![w].at = "place"] /\ worker[w].at = "insert"
    BY <1>5 DEF InsertIntent
  <2>2. Placing' \subseteq Placing
    BY <1>0, <2>1 DEF Placing
  <2>3. past'.placed = past.placed
    BY <1>0, <1>5 DEF InsertIntent, Past
  <2> QED BY <1>0, <1>5, <2>2, <2>3, PlacingKept
<1>6. ASSUME NEW w \in Workers, engaged, Place(w) PROVE KillInv'
  <2>1. PastAt(equity').placed = past.placed /\ PastAt(equity') \in Past
    BY <1>0, PastTyped DEF PastAt, Past
  <2>2. past'.placed = past.placed + 1
    BY <1>6, <2>1 DEF Place, Past
  <2>3. worker[w].at = "place" /\ worker'[w].at = "mark"
        /\ \A v \in Workers : v # w => worker'[v] = worker[v]
    BY <1>0, <1>6 DEF Place
  <2>4. w \in Placing /\ Placing' \subseteq Placing \ {w} /\ Placing \in SUBSET Workers
    BY <2>3 DEF Placing
  <2>5. /\ Cardinality(Placing \ {w}) = Cardinality(Placing) - 1
        /\ Cardinality(Placing) \in Nat /\ Cardinality(Workers) \in Nat
    <3> HIDE DEF Placing
    <3> QED BY <2>4, SomeTasks
  <2>6. /\ Cardinality(Placing') <= Cardinality(Placing \ {w})
        /\ Cardinality(Placing') \in Nat
    <3>1. Placing \ {w} \in SUBSET Workers /\ Placing' \in SUBSET (Placing \ {w})
          /\ Placing' \in SUBSET Workers
      BY <2>4
    <3> HIDE DEF Placing
    <3> QED BY <3>1, SomeTasks
  <2>7. past.placed + Cardinality(Placing) <= Cardinality(Workers)
    BY <1>6 DEF KillInv
  <2> HIDE DEF Placing
  <2> QED BY <1>0, <2>2, <2>5, <2>6, <2>7 DEF KillInv
<1>7. ASSUME NEW w \in Workers, engaged, TakeSignal(w) \/ MarkStatus(w) PROVE KillInv'
  <2>1. UNCHANGED past /\ worker'[w].at \in {"judge", "idle"}
        /\ \A v \in Workers : v # w => worker'[v] = worker[v]
    <3>1. CASE TakeSignal(w)
      BY <3>1, TakeReads DEF TakeSignal
    <3>2. CASE MarkStatus(w)
      BY <1>0, <3>2 DEF MarkStatus, Finishes, AtRest
    <3> QED BY <1>7, <3>1, <3>2
  <2>2. Placing' \subseteq Placing
    BY <2>1 DEF Placing
  <2> QED BY <1>3, <1>7, <2>1, <2>2
<1>8. ASSUME engaged, \E w \in Workers, n \in Numbers : Resubmit(w, n) PROVE KillInv'
  BY <1>8 DEF Resubmit
<1>9. ASSUME engaged, StopEngine \/ EquityMoves \/ NextDay PROVE KillInv'
  <2>1. UNCHANGED worker \/ worker' = [v \in Workers |-> AtRest]
    BY <1>9 DEF StopEngine, EquityMoves, NextDay
  <2>2. Placing' \subseteq Placing
    BY <2>1 DEF Placing, AtRest
  <2>3. past' = past \/ past' = [past EXCEPT !.level = Never, !.inserted = 0]
    BY <1>9 DEF StopEngine, EquityMoves, NextDay, PastAt
  <2>4. past'.placed = past.placed
    BY <1>0, <2>3 DEF Past
  <2> QED BY <1>0, <1>9, <2>2, <2>4, PlacingKept
<1>10. ASSUME engaged, (\E n \in Numbers : Reconcile(n) \/ VenueActs(n)) \/ UNCHANGED limitVars
       PROVE  KillInv'
  BY <1>3, <1>10 DEF Reconcile, VenueActs, limitVars, Placing
<1>11. engaged \/ Engage \/ ~engaged'
  BY DEF LimitsNext, limitVars, TakeSignal, Judge, InsertIntent, Place, MarkStatus, Resubmit,
    Reconcile, VenueActs, StopEngine, EquityMoves, NextDay
<1> QED BY <1>1, <1>2, <1>4, <1>5, <1>6, <1>7, <1>8, <1>9, <1>10, <1>11 DEF LimitsNext

(* Once the kill switch is engaged, no task places a second order.             *)
THEOREM KillAlwaysStops == LimitsSpec => []KillStops
<1>1. LimitsInit => KillInv
  BY Zenon DEF LimitsInit, KillInv
<1>2. LimitsTypeOK /\ KillInv => KillStops
  <2> SUFFICES ASSUME LimitsTypeOK, KillInv, engaged PROVE past.placed <= Cardinality(Workers)
    BY DEF KillStops
  <2>1. Placing \in SUBSET Workers /\ past.placed \in Nat
    BY DEF Placing, LimitsTypeOK
  <2> HIDE DEF Placing
  <2>2. Cardinality(Placing) \in Nat /\ Cardinality(Workers) \in Nat
    BY <2>1, SomeTasks
  <2> QED BY <2>1, <2>2 DEF KillInv
<1> QED BY <1>1, <1>2, InitTyped, NextTyped, KillStep, PTL DEF LimitsSpec

-----------------------------------------------------------------------------
(* The loss of a day, of an account that is always worth something.            *)

LossKnown == past.level # Never

AtGate(w) == worker[w].at = "judge"

(* What the paper broker reports is a loss since the opening of the day; a      *)
(* venue reports none.                                                          *)
Reported ==
    \A w \in Workers : AtGate(w) =>
        /\ worker[w].day <= utcDay
        /\ ~Paper => worker[w].loss = 0
        /\ Paper /\ worker[w].day = utcDay =>
            opening.day = utcDay /\ worker[w].loss = opening.equity - worker[w].equity

(* The loss that was seen is one for every equity that is read from then on:    *)
(* neither the baseline of the day nor the opening moves.                       *)
AtLimit ==
    /\ limits.loss > 0 /\ equity <= past.level
    /\ \/ baseline[utcDay] # Never /\ baseline[utcDay] - past.level >= limits.loss
       \/ Paper /\ opening.day = utcDay /\ opening.equity - past.level >= limits.loss

Sunk == LossKnown => AtLimit

(* The tasks that may still record an order: those let through, and those that  *)
(* read an equity at which the limit is not reached.                            *)
Hopeful == {w \in Workers : worker[w].at = "insert" \/ (AtGate(w) /\ ~LossReached(w))}

CountInv == LossKnown => past.inserted + Cardinality(Hopeful) <= Cardinality(Workers) - 1

LossInv == Reported /\ Sunk /\ CountInv

(* The numbers that are compared. *)
LEMMA Numeric ==
  ASSUME LimitsTypeOK, 0 \notin Equities
  PROVE  /\ limits.loss \in Nat /\ equity \in Nat /\ equity > 0 /\ opening.equity \in Nat
         /\ utcDay \in UtcDays /\ utcDay \in Nat /\ opening.day \in Nat
         /\ past.level \in Int /\ past.inserted \in Nat /\ (LossKnown => past.level \in Nat)
         /\ \A d \in UtcDays : baseline[d] \in Int /\ d \in Nat
         /\ \A w \in Workers : AtGate(w) =>
                /\ worker[w] \in Reading /\ worker[w].day \in UtcDays /\ worker[w].day \in Nat
                /\ worker[w].equity \in Nat /\ worker[w].equity > 0 /\ worker[w].loss \in Int
<1>1. \A e \in Equities : e \in Nat /\ e > 0
  BY LimitsAssumption DEF LimitsAssumption
<1>2. Never \in Int /\ Never = -1
  BY DEF Never
<1>3. \A d \in UtcDays : d \in Nat
  BY LimitsAssumption DEF UtcDays, LimitsAssumption
<1>4. limits.loss \in Nat
  BY LimitsAssumption DEF LimitsTypeOK, LimitsAssumption
<1>5. equity \in Equities /\ opening.equity \in Equities /\ utcDay \in UtcDays /\ opening.day \in UtcDays
  BY DEF LimitsTypeOK
<1>6. past.level \in Equities \cup {Never} /\ past.inserted \in Nat
  BY DEF LimitsTypeOK
<1>7. \A d \in UtcDays : baseline[d] \in Equities \cup {Never}
  BY DEF LimitsTypeOK
<1>8. ASSUME NEW w \in Workers, AtGate(w)
      PROVE  /\ worker[w] \in Reading /\ worker[w].day \in UtcDays
             /\ worker[w].equity \in Equities /\ worker[w].loss \in Int
  <2>1. worker[w] \in Tasks
    BY DEF LimitsTypeOK, Tasks
  <2>2. worker[w] \in Reading
    BY <1>8, <2>1, TaskKinds DEF AtGate
  <2> QED BY <2>2 DEF Reading
<1> QED BY <1>1, <1>2, <1>3, <1>4, <1>5, <1>6, <1>7, <1>8 DEF LossKnown

(* A limit that is reached stays so for who reads it, whatever others observe. *)
LEMMA ReachedStays ==
  ASSUME LimitsTypeOK, 0 \notin Equities, NEW w \in Workers, AtGate(w), LossReached(w),
         worker'[w] = worker[w], limits' = limits,
         \A d \in UtcDays : baseline[d] # Never => baseline'[d] = baseline[d],
         \A d \in UtcDays : baseline'[d] \in Int
  PROVE  LossReached(w)'
<1> DEFINE day == worker[w].day
           e == worker[w].equity
           loss == worker[w].loss
<1>1. day \in UtcDays /\ e \in Nat /\ e > 0 /\ loss \in Int /\ limits.loss \in Nat
      /\ baseline[day] \in Int /\ baseline'[day] \in Int
  BY Numeric
<1>2. LossSeen(w) = Larger(loss, Baseline(w) - e) /\ limits.loss > 0 /\ LossSeen(w) >= limits.loss
  BY <1>1 DEF LossReached, LossSeen
<1>3. Baseline(w) = IF baseline[day] = Never THEN e ELSE baseline[day]
  BY DEF Baseline
<1>4. Baseline(w)' = IF baseline'[day] = Never THEN e ELSE baseline'[day]
  BY DEF Baseline
<1>5. LossSeen(w)' = Larger(loss, Baseline(w)' - e)
  BY <1>1 DEF LossSeen, Larger, Baseline
<1>6. loss >= limits.loss \/ (baseline[day] # Never /\ baseline[day] - e >= limits.loss)
  BY <1>1, <1>2, <1>3 DEF Larger
<1>7. LossSeen(w)' >= limits.loss
  BY <1>1, <1>4, <1>5, <1>6 DEF Larger
<1> QED BY <1>2, <1>7 DEF LossReached

(* What is read once the loss was seen is at the limit. *)
LEMMA SunkReached ==
  ASSUME LimitsTypeOK, 0 \notin Equities, Reported, Sunk, LossKnown, NEW w \in Workers, AtGate(w),
         worker[w].day = utcDay, worker[w].equity <= past.level
  PROVE  LossReached(w)
<1> DEFINE e == worker[w].equity
           loss == worker[w].loss
<1>1. /\ e \in Nat /\ e > 0 /\ loss \in Int /\ limits.loss \in Nat /\ past.level \in Nat
      /\ opening.equity \in Nat /\ baseline[utcDay] \in Int
  BY Numeric
<1>2. LossSeen(w) = Larger(loss, Baseline(w) - e)
  BY <1>1 DEF LossSeen
<1>3. CASE baseline[utcDay] # Never /\ baseline[utcDay] - past.level >= limits.loss
  <2>1. Baseline(w) = baseline[utcDay]
    BY <1>3 DEF Baseline
  <2> QED BY <1>1, <1>2, <1>3, <2>1 DEF LossReached, Larger, Sunk, AtLimit
<1>4. CASE Paper /\ opening.day = utcDay /\ opening.equity - past.level >= limits.loss
  <2>1. loss = opening.equity - e
    BY <1>4 DEF Reported
  <2>2. Baseline(w) \in Int
    BY <1>1 DEF Baseline
  <2> QED BY <1>1, <1>2, <1>4, <2>1, <2>2 DEF LossReached, Larger, Sunk, AtLimit
<1> QED BY <1>3, <1>4 DEF Sunk, AtLimit

(* That is so in the next state of a step as well. *)
Reaching ==
    LimitsTypeOK /\ 0 \notin Equities /\ Reported /\ Sunk /\ LossKnown =>
        \A w \in Workers :
            AtGate(w) /\ worker[w].day = utcDay /\ worker[w].equity <= past.level
                => LossReached(w)

LEMMA NowReached == Reaching
  BY SunkReached DEF Reaching

LEMMA NextReached == Reaching'
  BY NowReached, PTL

(* A baseline that was observed stays. *)
BaselineStays == \A d \in UtcDays : baseline[d] # Never => baseline'[d] = baseline[d]

LEMMA BaselineKept ==
  ASSUME LimitsTypeOK, [LimitsNext]_limitVars
  PROVE  BaselineStays /\ limits' = limits /\ mode' = mode
<1>1. limits' = limits /\ mode' = mode
  BY DEF LimitsNext, limitVars, TakeSignal, Judge, InsertIntent, Place, MarkStatus, Resubmit,
    Reconcile, VenueActs, StopEngine, EquityMoves, Engage, NextDay
<1>2. ASSUME NEW w \in Workers, Judge(w) PROVE BaselineStays
  <2>1. baseline' = baseline \/ baseline' = [baseline EXCEPT ![worker[w].day] = Baseline(w)]
    BY <1>2 DEF Judge
  <2>2. ASSUME NEW d \in UtcDays, baseline[d] # Never PROVE baseline'[d] = baseline[d]
    BY <2>1, <2>2 DEF Baseline, LimitsTypeOK
  <2> QED BY <2>2 DEF BaselineStays
<1>3. CASE UNCHANGED baseline
  BY <1>1, <1>3 DEF BaselineStays
<1>4. UNCHANGED baseline \/ \E w \in Workers : Judge(w)
  BY DEF LimitsNext, limitVars, TakeSignal, InsertIntent, Place, MarkStatus, Resubmit,
    Reconcile, VenueActs, StopEngine, EquityMoves, Engage, NextDay
<1> QED BY <1>1, <1>2, <1>3, <1>4

(* A task that does not take a signal becomes no more hopeful. *)
LEMMA HopefulShrinks ==
  ASSUME LimitsTypeOK, LimitsTypeOK', 0 \notin Equities, BaselineStays, limits' = limits,
         NEW w \in Workers, worker'[w] = worker[w], w \in Hopeful'
  PROVE  w \in Hopeful
<1>1. \A d \in UtcDays : baseline'[d] \in Int
  <2>1. Never \in Int /\ Equities \subseteq Int
    BY LimitsAssumption DEF Never, LimitsAssumption
  <2> QED BY <2>1 DEF LimitsTypeOK
<1>2. CASE worker[w].at = "insert"
  BY <1>2 DEF Hopeful
<1>3. CASE AtGate(w) /\ ~LossReached(w)'
  <2>1. ~LossReached(w)
    BY <1>1, <1>3, ReachedStays DEF BaselineStays
  <2> QED BY <1>3, <2>1 DEF Hopeful
<1> QED BY <1>2, <1>3 DEF Hopeful, AtGate

LEMMA ReportedKept ==
  ASSUME Reported, UNCHANGED <<mode, utcDay, opening>>,
         \A w \in Workers : AtGate(w)' => worker'[w] = worker[w]
  PROVE  Reported'
  BY DEF Reported, AtGate, Paper

LEMMA SunkKept ==
  ASSUME Sunk, LimitsTypeOK, BaselineStays, limits' = limits, mode' = mode,
         LossKnown' => /\ past'.level = past.level /\ utcDay' = utcDay /\ equity' <= past.level
                       /\ Paper /\ opening.day = utcDay => opening' = opening
  PROVE  Sunk'
<1> SUFFICES ASSUME LossKnown' PROVE AtLimit'
  BY DEF Sunk
<1>1. past'.level = past.level /\ utcDay' = utcDay /\ LossKnown /\ equity' <= past.level
  BY DEF LossKnown
<1>2. utcDay \in UtcDays
  BY DEF LimitsTypeOK
<1>3. CASE baseline[utcDay] # Never /\ baseline[utcDay] - past.level >= limits.loss
  BY <1>1, <1>2, <1>3 DEF Sunk, AtLimit, BaselineStays
<1>4. CASE Paper /\ opening.day = utcDay /\ opening.equity - past.level >= limits.loss
  BY <1>1, <1>4 DEF Sunk, AtLimit, Paper
<1> QED BY <1>1, <1>3, <1>4 DEF Sunk, AtLimit

LEMMA CountKept ==
  ASSUME LimitsTypeOK, LimitsTypeOK', CountInv, Hopeful' \subseteq Hopeful,
         LossKnown' => past'.level = past.level /\ past'.inserted = past.inserted
  PROVE  CountInv'
<1>1. past.inserted \in Nat /\ Hopeful \in SUBSET Workers /\ Hopeful' \in SUBSET Workers
      /\ Hopeful' \in SUBSET Hopeful
  BY DEF LimitsTypeOK, Hopeful
<1> HIDE DEF Hopeful
<1>2. /\ Cardinality(Hopeful') <= Cardinality(Hopeful) /\ Cardinality(Hopeful) \in Nat
      /\ Cardinality(Hopeful') \in Nat /\ Cardinality(Workers) \in Nat
  BY <1>1, SomeTasks
<1>3. LossKnown' => LossKnown
  BY DEF LossKnown
<1> QED BY <1>1, <1>2, <1>3 DEF CountInv

(* A step after which fewer tasks are hopeful and nothing else was read keeps   *)
(* what was reported, what is sunk and the count.                               *)
LEMMA QuietKept ==
  ASSUME LimitsTypeOK, LimitsTypeOK', 0 \notin Equities, LossInv, BaselineStays,
         limits' = limits, UNCHANGED <<mode, utcDay, opening>>,
         LossKnown' => past'.level = past.level /\ past'.inserted = past.inserted
                       /\ equity' <= past.level,
         \A w \in Workers : worker'[w].at \in {"insert", "judge"} => worker'[w] = worker[w]
  PROVE  LossInv'
<1>1. Reported'
  BY ReportedKept DEF LossInv, AtGate
<1>2. Sunk'
  BY SunkKept DEF LossInv
<1>3. Hopeful' \subseteq Hopeful
  <2>1. ASSUME NEW w \in Workers, w \in Hopeful' PROVE w \in Hopeful
    <3>1. worker'[w] = worker[w]
      BY <2>1 DEF Hopeful, AtGate
    <3> QED BY <2>1, <3>1, HopefulShrinks
  <2> QED BY <2>1 DEF Hopeful
<1>4. CountInv'
  BY <1>3, CountKept DEF LossInv
<1> QED BY <1>1, <1>2, <1>4 DEF LossInv

(* A new reader is not hopeful once the loss was seen. *)
LEMMA TakeLoss ==
  ASSUME LimitsTypeOK, LimitsTypeOK', 0 \notin Equities, LossInv, BaselineStays,
         limits' = limits, mode' = mode, NEW w \in Workers, TakeSignal(w)
  PROVE  LossInv'
<1>1. /\ worker'[w].at = "judge" /\ worker'[w].day = utcDay /\ worker'[w].equity = equity
      /\ worker'[w].loss = IF Paper THEN opening'.equity - equity ELSE 0
      /\ \A v \in Workers : v # w => worker'[v] = worker[v]
  BY TakeReads
<1>2. /\ UNCHANGED <<mode, limits, equity, baseline, utcDay, past>>
      /\ opening' = IF Paper /\ opening.day # utcDay
                    THEN [day |-> utcDay, equity |-> equity] ELSE opening
  BY DEF TakeSignal
<1>3. utcDay \in Nat
  BY Numeric
<1>4. Reported'
  <2>1. ASSUME NEW v \in Workers, AtGate(v)'
        PROVE  /\ worker'[v].day <= utcDay'
               /\ ~Paper' => worker'[v].loss = 0
               /\ Paper' /\ worker'[v].day = utcDay' =>
                    opening'.day = utcDay' /\ worker'[v].loss = opening'.equity - worker'[v].equity
    <3>1. CASE v = w
      BY <1>1, <1>2, <1>3, <3>1 DEF Paper
    <3>2. CASE v # w
      <4>1. worker'[v] = worker[v] /\ AtGate(v)
        BY <1>1, <2>1, <3>2 DEF AtGate
      <4> QED BY <1>2, <4>1 DEF LossInv, Reported, Paper
    <3> QED BY <3>1, <3>2
  <2> QED BY <2>1 DEF Reported
<1>5. Sunk'
  <2>1. LossKnown' => /\ past'.level = past.level /\ utcDay' = utcDay /\ equity' <= past.level
                      /\ Paper /\ opening.day = utcDay => opening' = opening
    BY <1>2 DEF LossKnown, LossInv, Sunk, AtLimit
  <2> QED BY <2>1, SunkKept DEF LossInv
<1>6. CountInv'
  <2> SUFFICES ASSUME LossKnown' PROVE CountInv'
    BY DEF CountInv
  <2>1. equity' <= past'.level
    BY <1>5 DEF Sunk, AtLimit
  <2>2. LossReached(w)'
    <3>1. AtGate(w)' /\ worker'[w].day = utcDay' /\ worker'[w].equity <= past'.level
      BY <1>1, <1>2, <2>1 DEF AtGate
    <3> QED BY <1>4, <1>5, <3>1, NextReached DEF Reaching
  <2>3. Hopeful' \subseteq Hopeful
    <3>1. ASSUME NEW v \in Workers, v \in Hopeful' PROVE v \in Hopeful
      <4>1. v # w
        BY <1>1, <2>2, <3>1 DEF Hopeful
      <4>2. worker'[v] = worker[v]
        BY <1>1, <4>1
      <4> QED BY <3>1, <4>2, HopefulShrinks
    <3> QED BY <3>1 DEF Hopeful
  <2> QED BY <1>2, <2>3, CountKept DEF LossInv
<1> QED BY <1>4, <1>5, <1>6 DEF LossInv

(* The task that sees the loss is at rest: one less is hopeful. *)
LEMMA JudgeLoss ==
  ASSUME LimitsTypeOK, LimitsTypeOK', 0 \notin Equities, LossInv, BaselineStays,
         limits' = limits, mode' = mode, NEW w \in Workers, Judge(w)
  PROVE  LossInv'
<1>0. worker \in [Workers -> Tasks] /\ past \in Past /\ AtGate(w)
  BY DEF LimitsTypeOK, Tasks, Past, Judge, AtGate
<1>1. UNCHANGED <<utcDay, opening, equity>> /\ \A v \in Workers : v # w => worker'[v] = worker[v]
  BY <1>0 DEF Judge, Finishes
<1>2. Reported'
  <2>1. \A v \in Workers : AtGate(v)' => worker'[v] = worker[v]
    <3>1. worker'[w].at \in {"insert", "idle"}
      BY <1>0 DEF Judge, Finishes, AtRest
    <3> QED BY <1>1, <3>1 DEF AtGate
  <2> QED BY <1>1, <2>1, ReportedKept DEF LossInv
<1>3. CASE Allowed(w) \/ LossKnown
  <2>1. past' = past
    BY <1>3 DEF Judge, LossKnown
  <2>2. Sunk'
    BY <1>1, <2>1, SunkKept DEF LossInv, LossKnown, Sunk, AtLimit
  <2>3. Hopeful' \subseteq Hopeful
    <3>1. ASSUME NEW v \in Workers, v \in Hopeful' PROVE v \in Hopeful
      <4>1. CASE v # w
        BY <1>1, <3>1, <4>1, HopefulShrinks
      <4>2. CASE v = w
        <5>1. Allowed(w)
          BY <1>0, <3>1, <4>2 DEF Judge, Finishes, AtRest, Hopeful, AtGate
        <5> QED BY <1>0, <4>2, <5>1 DEF Allowed, WithinLimits, Hopeful
      <4> QED BY <4>1, <4>2
    <3> QED BY <3>1 DEF Hopeful
  <2>4. CountInv'
    BY <2>1, <2>3, CountKept DEF LossInv
  <2> QED BY <1>2, <2>2, <2>4 DEF LossInv
<1>4. CASE ~Allowed(w) /\ ~LossKnown
  <2>1. worker' = [worker EXCEPT ![w] = AtRest]
    BY <1>4 DEF Judge, Finishes
  <2>2. CASE past' = past
    <3>1. ~LossKnown'
      BY <1>4, <2>2 DEF LossKnown
    <3> QED BY <1>2, <3>1 DEF LossInv, Sunk, CountInv
  <2>3. CASE /\ LossReached(w) /\ worker[w].day = utcDay /\ worker[w].equity >= equity
             /\ past' = [past EXCEPT !.level = worker[w].equity, !.inserted = 0]
    <3> DEFINE e == worker[w].equity
    <3>1. /\ e \in Nat /\ e > 0 /\ worker[w].loss \in Int /\ limits.loss \in Nat
          /\ baseline[utcDay] \in Int /\ utcDay \in UtcDays
      BY <1>0, Numeric
    <3>2. past'.level = e /\ past'.inserted = 0
      BY <1>0, <2>3 DEF Past
    <3>3. limits.loss > 0 /\ Larger(worker[w].loss, Baseline(w) - e) >= limits.loss
      BY <2>3, <3>1 DEF LossReached, LossSeen
    <3>4. \/ worker[w].loss >= limits.loss
          \/ baseline[utcDay] # Never /\ baseline[utcDay] - e >= limits.loss
      BY <2>3, <3>1, <3>3 DEF Larger, Baseline
    <3>5. AtLimit'
      <4>1. CASE worker[w].loss >= limits.loss
        <5>1. Paper
          BY <1>0, <3>1, <3>3, <4>1 DEF LossInv, Reported
        <5>2. opening.day = utcDay /\ worker[w].loss = opening.equity - e
          BY <1>0, <2>3, <5>1 DEF LossInv, Reported
        <5> QED BY <1>1, <2>3, <3>2, <3>3, <4>1, <5>1, <5>2 DEF AtLimit, Paper
      <4>2. CASE baseline[utcDay] # Never /\ baseline[utcDay] - e >= limits.loss
        <5>1. baseline'[utcDay] = baseline[utcDay]
          BY <3>1, <4>2 DEF BaselineStays
        <5> QED BY <1>1, <2>3, <3>2, <3>3, <4>2, <5>1 DEF AtLimit
      <4> QED BY <3>4, <4>1, <4>2
    <3>6. Hopeful' \in SUBSET (Workers \ {w}) /\ Hopeful' \in SUBSET Workers
      BY <1>0, <2>1 DEF Hopeful, AtGate, AtRest
    <3>7. /\ Cardinality(Hopeful') <= Cardinality(Workers \ {w})
          /\ Cardinality(Hopeful') \in Nat /\ Cardinality(Workers) \in Nat
          /\ Cardinality(Workers \ {w}) = Cardinality(Workers) - 1
      <4>1. Workers \in SUBSET Workers /\ Workers \ {w} \in SUBSET Workers
        OBVIOUS
      <4> HIDE DEF Hopeful
      <4> QED BY <3>6, <4>1, SomeTasks
    <3>8. CountInv'
      <4> HIDE DEF Hopeful
      <4> QED BY <3>2, <3>7 DEF CountInv
    <3> QED BY <1>2, <3>5, <3>8 DEF LossInv, Sunk
  <2> QED BY <1>4, <2>2, <2>3 DEF Judge
<1> QED BY <1>3, <1>4

(* An order that is recorded is one of a task that was hopeful. *)
LEMMA InsertLoss ==
  ASSUME LimitsTypeOK, LimitsTypeOK', 0 \notin Equities, LossInv, BaselineStays,
         limits' = limits, mode' = mode, NEW w \in Workers, InsertIntent(w)
  PROVE  LossInv'
<1>0. worker \in [Workers -> Tasks] /\ past \in Past /\ worker[w].at = "insert"
  BY DEF LimitsTypeOK, Tasks, Past, InsertIntent
<1>1. /\ worker' = [worker EXCEPT ![w].at = "place"] /\ UNCHANGED <<utcDay, opening, equity>>
      /\ past' = [past EXCEPT !.inserted = IF past.level = Never THEN 0 ELSE @ + 1]
  BY DEF InsertIntent
<1>2. worker'[w].at = "place" /\ \A v \in Workers : v # w => worker'[v] = worker[v]
  <2>1. "at" \in DOMAIN worker[w]
    BY <1>0, TaskKinds DEF Ordering
  <2> QED BY <1>0, <1>1, <2>1
<1>3. past'.level = past.level /\ (LossKnown => past'.inserted = past.inserted + 1)
  BY <1>0, <1>1 DEF Past, LossKnown
<1>4. Reported'
  BY <1>1, <1>2, ReportedKept DEF LossInv, AtGate
<1>5. Sunk'
  BY <1>1, <1>3, SunkKept DEF LossInv, LossKnown, Sunk, AtLimit
<1>6. Hopeful' \subseteq Hopeful \ {w} /\ w \in Hopeful /\ Hopeful \in SUBSET Workers
  <2>1. ASSUME NEW v \in Workers, v \in Hopeful' PROVE v \in Hopeful \ {w}
    <3>1. v # w
      BY <1>2, <2>1 DEF Hopeful, AtGate
    <3> QED BY <1>2, <2>1, <3>1, HopefulShrinks
  <2> QED BY <1>0, <2>1 DEF Hopeful
<1> HIDE DEF Hopeful
<1>7. /\ Cardinality(Hopeful \ {w}) = Cardinality(Hopeful) - 1
      /\ Cardinality(Hopeful) \in Nat /\ Cardinality(Workers) \in Nat
  BY <1>6, SomeTasks
<1>8. Cardinality(Hopeful') <= Cardinality(Hopeful \ {w}) /\ Cardinality(Hopeful') \in Nat
  <2>1. Hopeful \ {w} \in SUBSET Workers /\ Hopeful' \in SUBSET (Hopeful \ {w})
        /\ Hopeful' \in SUBSET Workers
    BY <1>6
  <2> QED BY <2>1, SomeTasks
<1>9. CountInv'
  <2>1. past.inserted \in Nat
    BY <1>0 DEF Past
  <2> QED BY <1>3, <1>7, <1>8, <2>1 DEF CountInv, LossInv, LossKnown
<1> QED BY <1>4, <1>5, <1>9 DEF LossInv

(* A day that ends and a process that stops leave nobody who has read a loss. *)
LEMMA TurnLoss ==
  ASSUME LimitsTypeOK, LimitsTypeOK', 0 \notin Equities, LossInv, BaselineStays,
         limits' = limits, mode' = mode, StopEngine \/ NextDay
  PROVE  LossInv'
<1>0. past \in Past
  BY DEF LimitsTypeOK, Past
<1>1. CASE NextDay
  <2>1. past'.level = Never
    BY <1>0, <1>1 DEF NextDay, Past
  <2>2. utcDay' = utcDay + 1 /\ UNCHANGED <<mode, opening, worker>>
    BY <1>1 DEF NextDay
  <2>3. Reported'
    <3>1. ASSUME NEW w \in Workers, AtGate(w)'
          PROVE  /\ worker[w].day <= utcDay + 1 /\ worker[w].day # utcDay + 1
                 /\ ~Paper => worker[w].loss = 0
      <4>1. AtGate(w)
        BY <2>2, <3>1 DEF AtGate
      <4>2. worker[w].day \in Nat /\ utcDay \in Nat
        BY <4>1, Numeric
      <4> QED BY <4>1, <4>2 DEF LossInv, Reported
    <3> QED BY <2>2, <3>1 DEF Reported, Paper
  <2> QED BY <2>1, <2>3 DEF LossInv, Sunk, CountInv, LossKnown
<1>2. CASE StopEngine
  <2>1. /\ worker' = [w \in Workers |-> AtRest] /\ utcDay' = utcDay
        /\ Paper => past' = [past EXCEPT !.level = Never, !.inserted = 0]
        /\ ~Paper => UNCHANGED <<equity, opening, past>>
    BY <1>2 DEF StopEngine
  <2>2. Reported'
    BY <2>1 DEF Reported, AtGate, AtRest
  <2>3. LossKnown' => ~Paper
    BY <1>0, <2>1 DEF LossKnown, Past
  <2>4. Sunk'
    BY <2>1, <2>3, SunkKept DEF LossInv, LossKnown, Sunk, AtLimit
  <2>5. Hopeful' \subseteq Hopeful
    BY <2>1 DEF Hopeful, AtGate, AtRest
  <2>6. CountInv'
    BY <2>1, <2>3, <2>5, CountKept DEF LossInv
  <2> QED BY <2>2, <2>4, <2>6 DEF LossInv
<1> QED BY <1>1, <1>2

LEMMA LossStep ==
  ASSUME 0 \notin Equities, LimitsTypeOK, LossInv, [LimitsNext]_limitVars
  PROVE  LossInv'
<1>0. /\ LimitsTypeOK' /\ BaselineStays /\ limits' = limits /\ mode' = mode
      /\ worker \in [Workers -> Tasks] /\ past \in Past
  BY NextTyped, BaselineKept DEF LimitsTypeOK, Tasks, Past
<1>1. ASSUME NEW w \in Workers, TakeSignal(w) \/ Judge(w) \/ InsertIntent(w) PROVE LossInv'
  BY <1>0, <1>1, TakeLoss, JudgeLoss, InsertLoss
<1>2. CASE StopEngine \/ NextDay
  BY <1>0, <1>2, TurnLoss
<1>3. LossKnown => equity <= past.level
  BY DEF LossInv, Sunk, AtLimit
<1>4. ASSUME NEW w \in Workers, Place(w) PROVE LossInv'
  <2>1. PastAt(equity') \in Past
    BY <1>0, PastTyped
  <2>2. past'.level = PastAt(equity').level /\ past'.inserted = PastAt(equity').inserted
    BY <1>4, <2>1 DEF Place, Past
  <2>3. LossKnown' => past'.level = past.level /\ past'.inserted = past.inserted /\ equity' <= past.level
    <3>1. equity' \in Int /\ past.level \in Int
      BY <1>0, Numeric, LimitsAssumption DEF LimitsTypeOK, LimitsAssumption
    <3> QED BY <1>0, <2>2, <3>1 DEF PastAt, Past, LossKnown
  <2>4. \A v \in Workers : worker'[v].at \in {"insert", "judge"} => worker'[v] = worker[v]
    BY <1>0, <1>4 DEF Place
  <2>5. UNCHANGED <<utcDay, opening>>
    BY <1>4 DEF Place
  <2> QED BY <1>0, <2>3, <2>4, <2>5, QuietKept
<1>5. CASE EquityMoves
  <2>1. LossKnown' => past'.level = past.level /\ past'.inserted = past.inserted /\ equity' <= past.level
    <3>1. equity' \in Int /\ past.level \in Int
      BY <1>0, Numeric, LimitsAssumption DEF LimitsTypeOK, LimitsAssumption
    <3> QED BY <1>0, <1>5, <3>1 DEF EquityMoves, PastAt, Past, LossKnown
  <2>2. UNCHANGED <<utcDay, opening, worker>>
    BY <1>5 DEF EquityMoves
  <2> QED BY <1>0, <2>1, <2>2, QuietKept
<1>6. ASSUME NEW w \in Workers, MarkStatus(w) \/ \E n \in Numbers : Resubmit(w, n) PROVE LossInv'
  <2>1. \A v \in Workers : worker'[v].at \in {"insert", "judge"} => worker'[v] = worker[v]
    BY <1>0, <1>6 DEF MarkStatus, Finishes, AtRest, Resubmit
  <2>2. UNCHANGED <<utcDay, opening, past, equity>>
    BY <1>6 DEF MarkStatus, Resubmit
  <2> QED BY <1>0, <1>3, <2>1, <2>2, QuietKept DEF LossKnown
<1>7. CASE (\E n \in Numbers : Reconcile(n) \/ VenueActs(n)) \/ Engage \/ UNCHANGED limitVars
  <2>1. UNCHANGED <<utcDay, opening, worker, equity>>
    BY <1>7 DEF Reconcile, VenueActs, Engage, limitVars
  <2>2. past'.level = past.level /\ past'.inserted = past.inserted
    BY <1>0, <1>7 DEF Reconcile, VenueActs, Engage, limitVars, Past
  <2> QED BY <1>0, <1>3, <2>1, <2>2, QuietKept DEF LossKnown
<1> QED BY <1>1, <1>2, <1>4, <1>5, <1>6, <1>7 DEF LimitsNext

(* Once the loss of the day was seen at its limit, no more signals become orders *)
(* than there are other tasks, unless the equity recovers or the day ends.       *)
THEOREM LossAlwaysStops ==
  ASSUME 0 \notin Equities
  PROVE  LimitsSpec => []LossStops
<1>1. LimitsInit => LossInv
  <2> SUFFICES ASSUME LimitsInit PROVE LossInv
    OBVIOUS
  <2>1. ~LossKnown
    BY DEF LimitsInit, LossKnown
  <2>2. Reported
    BY DEF LimitsInit, Reported, AtGate, AtRest
  <2> QED BY <2>1, <2>2 DEF LossInv, Sunk, CountInv
<1>2. LimitsTypeOK /\ LossInv => LossStops
  <2> SUFFICES ASSUME LimitsTypeOK, LossInv, LossKnown PROVE past.inserted <= Others
    BY DEF LossStops, LossKnown
  <2>1. Hopeful \in SUBSET Workers /\ past.inserted \in Nat
    BY DEF Hopeful, LimitsTypeOK
  <2> HIDE DEF Hopeful
  <2>2. Cardinality(Hopeful) \in Nat /\ Cardinality(Workers) \in Nat
    BY <2>1, SomeTasks
  <2> QED BY <2>1, <2>2 DEF LossInv, CountInv, Others
<1>3. LimitsTypeOK /\ LossInv /\ [LimitsNext]_limitVars => LossInv'
  BY LossStep
<1> QED BY <1>1, <1>2, <1>3, InitTyped, NextTyped, PTL DEF LimitsSpec

(* What stops trading stops it: the loss of the day and the kill switch let     *)
(* through no more than what had passed them when they were reached.            *)
THEOREM StopsAlwaysHold ==
  ASSUME 0 \notin Equities
  PROVE  LimitsSpec => []StopsHold
BY KillAlwaysStops, LossAlwaysStops, PTL DEF StopsHold

-----------------------------------------------------------------------------
(* The limits on orders.                                                       *)

(* What may still become an order, and what has. *)
Inserting == {w \in Workers : worker[w].at = "insert"}
InPlace == {w \in Workers : worker[w].at \in {"place", "mark"}}
Wishful == Inserting \cup {w \in Workers : AtGate(w) /\ worker[w].held + 1 <= limits.open}

PendingOrders == {n \in Numbers : StatusOf(n) \in Pending}
Filled == {n \in Numbers : venue[n] = "filled"}
HeldOrders == {n \in Numbers : venue[n] = "filled" \/ StatusOf(n) \in Pending}
FilledOn(d) == {n \in Numbers : StatusOf(n) = "FILLED" /\ orders[n].day = d}
PlacedOn(d) == {n \in Numbers : StatusOf(n) \in Pending \cup {"FILLED"} /\ orders[n].day = d}

(* Orders and tasks still let through together pass a limit by one order for     *)
(* each other task at most.                                                      *)
Within(K, U, b) == Cardinality(K) + Cardinality(U) <= b + Others

PaperRun == mode = "paper" /\ stops = 0

OpenInv == limits.open > 0 => Within(PendingOrders, Inserting, limits.open)
HeldInv == limits.open > 0 /\ PaperRun => Within(HeldOrders, Wishful, limits.open)
DayInv ==
    PaperRun => \A d \in UtcDays :
        Within(PlacedOn(d), IF d = utcDay THEN Inserting ELSE {}, limits.trades)
BoundsInv == OpenInv /\ HeldInv /\ DayInv

(* An order is in one task's hands; from its insert until its answer is recorded  *)
(* it is pending.  On paper nothing else is, until the process stops.             *)
OneHand == \A v, w \in Workers :
    worker[v] # AtRest /\ worker[w] # AtRest /\ worker[v].order = worker[w].order => v = w
HandsPending == \A w \in InPlace : worker[w].order \in PendingOrders
NothingLater ==
    /\ \A n \in Numbers : orders[n].day <= utcDay
    /\ \A w \in Workers : AtGate(w) => worker[w].day <= utcDay
PaperHands == PaperRun =>
    /\ \A n \in PendingOrders : \E w \in InPlace : worker[w].order = n
    /\ \A n \in Numbers : venue[n] # "open"
    /\ \A w \in Workers : worker[w].at = "mark" => worker[w].answer \in {"FILLED", "REJECTED"}
HandsInv == OneHand /\ HandsPending /\ NothingLater /\ PaperHands

-----------------------------------------------------------------------------
(* Counting.                                                                   *)

LEMMA SomeOrders ==
  ASSUME NEW K \in SUBSET Numbers
  PROVE  /\ IsFiniteSet(K) /\ Cardinality(K) \in Nat
         /\ \A J \in SUBSET K : Cardinality(J) <= Cardinality(K) /\ Cardinality(J) \in Nat
         /\ \A n : Cardinality(K \cup {n}) <= Cardinality(K) + 1
<1>1. IsFiniteSet(K) /\ Cardinality(K) \in Nat
  BY OrdersCounted, LimitsAssumption DEF LimitsAssumption
<1>2. ASSUME NEW J \in SUBSET K PROVE Cardinality(J) <= Cardinality(K) /\ Cardinality(J) \in Nat
  BY <1>1, FS_Subset, FS_CardinalityType
<1>3. ASSUME NEW n PROVE Cardinality(K \cup {n}) <= Cardinality(K) + 1
  <2>1. Cardinality(K \cup {n}) = IF n \in K THEN Cardinality(K) ELSE Cardinality(K) + 1
    BY <1>1, FS_AddElement
  <2> QED BY <1>1, <2>1
<1> QED BY <1>1, <1>2, <1>3

LEMMA OthersCount == Others \in Nat /\ Cardinality(Workers) = Others + 1
<1>1. IsFiniteSet(Workers) /\ Workers # {} /\ Cardinality(Workers) \in Nat
  BY LimitsAssumption, FS_CardinalityType DEF LimitsAssumption
<1>2. Cardinality(Workers) # 0
  BY <1>1, FS_EmptySet
<1> QED BY <1>1, <1>2 DEF Others

(* Fewer orders, and fewer tasks. *)
LEMMA WithinShrinks ==
  ASSUME NEW K \in SUBSET Numbers, NEW U \in SUBSET Workers, NEW b \in Nat, Within(K, U, b),
         NEW J \in SUBSET K, NEW V \in SUBSET U
  PROVE  Within(J, V, b)
<1>1. /\ Cardinality(J) <= Cardinality(K) /\ Cardinality(J) \in Nat /\ Cardinality(K) \in Nat
  BY SomeOrders
<1>2. Cardinality(V) <= Cardinality(U) /\ Cardinality(V) \in Nat /\ Cardinality(U) \in Nat
  BY SomeTasks
<1> QED BY <1>1, <1>2, OthersCount DEF Within

(* A task that was let through makes one order. *)
LEMMA WithinMoves ==
  ASSUME NEW K \in SUBSET Numbers, NEW U \in SUBSET Workers, NEW b \in Nat, Within(K, U, b),
         NEW n \in Numbers, NEW J \in SUBSET (K \cup {n}), NEW w \in U, NEW V \in SUBSET (U \ {w})
  PROVE  Within(J, V, b)
<1>1. /\ Cardinality(K \cup {n}) <= Cardinality(K) + 1 /\ Cardinality(K) \in Nat
  BY SomeOrders
<1>2. K \cup {n} \in SUBSET Numbers
  OBVIOUS
<1>3. Cardinality(J) <= Cardinality(K \cup {n}) /\ Cardinality(J) \in Nat /\ Cardinality(K \cup {n}) \in Nat
  BY <1>2, SomeOrders
<1>4. Cardinality(U \ {w}) = Cardinality(U) - 1 /\ Cardinality(U) \in Nat
  BY SomeTasks
<1>5. U \ {w} \in SUBSET Workers
  OBVIOUS
<1>6. Cardinality(V) <= Cardinality(U \ {w}) /\ Cardinality(V) \in Nat
  BY <1>5, SomeTasks
<1> QED BY <1>1, <1>3, <1>4, <1>6, OthersCount DEF Within

(* Below the limit, there is room for one order of each task. *)
LEMMA FreshBelow ==
  ASSUME NEW doing \in [Workers -> Tasks],
         NEW F \in SUBSET Numbers, NEW K \in SUBSET Numbers, NEW H \in SUBSET Workers, NEW U \in SUBSET Workers,
         H \cap U = {}, \A n \in K \ F : \E w \in H : doing[w].order = n,
         NEW b \in Nat, Cardinality(F) + 1 <= b
  PROVE  Within(K, U, b)
<1> DEFINE rest == K \ F
           hands == {w \in H : doing[w].order \in rest}
           f == [w \in hands |-> doing[w].order]
<1>1. f \in Surjection(hands, rest)
  BY DEF Surjection
<1>2. IsFiniteSet(hands) /\ Cardinality(hands) <= Cardinality(H) /\ Cardinality(hands) \in Nat
      /\ IsFiniteSet(H) /\ Cardinality(H) \in Nat /\ IsFiniteSet(U) /\ Cardinality(U) \in Nat
  <2>1. hands \in SUBSET H /\ hands \in SUBSET Workers
    OBVIOUS
  <2> HIDE DEF hands
  <2> QED BY <2>1, SomeTasks
<1>3. Cardinality(rest) <= Cardinality(hands)
  BY <1>1, <1>2, FS_Surjection
<1>4. Cardinality(H) + Cardinality(U) <= Others + 1
  <2>1. Cardinality(H \cup U) = Cardinality(H) + Cardinality(U) - Cardinality(H \cap U) /\ Cardinality(H \cap U) = 0
    BY <1>2, FS_Union, FS_EmptySet
  <2>2. H \cup U \in SUBSET Workers
    OBVIOUS
  <2>3. Cardinality(H \cup U) <= Cardinality(Workers) /\ Cardinality(H \cup U) \in Nat
    BY <2>2, SomeTasks
  <2> QED BY <1>2, <2>1, <2>3, OthersCount
<1>5. Cardinality(K) <= Cardinality(F) + Cardinality(rest) /\ Cardinality(rest) \in Nat /\ Cardinality(F) \in Nat
      /\ Cardinality(K) \in Nat
  <2>1. rest \in SUBSET Numbers /\ F \cup rest \in SUBSET Numbers /\ K \in SUBSET (F \cup rest)
    OBVIOUS
  <2> HIDE DEF rest
  <2>2. IsFiniteSet(F) /\ IsFiniteSet(rest) /\ Cardinality(F) \in Nat /\ Cardinality(rest) \in Nat
    BY <2>1, SomeOrders
  <2>3. Cardinality(F \cup rest) = Cardinality(F) + Cardinality(rest) - Cardinality(F \cap rest)
    BY <2>2, FS_Union
  <2>4. Cardinality(F \cap rest) \in Nat
    BY SomeOrders
  <2>5. Cardinality(K) <= Cardinality(F \cup rest) /\ Cardinality(K) \in Nat /\ Cardinality(F \cup rest) \in Nat
    BY <2>1, SomeOrders
  <2> QED BY <2>2, <2>3, <2>4, <2>5
<1> HIDE DEF rest, hands
<1> QED BY <1>2, <1>3, <1>4, <1>5, OthersCount DEF Within

-----------------------------------------------------------------------------
(* Whose hands an order is in.                                                 *)

LEMMA LimitsTyped ==
  ASSUME LimitsTypeOK
  PROVE  /\ worker \in [Workers -> Tasks] /\ orders \in [Numbers -> [status : Statuses, day : UtcDays]]
         /\ venue \in [Numbers -> Fates] /\ utcDay \in UtcDays /\ utcDay \in Int /\ UtcDays \subseteq Int
         /\ limits.open \in Nat /\ limits.trades \in Nat /\ stops \in Nat
         /\ \A w \in Workers : worker[w] \in Tasks /\ worker[w].at \in {"idle", "judge", "insert", "place", "mark"}
         /\ \A w \in Workers : worker[w] # AtRest => worker[w].order \in Numbers
         /\ \A w \in Workers : worker[w].at = "idle" <=> worker[w] = AtRest
         /\ \A n \in Numbers : orders[n].status \in Statuses /\ orders[n].day \in Int
<1>1. worker \in [Workers -> Tasks] /\ orders \in [Numbers -> [status : Statuses, day : UtcDays]]
      /\ venue \in [Numbers -> Fates] /\ utcDay \in UtcDays
  BY DEF LimitsTypeOK, Tasks
<1>2. UtcDays \subseteq Int
  BY DEF UtcDays
<1>3. limits \in [trades : Nat, open : Nat, loss : Nat] /\ stops \in Nat
  BY LimitsAssumption DEF LimitsTypeOK, LimitsAssumption
<1>4. \A w \in Workers : worker[w] \in Tasks
  BY <1>1
<1> QED BY <1>1, <1>2, <1>3, <1>4, TaskKinds

LEMMA OneHandKept ==
  ASSUME LimitsTypeOK, OneHand, NEW w \in Workers, NEW t, worker' = [worker EXCEPT ![w] = t],
         \/ t = AtRest
         \/ worker[w] # AtRest /\ t.order = worker[w].order
         \/ ~InHand(t.order)
  PROVE  OneHand'
<1>1. worker'[w] = t /\ \A v \in Workers \ {w} : worker'[v] = worker[v]
  BY LimitsTyped
<1>2. ASSUME NEW v \in Workers \ {w}, worker[v] # AtRest, t # AtRest, worker[v].order = t.order PROVE FALSE
  BY <1>2 DEF OneHand, InHand
<1> SUFFICES ASSUME NEW u \in Workers, NEW v \in Workers, worker'[u] # AtRest, worker'[v] # AtRest,
                    worker'[u].order = worker'[v].order
             PROVE  u = v
  BY DEF OneHand
<1>3. CASE u = w \/ v = w
  BY <1>1, <1>2, <1>3
<1>4. CASE u # w /\ v # w
  BY <1>1, <1>4 DEF OneHand
<1> QED BY <1>3, <1>4

LEMMA TakeHands ==
  ASSUME LimitsTypeOK, HandsInv, NEW w \in Workers, TakeSignal(w)
  PROVE  HandsInv'
<1>1. PICK n \in Numbers :
        /\ ~InHand(n)
        /\ worker' = [worker EXCEPT ![w] =
                [at |-> "judge", order |-> n, day |-> utcDay, equity |-> equity,
                 held |-> IF mode = "spot" THEN 0 ELSE FilledOrders,
                 loss |-> IF Paper THEN opening'.equity - equity ELSE 0]]
  BY DEF TakeSignal
<1> DEFINE t == [at |-> "judge", order |-> n, day |-> utcDay, equity |-> equity,
                 held |-> IF mode = "spot" THEN 0 ELSE FilledOrders,
                 loss |-> IF Paper THEN opening'.equity - equity ELSE 0]
<1>2. t.order = n /\ t.at = "judge" /\ t.day = utcDay
  OBVIOUS
<1>3. worker' = [worker EXCEPT ![w] = t]
  BY <1>1
<1> HIDE DEF t
<1>4. UNCHANGED <<mode, stops, orders, venue, utcDay>> /\ worker[w].at = "idle"
  BY LimitsTyped DEF TakeSignal
<1>5. OneHand'
  BY <1>1, <1>2, <1>3, OneHandKept DEF HandsInv
<1>6. worker'[w] = t /\ \A v \in Workers \ {w} : worker'[v] = worker[v]
  BY <1>3, LimitsTyped
<1>7. InPlace' = InPlace /\ \A v \in InPlace : worker'[v] = worker[v]
  BY <1>2, <1>4, <1>6 DEF InPlace
<1>8. PendingOrders' = PendingOrders
  BY <1>4 DEF PendingOrders, StatusOf
<1>9. HandsPending'
  BY <1>7, <1>8 DEF HandsInv, HandsPending
<1>10. NothingLater'
  BY <1>2, <1>4, <1>6, LimitsTyped DEF HandsInv, NothingLater, AtGate
<1>11. PaperHands'
  BY <1>2, <1>4, <1>6, <1>7, <1>8 DEF HandsInv, PaperHands, PaperRun
<1> QED BY <1>5, <1>9, <1>10, <1>11 DEF HandsInv

(* A task whose order is or becomes t's, and that is not placing it, moves on.  *)
LEMMA JudgeHands ==
  ASSUME LimitsTypeOK, HandsInv, NEW w \in Workers, Judge(w)
  PROVE  HandsInv'
<1> DEFINE t == worker'[w]
           n == worker[w].order
<1>1. UNCHANGED <<mode, stops, venue, utcDay>> /\ worker[w].at = "judge" /\ worker[w] # AtRest /\ n \in Numbers
  BY LimitsTyped DEF Judge, AtRest
<1>2. /\ worker' = [worker EXCEPT ![w] = t] /\ (t = AtRest \/ t.order = n)
      /\ t.at \in {"idle", "insert"}
      /\ orders' = orders \/ orders' = Recorded(n, "REJECTED")
  BY LimitsTyped DEF Judge, Finishes, AtRest
<1> HIDE DEF t, n
<1>3. worker'[w] = t /\ \A v \in Workers \ {w} : worker'[v] = worker[v]
  BY <1>2, LimitsTyped
<1>4. OneHand'
  BY <1>1, <1>2, OneHandKept DEF HandsInv, n
<1>5. InPlace' = InPlace /\ w \notin InPlace /\ \A v \in InPlace : worker'[v] = worker[v]
  BY <1>1, <1>2, <1>3 DEF InPlace
<1>6. /\ \A m \in Numbers \ {n} : orders'[m] = orders[m]
      /\ orders'[n] = orders[n] \/ (orders'[n].status = "REJECTED" /\ orders'[n].day = utcDay)
  BY <1>1, <1>2, LimitsTyped DEF Recorded
<1>7. PendingOrders' \subseteq PendingOrders /\ PendingOrders \ {n} \subseteq PendingOrders'
  BY <1>6 DEF PendingOrders, StatusOf, Pending
<1>8. \A v \in InPlace : worker[v].order # n
  <2>1. \A v \in InPlace : v \in Workers /\ v # w /\ worker[v] # AtRest
    BY <1>5 DEF InPlace, AtRest
  <2> QED BY <1>1, <2>1 DEF HandsInv, OneHand, n
<1>9. HandsPending'
  BY <1>5, <1>7, <1>8 DEF HandsInv, HandsPending
<1>10. NothingLater'
  <2>1. \A m \in Numbers : orders'[m].day <= utcDay'
    BY <1>1, <1>6, LimitsTyped DEF HandsInv, NothingLater
  <2>2. \A v \in Workers : AtGate(v)' => worker'[v].day <= utcDay'
    BY <1>1, <1>2, <1>3 DEF HandsInv, NothingLater, AtGate
  <2> QED BY <2>1, <2>2 DEF NothingLater
<1>11. PaperHands'
  BY <1>1, <1>2, <1>3, <1>5, <1>7 DEF HandsInv, PaperHands, PaperRun
<1> QED BY <1>4, <1>9, <1>10, <1>11 DEF HandsInv

LEMMA InsertHands ==
  ASSUME LimitsTypeOK, HandsInv, NEW w \in Workers, InsertIntent(w)
  PROVE  HandsInv'
<1> DEFINE t == worker'[w]
           n == worker[w].order
<1>1. UNCHANGED <<mode, stops, venue, utcDay>> /\ worker[w].at = "insert" /\ worker[w] # AtRest /\ n \in Numbers
  BY LimitsTyped DEF InsertIntent, AtRest
<1>2. /\ worker' = [worker EXCEPT ![w] = t] /\ t.order = n /\ t.at = "place"
      /\ orders' = Recorded(n, "INTENT")
  BY <1>1, LimitsTyped, TaskKinds DEF InsertIntent, Ordering
<1> HIDE DEF t, n
<1>3. worker'[w] = t /\ \A v \in Workers \ {w} : worker'[v] = worker[v]
  BY <1>2, LimitsTyped
<1>4. OneHand'
  BY <1>1, <1>2, OneHandKept DEF HandsInv, n
<1>5. InPlace' = InPlace \cup {w} /\ \A v \in InPlace : worker'[v] = worker[v]
  BY <1>1, <1>2, <1>3 DEF InPlace
<1>6. /\ \A m \in Numbers \ {n} : orders'[m] = orders[m]
      /\ orders'[n].status = "INTENT" /\ orders'[n].day = utcDay
  BY <1>1, <1>2, LimitsTyped DEF Recorded
<1>7. PendingOrders' = PendingOrders \cup {n}
  BY <1>1, <1>6 DEF PendingOrders, StatusOf, Pending
<1>8. HandsPending'
  BY <1>2, <1>3, <1>5, <1>7 DEF HandsInv, HandsPending
<1>9. NothingLater'
  <2>1. \A m \in Numbers : orders'[m].day <= utcDay'
    BY <1>1, <1>6, LimitsTyped DEF HandsInv, NothingLater
  <2>2. \A v \in Workers : AtGate(v)' => worker'[v].day <= utcDay'
    BY <1>1, <1>2, <1>3 DEF HandsInv, NothingLater, AtGate
  <2> QED BY <2>1, <2>2 DEF NothingLater
<1>10. PaperHands'
  BY <1>1, <1>2, <1>3, <1>5, <1>7 DEF HandsInv, PaperHands, PaperRun
<1> QED BY <1>4, <1>8, <1>9, <1>10 DEF HandsInv

LEMMA PlaceHands ==
  ASSUME LimitsTypeOK, HandsInv, NEW w \in Workers, Place(w)
  PROVE  HandsInv'
<1> DEFINE t == worker'[w]
           n == worker[w].order
<1>1. UNCHANGED <<mode, stops, orders, utcDay>> /\ worker[w].at = "place" /\ worker[w] # AtRest /\ n \in Numbers
  BY LimitsTyped DEF Place, AtRest
<1>2. /\ worker' = [worker EXCEPT ![w] = t] /\ t.order = n /\ t.at = "mark"
      /\ Paper => /\ t.answer \in {"FILLED", "REJECTED"}
                   /\ venue' \in {[venue EXCEPT ![n] = "filled"], [venue EXCEPT ![n] = "none"]}
  <2>1. PICK fate \in {"none", "open", "filled"}, answer \in Statuses :
          /\ Paper => <<fate, answer>> \in {<<"filled", "FILLED">>, <<"none", "REJECTED">>}
          /\ venue' = [venue EXCEPT ![n] = fate]
          /\ worker' = [worker EXCEPT ![w] = [at |-> "mark", order |-> @.order, answer |-> answer]]
    BY DEF Place
  <2>2. t = [at |-> "mark", order |-> n, answer |-> answer]
    BY <2>1, LimitsTyped
  <2>3. worker' = [worker EXCEPT ![w] = t]
    BY <2>1, <2>2
  <2>4. Paper => fate \in {"filled", "none"} /\ answer \in {"FILLED", "REJECTED"}
    BY <2>1
  <2> HIDE DEF t
  <2> QED BY <2>1, <2>2, <2>3, <2>4
<1> HIDE DEF t, n
<1>3. worker'[w] = t /\ \A v \in Workers \ {w} : worker'[v] = worker[v]
  BY <1>2, LimitsTyped
<1>4. OneHand'
  BY <1>1, <1>2, OneHandKept DEF HandsInv, n
<1>5. InPlace' = InPlace /\ w \in InPlace /\ \A v \in InPlace : worker'[v].order = worker[v].order
  BY <1>1, <1>2, <1>3 DEF InPlace, n
<1>6. PendingOrders' = PendingOrders
  BY <1>1 DEF PendingOrders, StatusOf
<1>7. HandsPending'
  BY <1>5, <1>6 DEF HandsInv, HandsPending
<1>8. NothingLater'
  BY <1>1, <1>2, <1>3 DEF HandsInv, NothingLater, AtGate
<1>9. PaperHands'
  <2> SUFFICES ASSUME PaperRun'
               PROVE  /\ \A m \in PendingOrders' : \E v \in InPlace' : worker'[v].order = m
                      /\ \A m \in Numbers : venue'[m] # "open"
                      /\ \A v \in Workers : worker'[v].at = "mark" => worker'[v].answer \in {"FILLED", "REJECTED"}
    BY DEF PaperHands
  <2>1. PaperRun /\ Paper
    BY <1>1 DEF PaperRun, Paper
  <2>2. \A m \in Numbers : venue'[m] # "open"
    BY <1>2, <2>1, LimitsTyped DEF HandsInv, PaperHands
  <2>3. \A v \in Workers : worker'[v].at = "mark" => worker'[v].answer \in {"FILLED", "REJECTED"}
    BY <1>2, <1>3, <2>1 DEF HandsInv, PaperHands
  <2>4. \A m \in PendingOrders' : \E v \in InPlace' : worker'[v].order = m
    BY <1>5, <1>6, <2>1 DEF HandsInv, PaperHands
  <2> QED BY <2>2, <2>3, <2>4
<1> QED BY <1>4, <1>7, <1>8, <1>9 DEF HandsInv

LEMMA MarkHands ==
  ASSUME LimitsTypeOK, HandsInv, NEW w \in Workers, MarkStatus(w)
  PROVE  HandsInv'
<1> DEFINE n == worker[w].order
<1>1. UNCHANGED <<mode, stops, venue, utcDay>> /\ worker[w].at = "mark" /\ worker[w] # AtRest /\ n \in Numbers
  BY LimitsTyped DEF MarkStatus, AtRest
<1>2. /\ worker' = [worker EXCEPT ![w] = AtRest]
      /\ SetStatus(n, worker[w].answer) \/ (worker[w].answer = "UNKNOWN" /\ SetStatus(n, "MANUAL_REVIEW"))
  BY DEF MarkStatus, Finishes
<1> HIDE DEF n
<1>3. worker'[w] = AtRest /\ \A v \in Workers \ {w} : worker'[v] = worker[v]
  BY <1>2, LimitsTyped
<1>4. OneHand'
  BY <1>2, OneHandKept DEF HandsInv
<1>5. InPlace' = InPlace \ {w} /\ w \in InPlace /\ \A v \in InPlace \ {w} : worker'[v] = worker[v]
  BY <1>1, <1>3 DEF InPlace, AtRest
<1>6. /\ \A m \in Numbers \ {n} : orders'[m] = orders[m]
      /\ orders'[n].day = orders[n].day
      /\ PaperRun => orders'[n].status \in {"FILLED", "REJECTED"}
  BY <1>1, <1>2, LimitsTyped DEF SetStatus, HandsInv, PaperHands
<1>7. n \in PendingOrders /\ PendingOrders' \subseteq PendingOrders /\ PendingOrders \ {n} \subseteq PendingOrders'
  <2>1. n \in PendingOrders
    BY <1>5 DEF HandsInv, HandsPending, n
  <2> QED BY <1>6, <2>1 DEF PendingOrders, StatusOf
<1>8. \A v \in InPlace \ {w} : worker[v].order # n
  <2>1. \A v \in InPlace : v \in Workers /\ worker[v] # AtRest
    BY DEF InPlace, AtRest
  <2> QED BY <1>1, <2>1 DEF HandsInv, OneHand, n
<1>9. HandsPending'
  BY <1>5, <1>7, <1>8 DEF HandsInv, HandsPending
<1>10. NothingLater'
  <2>1. \A m \in Numbers : orders'[m].day <= utcDay'
    BY <1>1, <1>6, LimitsTyped DEF HandsInv, NothingLater
  <2>2. \A v \in Workers : AtGate(v)' => worker'[v].day <= utcDay'
    BY <1>1, <1>3 DEF HandsInv, NothingLater, AtGate, AtRest
  <2> QED BY <2>1, <2>2 DEF NothingLater
<1>11. PaperHands'
  <2> SUFFICES ASSUME PaperRun'
               PROVE  /\ \A m \in PendingOrders' : \E v \in InPlace' : worker'[v].order = m
                      /\ \A m \in Numbers : venue'[m] # "open"
                      /\ \A v \in Workers : worker'[v].at = "mark" => worker'[v].answer \in {"FILLED", "REJECTED"}
    BY DEF PaperHands
  <2>1. PaperRun
    BY <1>1 DEF PaperRun
  <2>2. \A m \in Numbers : venue'[m] # "open"
    BY <1>1, <2>1 DEF HandsInv, PaperHands
  <2>3. \A v \in Workers : worker'[v].at = "mark" => worker'[v].answer \in {"FILLED", "REJECTED"}
    BY <1>3, <2>1 DEF HandsInv, PaperHands, AtRest
  <2>4. n \notin PendingOrders'
    BY <1>6, <2>1 DEF PendingOrders, StatusOf, Pending
  <2>5. \A m \in PendingOrders' : \E v \in InPlace' : worker'[v].order = m
    <3> TAKE m \in PendingOrders'
    <3>1. m # n /\ m \in PendingOrders
      BY <1>7, <2>4
    <3>2. PICK v \in InPlace : worker[v].order = m
      BY <2>1, <3>1 DEF HandsInv, PaperHands
    <3>3. v # w
      BY <3>1, <3>2 DEF n
    <3> QED BY <1>5, <3>2, <3>3
  <2> QED BY <2>2, <2>3, <2>5
<1> QED BY <1>4, <1>9, <1>10, <1>11 DEF HandsInv

LEMMA ReconcileHands ==
  ASSUME LimitsTypeOK, HandsInv, NEW n \in Numbers, Reconcile(n)
  PROVE  HandsInv'
<1>1. UNCHANGED <<mode, stops, venue, utcDay, worker>> /\ n \in PendingOrders /\ ~InHand(n)
  BY DEF Reconcile, PendingOrders
<1>2. /\ \A m \in Numbers \ {n} : orders'[m] = orders[m]
      /\ orders'[n].day = orders[n].day
  BY LimitsTyped DEF Reconcile, SetStatus
<1>3. PendingOrders' \subseteq PendingOrders /\ PendingOrders \ {n} \subseteq PendingOrders' /\ InPlace' = InPlace
  BY <1>1, <1>2 DEF PendingOrders, StatusOf, InPlace
<1>4. \A v \in InPlace : worker[v].order # n
  BY <1>1 DEF InHand, InPlace, AtRest
<1>5. OneHand' /\ HandsPending'
  BY <1>1, <1>3, <1>4 DEF HandsInv, OneHand, HandsPending
<1>6. NothingLater'
  <2>1. \A m \in Numbers : orders'[m].day <= utcDay'
    BY <1>1, <1>2 DEF HandsInv, NothingLater
  <2> QED BY <1>1, <2>1 DEF HandsInv, NothingLater, AtGate
<1>7. PaperHands'
  BY <1>1, <1>3 DEF HandsInv, PaperHands, PaperRun
<1> QED BY <1>5, <1>6, <1>7 DEF HandsInv

LEMMA ResubmitHands ==
  ASSUME LimitsTypeOK, HandsInv, NEW w \in Workers, NEW n \in Numbers, Resubmit(w, n)
  PROVE  HandsInv'
<1> DEFINE t == [at |-> "place", order |-> n]
<1>1. /\ UNCHANGED <<mode, stops, venue, utcDay, orders>> /\ n \in PendingOrders /\ ~InHand(n)
      /\ worker' = [worker EXCEPT ![w] = t] /\ worker[w].at = "idle"
  BY LimitsTyped DEF Resubmit, PendingOrders, Pending
<1>2. t.order = n /\ t.at = "place"
  OBVIOUS
<1> HIDE DEF t
<1>3. worker'[w] = t /\ \A v \in Workers \ {w} : worker'[v] = worker[v]
  BY <1>1, LimitsTyped
<1>4. OneHand'
  BY <1>1, <1>2, OneHandKept DEF HandsInv
<1>5. InPlace' = InPlace \cup {w} /\ w \notin InPlace /\ \A v \in InPlace : worker'[v] = worker[v]
  BY <1>1, <1>2, <1>3 DEF InPlace
<1>6. PendingOrders' = PendingOrders
  BY <1>1 DEF PendingOrders, StatusOf
<1>7. HandsPending'
  BY <1>1, <1>2, <1>3, <1>5, <1>6 DEF HandsInv, HandsPending
<1>8. NothingLater'
  BY <1>1, <1>2, <1>3 DEF HandsInv, NothingLater, AtGate
<1>9. PaperHands'
  BY <1>1, <1>2, <1>3, <1>5, <1>6 DEF HandsInv, PaperHands, PaperRun
<1> QED BY <1>4, <1>7, <1>8, <1>9 DEF HandsInv

LEMMA TurnHands ==
  ASSUME LimitsTypeOK, HandsInv, StopEngine \/ NextDay
  PROVE  HandsInv'
<1>1. CASE StopEngine
  <2>1. worker' = [w \in Workers |-> AtRest] /\ UNCHANGED <<orders, utcDay>> /\ stops' = stops + 1
    BY <1>1 DEF StopEngine
  <2>2. ~PaperRun'
    BY <2>1, LimitsTyped DEF PaperRun
  <2>3. InPlace' = {}
    BY <2>1 DEF InPlace, AtRest
  <2> QED BY <2>1, <2>2, <2>3 DEF HandsInv, OneHand, HandsPending, NothingLater, PaperHands, AtGate, AtRest
<1>2. CASE NextDay
  <2>1. utcDay' = utcDay + 1 /\ UNCHANGED <<mode, stops, orders, venue, worker>>
    BY <1>2 DEF NextDay
  <2>2. NothingLater'
    <3>1. \A n \in Numbers : orders'[n].day <= utcDay'
      BY <2>1, LimitsTyped DEF HandsInv, NothingLater
    <3>2. \A w \in Workers : AtGate(w) => worker[w].day \in Int
      BY LimitsTyped, TaskKinds DEF AtGate, Reading
    <3>3. \A w \in Workers : AtGate(w)' => worker'[w].day <= utcDay'
      BY <2>1, <3>2, LimitsTyped DEF HandsInv, NothingLater, AtGate
    <3> QED BY <3>1, <3>3 DEF NothingLater
  <2>3. InPlace' = InPlace /\ PendingOrders' = PendingOrders
    BY <2>1 DEF InPlace, PendingOrders, StatusOf
  <2> QED BY <2>1, <2>2, <2>3 DEF HandsInv, OneHand, HandsPending, PaperHands, PaperRun
<1> QED BY <1>1, <1>2

(* Nothing but the venue, the equity or the switch moves. *)
LEMMA StillHands ==
  ASSUME LimitsTypeOK, HandsInv, UNCHANGED <<mode, stops, orders, utcDay, worker>>,
         \A n \in Numbers : venue[n] # "open" => venue'[n] = venue[n]
  PROVE  HandsInv'
<1>1. InPlace' = InPlace /\ PendingOrders' = PendingOrders
  BY DEF InPlace, PendingOrders, StatusOf
<1>2. OneHand' /\ HandsPending' /\ NothingLater'
  BY <1>1 DEF HandsInv, OneHand, HandsPending, NothingLater, AtGate
<1>3. PaperHands'
  BY <1>1 DEF HandsInv, PaperHands, PaperRun
<1> QED BY <1>2, <1>3 DEF HandsInv

LEMMA HandsStep ==
  ASSUME LimitsTypeOK, HandsInv, [LimitsNext]_limitVars
  PROVE  HandsInv'
<1>1. ASSUME NEW n \in Numbers, VenueActs(n) PROVE HandsInv'
  <2>1. UNCHANGED <<mode, stops, orders, utcDay, worker>> /\ \A m \in Numbers : venue[m] # "open" => venue'[m] = venue[m]
    BY <1>1, LimitsTyped DEF VenueActs
  <2> QED BY <2>1, StillHands
<1>2. CASE EquityMoves \/ Engage \/ UNCHANGED limitVars
  <2>1. UNCHANGED <<mode, stops, orders, utcDay, worker, venue>>
    BY <1>2 DEF EquityMoves, Engage, limitVars
  <2> QED BY <2>1, StillHands
<1> QED BY <1>1, <1>2, TakeHands, JudgeHands, InsertHands, PlaceHands, MarkHands, ReconcileHands,
           ResubmitHands, TurnHands DEF LimitsNext

LEMMA HandsStart == LimitsInit => HandsInv
<1> SUFFICES ASSUME LimitsInit PROVE HandsInv
  OBVIOUS
<1>1. InPlace = {} /\ PendingOrders = {}
  BY DEF LimitsInit, InPlace, PendingOrders, StatusOf, Pending, AtRest
<1>2. OneHand /\ HandsPending /\ NothingLater
  BY <1>1 DEF LimitsInit, OneHand, HandsPending, NothingLater, AtGate, AtRest
<1>3. PaperHands
  BY <1>1 DEF LimitsInit, PaperHands, AtRest
<1> QED BY <1>2, <1>3 DEF HandsInv

-----------------------------------------------------------------------------
(* The bounds.                                                                 *)

LEMMA SetsTyped ==
  /\ Inserting \in SUBSET Workers /\ InPlace \in SUBSET Workers /\ Wishful \in SUBSET Workers
  /\ PendingOrders \in SUBSET Numbers /\ Filled \in SUBSET Numbers /\ HeldOrders \in SUBSET Numbers
  /\ \A d : FilledOn(d) \in SUBSET Numbers /\ PlacedOn(d) \in SUBSET Numbers
  BY DEF Inserting, InPlace, Wishful, PendingOrders, Filled, HeldOrders, FilledOn, PlacedOn

(* A step that lets nobody through and inserts nothing. *)
LEMMA BoundsShrink ==
  ASSUME LimitsTypeOK, BoundsInv, UNCHANGED <<mode, limits, utcDay>>,
         stops' = 0 => stops = 0,
         PendingOrders' \subseteq PendingOrders, Inserting' \subseteq Inserting,
         PaperRun' => HeldOrders' \subseteq HeldOrders /\ Wishful' \subseteq Wishful,
         PaperRun' => \A d \in UtcDays : PlacedOn(d)' \subseteq PlacedOn(d)
  PROVE  BoundsInv'
<1>1. OpenInv'
  <2> SUFFICES ASSUME limits.open > 0 PROVE Within(PendingOrders', Inserting', limits.open)
    BY DEF OpenInv
  <2>1. Within(PendingOrders, Inserting, limits.open)
    BY DEF BoundsInv, OpenInv
  <2> QED BY <2>1, WithinShrinks, SetsTyped, LimitsTyped
<1>2. HeldInv'
  <2> SUFFICES ASSUME limits.open > 0, PaperRun' PROVE Within(HeldOrders', Wishful', limits.open)
    BY DEF HeldInv
  <2>1. Within(HeldOrders, Wishful, limits.open)
    BY DEF BoundsInv, HeldInv, PaperRun
  <2> QED BY <2>1, WithinShrinks, SetsTyped, LimitsTyped
<1>3. DayInv'
  <2> DEFINE U(d) == IF d = utcDay THEN Inserting ELSE {}
             V(d) == IF d = utcDay THEN Inserting' ELSE {}
  <2> SUFFICES ASSUME PaperRun', NEW d \in UtcDays PROVE Within(PlacedOn(d)', V(d), limits.trades)
    BY DEF DayInv
  <2>1. Within(PlacedOn(d), U(d), limits.trades)
    BY DEF BoundsInv, DayInv, PaperRun
  <2>2. V(d) \in SUBSET U(d) /\ U(d) \in SUBSET Workers
    BY SetsTyped
  <2>3. PlacedOn(d)' \in SUBSET PlacedOn(d) /\ PlacedOn(d) \in SUBSET Numbers
    BY SetsTyped
  <2> HIDE DEF U, V
  <2> QED BY <2>1, <2>2, <2>3, WithinShrinks, LimitsTyped
<1> QED BY <1>1, <1>2, <1>3 DEF BoundsInv

(* A signal is taken: the orders that are pending and not filled are in hands.   *)
LEMMA TakeBounds ==
  ASSUME LimitsTypeOK, LimitsTypeOK', HandsInv, BoundsInv, NEW w \in Workers, TakeSignal(w)
  PROVE  BoundsInv'
<1>1. UNCHANGED <<mode, limits, utcDay, stops, orders, venue>> /\ worker[w].at = "idle"
  BY LimitsTyped DEF TakeSignal
<1>2. PICK n \in Numbers :
        worker' = [worker EXCEPT ![w] =
                [at |-> "judge", order |-> n, day |-> utcDay, equity |-> equity,
                 held |-> IF mode = "spot" THEN 0 ELSE FilledOrders,
                 loss |-> IF Paper THEN opening'.equity - equity ELSE 0]]
  BY DEF TakeSignal
<1>3. /\ worker'[w].at = "judge" /\ (mode = "paper" => worker'[w].held = FilledOrders)
      /\ \A v \in Workers \ {w} : worker'[v] = worker[v]
  BY <1>2, LimitsTyped
<1>4. PendingOrders' = PendingOrders /\ HeldOrders' = HeldOrders /\ \A d \in UtcDays : PlacedOn(d)' = PlacedOn(d)
  BY <1>1 DEF PendingOrders, HeldOrders, PlacedOn, StatusOf
<1>5. Inserting' = Inserting /\ InPlace' = InPlace /\ \A v \in InPlace : worker'[v] = worker[v]
  BY <1>1, <1>3 DEF Inserting, InPlace
<1>6. CASE w \notin Wishful'
  <2>1. Wishful' \subseteq Wishful
    BY <1>1, <1>3, <1>5, <1>6 DEF Wishful, AtGate
  <2> QED BY <1>1, <1>4, <1>5, <2>1, BoundsShrink
<1>7. CASE w \in Wishful'
  <2>1. OpenInv' /\ DayInv'
    BY <1>1, <1>4, <1>5 DEF BoundsInv, OpenInv, DayInv, PaperRun
  <2>2. HeldInv'
    <3> SUFFICES ASSUME PaperRun PROVE Within(HeldOrders, Wishful', limits.open)
      BY <1>1, <1>4 DEF HeldInv, PaperRun
    <3>1. Cardinality(Filled) + 1 <= limits.open
      <4>1. w \notin Inserting'
        BY <1>3 DEF Inserting
      <4>2. worker'[w].held + 1 <= limits.open
        BY <1>1, <1>7, <4>1 DEF Wishful
      <4> QED BY <1>3, <4>2 DEF PaperRun, FilledOrders, Filled
    <3>2. \A m \in HeldOrders \ Filled : \E v \in InPlace : worker'[v].order = m
      <4>1. \A m \in HeldOrders \ Filled : m \in PendingOrders
        BY DEF HeldOrders, Filled, PendingOrders
      <4> QED BY <1>5, <4>1 DEF HandsInv, PaperHands
    <3>3. InPlace \cap Wishful' = {} /\ Wishful' \in SUBSET Workers
      BY <1>5 DEF InPlace, Wishful, Inserting, AtGate
    <3>4. worker' \in [Workers -> Tasks]
      BY DEF LimitsTypeOK, Tasks
    <3> QED BY <3>1, <3>2, <3>3, <3>4, SetsTyped, LimitsTyped, FreshBelow
  <2> QED BY <2>1, <2>2 DEF BoundsInv
<1> QED BY <1>6, <1>7

(* The gate lets a signal through below the limits that it compares. *)
LEMMA JudgeBounds ==
  ASSUME LimitsTypeOK, LimitsTypeOK', HandsInv, BoundsInv, NEW w \in Workers, Judge(w)
  PROVE  BoundsInv'
<1> DEFINE n == worker[w].order
<1>1. UNCHANGED <<mode, limits, utcDay, stops, venue>> /\ worker[w].at = "judge" /\ n \in Numbers
  BY LimitsTyped DEF Judge, AtRest
<1>2. \A v \in Workers \ {w} : worker'[v] = worker[v]
  BY LimitsTyped DEF Judge, Finishes
<1>3. CASE ~Allowed(w)
  <2>1. worker' = [worker EXCEPT ![w] = AtRest] /\ orders' = Recorded(n, "REJECTED")
    BY <1>3 DEF Judge, Finishes
  <2>2. worker'[w].at = "idle"
    BY <2>1, LimitsTyped DEF AtRest
  <2>3. Inserting' \subseteq Inserting /\ Wishful' \subseteq Wishful
    BY <1>1, <1>2, <2>2 DEF Inserting, Wishful, AtGate
  <2>4. /\ \A m \in Numbers \ {n} : orders'[m] = orders[m]
        /\ orders'[n].status = "REJECTED"
    BY <1>1, <2>1, LimitsTyped DEF Recorded
  <2>5. /\ PendingOrders' \subseteq PendingOrders /\ HeldOrders' \subseteq HeldOrders
        /\ \A d \in UtcDays : PlacedOn(d)' \subseteq PlacedOn(d)
    BY <1>1, <2>4 DEF PendingOrders, HeldOrders, PlacedOn, StatusOf, Pending
  <2> QED BY <1>1, <2>3, <2>5, BoundsShrink
<1>4. CASE Allowed(w)
  <2>1. worker' = [worker EXCEPT ![w] = [at |-> "insert", order |-> n]] /\ orders' = orders
    BY <1>4 DEF Judge
  <2>2. worker'[w].at = "insert"
    BY <2>1, LimitsTyped
  <2>3. PendingOrders' = PendingOrders /\ HeldOrders' = HeldOrders /\ \A d \in UtcDays : PlacedOn(d)' = PlacedOn(d)
    BY <1>1, <2>1 DEF PendingOrders, HeldOrders, PlacedOn, StatusOf
  <2>4. Inserting' \in SUBSET Workers /\ InPlace \cap Inserting' = {}
    BY <1>1, <1>2, <2>2 DEF Inserting, InPlace
  <2>5. worker[w] \in Reading /\ worker[w].held \in Int /\ worker[w].day \in Int
    <3>1. worker[w] \in Reading
      BY <1>1, LimitsTyped, TaskKinds
    <3> QED BY <3>1, LimitsTyped DEF Reading
  <2>6. OpenInv'
    <3> SUFFICES ASSUME limits.open > 0 PROVE Within(PendingOrders, Inserting', limits.open)
      BY <1>1, <2>3 DEF OpenInv
    <3>1. Cardinality(PendingOrders) + 1 <= limits.open
      <4>1. Larger(worker[w].held, open_exposure) + 1 <= limits.open
        BY <1>4 DEF Allowed, WithinLimits
      <4>2. open_exposure = Cardinality(PendingOrders) /\ open_exposure \in Nat
        BY SetsTyped, SomeOrders DEF open_exposure, PendingOrders
      <4> QED BY <2>5, <4>1, <4>2, LimitsTyped DEF Larger
    <3>2. \A m \in PendingOrders \ PendingOrders : \E v \in {} : worker[v].order = m
      OBVIOUS
    <3>3. {} \in SUBSET Workers /\ {} \cap Inserting' = {}
      OBVIOUS
    <3> QED BY <2>4, <3>1, <3>2, <3>3, SetsTyped, LimitsTyped, FreshBelow
  <2>7. HeldInv'
    <3> SUFFICES ASSUME limits.open > 0, PaperRun PROVE Within(HeldOrders, Wishful', limits.open)
      BY <1>1, <2>3 DEF HeldInv, PaperRun
    <3>1. worker[w].held + 1 <= limits.open
      <4>1. Larger(worker[w].held, open_exposure) + 1 <= limits.open
        BY <1>4 DEF Allowed, WithinLimits
      <4>2. open_exposure \in Nat
        BY SetsTyped, SomeOrders DEF open_exposure, PendingOrders
      <4> QED BY <2>5, <4>1, <4>2, LimitsTyped DEF Larger
    <3>2. w \in Wishful
      BY <1>1, <3>1 DEF Wishful, AtGate
    <3>3. Wishful' \in SUBSET Wishful
      BY <1>1, <1>2, <3>2 DEF Wishful, Inserting, AtGate
    <3>4. Within(HeldOrders, Wishful, limits.open) /\ HeldOrders \in SUBSET HeldOrders
      BY DEF BoundsInv, HeldInv
    <3> QED BY <3>3, <3>4, SetsTyped, LimitsTyped, WithinShrinks
  <2>8. DayInv'
    <3> DEFINE U(d) == IF d = utcDay THEN Inserting' ELSE {}
    <3> SUFFICES ASSUME PaperRun, NEW d \in UtcDays PROVE Within(PlacedOn(d), U(d), limits.trades)
      BY <1>1, <2>3 DEF DayInv, PaperRun
    <3>1. CASE d = utcDay
      <4>1. Cardinality(FilledOn(d)) + 1 <= limits.trades
        <5> DEFINE since == {m \in Numbers : StatusOf(m) = "FILLED" /\ orders[m].day >= worker[w].day}
        <5>1. Cardinality(since) < limits.trades
          BY <1>4 DEF Allowed, WithinLimits, TradesSince
        <5>2. worker[w].day <= utcDay
          BY <1>1 DEF HandsInv, NothingLater, AtGate
        <5>3. FilledOn(d) \in SUBSET since /\ since \in SUBSET Numbers
          BY <2>5, <3>1, <5>2, LimitsTyped DEF FilledOn
        <5> HIDE DEF since
        <5>4. Cardinality(FilledOn(d)) <= Cardinality(since) /\ Cardinality(since) \in Nat /\ Cardinality(FilledOn(d)) \in Nat
          BY <5>3, SomeOrders
        <5> QED BY <5>1, <5>4, LimitsTyped
      <4>2. \A m \in PlacedOn(d) \ FilledOn(d) : \E v \in InPlace : worker[v].order = m
        <5>1. \A m \in PlacedOn(d) \ FilledOn(d) : m \in PendingOrders
          BY DEF PlacedOn, FilledOn, PendingOrders
        <5> QED BY <5>1 DEF HandsInv, PaperHands
      <4> QED BY <2>4, <3>1, <4>1, <4>2, SetsTyped, LimitsTyped, FreshBelow
    <3>2. CASE d # utcDay
      <4>1. Within(PlacedOn(d), {}, limits.trades)
        BY <3>2 DEF BoundsInv, DayInv
      <4> QED BY <3>2, <4>1
    <3> QED BY <3>1, <3>2
  <2> QED BY <2>6, <2>7, <2>8 DEF BoundsInv
<1> QED BY <1>3, <1>4

(* One order comes of one task that was let through. *)
LEMMA InsertBounds ==
  ASSUME LimitsTypeOK, LimitsTypeOK', HandsInv, BoundsInv, NEW w \in Workers, InsertIntent(w)
  PROVE  BoundsInv'
<1> DEFINE n == worker[w].order
<1>1. UNCHANGED <<mode, limits, utcDay, stops, venue>> /\ worker[w].at = "insert" /\ n \in Numbers
  BY LimitsTyped DEF InsertIntent, AtRest
<1>2. /\ \A v \in Workers \ {w} : worker'[v] = worker[v]
      /\ worker'[w].at = "place"
  BY <1>1, LimitsTyped, TaskKinds DEF InsertIntent, Ordering
<1>3. /\ \A m \in Numbers \ {n} : orders'[m] = orders[m]
      /\ orders'[n].status = "INTENT" /\ orders'[n].day = utcDay
  BY <1>1, LimitsTyped DEF InsertIntent, Recorded
<1>4. w \in Inserting /\ w \in Wishful /\ Inserting' \in SUBSET (Inserting \ {w}) /\ Wishful' \in SUBSET (Wishful \ {w})
  BY <1>1, <1>2 DEF Inserting, Wishful, AtGate
<1>5. /\ PendingOrders' \in SUBSET (PendingOrders \cup {n}) /\ HeldOrders' \in SUBSET (HeldOrders \cup {n})
      /\ \A d \in UtcDays : PlacedOn(d)' \in SUBSET (PlacedOn(d) \cup {n})
      /\ \A d \in UtcDays \ {utcDay} : PlacedOn(d)' \in SUBSET PlacedOn(d)
  BY <1>1, <1>3 DEF PendingOrders, HeldOrders, PlacedOn, StatusOf
<1> HIDE DEF n
<1>6. OpenInv'
  BY <1>1, <1>4, <1>5, WithinMoves, SetsTyped, LimitsTyped DEF BoundsInv, OpenInv
<1>7. HeldInv'
  BY <1>1, <1>4, <1>5, WithinMoves, SetsTyped, LimitsTyped DEF BoundsInv, HeldInv, PaperRun
<1>8. DayInv'
  <2> DEFINE V(d) == IF d = utcDay THEN Inserting' ELSE {}
  <2> SUFFICES ASSUME PaperRun, NEW d \in UtcDays PROVE Within(PlacedOn(d)', V(d), limits.trades)
    BY <1>1 DEF DayInv, PaperRun
  <2>1. CASE d = utcDay
    <3>1. Within(PlacedOn(d), Inserting, limits.trades)
      BY <2>1 DEF BoundsInv, DayInv
    <3>2. PlacedOn(d)' \in SUBSET (PlacedOn(d) \cup {n}) /\ PlacedOn(d) \in SUBSET Numbers
      BY <1>5, <2>1, SetsTyped DEF PlacedOn
    <3> QED BY <1>1, <1>4, <2>1, <3>1, <3>2, WithinMoves, SetsTyped, LimitsTyped
  <2>2. CASE d # utcDay
    <3>1. Within(PlacedOn(d), {}, limits.trades)
      BY <2>2 DEF BoundsInv, DayInv
    <3>2. PlacedOn(d)' \in SUBSET PlacedOn(d) /\ PlacedOn(d) \in SUBSET Numbers /\ {} \in SUBSET Workers /\ {} \in SUBSET {}
      BY <1>5, <2>2, SetsTyped
    <3>3. Within(PlacedOn(d)', {}, limits.trades)
      BY <3>1, <3>2, WithinShrinks, LimitsTyped
    <3> QED BY <2>2, <3>3
  <2> QED BY <2>1, <2>2
<1> QED BY <1>6, <1>7, <1>8 DEF BoundsInv

(* What is placed or answered has been pending before. *)
LEMMA PlaceBounds ==
  ASSUME LimitsTypeOK, HandsInv, BoundsInv, NEW w \in Workers, Place(w)
  PROVE  BoundsInv'
<1> DEFINE n == worker[w].order
<1>1. UNCHANGED <<mode, limits, utcDay, stops, orders>> /\ worker[w].at = "place" /\ n \in Numbers
  BY LimitsTyped DEF Place, AtRest
<1>2. /\ \A v \in Workers \ {w} : worker'[v] = worker[v]
      /\ worker'[w].at = "mark" /\ \A m \in Numbers \ {n} : venue'[m] = venue[m]
  BY <1>1, LimitsTyped DEF Place
<1>3. n \in PendingOrders
  BY <1>1 DEF HandsInv, HandsPending, InPlace
<1>4. Inserting' \subseteq Inserting /\ Wishful' \subseteq Wishful
  BY <1>1, <1>2 DEF Inserting, Wishful, AtGate
<1>5. PendingOrders' = PendingOrders /\ \A d \in UtcDays : PlacedOn(d)' = PlacedOn(d)
  BY <1>1 DEF PendingOrders, PlacedOn, StatusOf
<1>6. HeldOrders' \subseteq HeldOrders
  BY <1>1, <1>2, <1>3 DEF HeldOrders, PendingOrders, StatusOf
<1> QED BY <1>1, <1>4, <1>5, <1>6, BoundsShrink

LEMMA AnswerBounds ==
  ASSUME LimitsTypeOK, BoundsInv, NEW n \in PendingOrders,
         UNCHANGED <<mode, limits, utcDay, stops, venue>>,
         \A m \in Numbers \ {n} : orders'[m] = orders[m], orders'[n].day = orders[n].day,
         \A v \in Workers : worker'[v] = worker[v] \/ worker'[v].at \notin {"judge", "insert"}
  PROVE  BoundsInv'
<1>1. Inserting' \subseteq Inserting /\ Wishful' \subseteq Wishful
  BY DEF Inserting, Wishful, AtGate
<1>2. PendingOrders' \subseteq PendingOrders /\ HeldOrders' \subseteq HeldOrders
  BY DEF PendingOrders, HeldOrders, StatusOf
<1>3. \A d \in UtcDays : PlacedOn(d)' \subseteq PlacedOn(d)
  BY DEF PendingOrders, PlacedOn, StatusOf
<1> QED BY <1>1, <1>2, <1>3, BoundsShrink

LEMMA MarkBounds ==
  ASSUME LimitsTypeOK, HandsInv, BoundsInv, NEW w \in Workers, MarkStatus(w)
  PROVE  BoundsInv'
<1> DEFINE n == worker[w].order
<1>1. UNCHANGED <<mode, limits, utcDay, stops, venue>> /\ worker[w].at = "mark" /\ n \in Numbers
  BY LimitsTyped DEF MarkStatus, AtRest
<1>2. \A v \in Workers : worker'[v] = worker[v] \/ worker'[v].at \notin {"judge", "insert"}
  BY LimitsTyped DEF MarkStatus, Finishes, AtRest
<1>3. n \in PendingOrders
  BY <1>1 DEF HandsInv, HandsPending, InPlace
<1>4. (\A m \in Numbers \ {n} : orders'[m] = orders[m]) /\ orders'[n].day = orders[n].day
  BY <1>1, LimitsTyped DEF MarkStatus, SetStatus
<1> HIDE DEF n
<1> QED BY <1>1, <1>2, <1>3, <1>4, AnswerBounds

LEMMA ReconcileBounds ==
  ASSUME LimitsTypeOK, BoundsInv, NEW n \in Numbers, Reconcile(n)
  PROVE  BoundsInv'
<1>1. UNCHANGED <<mode, limits, utcDay, stops, venue, worker>> /\ n \in PendingOrders
  BY DEF Reconcile, PendingOrders
<1>2. (\A m \in Numbers \ {n} : orders'[m] = orders[m]) /\ orders'[n].day = orders[n].day
  BY LimitsTyped DEF Reconcile, SetStatus
<1> QED BY <1>1, <1>2, AnswerBounds

(* The others touch no order, and let nobody through. *)
LEMMA OtherBounds ==
  ASSUME LimitsTypeOK, HandsInv, BoundsInv,
         \/ \E w \in Workers, n \in Numbers : Resubmit(w, n)
         \/ \E n \in Numbers : VenueActs(n)
         \/ StopEngine \/ EquityMoves \/ Engage \/ UNCHANGED limitVars
  PROVE  BoundsInv'
<1>1. UNCHANGED <<mode, limits, utcDay, orders>> /\ (stops' = 0 => stops = 0)
  BY LimitsTyped DEF Resubmit, VenueActs, StopEngine, EquityMoves, Engage, limitVars
<1>2. PendingOrders' = PendingOrders /\ \A d \in UtcDays : PlacedOn(d)' = PlacedOn(d)
  BY <1>1 DEF PendingOrders, PlacedOn, StatusOf
<1>3. \A v \in Workers : worker'[v] = worker[v] \/ worker'[v].at \notin {"judge", "insert"}
  BY LimitsTyped DEF Resubmit, VenueActs, StopEngine, EquityMoves, Engage, limitVars, AtRest
<1>4. Inserting' \subseteq Inserting /\ Wishful' \subseteq Wishful
  BY <1>1, <1>3 DEF Inserting, Wishful, AtGate
<1>5. PaperRun' => HeldOrders' \subseteq HeldOrders
  <2>1. CASE StopEngine
    BY <2>1, LimitsTyped DEF StopEngine, PaperRun
  <2>2. CASE \E n \in Numbers : VenueActs(n)
    <3>1. ~PaperRun /\ UNCHANGED <<mode, stops>>
      BY <2>2 DEF VenueActs, HandsInv, PaperHands
    <3> QED BY <3>1 DEF PaperRun
  <2>3. CASE \/ \E w \in Workers, n \in Numbers : Resubmit(w, n)
             \/ EquityMoves \/ Engage \/ UNCHANGED limitVars
    <3>1. venue' = venue
      BY <2>3 DEF Resubmit, EquityMoves, Engage, limitVars
    <3> QED BY <1>1, <3>1 DEF HeldOrders, StatusOf
  <2> QED BY <2>1, <2>2, <2>3
<1> QED BY <1>1, <1>2, <1>4, <1>5, BoundsShrink

(* Those who are still let through at midnight count for the day that begins. *)
LEMMA NextDayBounds ==
  ASSUME LimitsTypeOK, LimitsTypeOK', HandsInv, BoundsInv, NextDay
  PROVE  BoundsInv'
<1>1. utcDay' = utcDay + 1 /\ UNCHANGED <<mode, limits, stops, orders, venue, worker>>
  BY DEF NextDay
<1>2. /\ PendingOrders' = PendingOrders /\ HeldOrders' = HeldOrders /\ \A d \in UtcDays : PlacedOn(d)' = PlacedOn(d)
      /\ Inserting' = Inserting /\ Wishful' = Wishful
  BY <1>1 DEF PendingOrders, HeldOrders, PlacedOn, StatusOf, Inserting, Wishful, AtGate
<1>3. OpenInv' /\ HeldInv'
  BY <1>1, <1>2 DEF BoundsInv, OpenInv, HeldInv, PaperRun
<1>4. DayInv'
  <2> DEFINE V(d) == IF d = utcDay' THEN Inserting ELSE {}
  <2> SUFFICES ASSUME PaperRun, NEW d \in UtcDays PROVE Within(PlacedOn(d), V(d), limits.trades)
    BY <1>1, <1>2 DEF DayInv, PaperRun
  <2>1. Within(PlacedOn(utcDay), Inserting, limits.trades)
    BY LimitsTyped DEF BoundsInv, DayInv
  <2>2. CASE d = utcDay'
    <3>1. PlacedOn(d) = {}
      <4>1. ASSUME NEW m \in PlacedOn(d) PROVE FALSE
        <5>1. m \in Numbers /\ orders[m].day = utcDay + 1 /\ orders[m].day <= utcDay
          BY <1>1, <2>2 DEF PlacedOn, HandsInv, NothingLater
        <5> QED BY <5>1, LimitsTyped
      <4> QED BY <4>1
    <3>2. {} \in SUBSET PlacedOn(utcDay) /\ Inserting \in SUBSET Inserting /\ PlacedOn(utcDay) \in SUBSET Numbers
      BY SetsTyped DEF PlacedOn
    <3>3. Within({}, Inserting, limits.trades)
      BY <2>1, <3>2, WithinShrinks, SetsTyped, LimitsTyped
    <3> QED BY <2>2, <3>1, <3>3
  <2>3. CASE d # utcDay'
    <3> DEFINE U(e) == IF e = utcDay THEN Inserting ELSE {}
    <3>1. Within(PlacedOn(d), U(d), limits.trades)
      BY DEF BoundsInv, DayInv
    <3>2. V(d) \in SUBSET U(d) /\ U(d) \in SUBSET Workers /\ PlacedOn(d) \in SUBSET PlacedOn(d)
      BY <2>3, SetsTyped
    <3> HIDE DEF U, V
    <3> QED BY <3>1, <3>2, WithinShrinks, SetsTyped, LimitsTyped
  <2> QED BY <2>2, <2>3
<1> QED BY <1>3, <1>4 DEF BoundsInv

LEMMA BoundsStep ==
  ASSUME LimitsTypeOK, LimitsTypeOK', HandsInv, BoundsInv, [LimitsNext]_limitVars
  PROVE  BoundsInv'
  BY TakeBounds, JudgeBounds, InsertBounds, PlaceBounds, MarkBounds, ReconcileBounds, OtherBounds, NextDayBounds
     DEF LimitsNext

LEMMA BoundsStart == LimitsInit => LimitsTypeOK /\ BoundsInv
<1> SUFFICES ASSUME LimitsInit PROVE LimitsTypeOK /\ BoundsInv
  OBVIOUS
<1>1. LimitsTypeOK
  BY InitTyped
<1>2. Inserting = {} /\ Wishful = {} /\ PendingOrders = {} /\ HeldOrders = {} /\ \A d : PlacedOn(d) = {}
  BY DEF LimitsInit, Inserting, Wishful, AtGate, AtRest, PendingOrders, HeldOrders, PlacedOn, StatusOf, Pending
<1>3. ASSUME NEW b \in Nat PROVE Within({}, {}, b)
  BY FS_EmptySet, OthersCount DEF Within
<1>4. \A d : (IF d = utcDay THEN Inserting ELSE {}) = {}
  BY <1>2
<1>5. OpenInv /\ HeldInv
  BY <1>1, <1>2, <1>3, LimitsTyped DEF OpenInv, HeldInv
<1>6. DayInv
  BY <1>1, <1>2, <1>3, <1>4, LimitsTyped DEF DayInv
<1> QED BY <1>1, <1>5, <1>6 DEF BoundsInv

(* The exposure and the trades of a day pass their limits by no more than one     *)
(* order for each other task: what was judged at the same time.                  *)
LEMMA BoundsBound == LimitsTypeOK /\ BoundsInv => LimitsBounded
<1> SUFFICES ASSUME LimitsTypeOK, BoundsInv PROVE LimitsBounded
  OBVIOUS
<1>1. ASSUME NEW K \in SUBSET Numbers, NEW U \in SUBSET Workers, NEW b \in Nat, Within(K, U, b)
      PROVE  Cardinality(K) <= b + Others
  <2>1. Cardinality(K) \in Nat /\ Cardinality(U) \in Nat
    BY SomeOrders, SomeTasks
  <2> QED BY <1>1, <2>1, OthersCount DEF Within
<1>2. ExposureBounded
  <2>1. limits.open > 0 => Cardinality(PendingOrders) <= limits.open + Others
    BY <1>1, SetsTyped, LimitsTyped DEF BoundsInv, OpenInv
  <2>2. limits.open > 0 /\ PaperRun => Cardinality(HeldOrders) <= limits.open + Others
    BY <1>1, SetsTyped, LimitsTyped DEF BoundsInv, HeldInv
  <2> QED BY <2>1, <2>2 DEF ExposureBounded, PendingOrders, HeldOrders, PaperRun
<1>3. TradesBounded
  <2> SUFFICES ASSUME PaperRun, NEW d \in UtcDays PROVE Cardinality(FilledOn(d)) <= limits.trades + Others
    BY DEF TradesBounded, PaperRun, FilledOn
  <2> DEFINE U == IF d = utcDay THEN Inserting ELSE {}
  <2>1. Within(PlacedOn(d), U, limits.trades)
    BY DEF BoundsInv, DayInv
  <2>2. U \in SUBSET Workers /\ {} \in SUBSET U /\ {} \in SUBSET Workers
    BY SetsTyped
  <2>3. FilledOn(d) \in SUBSET PlacedOn(d)
    BY DEF FilledOn, PlacedOn
  <2> HIDE DEF U
  <2>4. Within(FilledOn(d), {}, limits.trades)
    BY <2>1, <2>2, <2>3, WithinShrinks, SetsTyped, LimitsTyped
  <2> QED BY <1>1, <2>2, <2>4, SetsTyped, LimitsTyped
<1> QED BY <1>2, <1>3 DEF LimitsBounded

THEOREM LimitsAlwaysBound == LimitsSpec => []LimitsBounded
<1>1. LimitsInit => HandsInv /\ BoundsInv
  BY HandsStart, BoundsStart
<1>2. LimitsTypeOK /\ LimitsTypeOK' /\ HandsInv /\ BoundsInv /\ [LimitsNext]_limitVars => HandsInv' /\ BoundsInv'
  BY HandsStep, BoundsStep
<1> QED BY <1>1, <1>2, TypesAlways, BoundsBound, PTL DEF LimitsSpec
================================================================================

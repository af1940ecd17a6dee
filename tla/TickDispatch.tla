----------------------------- MODULE TickDispatch -----------------------------
(***************************************************************************)
(* The forwarder of live ticks to the engine's /tick-signal scorer         *)
(* (core-backend/src/services/liveTickSignal.dispatch.ts), for one symbol. *)
(* Ticks are numbered; a request carries the number of the newest tick in  *)
(* its window.  Names start with Tick so that an MC module can extend this *)
(* module beside others.                                                   *)
(***************************************************************************)
EXTENDS Naturals

CONSTANTS
    MaxTicks,       \* bound: ticks appended in a behaviour
    Verdicts,       \* what the engine's answers may say
    Step,           \* BROADCAST_CONFIDENCE_STEP
    Gate            \* MIN_EXECUTABLE_CONFIDENCE

Tiers == {"T1", "T2", "T3", "T4", "T5", "null"}

(* `target`: the answer carries a valid target price. *)
AllVerdicts == [dir : {"BUY", "SELL", "none"}, conf : Nat, waiting : BOOLEAN,
                tier : Tiers, target : BOOLEAN]

ASSUME TickAssumption ==
    /\ MaxTicks \in Nat
    /\ Verdicts \subseteq AllVerdicts
    /\ Step \in Nat \ {0} /\ Gate \in Nat

VARIABLES
    newest,      \* newest fresh tick in the ring
    beat,        \* the interval since lastSentAt: none, running or over
    timer,       \* pendingTimers: the trailing timer is armed
    inFlight,    \* a request is outstanding
    rescan,      \* a tick came while it was
    posts,       \* windows the engine still has to answer
    subscribed,  \* hasActiveSubscribers
    shown,       \* lastBroadcast, and what was to be shown
    due,         \* newest tick that came while somebody was subscribed
    considered,  \* newest window posted, or held back by the market regime
    answered     \* window of the last answer

tickVars == <<newest, beat, timer, inFlight, rescan, posts, subscribed, shown,
              due, considered, answered>>
sending == <<beat, timer, inFlight, rescan, posts, shown, considered>>

(* The waiting-only rider: the engine failed, the regime blocks or the feed is lost. *)
Rider == [dir |-> "none", conf |-> 0, waiting |-> TRUE, tier |-> "null",
          target |-> FALSE]

Shape(v) == [dir |-> v.dir, conf |-> v.conf, waiting |-> v.waiting, tier |-> v.tier]
NoBroadcast == [dir |-> "nothing", conf |-> 0, waiting |-> FALSE, tier |-> "null"]
Shapes == [dir : {"BUY", "SELL", "none", "nothing"}, conf : Nat, waiting : BOOLEAN,
           tier : Tiers]

-----------------------------------------------------------------------------
(* Dropped: neither a direction nor a waiting flag; a direction without a target. *)
Usable(v) == IF v.dir = "none" THEN v.waiting ELSE v.target

Distance(a, b) == IF a < b THEN b - a ELSE a - b

(* What the change gate takes for a repetition. *)
SameVerdict(p, v) ==
    /\ p.dir = v.dir /\ p.waiting = v.waiting /\ p.tier = v.tier
    /\ Distance(p.conf, v.conf) < Step
    /\ (p.conf < Gate) = (v.conf < Gate)

(* mutant: the gate compares with the last answer, so that small steps add up *)
CreepingBroadcast(s, v) ==
    IF ~Usable(v) THEN s
    ELSE [last   |-> IF SameVerdict(s.wanted, v) THEN s.last ELSE Shape(v),
          wanted |-> Shape(v)]

(* broadcast.  `last` is lastBroadcast, what clients show; `wanted` is the last *)
(* verdict that was to be shown.                                                *)
Broadcast(s, v) ==
    IF ~Usable(v) THEN s
    ELSE [last   |-> IF SameVerdict(s.last, v) THEN s.last ELSE Shape(v),
          wanted |-> Shape(v)]

TickInit ==
    /\ newest = 0 /\ beat = "none" /\ timer = FALSE
    /\ inFlight = FALSE /\ rescan = FALSE /\ posts = {}
    /\ subscribed = FALSE
    /\ shown = [last |-> NoBroadcast, wanted |-> NoBroadcast]
    /\ due = 0 /\ considered = 0 /\ answered = 0

-----------------------------------------------------------------------------
(* runDispatch of the window up to tick n, as far as its await; when it returns  *)
(* before that, dispatch's finally block follows.  s is what is shown by now,    *)
(* others the windows still unanswered, armed the timer.                         *)
DispatchNothing(n, s, others) ==
    /\ ~subscribed \/ n < 2
    /\ beat' = "running" /\ timer' = FALSE /\ rescan' = FALSE
    /\ inFlight' = FALSE /\ posts' = others
    /\ shown' = s
    /\ UNCHANGED considered

DispatchBlocked(n, s, others) ==
    /\ subscribed /\ n >= 2
    /\ beat' = "running" /\ timer' = FALSE /\ rescan' = FALSE
    /\ inFlight' = FALSE /\ posts' = others
    /\ shown' = Broadcast(s, Rider)
    /\ considered' = n

DispatchPosted(n, s, others, armed) ==
    /\ subscribed /\ n >= 2
    /\ beat' = "running" /\ timer' = armed /\ rescan' = FALSE
    /\ inFlight' = TRUE /\ posts' = others \cup {n}
    /\ shown' = s
    /\ considered' = n

Dispatch(n, s, others, armed) ==
    \/ DispatchNothing(n, s, others)
    \/ DispatchBlocked(n, s, others)
    \/ DispatchPosted(n, s, others, armed)

ArmTimer == timer' = TRUE /\ UNCHANGED <<beat, inFlight, rescan, posts, shown, considered>>

(* mutants: requests are not serialised; a tick that comes while a request is *)
(* outstanding is left to the next one                                        *)
OverlappingEnqueue(n) ==
    IF beat = "running" THEN ArmTimer ELSE Dispatch(n, shown, posts, timer)
ForgetfulEnqueue(n) ==
    \/ inFlight /\ UNCHANGED sending
    \/ ~inFlight /\ beat # "running" /\ Dispatch(n, shown, posts, timer)
    \/ ~inFlight /\ beat = "running" /\ ArmTimer

Enqueue(n) ==
    \/ /\ inFlight
       /\ rescan' = TRUE
       /\ UNCHANGED <<beat, timer, inFlight, posts, shown, considered>>
    \/ ~inFlight /\ beat # "running" /\ Dispatch(n, shown, posts, timer)
    \/ ~inFlight /\ beat = "running" /\ ArmTimer

(* A fresh tick is appended to the ring and enqueued. *)
TickArrives ==
    /\ newest < MaxTicks
    /\ newest' = newest + 1
    /\ due' = IF subscribed THEN newest' ELSE due
    /\ Enqueue(newest')
    /\ UNCHANGED <<subscribed, answered>>

BeatEnds ==
    /\ beat = "running"
    /\ beat' = "over"
    /\ UNCHANGED <<newest, timer, inFlight, rescan, posts, subscribed, shown,
                   due, considered, answered>>

(* The trailing timer; a tick may have been dispatched just before it. *)
TimerFires ==
    /\ timer
    /\ \/ /\ inFlight
          /\ rescan' = TRUE /\ timer' = FALSE
          /\ UNCHANGED <<beat, inFlight, posts, shown, considered>>
       \/ ~inFlight /\ beat = "over" /\ Dispatch(newest, shown, posts, FALSE)
    /\ UNCHANGED <<newest, subscribed, due, answered>>

(* dispatch's finally block: the request is over, and what came meanwhile is *)
(* dispatched at once.                                                       *)
Settle(s, others) ==
    \/ /\ ~rescan
       /\ inFlight' = FALSE /\ timer' = FALSE
       /\ posts' = others /\ shown' = s
       /\ UNCHANGED <<beat, rescan, considered>>
    \/ rescan /\ Dispatch(newest, s, others, FALSE)

(* The engine answers, or fails: a lost engine shows the rider, a rejection nothing. *)
EngineAnswers(w) ==
    /\ \/ \E v \in Verdicts \cup {Rider} : Settle(Broadcast(shown, v), posts \ {w})
       \/ Settle(shown, posts \ {w})
    /\ answered' = w
    /\ UNCHANGED <<newest, subscribed, due>>

(* notifyFeedDegraded. *)
FeedDegrades ==
    /\ shown' = Broadcast(shown, Rider)
    /\ UNCHANGED <<newest, beat, timer, inFlight, rescan, posts, subscribed,
                   due, considered, answered>>

ClientsChange ==
    /\ subscribed' = ~subscribed
    /\ due' = IF subscribed THEN 0 ELSE due
    /\ UNCHANGED <<newest, beat, timer, inFlight, rescan, posts, shown,
                   considered, answered>>

TickNext ==
    \/ TickArrives \/ BeatEnds \/ TimerFires
    \/ \E w \in posts : EngineAnswers(w)
    \/ FeedDegrades \/ ClientsChange

(* Timers fire, and a request is answered or fails within TICK_SIGNAL_TIMEOUT_MS. *)
TickFairness ==
    /\ WF_tickVars(BeatEnds)
    /\ WF_tickVars(TimerFires)
    /\ WF_tickVars(\E w \in posts : EngineAnswers(w))

TickSpec == TickInit /\ [][TickNext]_tickVars /\ TickFairness

-----------------------------------------------------------------------------
TickTypeOK ==
    /\ newest \in 0..MaxTicks /\ due \in 0..MaxTicks
    /\ considered \in 0..MaxTicks /\ answered \in 0..MaxTicks
    /\ beat \in {"none", "running", "over"}
    /\ timer \in BOOLEAN /\ inFlight \in BOOLEAN /\ rescan \in BOOLEAN
    /\ posts \subseteq 1..MaxTicks /\ inFlight = (posts # {})
    /\ subscribed \in BOOLEAN
    /\ shown \in [last : Shapes, wanted : Shapes]

(* The client shows the last verdict that was to be shown, up to what the change  *)
(* gate calls a repetition: confidence moves that are each too small to broadcast *)
(* never add up to a different verdict.                                           *)
ShownIsCurrent == SameVerdict(shown.last, shown.wanted)

(* No answer overtakes the answer to a newer window. *)
AnswersInOrder == [][answered' >= answered]_tickVars

(* "No tick is ever dropped": a tick that comes while somebody watches is in a *)
(* window that is scored, unless they leave.                                   *)
EveryTickIsScored ==
    \A n \in 2..MaxTicks : (due = n /\ considered < n) ~> (considered >= n \/ due = 0)
=============================================================================

----------------------------- MODULE BackendProofs -----------------------------
(***************************************************************************)
(* Proofs about services of core-backend, the circuit breaker and the      *)
(* /predict route around it, the dispatcher of ticks, the live feed, the   *)
(* refreshes of the Pocket Option session, the durable stream of signals   *)
(* and the rooms of the sockets, for any answers of the engine, any        *)
(* thresholds, any troubles, readers and subscriptions; and in the end     *)
(* about all of them beside each other.                                    *)
(*                                                                         *)
(* AnswersInOrder rests on InOrder: a request is in flight while a window  *)
(* is unanswered, there is one such window at most, and it is no older     *)
(* than the last answer.  LoginsHalt rests on Counting: the logins since a *)
(* human reset are those that failed and were counted, those cut short and *)
(* the one under way, and none is under way beyond an open circuit.        *)
(* StoredOnce rests on StreamInv: the entry a consumer holds is pending    *)
(* with it and the least of its batch, so nothing but the entries below it *)
(* has been handled, and a document is written once per message of those.  *)
(* ArmedIffWatched rests on RoomsInv: a session is in the room of no       *)
(* symbol but its active one, a ghost and what is kept for a reconnection  *)
(* included.  ChartAttached rests on AttachInv: the newest frame of a      *)
(* client asks for what its chart shows, or that has been granted.         *)
(*                                                                         *)
(* The breaker's three pieces of state (the recent failures, the deadline, *)
(* the half-open mark) are kept by Consistent, which is inductive as it    *)
(* stands: a request that returns late may call the breaker in any of its  *)
(* states, so no step may rely on which requests are under way.  The route *)
(* implements the breaker, and what it answers is proved from what its     *)
(* caches hold: an entry is of its key, and its age and what remains of    *)
(* its life add up to the longer life.                                     *)
(***************************************************************************)
EXTENDS MCBackend,
        FiniteSetTheorems, WellFoundedInduction, SequenceTheorems, TLAPS

-----------------------------------------------------------------------------
(* What the client is shown.                                                   *)

ShownOK(s) == s \in [last : Shapes, wanted : Shapes] /\ SameVerdict(s.last, s.wanted)

(* Whatever is broadcast, what is shown is what was to be, up to a repetition. *)
LEMMA BroadcastCurrent ==
  ASSUME NEW s, ShownOK(s), NEW v \in Verdicts \cup {Rider}
  PROVE  ShownOK(Broadcast(s, v))
<1>1. v \in AllVerdicts
  <2>1. Rider \in AllVerdicts
    BY DEF Rider, AllVerdicts, Tiers
  <2> QED BY <2>1, TickAssumption DEF TickAssumption
<1>2. Shape(v) \in Shapes
  BY <1>1 DEF AllVerdicts, Shape, Shapes
<1>3. CASE ~Usable(v)
  BY <1>3 DEF Broadcast
<1>4. CASE Usable(v) /\ SameVerdict(s.last, v)
  <2>1. SameVerdict(s.last, Shape(v))
    BY <1>4 DEF SameVerdict, Shape
  <2> QED BY <1>2, <1>4, <2>1 DEF Broadcast, ShownOK
<1>5. CASE Usable(v) /\ ~SameVerdict(s.last, v)
  <2>1. SameVerdict(Shape(v), Shape(v))
    <3>1. Shape(v).conf \in Nat
      BY <1>2 DEF Shapes
    <3>2. Distance(Shape(v).conf, Shape(v).conf) = 0
      BY <3>1 DEF Distance
    <3> QED BY <3>2, TickAssumption DEF SameVerdict, TickAssumption
  <2> QED BY <1>2, <1>5, <2>1 DEF Broadcast, ShownOK
<1> QED BY <1>3, <1>4, <1>5

(* What a dispatch leaves to be shown. *)
LEMMA DispatchShows ==
  ASSUME NEW s, ShownOK(s), NEW n, NEW others, NEW rearms, Dispatch(n, s, others, rearms)
  PROVE  ShownOK(shown')
<1>1. shown' = s \/ shown' = Broadcast(s, Rider)
  BY DEF Dispatch, DispatchNothing, DispatchBlocked, DispatchPosted
<1> QED BY <1>1, BroadcastCurrent

LEMMA StepShows ==
  ASSUME ShownOK(shown), [TickNext]_tickVars
  PROVE  ShownOK(shown')
<1>1. CASE UNCHANGED shown
  BY <1>1
<1>2. CASE TickArrives
  BY <1>1, <1>2, DispatchShows DEF TickArrives, Enqueue, ArmTimer
<1>3. CASE TimerFires
  BY <1>1, <1>3, DispatchShows DEF TimerFires
<1>4. ASSUME NEW w \in posts, EngineAnswers(w) PROVE ShownOK(shown')
  <2>1. ASSUME NEW s, ShownOK(s), Settle(s, posts \ {w}) PROVE ShownOK(shown')
    BY <2>1, DispatchShows DEF Settle
  <2> QED BY <1>4, <2>1, BroadcastCurrent DEF EngineAnswers
<1>5. CASE FeedDegrades
  BY <1>5, BroadcastCurrent DEF FeedDegrades
<1>6. CASE BeatEnds \/ ClientsChange \/ UNCHANGED tickVars
  BY <1>1, <1>6 DEF BeatEnds, ClientsChange, tickVars
<1> QED BY <1>2, <1>3, <1>4, <1>5, <1>6 DEF TickNext

LEMMA InitShows == TickInit => ShownOK(shown)
<1> SUFFICES ASSUME TickInit PROVE ShownOK(shown)
  OBVIOUS
<1>1. NoBroadcast \in Shapes
  BY DEF NoBroadcast, Shapes, Tiers
<1>2. SameVerdict(NoBroadcast, NoBroadcast)
  BY TickAssumption DEF NoBroadcast, SameVerdict, Distance, TickAssumption
<1> QED BY <1>1, <1>2 DEF TickInit, ShownOK

(* Small changes of confidence, none of them broadcast, never add up to a      *)
(* verdict that differs from the one the client shows.                         *)
THEOREM ShownAlwaysCurrent == TickSpec => []ShownIsCurrent
<1>1. ShownOK(shown) => ShownIsCurrent
  BY DEF ShownOK, ShownIsCurrent
<1>2. ShownOK(shown) /\ [TickNext]_tickVars => ShownOK(shown)'
  BY StepShows
<1> QED BY <1>1, <1>2, InitShows, PTL DEF TickSpec

-----------------------------------------------------------------------------
(* The order of the answers.                                                   *)

InOrder ==
    /\ posts # {} => inFlight
    /\ \A w \in posts : posts = {w} /\ answered <= w /\ w <= newest
    /\ answered <= newest /\ answered \in Nat /\ newest \in Nat /\ posts \subseteq Nat

(* A dispatch when nothing is outstanding. *)
LEMMA DispatchAlone ==
  ASSUME NEW n, NEW s, NEW others, NEW rearms, Dispatch(n, s, others, rearms), others = {}
  PROVE  posts' = {} \/ (posts' = {n} /\ inFlight')
  BY DEF Dispatch, DispatchNothing, DispatchBlocked, DispatchPosted

LEMMA StepInOrder ==
  ASSUME InOrder, [TickNext]_tickVars
  PROVE  InOrder' /\ answered' >= answered
<1>0. /\ answered <= newest /\ answered \in Nat /\ newest \in Nat /\ posts \subseteq Nat
      /\ ~inFlight => posts = {}
  BY DEF InOrder
<1>1. CASE UNCHANGED <<inFlight, posts, answered, newest>>
  BY <1>0, <1>1 DEF InOrder
<1>2. CASE TickArrives
  <2>1. newest' = newest + 1 /\ answered' = answered
    BY <1>2 DEF TickArrives
  <2>2. CASE UNCHANGED <<inFlight, posts>>
    BY <1>0, <2>1, <2>2 DEF InOrder
  <2>3. CASE ~inFlight /\ Dispatch(newest', shown, posts, timer)
    <3>1. posts' = {} \/ (posts' = {newest'} /\ inFlight')
      BY <1>0, <2>1, <2>3, DispatchAlone
    <3> QED BY <1>0, <2>1, <3>1 DEF InOrder
  <2> QED BY <1>2, <2>2, <2>3 DEF TickArrives, Enqueue, ArmTimer
<1>3. CASE TimerFires
  <2>1. newest' = newest /\ answered' = answered
    BY <1>3 DEF TimerFires
  <2>2. CASE ~inFlight /\ Dispatch(newest, shown, posts, FALSE)
    <3>1. posts' = {} \/ (posts' = {newest} /\ inFlight')
      BY <1>0, <2>2, DispatchAlone
    <3> QED BY <1>0, <2>1, <3>1 DEF InOrder
  <2> QED BY <1>1, <1>3, <2>1, <2>2 DEF TimerFires
<1>4. ASSUME NEW w \in posts, EngineAnswers(w) PROVE InOrder' /\ answered' >= answered
  <2>1. newest' = newest /\ answered' = w /\ answered <= w /\ posts \ {w} = {} /\ w \in Nat
    BY <1>0, <1>4 DEF EngineAnswers, InOrder
  <2>2. w <= newest
    BY <1>4 DEF InOrder
  <2>3. ASSUME NEW s, Settle(s, {}) PROVE InOrder'
    <3>1. posts' = {} \/ (posts' = {newest} /\ inFlight')
      BY <1>0, <2>3, DispatchAlone DEF Settle
    <3> QED BY <1>0, <2>1, <2>2, <3>1 DEF InOrder
  <2> QED BY <1>0, <1>4, <2>1, <2>3 DEF EngineAnswers
<1>5. CASE BeatEnds \/ FeedDegrades \/ ClientsChange \/ UNCHANGED tickVars
  BY <1>1, <1>5 DEF BeatEnds, FeedDegrades, ClientsChange, tickVars
<1> QED BY <1>2, <1>3, <1>4, <1>5 DEF TickNext

(* No answer of the engine, however late, overtakes the answer to a newer      *)
(* window of ticks.                                                            *)
THEOREM NoAnswerOvertakes == TickSpec => AnswersInOrder
<1>1. TickInit => InOrder
  BY DEF TickInit, InOrder
<1>2. InOrder /\ [TickNext]_tickVars => InOrder' /\ [answered' >= answered]_tickVars
  BY StepInOrder
<1> QED BY <1>1, <1>2, PTL DEF TickSpec, AnswersInOrder

-----------------------------------------------------------------------------
(* The live feed.                                                              *)

(* A stream that was never started has no poll, no incident and has told nothing. *)
NotStarted == ~streaming => ~pollDue /\ ~asking /\ ~degraded /\ told = "nothing"

(* Once the stream is started it polls at once, and starts no more: the latch   *)
(* that it clears was not set.                                                  *)
FeedInv == ToldWhatIsLatched /\ NotStarted

LEMMA FailTells ==
  ASSUME ToldWhatIsLatched, PollFails
  PROVE  ToldWhatIsLatched'
<1>1. CASE degraded' = TRUE /\ told' = "DEGRADED"
  BY <1>1 DEF ToldWhatIsLatched
<1>2. CASE UNCHANGED <<degraded, told>>
  BY <1>2 DEF ToldWhatIsLatched
<1> QED BY <1>1, <1>2 DEF PollFails

LEMMA RecoverTells ==
  ASSUME ToldWhatIsLatched, NEW from, Recover(from)
  PROVE  ToldWhatIsLatched'
<1>1. CASE UNCHANGED <<degraded, told>>
  BY <1>1 DEF ToldWhatIsLatched
<1>2. CASE degraded' = FALSE /\ told' = "ONLINE"
  BY <1>2 DEF ToldWhatIsLatched
<1>3. CASE degraded /\ told' = "DEGRADED" /\ UNCHANGED degraded
  BY <1>3 DEF ToldWhatIsLatched
<1> QED BY <1>1, <1>2, <1>3 DEF Recover

LEMMA PollTells ==
  ASSUME ToldWhatIsLatched, PollOnce
  PROVE  ToldWhatIsLatched'
<1>1. CASE UNCHANGED <<degraded, told>>
  BY <1>1 DEF ToldWhatIsLatched
<1> QED BY <1>1, FailTells, RecoverTells DEF PollOnce, Unthrottle, Accept

LEMMA StepTells ==
  ASSUME FeedInv, [FeedNext]_feedVars
  PROVE  FeedInv'
<1>0. ToldWhatIsLatched /\ NotStarted
  BY DEF FeedInv
<1>1. CASE UNCHANGED <<degraded, told>> /\ (streaming' \/ UNCHANGED <<streaming, pollDue, asking>>)
  BY <1>0, <1>1 DEF FeedInv, ToldWhatIsLatched, NotStarted
<1>2. CASE StartStream
  BY <1>0, <1>2 DEF FeedInv, StartStream, ToldWhatIsLatched, NotStarted
<1>3. CASE Second \/ PoTick \/ GithubTick \/ RepositoryPolled \/ WorldChanges \/ UNCHANGED feedVars
  BY <1>1, <1>3 DEF Second, PoTick, GithubTick, RepositoryPolled, WorldChanges, feedVars, latches
<1>4. CASE Polls
  <2>1. streaming' /\ streaming
    BY <1>0, <1>4 DEF Polls, NotStarted
  <2>2. ToldWhatIsLatched'
    BY <1>0, <1>4, PollTells DEF Polls, Idle, latches, ToldWhatIsLatched
  <2> QED BY <2>1, <2>2 DEF FeedInv, NotStarted
<1>5. CASE SourcesAnswer \/ SourcesFail
  <2>1. streaming' /\ streaming
    BY <1>0, <1>5 DEF SourcesAnswer, SourcesFail, NotStarted
  <2>2. ToldWhatIsLatched'
    BY <1>0, <1>5, FailTells, RecoverTells DEF SourcesAnswer, SourcesFail, Accept
  <2> QED BY <2>1, <2>2 DEF FeedInv, NotStarted
<1> QED BY <1>2, <1>3, <1>4, <1>5 DEF FeedNext

(* The degradation latch and the last status told to clients agree for ever:   *)
(* there is no incident that nobody heard of, and no end of one either.        *)
THEOREM ToldIsLatched == FeedSpec => []ToldWhatIsLatched
<1>1. FeedInit => FeedInv
  BY DEF FeedInit, FeedInv, ToldWhatIsLatched, NotStarted
<1>2. FeedInv => ToldWhatIsLatched
  BY DEF FeedInv
<1>3. FeedInv /\ [FeedNext]_feedVars => FeedInv'
  BY StepTells
<1> QED BY <1>1, <1>2, <1>3, PTL DEF FeedSpec

(* An HTTP price is written only while Pocket Option is not the authority, be  *)
(* it the cached one or one whose fetch took longer than Pocket Option's       *)
(* return.                                                                     *)
THEOREM HttpAlwaysYields == FeedSpec => HttpYieldsToPo
<1>1. ASSUME [FeedNext]_feedVars
      PROVE  [(tape' = "http" /\ tape # "http") => ~PoAuthority(Fresh)]_feedVars
  <2>1. CASE UNCHANGED tape \/ tape' = "po" \/ tape' = "github"
    BY <2>1
  <2>2. ASSUME NEW from, Accept(from)
        PROVE  UNCHANGED tape \/ (tape' = from /\ (from = "po" \/ ~PoAuthority(Fresh)))
    BY <2>2 DEF Accept, Silent, Write, PoAuthority
  <2>3. CASE Polls
    BY <2>1, <2>2, <2>3 DEF Polls, PollOnce, Idle, Silent
  <2>4. CASE SourcesAnswer
    BY <2>2, <2>4 DEF SourcesAnswer
  <2>5. CASE ~Polls /\ ~SourcesAnswer
    BY <1>1, <2>1, <2>5 DEF FeedNext, StartStream, Second, SourcesFail, PoTick, GithubTick,
      RepositoryPolled, WorldChanges, feedVars, Silent, Write
  <2> QED BY <2>3, <2>4, <2>5
<1> QED BY <1>1, PTL DEF FeedSpec, HttpYieldsToPo

-----------------------------------------------------------------------------
(* Logins.                                                                    *)

(* The logins are those that failed and were counted, those cut short and the    *)
(* one under way; beyond an open circuit no refresh runs.                        *)
LoginsUnderWay(r) == IF r.login THEN 1 ELSE 0

Counting(a, r, p) ==
    /\ r.login => r.by # "none"
    /\ a.open => r.by = "none"
    /\ p.challenge => a.challenge
    /\ ~a.open => a.logins < MaxLogins
    /\ a.reason = "max_login_failures" => a.open
    /\ IF a.challenge THEN p.logins <= MaxLogins + p.cut
       ELSE p.logins = a.logins + p.cut + LoginsUnderWay(r)

AuthInv == AuthTypeOK /\ Counting(auth, run, past) /\ past.cut + troubles <= MaxTroubles

(* What the unit step of the bound does to the last conjunct. *)
LEMMA Spends ==
  ASSUME Trouble, troubles \in 0..MaxTroubles, MaxTroubles \in Nat, NEW c \in Nat, c + troubles <= MaxTroubles
  PROVE  /\ troubles' \in 0..MaxTroubles /\ troubles' \in Nat /\ troubles \in Nat
         /\ 0 + troubles' <= MaxTroubles /\ c + troubles' <= MaxTroubles /\ (c + 1) + troubles' <= MaxTroubles
  BY DEF Trouble

LEMMA LeastOfTwo ==
  ASSUME NEW a \in Int, NEW b \in Int
  PROVE  /\ Min({a, b}) \in {a, b} /\ Min({a, b}) <= a /\ Min({a, b}) <= b
         /\ a <= b => Min({a, b}) = a
         /\ b <= a => Min({a, b}) = b
<1>1. \E x \in {a, b} : \A y \in {a, b} : x <= y
  OBVIOUS
<1>2. Min({a, b}) \in {a, b} /\ \A y \in {a, b} : Min({a, b}) <= y
  BY <1>1 DEF Min
<1> QED BY <1>2

(* What a refresh that is started or ends does to the circuit.                   *)
LEMMA AuthKinds ==
  ASSUME NEW a \in Auths
  PROVE  /\ a.logins \in 0..MaxLogins /\ a.refreshes \in 0..BackoffCap /\ a.age \in 0..Never
         /\ a.open \in BOOLEAN /\ a.challenge \in BOOLEAN
  BY DEF Auths

LEMMA RunKinds ==
  /\ NoRun \in RefreshRuns /\ ~NoRun.login /\ NoRun.by = "none"
  /\ \A w \in {"auto", "human"} : [by |-> w, login |-> FALSE] \in RefreshRuns
  BY DEF RefreshRuns, NoRun

LEMMA NoneRuns ==
  ASSUME NEW r \in RefreshRuns, r.by = "none", ~r.login
  PROVE  r = NoRun
<1>1. r = [by |-> r.by, login |-> r.login] /\ r.login = FALSE
  BY DEF RefreshRuns
<1> QED BY <1>1 DEF NoRun

(* The bounds of the counters. *)
LEMMA Ranges ==
  /\ 0 \in 0..Never /\ Never \in 0..Never /\ 0 \in 0..BackoffCap /\ 0 \in 0..MaxLogins /\ 0 \in 0..MaxTroubles
  /\ \A n \in 0..BackoffCap : Min({n + 1, BackoffCap}) \in 0..BackoffCap
  /\ \A n \in 0..Never : Min({n + 1, Never}) \in 0..Never
  /\ \A n \in 0..(StaleAfter + 1) : Min({n + 1, StaleAfter + 1}) \in 0..(StaleAfter + 1)
<1>1. ASSUME NEW c \in Nat, NEW n \in 0..c PROVE Min({n + 1, c}) \in 0..c
  <2>1. n + 1 \in Int /\ n + 1 >= 0 /\ c \in Int /\ c >= 0
    BY <1>1
  <2> QED BY <2>1, LeastOfTwo
<1>2. BackoffCap \in Nat /\ Never \in Nat /\ StaleAfter + 1 \in Nat /\ MaxLogins \in Nat /\ MaxTroubles \in Nat
  BY AuthAssumption DEF AuthAssumption, Never
<1> QED BY <1>1, <1>2

LEMMA AuthStarts == AuthInit => AuthInv
<1> SUFFICES ASSUME AuthInit PROVE AuthInv
  OBVIOUS
<1>1. auth \in Auths /\ ~auth.challenge /\ ~auth.open /\ auth.logins = 0 /\ auth.reason = "none"
  BY AuthAssumption DEF AuthAssumption, AuthInit, Quiet, Auths, Never
<1>2. past \in Pasts /\ past.logins = 0 /\ past.cut = 0 /\ ~past.challenge
  BY AuthAssumption DEF AuthAssumption, AuthInit, NoLogins, Pasts
<1>3. AuthTypeOK
  BY <1>1, <1>2, RunKinds, AuthAssumption DEF AuthAssumption, AuthInit, AuthTypeOK, Watching
<1>4. LoginsUnderWay(run) = 0
  BY RunKinds DEF AuthInit, LoginsUnderWay
<1> QED BY <1>1, <1>2, <1>3, <1>4, RunKinds, AuthAssumption DEF AuthAssumption, AuthInit, AuthInv, Counting

LEMMA AuthKeeps == AuthInv /\ [AuthNext]_authVars => AuthInv'
<1> SUFFICES ASSUME AuthInv, [AuthNext]_authVars PROVE AuthInv'
  OBVIOUS
<1>0. /\ AuthTypeOK /\ Counting(auth, run, past) /\ past.cut + troubles <= MaxTroubles
      /\ auth \in Auths /\ run \in RefreshRuns /\ past \in Pasts
  BY DEF AuthInv, AuthTypeOK
<1>a. MaxLogins \in Nat \ {0} /\ BackoffCap \in Nat \ {0} /\ StaleAfter \in Nat \ {0} /\ MaxTroubles \in Nat
  BY AuthAssumption DEF AuthAssumption
<1>b. past.cut \in Nat /\ troubles \in 0..MaxTroubles /\ troubles \in Nat
  BY <1>0, <1>a DEF Pasts, AuthTypeOK
<1>c. ASSUME Trouble
      PROVE  /\ troubles' \in 0..MaxTroubles /\ troubles' <= MaxTroubles
             /\ 0 + troubles' <= MaxTroubles /\ past.cut + troubles' <= MaxTroubles /\ (past.cut + 1) + troubles' <= MaxTroubles
  BY <1>0, <1>a, <1>b, <1>c, Spends
<1>1. CASE SessionDies \/ LateProof \/ LinkFlaps \/ UNCHANGED authVars
  <2>1. UNCHANGED <<auth, run, past>> /\ (UNCHANGED troubles \/ Trouble)
    BY <1>1 DEF SessionDies, LateProof, LinkFlaps, authVars
  <2>2. past.cut + troubles' <= MaxTroubles /\ troubles' \in 0..MaxTroubles
    BY <1>0, <1>b, <1>c, <2>1
  <2>3. AuthTypeOK'
    BY <1>0, <1>1, <2>1, <2>2 DEF SessionDies, LateProof, LinkFlaps, authVars, AuthTypeOK
  <2> QED BY <1>0, <2>1, <2>2, <2>3 DEF AuthInv
<1>2. CASE HandleStatus \/ HandleHeartbeat
  <2>1. UNCHANGED <<auth, past>>
    BY <1>2 DEF HandleStatus, HandleHeartbeat
  <2>2. CASE UNCHANGED run
    <3>1. UNCHANGED troubles /\ AuthTypeOK'
      BY <1>0, <1>2, <2>1, <2>2 DEF HandleStatus, HandleHeartbeat, AuthTypeOK
    <3> QED BY <1>0, <2>1, <2>2, <3>1 DEF AuthInv
  <2>3. CASE run' = [by |-> "auto", login |-> FALSE] /\ run = NoRun /\ ~auth.open /\ ~auth.challenge
    <3>1. AuthTypeOK'
      BY <1>0, <1>2, <2>1, <2>3, RunKinds DEF HandleStatus, HandleHeartbeat, AuthTypeOK
    <3>2. LoginsUnderWay(run') = 0 /\ LoginsUnderWay(run) = 0
      BY <2>3, RunKinds DEF LoginsUnderWay
    <3>3. ~run'.login /\ UNCHANGED troubles
      BY <1>2, <2>3 DEF HandleStatus, HandleHeartbeat
    <3> QED BY <1>0, <2>1, <2>3, <3>1, <3>2, <3>3 DEF AuthInv, Counting
  <2> QED BY <1>2, <2>2, <2>3 DEF HandleStatus, HandleHeartbeat, AutoRefresh
<1>3. CASE HumanResets \/ HumanRefreshes
  <2>1. auth' \in Auths /\ ~auth'.open /\ ~auth'.challenge /\ auth'.logins = 0 /\ auth'.reason = "none"
    <3>1. auth' = Quiet(auth.age) /\ auth.age \in 0..Never
      BY <1>0, <1>3, AuthKinds DEF HumanResets, HumanRefreshes, ResetBreaker
    <3> QED BY <3>1, Ranges DEF Quiet, Auths
  <2>2. past' \in Pasts /\ past'.logins = LoginsUnderWay(run) /\ past'.cut = 0 /\ ~past'.challenge
    <3>1. past' = [logins |-> LoginsUnderWay(run), cut |-> 0, challenge |-> FALSE] /\ LoginsUnderWay(run) \in Nat
      BY <1>3 DEF HumanResets, HumanRefreshes, ResetBreaker, LoginsUnderWay
    <3> QED BY <3>1, Ranges DEF Pasts
  <2>3. run' \in RefreshRuns /\ LoginsUnderWay(run') = LoginsUnderWay(run) /\ (run'.login => run'.by # "none")
    <3>1. CASE UNCHANGED run
      BY <1>0, <3>1 DEF Counting
    <3>2. CASE run = NoRun /\ run' = [by |-> "human", login |-> FALSE]
      <4>1. ~run'.login
        BY <3>2
      <4> QED BY <3>2, <4>1, RunKinds DEF LoginsUnderWay
    <3> QED BY <1>3, <3>1, <3>2 DEF HumanResets, HumanRefreshes
  <2>4. AuthTypeOK'
    BY <1>0, <1>3, <1>c, <2>1, <2>2, <2>3 DEF HumanResets, HumanRefreshes, AuthTypeOK
  <2>5. LoginsUnderWay(run) \in Nat
    BY DEF LoginsUnderWay
  <2>6. past'.cut + troubles' <= MaxTroubles
    BY <1>3, <1>c, <2>2 DEF HumanResets, HumanRefreshes
  <2> QED BY <1>a, <2>1, <2>2, <2>3, <2>4, <2>5, <2>6 DEF AuthInv, Counting
<1>4. CASE ScriptLogsIn
  <2>1. UNCHANGED auth /\ run.by # "none" /\ ~run.login /\ ~auth.open /\ ~auth.challenge
    BY <1>0, <1>4 DEF ScriptLogsIn, Counting, AuthTypeOK
  <2>2. run' \in RefreshRuns /\ run'.by = run.by /\ run'.login
    BY <1>0, <1>4 DEF ScriptLogsIn, RefreshRuns
  <2>3. past' \in Pasts /\ past'.logins = past.logins + 1 /\ past'.cut = past.cut /\ past'.challenge = past.challenge
    BY <1>0, <1>4, <1>a DEF ScriptLogsIn, Pasts
  <2>4. LoginsUnderWay(run) = 0 /\ LoginsUnderWay(run') = 1
    BY <2>1, <2>2 DEF LoginsUnderWay
  <2>5. AuthTypeOK'
    BY <1>0, <1>4, <2>1, <2>2, <2>3 DEF ScriptLogsIn, AuthTypeOK
  <2>6. auth.logins \in Nat /\ past.logins \in Nat /\ past.cut \in Nat
    BY <1>0, <1>a DEF Auths, Pasts
  <2>7. UNCHANGED troubles
    BY <1>4 DEF ScriptLogsIn
  <2> QED BY <1>0, <2>1, <2>2, <2>3, <2>4, <2>5, <2>6, <2>7 DEF AuthInv, Counting
<1>5. ASSUME Ends PROVE run' = NoRun /\ run' \in RefreshRuns /\ ~auth.open /\ ~auth.challenge /\ LoginsUnderWay(run') = 0
                        /\ ~run'.login /\ run'.by = "none" /\ ~past.challenge
  BY <1>0, <1>5, RunKinds DEF Ends, Counting, AuthTypeOK, LoginsUnderWay
<1>6. past.logins \in Nat /\ past.cut \in Nat /\ LoginsUnderWay(run) \in Nat /\ troubles \in 0..MaxTroubles
  BY <1>0, <1>a DEF Pasts, LoginsUnderWay, AuthTypeOK
<1>7. CASE RunFails
  <2> DEFINE logins == IF run.login THEN auth.logins + 1 ELSE auth.logins
             out == run.login /\ logins >= MaxLogins
  <2>1. logins \in Nat /\ logins = auth.logins + LoginsUnderWay(run) /\ auth.logins < MaxLogins /\ logins <= MaxLogins
    BY <1>0, <1>5, <1>7, <1>a, AuthKinds DEF RunFails, LoginsUnderWay, Counting
  <2>2. Min({logins, MaxLogins}) = logins
    <3> HIDE DEF logins
    <3>1. logins \in Int /\ MaxLogins \in Int /\ logins <= MaxLogins
      BY <2>1, <1>a
    <3> QED BY <3>1, LeastOfTwo
  <2>3. Min({auth.refreshes + 1, BackoffCap}) \in 0..BackoffCap
    BY <1>0, AuthKinds, Ranges
  <2>4. auth' = [auth EXCEPT !.age = 0, !.refreshes = Min({@ + 1, BackoffCap}), !.logins = logins,
                    !.open = @ \/ out, !.reason = IF out THEN "max_login_failures" ELSE @]
    BY <1>7, <2>2 DEF RunFails, FailedOutcome
  <2>5. out \in BOOLEAN /\ (~out => logins < MaxLogins)
    BY <2>1, <1>a
  <2> HIDE DEF logins, out
  <2>6. /\ auth'.logins = logins /\ auth'.open = (auth.open \/ out)
        /\ auth'.challenge = auth.challenge
        /\ auth'.reason = IF out THEN "max_login_failures" ELSE auth.reason
        /\ auth' \in Auths
    <3>1. logins \in 0..MaxLogins /\ (auth.open \/ out) \in BOOLEAN /\ 0 \in 0..Never
      BY <1>0, <1>a, <2>1, <2>5, Ranges
    <3> QED BY <1>0, <2>3, <2>4, <3>1 DEF Auths
  <2>7. UNCHANGED <<relay, lastStatus, monitor, past, troubles>> /\ Ends
    BY <1>7 DEF RunFails
  <2>8. AuthTypeOK'
    BY <1>0, <1>5, <2>6, <2>7 DEF AuthTypeOK
  <2>9. ~auth'.open => auth'.logins < MaxLogins
    BY <1>5, <2>5, <2>6, <2>7
  <2>10. auth'.reason = "max_login_failures" => auth'.open
    BY <1>0, <2>6 DEF Counting
  <2>11. ~auth'.challenge /\ past'.logins = auth'.logins + past'.cut + LoginsUnderWay(run')
    BY <1>0, <1>5, <1>6, <2>1, <2>6, <2>7, AuthKinds DEF Counting
  <2> QED BY <1>0, <1>5, <2>7, <2>8, <2>9, <2>10, <2>11 DEF AuthInv, Counting
<1>8. CASE RunIsChallenged
  <2>1. auth' \in Auths /\ auth'.logins = auth.logins /\ auth'.open /\ auth'.challenge /\ auth'.reason = "captcha_or_2fa"
    BY <1>0, <1>8, Ranges DEF RunIsChallenged, Challenged, Auths
  <2>2. past' \in Pasts /\ past'.logins = past.logins /\ past'.cut = past.cut /\ past'.challenge
    BY <1>0, <1>8 DEF RunIsChallenged, Pasts
  <2>3. UNCHANGED <<relay, lastStatus, monitor, troubles>> /\ Ends /\ LoginsUnderWay(run) = 1
    BY <1>8 DEF RunIsChallenged, LoginsUnderWay
  <2>4. AuthTypeOK'
    BY <1>0, <1>5, <2>1, <2>2, <2>3 DEF AuthTypeOK
  <2>5. auth.logins \in Nat
    BY <1>0, <1>a, AuthKinds
  <2> QED BY <1>0, <1>5, <1>6, <1>a, <2>1, <2>2, <2>3, <2>4, <2>5 DEF AuthInv, Counting
<1>9. CASE RunSucceeds
  <2>1. Ends /\ UNCHANGED <<lastStatus, monitor, troubles>> /\ relay' = "connected" /\ auth.reason # "max_login_failures"
    BY <1>0, <1>5, <1>9 DEF RunSucceeds, Counting
  <2>2. CASE run.login
    <3>1. auth' \in Auths /\ auth'.logins = 0 /\ ~auth'.open /\ auth'.challenge = auth.challenge /\ auth'.reason = "none"
      <4>1. auth' = [auth EXCEPT !.age = 0, !.refreshes = 0, !.logins = 0, !.open = FALSE, !.reason = "none"]
        BY <1>9, <2>2 DEF RunSucceeds, Succeeded
      <4> QED BY <1>0, <4>1, Ranges DEF Auths
    <3>2. past' \in Pasts /\ past'.logins = 0 /\ past'.cut = 0 /\ past'.challenge = past.challenge
      BY <1>0, <1>9, <1>a, <2>2 DEF RunSucceeds, Pasts, NoLogins
    <3>3. AuthTypeOK'
      BY <1>0, <1>5, <2>1, <3>1, <3>2 DEF AuthTypeOK
    <3>4. past'.cut + troubles' <= MaxTroubles
      BY <1>a, <1>6, <2>1, <3>2
    <3> QED BY <1>a, <1>5, <2>1, <3>1, <3>2, <3>3, <3>4 DEF AuthInv, Counting
  <2>3. CASE ~run.login
    <3>1. auth' \in Auths /\ auth'.logins = auth.logins /\ ~auth'.open /\ auth'.challenge = auth.challenge /\ auth'.reason = auth.reason
      <4>1. auth' = [auth EXCEPT !.age = 0, !.refreshes = 0] /\ auth.open = FALSE
        BY <1>0, <1>5, <1>9, <2>1, <2>3, AuthKinds DEF RunSucceeds, Succeeded
      <4> QED BY <1>0, <4>1, Ranges DEF Auths
    <3>2. UNCHANGED past /\ LoginsUnderWay(run) = 0
      BY <1>9, <2>3 DEF RunSucceeds, LoginsUnderWay
    <3>3. AuthTypeOK'
      BY <1>0, <1>5, <2>1, <3>1, <3>2 DEF AuthTypeOK
    <3> QED BY <1>0, <1>5, <2>1, <3>1, <3>2, <3>3 DEF AuthInv, Counting
  <2> QED BY <2>2, <2>3
<1>10. CASE RunIsCutShort
  <2>1. Ends /\ UNCHANGED <<relay, lastStatus, auth, monitor>>
    BY <1>10 DEF RunIsCutShort
  <2>2. troubles > 0 /\ troubles' = troubles - 1
    BY <1>10 DEF RunIsCutShort, Trouble
  <2>3. troubles' \in 0..MaxTroubles
    BY <1>0, <1>a, <2>2 DEF AuthTypeOK
  <2>4. /\ past' \in Pasts /\ past'.logins = past.logins /\ past'.challenge = past.challenge
        /\ past'.cut = past.cut + LoginsUnderWay(run)
    <3>1. past.cut \in 0..MaxTroubles /\ past.cut + 1 \in 0..MaxTroubles
      BY <1>0, <1>6, <1>a, <2>2 DEF Pasts, AuthTypeOK
    <3>2. CASE run.login
      <4>1. past' = [past EXCEPT !.cut = past.cut + 1]
        BY <1>10, <3>2 DEF RunIsCutShort
      <4> QED BY <1>0, <3>1, <3>2, <4>1 DEF Pasts, LoginsUnderWay
    <3>3. CASE ~run.login
      BY <1>0, <1>6, <1>10, <3>3 DEF RunIsCutShort, LoginsUnderWay
    <3> QED BY <3>2, <3>3
  <2>5. AuthTypeOK'
    BY <1>0, <1>5, <2>1, <2>3, <2>4 DEF AuthTypeOK
  <2>6. auth.logins \in Nat
    BY <1>0, <1>a, AuthKinds
  <2>7. past'.cut + troubles' <= MaxTroubles
    BY <1>0, <1>6, <1>b, <1>c, <1>10, <2>4 DEF RunIsCutShort, LoginsUnderWay
  <2> QED BY <1>0, <1>5, <1>6, <2>1, <2>4, <2>5, <2>6, <2>7 DEF AuthInv, Counting
<1>11. CASE Poll
  <2>1. UNCHANGED <<relay, lastStatus, run, past, troubles>>
    BY <1>11 DEF Poll
  <2>2. Min({auth.age + 1, Never}) \in 0..Never
    BY <1>0, AuthKinds, Ranges
  <2>3. /\ auth'.logins = auth.logins /\ auth'.open = auth.open /\ auth'.challenge = auth.challenge
        /\ auth'.reason = auth.reason /\ auth' \in Auths
    BY <1>0, <1>11, <2>2 DEF Poll, Auths
  <2>4. monitor' \in [since : 0..(StaleAfter + 1), alert : BOOLEAN]
    <3>1. monitor \in [since : 0..(StaleAfter + 1), alert : BOOLEAN] /\ Watching \in [since : 0..(StaleAfter + 1), alert : BOOLEAN]
      BY <1>0, <1>a DEF AuthTypeOK, Watching
    <3>2. Min({monitor.since + 1, StaleAfter + 1}) \in 0..(StaleAfter + 1)
      BY <3>1, Ranges
    <3>3. [since |-> Min({monitor.since + 1, StaleAfter + 1}), alert |-> monitor.alert \/ monitor.since >= StaleAfter]
            \in [since : 0..(StaleAfter + 1), alert : BOOLEAN]
      BY <3>2
    <3> QED BY <1>11, <3>1, <3>3 DEF Poll
  <2>5. AuthTypeOK'
    BY <1>0, <2>1, <2>3, <2>4 DEF AuthTypeOK
  <2> QED BY <1>0, <2>1, <2>3, <2>5 DEF AuthInv, Counting
<1>12. CASE BackendForgets
  <2>1. auth' \in Auths /\ ~auth'.challenge /\ ~auth'.open /\ auth'.logins = 0 /\ auth'.reason = "none"
    BY <1>a, <1>12 DEF BackendForgets, Quiet, Auths, Never
  <2>2. past' \in Pasts /\ past'.logins = 0 /\ past'.cut = 0 /\ ~past'.challenge
    BY <1>a, <1>12 DEF BackendForgets, NoLogins, Pasts
  <2>3. run' = NoRun /\ LoginsUnderWay(run') = 0
    BY <1>12, RunKinds DEF BackendForgets, LoginsUnderWay
  <2>4. AuthTypeOK'
    BY <1>0, <1>a, <1>c, <1>12, <2>1, <2>2, <2>3, RunKinds DEF BackendForgets, AuthTypeOK, Watching
  <2>5. past'.cut + troubles' <= MaxTroubles
    BY <1>12, <1>c, <2>2 DEF BackendForgets
  <2> QED BY <1>a, <2>1, <2>2, <2>3, <2>4, <2>5, RunKinds DEF AuthInv, Counting
<1> QED BY <1>1, <1>2, <1>3, <1>4, <1>7, <1>8, <1>9, <1>10, <1>11, <1>12 DEF AuthNext

THEOREM LoginsAlwaysHalt == AuthSpec => []LoginsHalt
<1>1. AuthInv => LoginsHalt
  <2> SUFFICES ASSUME AuthInv PROVE LoginsHalt
    OBVIOUS
  <2>1. auth \in Auths /\ run \in RefreshRuns /\ past \in Pasts /\ Counting(auth, run, past) /\ MaxLogins \in Nat /\ MaxTroubles \in Nat
    BY AuthAssumption DEF AuthInv, AuthTypeOK, AuthAssumption
  <2>2. auth.logins \in Nat /\ auth.logins <= MaxLogins /\ past.logins \in Nat /\ past.cut \in Nat
    BY <2>1 DEF Auths, Pasts
  <2> QED BY <2>1, <2>2 DEF AuthInv, AuthTypeOK, Counting, LoginsHalt, LoginsUnderWay
<1> QED BY <1>1, AuthStarts, AuthKeeps, PTL DEF AuthSpec

-----------------------------------------------------------------------------
(* The durable stream.                                                         *)

(* Whole numbers have a least one among them... *)
LEMMA LeastOne ==
  ASSUME NEW S \in SUBSET Nat, S # {}
  PROVE  \E x \in S : \A y \in S : x <= y
<1>1. PICK x \in S : \A y \in S : ~(<<y, x>> \in OpToRel(<, Nat))
  <2>1. IsWellFoundedOn(OpToRel(<, Nat), Nat)
    BY NatLessThanWellFounded
  <2> QED BY <2>1, WFMin
<1>2. \A y \in S : ~(y < x)
  <2> SUFFICES ASSUME NEW y \in S, y < x PROVE FALSE
    OBVIOUS
  <2>1. <<y, x>> \in OpToRel(<, Nat)
    BY DEF OpToRel
  <2> QED BY <1>1, <2>1
<1>3. x \in Nat /\ \A y \in S : y \in Nat
  OBVIOUS
<1> QED BY <1>2, <1>3

LEMMA MinIsLeast ==
  ASSUME NEW S \in SUBSET Nat, S # {}
  PROVE  Min(S) \in S /\ \A y \in S : Min(S) <= y
<1>1. \E x \in S : \A y \in S : x <= y
  BY LeastOne
<1> QED BY <1>1 DEF Min

(* ...and, bounded, a greatest. *)
LEMMA MaxIsGreatest ==
  ASSUME NEW b \in Nat, NEW S \in SUBSET (0..b), S # {}
  PROVE  Max(S) \in S /\ \A y \in S : y <= Max(S)
<1> DEFINE T == {b - y : y \in S}
<1>1. T \in SUBSET Nat /\ T # {}
  <2>1. \A y \in 0..b : b - y \in Nat
    OBVIOUS
  <2>2. \A y \in S : y \in 0..b
    OBVIOUS
  <2> QED BY <2>1, <2>2
<1>2. PICK t \in T : \A u \in T : t <= u
  BY <1>1, LeastOne
<1>3. PICK x \in S : t = b - x
  OBVIOUS
<1>4. \A y \in S : x >= y
  <2> TAKE y \in S
  <2>1. b - x <= b - y
    BY <1>2, <1>3
  <2> QED BY <2>1
<1>5. Max(S) \in S /\ \A y \in S : Max(S) >= y
  <2> HIDE DEF T
  <2> QED BY <1>4 DEF Max
<1>6. \A y \in S : y \in Int
  OBVIOUS
<1> QED BY <1>5, <1>6

(* What COUNT lets through of some entries has no entry missing below one of it. *)
LEMMA LeastAreFirst ==
  ASSUME NEW b \in Nat, NEW S \in SUBSET (0..b), NEW n \in Nat
  PROVE  /\ Least(S, n) \subseteq S
         /\ \A e \in Least(S, n), d \in S : d < e => d \in Least(S, n)
         /\ n > 0 /\ S # {} => Least(S, n) # {}
<1>1. Least(S, n) \subseteq S
  BY DEF Least
<1>2. ASSUME NEW e \in Least(S, n), NEW d \in S, d < e PROVE d \in Least(S, n)
  <2> DEFINE Below(x) == {y \in S : y < x}
  <2>1. Below(d) \in SUBSET Below(e)
    <3>0. \A y \in S : y \in 0..b
      OBVIOUS
    <3>1. e \in Int /\ d \in Int /\ \A y \in S : y \in Int
      <4>1. e \in S /\ d \in S
        BY <1>1, <1>2
      <4>2. \A y \in S : y \in Int
        BY <3>0
      <4> QED BY <4>1, <4>2
    <3>2. ASSUME NEW y \in S, y < d PROVE y < e
      BY <1>2, <3>1, <3>2
    <3> QED BY <3>2
  <2>2. IsFiniteSet(Below(e)) /\ Cardinality(Below(e)) \in Nat
    <3>1. IsFiniteSet(0..b)
      BY FS_Interval
    <3>2. Below(e) \in SUBSET (0..b)
      OBVIOUS
    <3>3. IsFiniteSet(Below(e))
      BY <3>1, <3>2, FS_Subset
    <3> QED BY <3>3, FS_CardinalityType
  <2>3. Cardinality(Below(d)) <= Cardinality(Below(e)) /\ Cardinality(Below(d)) \in Nat
    BY <2>1, <2>2, FS_Subset, FS_CardinalityType
  <2>4. Cardinality(Below(e)) < n
    BY DEF Least
  <2>5. Cardinality(Below(d)) < n
    <3> HIDE DEF Below
    <3> QED BY <2>2, <2>3, <2>4
  <2> QED BY <2>5 DEF Least
<1>3. ASSUME n > 0, S # {} PROVE Least(S, n) # {}
  <2>1. Min(S) \in S /\ \A y \in S : Min(S) <= y
    <3>1. 0..b \in SUBSET Nat
      OBVIOUS
    <3> QED BY <1>3, <3>1, MinIsLeast
  <2>2. {y \in S : y < Min(S)} = {}
    <3>1. \A y \in S : y \in 0..b
      OBVIOUS
    <3>2. \A y \in S : y \in Int
      BY <3>1
    <3>3. ASSUME NEW y \in S, y < Min(S) PROVE FALSE
      <4>1. Min(S) <= y /\ Min(S) \in Int /\ y \in Int
        BY <2>1, <3>2
      <4> QED BY <3>3, <4>1
    <3> QED BY <3>3
  <2>3. Cardinality({y \in S : y < Min(S)}) = 0
    BY <2>2, FS_EmptySet
  <2> QED BY <1>3, <2>1, <2>3 DEF Least
<1> QED BY <1>1, <1>2, <1>3

-----------------------------------------------------------------------------
(* An instance that handles an entry has one, and what it acknowledges is stored. *)
Handled(where, entries, r, m) ==
    /\ where \in {"look", "create", "ack"} => entries # {}
    /\ where = "ack" => r[Min(entries)] > 0 \/ Min(entries) \in m

StreamInv == StreamTypeOK /\ StoredOnce /\ \A c \in Instances : Handled(at[c], batch[c], rows, malformed)

Places == {"down", "off", "reading", "look", "create", "ack"}

Instanced ==
    /\ at \in [Instances -> Places] /\ batch \in [Instances -> SUBSET Entries]
    /\ rows \in [Entries -> Nat] /\ malformed \subseteq Entries
    /\ \A c \in Instances : Handled(at[c], batch[c], rows, malformed)

LEMMA InInstance == StreamInv => Instanced
  BY DEF StreamInv, StreamTypeOK, Instanced, Places

(* The entry at hand is an entry. *)
LEMMA AtHand ==
  ASSUME Instanced, NEW c \in Instances, at[c] \in {"look", "create", "ack"}
  PROVE  Current(c) \in batch[c] /\ Current(c) \in Entries /\ Current(c) \in Nat /\ batch[c] \in SUBSET Entries
<1>1. batch[c] \in SUBSET Entries /\ batch[c] # {}
  BY DEF Instanced, Handled
<1>2. Entries \in SUBSET Nat
  BY DEF Entries
<1>3. Min(batch[c]) \in batch[c]
  BY <1>1, <1>2, MinIsLeast
<1> QED BY <1>1, <1>2, <1>3 DEF Current

(* What is stored stays stored, and so does what was read. *)
LEMMA KeepsHandled ==
  ASSUME NEW where \in Places, NEW entries \in SUBSET Entries, NEW r, NEW m, NEW r2, NEW m2,
         m \subseteq m2, \A e \in Entries : r[e] > 0 => r2[e] > 0, Handled(where, entries, r, m)
  PROVE  Handled(where, entries, r2, m2)
<1>1. CASE where = "ack"
  <2>1. Min(entries) \in entries
    <3>1. Entries \in SUBSET Nat
      BY DEF Entries
    <3>2. entries # {}
      BY <1>1 DEF Handled
    <3> QED BY <3>1, <3>2, MinIsLeast
  <2> QED BY <1>1, <2>1 DEF Handled
<1>2. CASE where # "ack"
  BY <1>2 DEF Handled
<1> QED BY <1>1, <1>2

(* A step that moves one instance keeps the others as they are. *)
LEMMA OneMoves ==
  ASSUME Instanced, NEW c \in Instances, NEW where \in Places, NEW entries \in SUBSET Entries,
         at' = [at EXCEPT ![c] = where], batch' = [batch EXCEPT ![c] = entries],
         rows' \in [Entries -> Nat], malformed' = malformed,
         \A e \in Entries : rows[e] > 0 => rows'[e] > 0,
         Handled(where, entries, rows', malformed)
  PROVE  Instanced'
<1>1. at' \in [Instances -> Places] /\ batch' \in [Instances -> SUBSET Entries]
  BY DEF Instanced
<1>2. ASSUME NEW d \in Instances PROVE Handled(at'[d], batch'[d], rows', malformed')
  <2>1. CASE d = c
    BY <2>1 DEF Instanced
  <2>2. CASE d # c
    <3>1. at'[d] = at[d] /\ batch'[d] = batch[d] /\ at[d] \in Places /\ batch[d] \in SUBSET Entries
      BY <2>2 DEF Instanced
    <3>2. Handled(at[d], batch[d], rows, malformed)
      BY DEF Instanced
    <3>3. Handled(at[d], batch[d], rows', malformed)
      BY <3>1, <3>2, KeepsHandled
    <3> QED BY <3>1, <3>3
  <2> QED BY <2>1, <2>2
<1> QED BY <1>1, <1>2 DEF Instanced

LEMMA HandleAllKeeps ==
  ASSUME Instanced, NEW c \in Instances, NEW entries \in SUBSET Entries, HandleAll(c, entries),
         rows' \in [Entries -> Nat], malformed' = malformed,
         \A e \in Entries : rows[e] > 0 => rows'[e] > 0
  PROVE  Instanced'
<1> DEFINE where == IF entries = {} THEN "reading" ELSE "look"
<1>1. where \in Places /\ Handled(where, entries, rows', malformed)
  BY DEF Places, Handled
<1>2. at' = [at EXCEPT ![c] = where] /\ batch' = [batch EXCEPT ![c] = entries]
  BY DEF HandleAll
<1> HIDE DEF where
<1> QED BY <1>1, <1>2, OneMoves

LEMMA GotoKeeps ==
  ASSUME Instanced, NEW c \in Instances, NEW where \in Places, Goto(c, where),
         rows' \in [Entries -> Nat], malformed' = malformed,
         \A e \in Entries : rows[e] > 0 => rows'[e] > 0,
         Handled(where, batch[c], rows', malformed)
  PROVE  Instanced'
<1>1. at' = [at EXCEPT ![c] = where] /\ batch' = [batch EXCEPT ![c] = batch[c]] /\ batch[c] \in SUBSET Entries
  BY DEF Goto, Instanced
<1> QED BY <1>1, OneMoves

(* An instance that gives its entry up goes on to the next. *)
LEMMA AdvanceKeeps ==
  ASSUME Instanced, NEW c \in Instances, at[c] \in {"look", "create", "ack"}, Advance(c),
         rows' \in [Entries -> Nat], malformed' = malformed,
         \A e \in Entries : rows[e] > 0 => rows'[e] > 0
  PROVE  Instanced'
<1>1. batch[c] \ {Current(c)} \in SUBSET Entries
  BY AtHand
<1> QED BY <1>1, HandleAllKeeps DEF Advance

-----------------------------------------------------------------------------
(* Beside the instances, what has been stored and what the group owes.            *)
Stored ==
    /\ log \in 0..MaxEntries /\ first \in 1..MaxEntries + 1 /\ delivered \in 0..log
    /\ pel \subseteq 1..delivered /\ idle \subseteq pel
    /\ crashes \in 0..MaxCrashes /\ errors \in 0..MaxErrors
    /\ StoredOnce

LEMMA StreamParts == StreamInv <=> Instanced /\ Stored
  BY DEF StreamInv, StreamTypeOK, Instanced, Stored, Places

(* The rows and the stream go on from what they were; nothing is acknowledged that *)
(* is not stored.                                                                *)
LEMMA StoredKeeps ==
  ASSUME Stored, Instanced, UNCHANGED <<log, first, malformed, delivered>>,
         crashes' \in 0..MaxCrashes, errors' \in 0..MaxErrors,
         pel' \subseteq pel, idle' \subseteq pel',
         \A e \in pel \ pel' : rows'[e] > 0 \/ e \in malformed \/ e < first,
         \A e \in Entries : rows[e] > 0 => rows'[e] > 0,
         \A e \in Entries : rows'[e] <= 1
  PROVE  Stored'
<1>1. /\ log' \in 0..MaxEntries /\ first' \in 1..MaxEntries + 1 /\ delivered' \in 0..log'
      /\ pel' \subseteq 1..delivered' /\ idle' \subseteq pel'
      /\ crashes' \in 0..MaxCrashes /\ errors' \in 0..MaxErrors
  BY DEF Stored
<1>2. OneRowPerEntry'
  BY DEF OneRowPerEntry
<1>3. AckedIsStored'
  <2> SUFFICES ASSUME NEW e \in 1..delivered \ pel'
               PROVE  rows'[e] > 0 \/ e \in malformed \/ e < first
    BY DEF AckedIsStored
  <2>1. CASE e \in pel
    BY <2>1
  <2>2. CASE e \notin pel
    <3>1. rows[e] > 0 \/ e \in malformed \/ e < first
      BY <2>2 DEF Stored, StoredOnce, AckedIsStored
    <3>2. e \in Entries
      <4>1. delivered \in 0..log /\ log \in 0..MaxEntries
        BY DEF Stored
      <4> QED BY <4>1, StreamAssumption DEF Entries, StreamAssumption
    <3> QED BY <3>1, <3>2
  <2> QED BY <2>1, <2>2
<1> QED BY <1>1, <1>2, <1>3 DEF Stored, StoredOnce

LEMMA FailsKeeps ==
  ASSUME Fails, errors \in 0..MaxErrors
  PROVE  errors' \in 0..MaxErrors
  BY StreamAssumption DEF Fails, StreamAssumption

(* What is read is what follows on what was delivered, but for what is trimmed. *)
LEMMA ReadKeeps ==
  ASSUME Stored, Instanced, NEW c \in Instances, Read(c)
  PROVE  Stored' /\ Instanced'
<1> DEFINE unread == {e \in delivered + 1..log : e >= first}
           new == Least(unread, ReadCount)
<1>1. /\ new # {} /\ HandleAll(c, new) /\ delivered' = Max(new) /\ pel' = pel \cup new
      /\ UNCHANGED <<log, first, malformed, idle, rows, crashes, errors>>
  BY DEF Read, stream, faults
<1>2. /\ log \in 0..MaxEntries /\ log \in Nat /\ MaxEntries \in Nat /\ delivered \in 0..log /\ ReadCount \in Nat
      /\ pel \subseteq 1..delivered /\ idle \subseteq pel /\ first \in Nat
  BY StreamAssumption DEF Stored, StreamAssumption
<1>3. unread \in SUBSET (0..log) /\ \A e \in unread : e \in delivered + 1..log
  BY <1>2
<1> HIDE DEF unread
<1>4. new \subseteq unread /\ \A e \in new, d \in unread : d < e => d \in new
  BY <1>2, <1>3, LeastAreFirst
<1> HIDE DEF new
<1>5. Max(new) \in new /\ \A e \in new : e <= Max(new)
  BY <1>1, <1>2, <1>3, <1>4, MaxIsGreatest
<1>6. Max(new) \in delivered + 1..log
  BY <1>3, <1>4, <1>5
<1>7. delivered' \in 0..log /\ delivered' >= delivered
  BY <1>1, <1>2, <1>6
<1>8. pel' \subseteq 1..delivered'
  <2>1. \A e \in new : e \in 1..Max(new)
    <3> TAKE e \in new
    <3>1. e \in delivered + 1..log /\ e <= Max(new)
      BY <1>3, <1>4, <1>5
    <3> QED BY <1>2, <1>6, <3>1
  <2>2. \A e \in pel : e \in 1..Max(new)
    <3> TAKE e \in pel
    <3>1. e \in 1..delivered
      BY <1>2
    <3> QED BY <1>2, <1>6, <3>1
  <2> QED BY <1>1, <2>1, <2>2
<1>9. AckedIsStored'
  <2> SUFFICES ASSUME NEW e \in 1..delivered' \ pel'
               PROVE  rows[e] > 0 \/ e \in malformed \/ e < first
    BY <1>1 DEF AckedIsStored
  <2>1. CASE e <= delivered
    <3>1. e \in 1..delivered \ pel
      BY <1>1, <1>2, <1>7, <2>1
    <3> QED BY <3>1 DEF Stored, StoredOnce, AckedIsStored
  <2>2. CASE ~(e <= delivered)
    <3>1. e \in delivered + 1..log /\ e <= Max(new) /\ e \in Int
      BY <1>1, <1>2, <1>7, <2>2
    <3>2. e \notin new
      BY <1>1
    <3>3. e # Max(new)
      BY <1>5, <3>2
    <3>4. e \notin unread
      <4>1. e < Max(new)
        BY <1>6, <3>1, <3>3
      <4> QED BY <1>4, <1>5, <3>2, <4>1
    <3>5. ~(e >= first)
      BY <3>1, <3>4 DEF unread
    <3> QED BY <1>2, <3>1, <3>5
  <2> QED BY <2>1, <2>2
<1>10. OneRowPerEntry'
  BY <1>1 DEF Stored, StoredOnce, OneRowPerEntry
<1>11. Stored'
  <2>1. /\ log' \in 0..MaxEntries /\ first' \in 1..MaxEntries + 1 /\ delivered' \in 0..log'
        /\ crashes' \in 0..MaxCrashes /\ errors' \in 0..MaxErrors
    BY <1>1, <1>7 DEF Stored
  <2>2. idle' \subseteq pel'
    BY <1>1, <1>2
  <2> QED BY <1>8, <1>9, <1>10, <2>1, <2>2 DEF Stored, StoredOnce
<1>12. Instanced'
  <2>1. new \in SUBSET Entries
    <3>1. \A e \in delivered + 1..log : e \in Entries
      BY <1>2 DEF Entries
    <3> QED BY <1>3, <1>4, <3>1
  <2>2. rows' \in [Entries -> Nat] /\ \A e \in Entries : rows[e] > 0 => rows'[e] > 0
    BY <1>1 DEF Instanced
  <2> QED BY <1>1, <2>1, <2>2, HandleAllKeeps
<1> QED BY <1>11, <1>12

(* What is taken over is pending and not trimmed. *)
LEMMA ClaimableIsPending ==
  ASSUME Stored
  PROVE  /\ Claimable \subseteq idle /\ Claimable \subseteq pel
         /\ pel \subseteq Entries /\ idle \subseteq Entries
<1>1. Claimable \subseteq {e \in pel \cap idle : e >= first}
  BY DEF Claimable, Least
<1>2. pel \subseteq Entries
  BY StreamAssumption DEF Stored, StreamAssumption, Entries
<1>3. idle \subseteq pel
  BY DEF Stored
<1> QED BY <1>1, <1>2, <1>3

LEMMA StartKeeps ==
  ASSUME Stored, Instanced, NEW c \in Instances, Start(c)
  PROVE  Stored' /\ Instanced'
<1>1. UNCHANGED <<log, first, malformed, delivered, rows, crashes>>
  BY DEF Start, stream, group
<1>2. /\ rows' \in [Entries -> Nat] /\ malformed' = malformed
      /\ \A e \in Entries : rows[e] > 0 => rows'[e] > 0
      /\ \A e \in Entries : rows'[e] <= 1
  BY <1>1 DEF Instanced, Stored, StoredOnce, OneRowPerEntry
<1>3. crashes' \in 0..MaxCrashes /\ errors \in 0..MaxErrors /\ idle \subseteq pel
  BY <1>1 DEF Stored
<1>4. CASE /\ HandleAll(c, Claimable)
           /\ idle' = {e \in idle : e >= first} \ Claimable
           /\ pel' = pel \ {e \in idle : e < first}
           /\ UNCHANGED <<delivered, errors>>
  <2>1. Instanced'
    <3>1. Claimable \in SUBSET Entries
      BY ClaimableIsPending
    <3> QED BY <1>2, <1>4, <3>1, HandleAllKeeps
  <2>2. pel' \subseteq pel /\ \A e \in pel \ pel' : e < first
    BY <1>4
  <2>3. idle' \subseteq pel'
    <3> SUFFICES ASSUME NEW e \in idle' PROVE e \in pel /\ ~(e < first)
      BY <1>4
    <3>1. e \in idle /\ e >= first
      BY <1>4
    <3>2. e \in Nat /\ first \in Nat
      BY <3>1, ClaimableIsPending, StreamAssumption DEF Entries, Stored, StreamAssumption
    <3> QED BY <1>3, <3>1, <3>2
  <2>4. Stored'
    BY <1>1, <1>2, <1>3, <1>4, <2>2, <2>3, StoredKeeps
  <2> QED BY <2>1, <2>4
<1>5. ASSUME Fails, UNCHANGED group, Instanced' PROVE Stored' /\ Instanced'
  <2>1. errors' \in 0..MaxErrors
    BY <1>3, <1>5, FailsKeeps
  <2>2. pel' = pel /\ idle' = idle
    BY <1>5 DEF group
  <2>3. Stored'
    BY <1>1, <1>2, <1>3, <2>1, <2>2, StoredKeeps
  <2> QED BY <1>5, <2>3
<1>6. CASE Fails /\ HandleAll(c, {}) /\ UNCHANGED group
  <2>1. Instanced'
    BY <1>2, <1>6, HandleAllKeeps
  <2> QED BY <1>5, <1>6, <2>1
<1>7. CASE Fails /\ at' = [at EXCEPT ![c] = "off"] /\ UNCHANGED <<group, batch>>
  <2>1. Goto(c, "off") /\ "off" \in Places /\ Handled("off", batch[c], rows', malformed)
    BY <1>7 DEF Goto, Places, Handled
  <2>2. Instanced'
    BY <1>2, <2>1, GotoKeeps
  <2> QED BY <1>5, <1>7, <2>2
<1> QED BY <1>4, <1>6, <1>7 DEF Start

LEMMA LookUpKeeps ==
  ASSUME Stored, Instanced, NEW c \in Instances, LookUp(c)
  PROVE  Stored' /\ Instanced'
<1>1. UNCHANGED <<log, first, malformed, delivered, pel, idle, rows, crashes>> /\ at[c] = "look"
  BY DEF LookUp, stream, group
<1>2. /\ rows' \in [Entries -> Nat] /\ malformed' = malformed
      /\ \A e \in Entries : rows[e] > 0 => rows'[e] > 0
      /\ \A e \in Entries : rows'[e] <= 1
  BY <1>1 DEF Instanced, Stored, StoredOnce, OneRowPerEntry
<1>3. crashes' \in 0..MaxCrashes /\ errors \in 0..MaxErrors /\ idle \subseteq pel
  BY <1>1 DEF Stored
<1>4. ASSUME errors' \in 0..MaxErrors, Instanced' PROVE Stored' /\ Instanced'
  BY <1>1, <1>2, <1>3, <1>4, StoredKeeps
<1> DEFINE where == IF Current(c) \in malformed \/ rows[Current(c)] > 0 THEN "ack" ELSE "create"
<1>5. CASE Goto(c, where) /\ UNCHANGED errors
  <2>1. where \in Places /\ Handled(where, batch[c], rows', malformed)
    <3>1. batch[c] # {}
      BY <1>1, AtHand
    <3> QED BY <1>1, <3>1 DEF Places, Handled, Current
  <2> HIDE DEF where
  <2>2. Instanced'
    BY <1>2, <1>5, <2>1, GotoKeeps
  <2> QED BY <1>3, <1>4, <1>5, <2>2
<1>6. CASE Fails /\ Advance(c)
  <2>1. Instanced'
    BY <1>1, <1>2, <1>6, AdvanceKeeps
  <2> QED BY <1>3, <1>4, <1>6, <2>1, FailsKeeps
<1> QED BY <1>5, <1>6 DEF LookUp

LEMMA CreateKeeps ==
  ASSUME Stored, Instanced, NEW c \in Instances, Create(c)
  PROVE  Stored' /\ Instanced'
<1>1. UNCHANGED <<log, first, malformed, delivered, pel, idle, crashes>> /\ at[c] = "create"
  BY DEF Create, stream, group
<1>2. rows' \in {rows, [rows EXCEPT ![Current(c)] = 1]}
  BY DEF Create
<1>3. /\ rows' \in [Entries -> Nat] /\ malformed' = malformed
      /\ \A e \in Entries : rows[e] > 0 => rows'[e] > 0
      /\ \A e \in Entries : rows'[e] <= 1
  <2>1. rows \in [Entries -> Nat] /\ \A e \in Entries : rows[e] <= 1
    BY DEF Instanced, Stored, StoredOnce, OneRowPerEntry
  <2> QED BY <1>1, <1>2, <2>1
<1>4. crashes' \in 0..MaxCrashes /\ errors \in 0..MaxErrors /\ idle \subseteq pel
  BY <1>1 DEF Stored
<1>5. ASSUME errors' \in 0..MaxErrors, Instanced' PROVE Stored' /\ Instanced'
  BY <1>1, <1>3, <1>4, <1>5, StoredKeeps
<1>6. CASE rows' = [rows EXCEPT ![Current(c)] = 1] /\ Goto(c, "ack") /\ UNCHANGED errors
  <2>1. Current(c) \in Entries /\ batch[c] # {}
    BY <1>1, AtHand
  <2>2. rows'[Current(c)] = 1
    BY <1>6, <2>1 DEF Instanced
  <2>3. "ack" \in Places /\ Handled("ack", batch[c], rows', malformed)
    BY <2>1, <2>2 DEF Places, Handled, Current
  <2>4. Instanced'
    BY <1>3, <1>6, <2>3, GotoKeeps
  <2> QED BY <1>4, <1>5, <1>6, <2>4
<1>7. CASE Fails /\ Advance(c)
  <2>1. Instanced'
    BY <1>1, <1>3, <1>7, AdvanceKeeps
  <2> QED BY <1>4, <1>5, <1>7, <2>1, FailsKeeps
<1> QED BY <1>6, <1>7 DEF Create

LEMMA AckKeeps ==
  ASSUME Stored, Instanced, NEW c \in Instances, Ack(c)
  PROVE  Stored' /\ Instanced'
<1>1. UNCHANGED <<log, first, malformed, delivered, rows, crashes>> /\ at[c] = "ack"
  BY DEF Ack, stream
<1>2. /\ rows' \in [Entries -> Nat] /\ malformed' = malformed
      /\ \A e \in Entries : rows[e] > 0 => rows'[e] > 0
      /\ \A e \in Entries : rows'[e] <= 1
  BY <1>1 DEF Instanced, Stored, StoredOnce, OneRowPerEntry
<1>3. crashes' \in 0..MaxCrashes /\ errors \in 0..MaxErrors /\ idle \subseteq pel
  BY <1>1 DEF Stored
<1>4. rows'[Current(c)] > 0 \/ Current(c) \in malformed
  BY <1>1 DEF Instanced, Handled, Current
<1>5. CASE /\ pel' = pel \ {Current(c)} /\ idle' = idle \ {Current(c)}
           /\ Advance(c) /\ UNCHANGED errors
  <2>1. Instanced'
    BY <1>1, <1>2, <1>5, AdvanceKeeps
  <2>2. /\ errors' \in 0..MaxErrors /\ pel' \subseteq pel /\ idle' \subseteq pel'
        /\ \A e \in pel \ pel' : e = Current(c)
    BY <1>3, <1>5
  <2>3. Stored'
    BY <1>1, <1>2, <1>3, <1>4, <2>2, StoredKeeps
  <2> QED BY <2>1, <2>3
<1>6. CASE /\ Fails /\ HandleAll(c, {})
           /\ pel' \in {pel, pel \ {Current(c)}} /\ idle' = idle \cap pel'
  <2>1. Instanced'
    BY <1>2, <1>6, HandleAllKeeps
  <2>2. /\ errors' \in 0..MaxErrors /\ pel' \subseteq pel /\ idle' \subseteq pel'
        /\ \A e \in pel \ pel' : e = Current(c)
    BY <1>3, <1>6, FailsKeeps
  <2>3. Stored'
    BY <1>1, <1>2, <1>3, <1>4, <2>2, StoredKeeps
  <2> QED BY <2>1, <2>3
<1> QED BY <1>5, <1>6 DEF Ack

LEMMA CrashKeeps ==
  ASSUME Stored, Instanced, NEW c \in Instances, Crash(c)
  PROVE  Stored' /\ Instanced'
<1>1. UNCHANGED <<log, first, malformed, delivered, pel, idle, rows, errors>>
  BY DEF Crash, stream, group
<1>2. /\ rows' \in [Entries -> Nat] /\ malformed' = malformed
      /\ \A e \in Entries : rows[e] > 0 => rows'[e] > 0
      /\ \A e \in Entries : rows'[e] <= 1
  BY <1>1 DEF Instanced, Stored, StoredOnce, OneRowPerEntry
<1>3. errors' \in 0..MaxErrors /\ idle \subseteq pel
  BY <1>1 DEF Stored
<1>4. crashes' \in 0..MaxCrashes
  BY StreamAssumption DEF Crash, Stored, StreamAssumption
<1>5. Instanced'
  <2>1. "down" \in Places /\ Handled("down", {}, rows', malformed) /\ {} \in SUBSET Entries
    BY DEF Places, Handled
  <2>2. at' = [at EXCEPT ![c] = "down"] /\ batch' = [batch EXCEPT ![c] = {}]
    BY DEF Crash
  <2> QED BY <1>2, <2>1, <2>2, OneMoves
<1>6. Stored'
  BY <1>1, <1>2, <1>3, <1>4, StoredKeeps
<1> QED BY <1>5, <1>6

LEMMA GrowsIdleKeeps ==
  ASSUME Stored, Instanced, NEW e \in pel, GrowsIdle(e)
  PROVE  Stored' /\ Instanced'
<1>1. /\ UNCHANGED <<log, first, malformed, delivered, pel, rows, at, batch, crashes, errors>>
      /\ idle' = idle \cup {e}
  BY DEF GrowsIdle, stream, faults
<1>2. idle' \subseteq pel'
  BY <1>1 DEF Stored
<1>3. Stored'
  BY <1>1, <1>2 DEF Stored, StoredOnce, OneRowPerEntry, AckedIsStored
<1>4. Instanced'
  BY <1>1 DEF Instanced
<1> QED BY <1>3, <1>4

(* A new entry is owed to nobody yet, and what is trimmed may go unstored. *)
LEMMA PublishKeeps ==
  ASSUME Stored, Instanced, Publish
  PROVE  Stored' /\ Instanced'
<1>1. /\ UNCHANGED <<delivered, pel, idle, rows, at, batch, crashes, errors>>
      /\ log < MaxEntries /\ log' = log + 1
      /\ malformed' \in {malformed, malformed \cup {log'}}
      /\ first' \in {first} \cup {f \in first..log' : log' - f + 1 >= MaxLen}
  BY DEF Publish, group, faults
<1>2. /\ log \in 0..MaxEntries /\ MaxEntries \in Nat /\ first \in 1..MaxEntries + 1 /\ delivered \in 0..log
      /\ pel \subseteq 1..delivered /\ idle \subseteq pel
      /\ crashes \in 0..MaxCrashes /\ errors \in 0..MaxErrors
  BY StreamAssumption DEF Stored, StreamAssumption
<1>3. log' \in 0..MaxEntries /\ log' \in Entries /\ delivered' \in 0..log'
  BY <1>1, <1>2 DEF Entries
<1>4. first' \in 1..MaxEntries + 1 /\ first' >= first
  BY <1>1, <1>2
<1>5. AckedIsStored'
  <2> SUFFICES ASSUME NEW e \in 1..delivered \ pel
               PROVE  rows[e] > 0 \/ e \in malformed' \/ e < first'
    BY <1>1 DEF AckedIsStored
  <2>1. rows[e] > 0 \/ e \in malformed \/ e < first
    BY DEF Stored, StoredOnce, AckedIsStored
  <2>2. e < first => e < first'
    BY <1>2, <1>4
  <2> QED BY <1>1, <2>1, <2>2
<1>6. OneRowPerEntry'
  BY <1>1 DEF Stored, StoredOnce, OneRowPerEntry
<1>7. Stored'
  BY <1>1, <1>2, <1>3, <1>4, <1>5, <1>6 DEF Stored, StoredOnce
<1>8. ASSUME NEW c \in Instances PROVE Handled(at[c], batch[c], rows, malformed')
  <2>1. at[c] \in Places /\ batch[c] \in SUBSET Entries /\ Handled(at[c], batch[c], rows, malformed)
    BY DEF Instanced
  <2> QED BY <1>1, <2>1, KeepsHandled
<1>9. Instanced'
  BY <1>1, <1>3, <1>8 DEF Instanced
<1> QED BY <1>7, <1>9

LEMMA StreamKeeps ==
  ASSUME StreamInv, [StreamNext]_streamVars
  PROVE  StreamInv'
<1> SUFFICES ASSUME Stored, Instanced PROVE Stored' /\ Instanced'
  BY StreamParts DEF StreamInv, StreamTypeOK, Instanced, Stored, Places
<1>1. CASE UNCHANGED streamVars
  <2>1. Instanced'
    BY <1>1 DEF streamVars, Instanced
  <2>2. Stored'
    BY <1>1 DEF streamVars, Stored, StoredOnce, OneRowPerEntry, AckedIsStored
  <2> QED BY <2>1, <2>2
<1>2. CASE Publish
  BY <1>2, PublishKeeps
<1>3. ASSUME NEW c \in Instances, Runs(c) \/ Crash(c) PROVE Stored' /\ Instanced'
  BY <1>3, StartKeeps, ReadKeeps, LookUpKeeps, CreateKeeps, AckKeeps, CrashKeeps DEF Runs
<1>4. ASSUME NEW e \in pel, GrowsIdle(e) PROVE Stored' /\ Instanced'
  BY <1>4, GrowsIdleKeeps
<1> QED BY <1>1, <1>2, <1>3, <1>4 DEF StreamNext

LEMMA StreamStarts == StreamInit => StreamInv
<1> SUFFICES ASSUME StreamInit PROVE StreamInv
  OBVIOUS
<1>1. Instanced
  BY DEF StreamInit, Instanced, Places, Handled
<1>2. OneRowPerEntry /\ AckedIsStored
  BY DEF StreamInit, OneRowPerEntry, AckedIsStored
<1>3. Stored
  BY <1>2, StreamAssumption DEF StreamInit, Stored, StoredOnce, StreamAssumption
<1> QED BY <1>1, <1>3, StreamParts

(* Of the signals that were broadcast none has two rows, and the group owes those *)
(* that have none: no crash, no reclaim and no query that raises after it took   *)
(* effect comes between persistSignal and XACK unnoticed.                        *)
THEOREM StoredAlwaysOnce == StreamSpec => []StoredOnce
<1>1. StreamInv => StoredOnce
  BY DEF StreamInv
<1> QED BY <1>1, StreamStarts, StreamKeeps, PTL DEF StreamSpec

(* What an instance has at hand was appended, and it creates no row for what holds *)
(* no signal.                                                                    *)
Begun(where, entries, l, m) ==
    /\ entries \subseteq 1..l
    /\ where = "create" => Min(entries) \notin m

AllBegun == \A c \in Instances : Begun(at[c], batch[c], log, malformed)

LEMMA OneBegins ==
  ASSUME Instanced, AllBegun, NEW c \in Instances, NEW where, NEW entries, Begun(where, entries, log, malformed),
         at' = [at EXCEPT ![c] = where], batch' = [batch EXCEPT ![c] = entries],
         UNCHANGED <<log, malformed>>
  PROVE  AllBegun'
<1>1. ASSUME NEW d \in Instances PROVE Begun(at'[d], batch'[d], log, malformed)
  <2>1. CASE d = c
    BY <2>1 DEF Instanced
  <2>2. CASE d # c
    <3>1. at'[d] = at[d] /\ batch'[d] = batch[d]
      BY <2>2 DEF Instanced
    <3> QED BY <3>1 DEF AllBegun
  <2> QED BY <2>1, <2>2
<1> QED BY <1>1 DEF AllBegun

LEMMA HandleAllBegins ==
  ASSUME Instanced, AllBegun, NEW c \in Instances, NEW entries, entries \subseteq 1..log,
         HandleAll(c, entries), UNCHANGED <<log, malformed>>
  PROVE  AllBegun'
<1> DEFINE where == IF entries = {} THEN "reading" ELSE "look"
<1>1. Begun(where, entries, log, malformed)
  BY DEF Begun
<1>2. at' = [at EXCEPT ![c] = where] /\ batch' = [batch EXCEPT ![c] = entries]
  BY DEF HandleAll
<1> HIDE DEF where
<1> QED BY <1>1, <1>2, OneBegins

LEMMA GotoBegins ==
  ASSUME Instanced, AllBegun, NEW c \in Instances, NEW where, Goto(c, where),
         where = "create" => Current(c) \notin malformed, UNCHANGED <<log, malformed>>
  PROVE  AllBegun'
<1>1. at' = [at EXCEPT ![c] = where] /\ batch' = [batch EXCEPT ![c] = batch[c]]
  BY DEF Goto, Instanced
<1>2. Begun(where, batch[c], log, malformed)
  BY DEF AllBegun, Begun, Current
<1> QED BY <1>1, <1>2, OneBegins

LEMMA AdvanceBegins ==
  ASSUME Instanced, AllBegun, NEW c \in Instances, Advance(c), UNCHANGED <<log, malformed>>
  PROVE  AllBegun'
<1>1. batch[c] \ {Current(c)} \subseteq 1..log
  BY DEF AllBegun, Begun
<1> QED BY <1>1, HandleAllBegins DEF Advance

LEMMA StartBegins ==
  ASSUME Stored, Instanced, AllBegun, NEW c \in Instances, Start(c)
  PROVE  AllBegun'
<1>1. UNCHANGED <<log, malformed>>
  BY DEF Start, stream
<1>2. Claimable \subseteq 1..log /\ {} \subseteq 1..log
  <2>1. Claimable \subseteq pel
    BY ClaimableIsPending
  <2>2. pel \subseteq 1..delivered /\ delivered \in 0..log /\ log \in 0..MaxEntries
    BY DEF Stored
  <2> QED BY <2>1, <2>2
<1>3. CASE HandleAll(c, Claimable) \/ HandleAll(c, {})
  BY <1>1, <1>2, <1>3, HandleAllBegins
<1>4. CASE at' = [at EXCEPT ![c] = "off"] /\ UNCHANGED batch
  <2>1. Goto(c, "off")
    BY <1>4 DEF Goto
  <2> QED BY <1>1, <2>1, GotoBegins
<1> QED BY <1>3, <1>4 DEF Start

LEMMA ReadBegins ==
  ASSUME Stored, Instanced, AllBegun, NEW c \in Instances, Read(c)
  PROVE  AllBegun'
<1> DEFINE new == Least({e \in delivered + 1..log : e >= first}, ReadCount)
<1>1. HandleAll(c, new) /\ UNCHANGED <<log, malformed>>
  BY DEF Read, stream
<1>2. new \subseteq delivered + 1..log
  BY DEF Least
<1>3. delivered \in 0..log /\ log \in 0..MaxEntries
  BY DEF Stored
<1> HIDE DEF new
<1>4. new \subseteq 1..log
  BY <1>2, <1>3, StreamAssumption DEF StreamAssumption
<1> QED BY <1>1, <1>4, HandleAllBegins

LEMMA InstanceBegins ==
  ASSUME Stored, Instanced, AllBegun, NEW c \in Instances, LookUp(c) \/ Create(c) \/ Ack(c) \/ Crash(c)
  PROVE  AllBegun'
<1>1. UNCHANGED <<log, malformed>>
  BY DEF LookUp, Create, Ack, Crash, stream
<1>2. CASE LookUp(c)
  BY <1>1, <1>2, GotoBegins, AdvanceBegins DEF LookUp
<1>3. CASE Create(c)
  BY <1>1, <1>3, GotoBegins, AdvanceBegins DEF Create
<1>4. CASE Ack(c)
  BY <1>1, <1>4, HandleAllBegins, AdvanceBegins DEF Ack
<1>5. CASE Crash(c)
  <2>1. Begun("down", {}, log, malformed)
    BY DEF Begun
  <2> QED BY <1>1, <1>5, <2>1, OneBegins DEF Crash
<1> QED BY <1>2, <1>3, <1>4, <1>5

LEMMA PublishBegins ==
  ASSUME Stored, Instanced, AllBegun, Publish
  PROVE  AllBegun'
<1>1. /\ log' = log + 1 /\ UNCHANGED <<at, batch>>
      /\ malformed' \in {malformed, malformed \cup {log'}}
  BY DEF Publish
<1>2. log \in Nat
  BY StreamAssumption DEF Stored, StreamAssumption
<1>3. ASSUME NEW c \in Instances PROVE Begun(at[c], batch[c], log', malformed')
  <2>1. Begun(at[c], batch[c], log, malformed)
    BY DEF AllBegun
  <2>2. batch[c] \subseteq 1..log'
    BY <1>1, <1>2, <2>1 DEF Begun
  <2>3. ASSUME at[c] = "create" PROVE Min(batch[c]) \notin malformed'
    <3>1. Current(c) \in batch[c]
      BY <2>3, AtHand
    <3>2. Min(batch[c]) # log'
      BY <1>1, <1>2, <2>1, <3>1 DEF Begun, Current
    <3> QED BY <1>1, <2>1, <2>3, <3>2 DEF Begun
  <2> QED BY <2>2, <2>3 DEF Begun
<1> QED BY <1>1, <1>3 DEF AllBegun

LEMMA BegunKeeps ==
  ASSUME StreamInv, AllBegun, [StreamNext]_streamVars
  PROVE  AllBegun'
<1>1. Stored /\ Instanced
  BY StreamParts
<1>2. CASE UNCHANGED streamVars
  BY <1>2 DEF streamVars, AllBegun
<1>3. CASE Publish
  BY <1>1, <1>3, PublishBegins
<1>4. ASSUME NEW c \in Instances, Runs(c) \/ Crash(c) PROVE AllBegun'
  BY <1>1, <1>4, StartBegins, ReadBegins, InstanceBegins DEF Runs
<1>5. ASSUME NEW e \in pel, GrowsIdle(e) PROVE AllBegun'
  BY <1>5 DEF GrowsIdle, stream, AllBegun
<1> QED BY <1>2, <1>3, <1>4, <1>5 DEF StreamNext

(* What the contract is told of. *)
ReleasedOf == 1..delivered \ pel
Promised == <<log, malformed, 1..first - 1, rows, ReleasedOf>>

LEMMA FewerUp ==
  ASSUME NEW l \in Nat, NEW f \in Nat, NEW n \in Nat, l - f + 1 >= n
  PROVE  1..f - 1 \subseteq 1..l - n
<1>1. f - 1 <= l - n
  OBVIOUS
<1>2. f - 1 \in Int /\ l - n \in Int
  OBVIOUS
<1> QED BY <1>1, <1>2

LEMMA AppendRefines ==
  ASSUME Stored, Publish
  PROVE  Delivery!Append
<1>1. /\ UNCHANGED <<rows, delivered, pel>>
      /\ log' = log + 1 /\ malformed' \in {malformed, malformed \cup {log'}}
      /\ first' \in {first} \cup {f \in first..log' : log' - f + 1 >= MaxLen}
  BY DEF Publish, group
<1>2. log \in Nat /\ first \in Nat /\ first > 0 /\ MaxLen \in Nat
  BY StreamAssumption DEF Stored, StreamAssumption
<1>3. \E beyond \in SUBSET (1..log' - MaxLen) : 1..first' - 1 = (1..first - 1) \cup beyond
  <2>1. CASE first' = first
    <3>1. 1..first' - 1 = (1..first - 1) \cup {}
      BY <2>1
    <3> QED BY <3>1
  <2>2. CASE first' # first
    <3> DEFINE beyond == 1..first' - 1
    <3>1. first' \in first..log' /\ log' - first' + 1 >= MaxLen
      BY <1>1, <2>2
    <3>2. log' \in Nat /\ first' \in Nat /\ first' >= first
      BY <1>1, <1>2, <3>1
    <3>3. beyond \in SUBSET (1..log' - MaxLen)
      <4>1. 1..first' - 1 \subseteq 1..log' - MaxLen
        BY <1>2, <3>1, <3>2, FewerUp
      <4> QED BY <4>1
    <3>4. beyond = (1..first - 1) \cup beyond
      BY <1>2, <3>2
    <3> QED BY <3>3, <3>4
  <2> QED BY <2>1, <2>2
<1> QED BY <1>1, <1>3 DEF Delivery!Append

(* What is stored, and what the group owes no longer, is released for good. *)
LEMMA ReleaseRefines ==
  ASSUME Stored', UNCHANGED <<log, first, malformed, rows>>, ReleasedOf \subseteq ReleasedOf'
  PROVE  Delivery!Release
<1>1. log' \in Nat /\ delivered' \in 0..log' /\ first' \in Nat
  BY StreamAssumption DEF Stored, StreamAssumption
<1>2. ASSUME NEW e \in ReleasedOf' PROVE e \in 1..log /\ Delivery!MayGo(e)
  <2>1. e \in 1..delivered' \ pel'
    BY DEF ReleasedOf
  <2>2. rows'[e] > 0 \/ e \in malformed' \/ e < first'
    BY <2>1 DEF Stored, StoredOnce, AckedIsStored
  <2>3. e \in 1..log
    BY <1>1, <2>1
  <2>4. e < first => e \in 1..first - 1
    BY <1>1, <2>3
  <2> QED BY <2>2, <2>3, <2>4 DEF Delivery!MayGo
<1>3. PICK gone : gone = ReleasedOf'
  OBVIOUS
<1>4. gone \in SUBSET {e \in 1..log : Delivery!MayGo(e)} /\ ReleasedOf' = ReleasedOf \cup gone
  BY <1>2, <1>3
<1> QED BY <1>4 DEF Delivery!Release, ReleasedOf

LEMMA StoreRefines ==
  ASSUME Stored, Instanced, AllBegun, NEW c \in Instances, Create(c)
  PROVE  (\E e \in Entries : Delivery!Store(e)) \/ UNCHANGED Promised
<1>1. /\ UNCHANGED <<log, first, malformed, delivered, pel>> /\ at[c] = "create"
      /\ rows' \in {rows, [rows EXCEPT ![Current(c)] = 1]}
  BY DEF Create, stream, group
<1>2. PICK e \in Entries : e = Current(c) /\ e \in batch[c]
  BY <1>1, AtHand
<1>3. e \in 1..log /\ e \notin malformed
  BY <1>1, <1>2 DEF AllBegun, Begun, Current
<1>4. rows \in [Entries -> Nat] /\ rows[e] <= 1
  BY DEF Instanced, Stored, StoredOnce, OneRowPerEntry
<1>5. CASE rows' = rows
  BY <1>1, <1>5 DEF Promised, ReleasedOf
<1>6. CASE rows[e] = 0 /\ rows' # rows
  BY <1>1, <1>2, <1>3, <1>6 DEF Delivery!Store
<1>7. CASE rows[e] = 1
  <2>1. [rows EXCEPT ![e] = 1] = rows
    BY <1>4, <1>7
  <2> QED BY <1>1, <1>2, <1>5, <2>1
<1> QED BY <1>4, <1>5, <1>6, <1>7

LEMMA ReleasedGrows ==
  ASSUME Stored, NEW c \in Instances, Start(c) \/ Read(c) \/ Ack(c)
  PROVE  ReleasedOf \subseteq ReleasedOf' /\ UNCHANGED <<log, first, malformed, rows>>
<1>1. UNCHANGED <<log, first, malformed, rows>>
  BY DEF Start, Read, Ack, stream
<1>2. CASE Start(c) \/ Ack(c)
  <2>1. delivered' = delivered /\ pel' \subseteq pel
    BY <1>2 DEF Start, Ack, group
  <2> QED BY <1>1, <2>1 DEF ReleasedOf
<1>3. CASE Read(c)
  <2> DEFINE new == Least({e \in delivered + 1..log : e >= first}, ReadCount)
  <2>1. new # {} /\ delivered' = Max(new) /\ pel' = pel \cup new
    BY <1>3 DEF Read
  <2>2. new \subseteq delivered + 1..log
    BY DEF Least
  <2>3. delivered \in Nat /\ log \in Nat
    BY StreamAssumption DEF Stored, StreamAssumption
  <2> HIDE DEF new
  <2>4. Max(new) \in new
    <3>1. new \in SUBSET (0..log)
      BY <2>2, <2>3
    <3> QED BY <2>1, <2>3, <3>1, MaxIsGreatest
  <2>5. \A e \in new : e \in Nat /\ e > delivered
    <3> TAKE e \in new
    <3>1. e \in delivered + 1..log
      BY <2>2
    <3> QED BY <2>3, <3>1
  <2>6. ASSUME NEW e \in 1..delivered, e \notin pel PROVE e \in 1..delivered' /\ e \notin pel'
    BY <2>1, <2>3, <2>4, <2>5, <2>6
  <2> QED BY <1>1, <2>6 DEF ReleasedOf
<1> QED BY <1>2, <1>3

(* Every step of the stream, of its instances and of Redis is one step of the    *)
(* contract at most.                                                             *)
LEMMA StreamRefines ==
  ASSUME StreamInv, AllBegun, StreamInv', [StreamNext]_streamVars
  PROVE  Delivery!Next \/ UNCHANGED Promised
<1>1. Stored /\ Instanced /\ Stored'
  BY StreamParts DEF StreamInv, StreamTypeOK, Stored
<1>2. CASE Publish
  BY <1>1, <1>2, AppendRefines DEF Delivery!Next
<1>3. ASSUME NEW c \in Instances, Start(c) \/ Read(c) \/ Ack(c) PROVE Delivery!Next
  BY <1>1, <1>3, ReleasedGrows, ReleaseRefines DEF Delivery!Next
<1>4. ASSUME NEW c \in Instances, Create(c) PROVE Delivery!Next \/ UNCHANGED Promised
  BY <1>1, <1>4, StoreRefines DEF Delivery!Next
<1>5. ASSUME NEW c \in Instances, LookUp(c) \/ Crash(c) PROVE UNCHANGED Promised
  BY <1>5 DEF LookUp, Crash, stream, group, Promised, ReleasedOf
<1>6. ASSUME NEW e \in pel, GrowsIdle(e) PROVE UNCHANGED Promised
  BY <1>6 DEF GrowsIdle, stream, Promised, ReleasedOf
<1>7. CASE UNCHANGED streamVars
  BY <1>7 DEF streamVars, Promised, ReleasedOf
<1> QED BY <1>2, <1>3, <1>4, <1>5, <1>6, <1>7 DEF StreamNext, Runs

LEMMA DeliveryStarts == StreamInit => Delivery!Init /\ AllBegun
<1> SUFFICES ASSUME StreamInit PROVE Delivery!Init /\ AllBegun
  OBVIOUS
<1>1. Delivery!Init
  BY DEF StreamInit, Delivery!Init
<1>2. AllBegun
  BY DEF StreamInit, AllBegun, Begun
<1> QED BY <1>1, <1>2

(* The consumer group implements DeliveryContract, for any number of instances,  *)
(* entries, crashes and failing commands and any cap of the stream: no entry gets *)
(* a second row, no row goes away, and no entry is let go without one, except for *)
(* those that cannot be read and those MAXLEN trims, never the newest.            *)
THEOREM ConsumerHonoursContract == StreamSpec => StoresAsPromised
<1>1. StreamInv /\ AllBegun /\ StreamInv' /\ [StreamNext]_streamVars => [Delivery!Next]_(Delivery!deliveryVars)
  BY StreamRefines DEF Promised, ReleasedOf, Delivery!deliveryVars
<1> QED BY <1>1, StreamStarts, StreamKeeps, DeliveryStarts, BegunKeeps, PTL
        DEF StreamSpec, StoresAsPromised, Delivery!Spec

-----------------------------------------------------------------------------
(* The rooms.                                                                  *)

(* A session is in the room of no symbol but its active one, and in none unless  *)
(* it is up.                                                                     *)
Fits(k) ==
    /\ \A s \in Symbols : <<s, "all">> \in k.rooms => s = k.active.sym
    /\ ~k.up => k.rooms = {}

RoomsInv ==
    /\ RoomsTypeOK /\ ArmedIffWatched
    /\ \A c \in Clients : Fits(socket[c]) /\ Fits(kept[c])
    /\ \A g \in ghosts : Fits(g)

-----------------------------------------------------------------------------
(* The types.                                                                  *)

LEMMA SessionKinds ==
  ASSUME NEW k \in Sessions
  PROVE  k.rooms \in SUBSET Rooms /\ k.active \in Refs /\ k.restored \in BOOLEAN /\ k.up \in BOOLEAN
  BY DEF Sessions

LEMMA RefKinds ==
  /\ NoRef \in Refs
  /\ \A p \in Pages : Referring(p) \in Refs /\ p.sym \in Symbols /\ p.frame \in Frames
  /\ \A m \in Messages : /\ m.kind \in {"subscribe", "unsubscribe_symbol"}
                         /\ m.sym \in Symbols /\ m.frame \in Frames \cup {"none"}
                         /\ m.kind = "subscribe" => m.frame \in Frames /\ Referring(m) \in Refs
  BY DEF NoRef, Refs, Pages, Referring, Messages

LEMMA NoSessionFits == NoSession \in Sessions /\ [NoSession EXCEPT !.up = TRUE] \in Sessions
                       /\ Fits(NoSession) /\ Fits([NoSession EXCEPT !.up = TRUE])
                       /\ Watched([NoSession EXCEPT !.up = TRUE]) = {} /\ Watched(NoSession) = {}
                       /\ ~NoSession.up
<1>1. NoRef \in Refs
  BY RefKinds
<1>2. NoSession \in Sessions /\ [NoSession EXCEPT !.up = TRUE] \in Sessions
  BY <1>1 DEF NoSession, Sessions
<1>3. NoSession.rooms = {} /\ [NoSession EXCEPT !.up = TRUE].rooms = {} /\ ~NoSession.up
  BY DEF NoSession
<1> QED BY <1>2, <1>3 DEF Fits, Watched

LEMMA Spent ==
  ASSUME Move \/ Break, left \in [moves : 0..MaxMoves, breaks : 0..MaxBreaks]
  PROVE  left' \in [moves : 0..MaxMoves, breaks : 0..MaxBreaks]
  BY RoomsAssumption DEF Move, Break, RoomsAssumption

(* What a hook emits can be sent. *)
LEMMA EmittedTyped ==
  ASSUME NEW r \in Refs, NEW p \in Pages
  PROVE  /\ Emitted(r, p) \in Seq(Messages)
         /\ \A s \in Symbols : Unsubscribe(s, r.frame) \in Messages
<1>1. /\ r.sym \in Symbols \cup {"none"} /\ r.frame \in Frames \cup {"none"}
      /\ p.sym \in Symbols /\ p.frame \in Frames
  BY DEF Refs, Pages
<1>2. Subscribe(p.sym, p.frame) \in Messages /\ \A s \in Symbols : Unsubscribe(s, r.frame) \in Messages
  BY <1>1 DEF Subscribe, Unsubscribe, Messages
<1>3. <<Subscribe(p.sym, p.frame)>> \in Seq(Messages)
  BY <1>2
<1>4. CASE r.sym \notin {"none", p.sym}
  <2>1. <<Unsubscribe(r.sym, r.frame)>> \in Seq(Messages)
    BY <1>1, <1>2, <1>4
  <2> QED BY <1>2, <1>3, <1>4, <2>1, ConcatProperties DEF Emitted
<1>5. CASE r.sym \in {"none", p.sym}
  <2>1. <<>> \in Seq(Messages)
    OBVIOUS
  <2> QED BY <1>2, <1>3, <1>5, <2>1, ConcatProperties DEF Emitted
<1> QED BY <1>4, <1>5

LEMMA EmitsTyped ==
  ASSUME wire \in [Clients -> Seq(Messages)], NEW c \in Clients, NEW messages \in Seq(Messages),
         Emits(c, messages)
  PROVE  wire' \in [Clients -> Seq(Messages)]
<1>1. wire[c] \in Seq(Messages) /\ wire[c] \o messages \in Seq(Messages)
  BY ConcatProperties
<1> QED BY <1>1 DEF Emits

LEMMA RejoinTyped ==
  ASSUME RoomsTypeOK, NEW c \in Clients
  PROVE  Rejoin(c) \in Seq(Messages)
<1>1. refs[c]["header"] \in Refs /\ refs[c]["page"] \in Refs /\ page[c] \in Pages
  BY DEF RoomsTypeOK, Hooks
<1>2. Emitted(refs[c]["header"], page[c]) \in Seq(Messages) /\ Emitted(refs[c]["page"], page[c]) \in Seq(Messages)
  BY <1>1, EmittedTyped
<1>3. <<>> \in Seq(Messages)
  OBVIOUS
<1> QED BY <1>2, <1>3, ConcatProperties DEF Rejoin

(* What the users do touches the client alone. *)
ClientTypeOK ==
    /\ page \in [Clients -> Pages] /\ refs \in [Clients -> [Hooks -> Refs]]
    /\ wire \in [Clients -> Seq(Messages)]
    /\ left \in [moves : 0..MaxMoves, breaks : 0..MaxBreaks]

LEMMA SelectSymbolTyped ==
  ASSUME ClientTypeOK, NEW c \in Clients, NEW s \in Symbols, SelectSymbol(c, s)
  PROVE  ClientTypeOK'
<1> DEFINE r == refs[c]["page"]
           after == IF r.sym = page[c].sym THEN NoRef ELSE r
<1>1. page[c] \in Pages /\ r \in Refs /\ "page" \in Hooks
  BY DEF ClientTypeOK, Hooks
<1>2. page' \in [Clients -> Pages] /\ page'[c] \in Pages
  <2>1. [page[c] EXCEPT !.sym = s] \in Pages
    BY <1>1 DEF Pages
  <2>2. page' = [page EXCEPT ![c] = [page[c] EXCEPT !.sym = s]]
    BY DEF SelectSymbol
  <2> QED BY <2>1, <2>2 DEF ClientTypeOK
<1>3. refs' \in [Clients -> [Hooks -> Refs]]
  <2>1. Referring(page'[c]) \in Refs
    BY <1>2, RefKinds
  <2> QED BY <2>1, <1>1 DEF SelectSymbol, ClientTypeOK
<1>4. wire' \in [Clients -> Seq(Messages)]
  <2>1. after \in Refs
    BY <1>1, RefKinds
  <2>2. Emits(c, <<Unsubscribe(page[c].sym, r.frame)>> \o Emitted(after, page'[c]))
    BY DEF SelectSymbol
  <2> HIDE DEF after, r
  <2>3. Emitted(after, page'[c]) \in Seq(Messages)
    BY <1>2, <2>1, EmittedTyped
  <2>4. <<Unsubscribe(page[c].sym, r.frame)>> \in Seq(Messages)
    BY <1>1, EmittedTyped, RefKinds
  <2>5. <<Unsubscribe(page[c].sym, r.frame)>> \o Emitted(after, page'[c]) \in Seq(Messages)
    BY <2>3, <2>4, ConcatProperties
  <2> QED BY <2>2, <2>5, EmitsTyped DEF ClientTypeOK
<1>5. left' \in [moves : 0..MaxMoves, breaks : 0..MaxBreaks]
  BY Spent DEF SelectSymbol, ClientTypeOK
<1> QED BY <1>2, <1>3, <1>4, <1>5 DEF ClientTypeOK

LEMMA SelectFrameTyped ==
  ASSUME ClientTypeOK, NEW c \in Clients, NEW f \in Frames, SelectFrame(c, f)
  PROVE  ClientTypeOK'
<1>1. page[c] \in Pages /\ refs[c]["page"] \in Refs /\ refs[c]["header"] \in Refs
  BY DEF ClientTypeOK, Hooks
<1>2. page' \in [Clients -> Pages] /\ page'[c] \in Pages
  <2>1. [page[c] EXCEPT !.frame = f] \in Pages
    BY <1>1 DEF Pages
  <2>2. page' = [page EXCEPT ![c] = [page[c] EXCEPT !.frame = f]]
    BY DEF SelectFrame
  <2> QED BY <2>1, <2>2 DEF ClientTypeOK
<1>3. left' \in [moves : 0..MaxMoves, breaks : 0..MaxBreaks]
  BY Spent DEF SelectFrame, ClientTypeOK
<1>4. CASE pipe[c] = "closed"
  BY <1>2, <1>3, <1>4 DEF SelectFrame, ClientTypeOK
<1>5. CASE pipe[c] # "closed"
  <2>1. refs' \in [Clients -> [Hooks -> Refs]]
    <3>1. Referring(page'[c]) \in Refs
      BY <1>2, RefKinds
    <3>2. refs' = [refs EXCEPT ![c] = [h \in Hooks |-> Referring(page'[c])]]
      BY <1>5 DEF SelectFrame
    <3> QED BY <3>1, <3>2 DEF ClientTypeOK
  <2> DEFINE a == Emitted([refs[c]["header"] EXCEPT !.frame = f], page'[c])
             b == Emitted([refs[c]["page"] EXCEPT !.frame = f], page'[c])
  <2>2. \A r \in Refs : [r EXCEPT !.frame = f] \in Refs
    BY DEF Refs
  <2>3. a \in Seq(Messages) /\ b \in Seq(Messages)
    BY <1>1, <1>2, <2>2, EmittedTyped
  <2>4. Emits(c, a \o b)
    BY <1>5 DEF SelectFrame
  <2> HIDE DEF a, b
  <2>5. a \o b \in Seq(Messages)
    BY <2>3, ConcatProperties
  <2>6. wire' \in [Clients -> Seq(Messages)]
    BY <2>4, <2>5, EmitsTyped DEF ClientTypeOK
  <2> QED BY <1>2, <1>3, <2>1, <2>6 DEF ClientTypeOK
<1> QED BY <1>4, <1>5

LEMMA ChartTyped ==
  ASSUME ClientTypeOK, NEW c \in Clients, LeaveChart(c) \/ EnterChart(c)
  PROVE  ClientTypeOK'
<1>1. page[c] \in Pages /\ refs[c]["page"] \in Refs /\ NoRef \in Refs
  BY RefKinds DEF ClientTypeOK, Hooks
<1>2. page' \in [Clients -> Pages] /\ page'[c] \in Pages
  <2>1. PICK b \in BOOLEAN : page' = [page EXCEPT ![c] = [page[c] EXCEPT !.chart = b]]
    BY DEF LeaveChart, EnterChart
  <2>2. [page[c] EXCEPT !.chart = b] \in Pages
    BY <1>1 DEF Pages
  <2> QED BY <2>1, <2>2 DEF ClientTypeOK
<1>3. left' \in [moves : 0..MaxMoves, breaks : 0..MaxBreaks]
  BY Spent DEF LeaveChart, EnterChart, ClientTypeOK
<1>4. refs' \in [Clients -> [Hooks -> Refs]]
  <2>1. Referring(page'[c]) \in Refs
    BY <1>2, RefKinds
  <2>2. PICK r \in Refs : refs' = [refs EXCEPT ![c]["page"] = r]
    BY <1>1, <2>1 DEF LeaveChart, EnterChart
  <2> QED BY <2>2 DEF ClientTypeOK
<1>5. PICK messages \in Seq(Messages) : Emits(c, messages)
  <2>1. Emitted(NoRef, page'[c]) \in Seq(Messages)
    BY <1>1, <1>2, EmittedTyped
  <2>2. <<Unsubscribe(page[c].sym, refs[c]["page"].frame)>> \in Seq(Messages)
    BY <1>1, EmittedTyped, RefKinds
  <2> QED BY <2>1, <2>2 DEF LeaveChart, EnterChart
<1>6. wire' \in [Clients -> Seq(Messages)]
  BY <1>5, EmitsTyped DEF ClientTypeOK
<1> QED BY <1>2, <1>3, <1>4, <1>6 DEF ClientTypeOK

-----------------------------------------------------------------------------
(* The rooms.                                                                  *)

Joined ==
    /\ socket \in [Clients -> Sessions] /\ ghosts \subseteq Sessions
    /\ kept \in [Clients -> Sessions] /\ armed \subseteq Symbols
    /\ ArmedIffWatched
    /\ \A c \in Clients : Fits(socket[c]) /\ Fits(kept[c])
    /\ \A g \in ghosts : Fits(g)

Piped == pipe \in [Clients -> {"open", "cut", "closed"}]

LEMMA RoomsParts == RoomsInv <=> ClientTypeOK /\ Joined /\ Piped
  BY DEF RoomsInv, RoomsTypeOK, ClientTypeOK, Joined, Piped

(* What a pair is armed for stays in order when the sessions change: s may be    *)
(* left by some, those in extra have been joined, no other room is left by all.  *)
LEMMA Rearms ==
  ASSUME Joined, NEW s, NEW extra \in SUBSET Symbols,
         socket' \in [Clients -> Sessions], ghosts' \subseteq Sessions,
         armed' = Disarmed(s, socket', ghosts') \cup extra,
         \A t \in Symbols : t # s /\ InRoom(t, socket, ghosts) => InRoom(t, socket', ghosts'),
         \A t \in extra : InRoom(t, socket', ghosts'),
         \A c \in Clients : ~socket'[c].restored => Watched(socket'[c]) \subseteq armed \cup extra,
         \A g \in ghosts' : ~g.restored => Watched(g) \subseteq armed \cup extra
  PROVE  ArmedIffWatched' /\ armed' \subseteq Symbols
<1>1. armed \subseteq Symbols /\ \A t \in armed : InRoom(t, socket, ghosts)
  BY DEF Joined, ArmedIffWatched
<1>2. ASSUME NEW t \in armed' PROVE InRoom(t, socket', ghosts')
  <2>1. CASE t \in extra
    BY <2>1
  <2>2. CASE t \notin extra
    <3>1. t \in armed /\ (t # s \/ InRoom(s, socket', ghosts'))
      BY <2>2 DEF Disarmed
    <3> QED BY <1>1, <3>1
  <2> QED BY <2>1, <2>2
<1>3. \A t \in armed \cup extra : InRoom(t, socket', ghosts') => t \in armed'
  BY DEF Disarmed
<1>4. ASSUME NEW c \in Clients, ~socket'[c].restored PROVE Watched(socket'[c]) \subseteq armed'
  <2> SUFFICES ASSUME NEW t \in Watched(socket'[c]) PROVE t \in armed'
    OBVIOUS
  <2>1. t \in armed \cup extra
    BY <1>4
  <2>2. InRoom(t, socket', ghosts')
    BY DEF Watched, InRoom
  <2> QED BY <1>3, <2>1, <2>2
<1>5. ASSUME NEW g \in ghosts', ~g.restored PROVE Watched(g) \subseteq armed'
  <2> SUFFICES ASSUME NEW t \in Watched(g) PROVE t \in armed'
    OBVIOUS
  <2>1. t \in armed \cup extra
    BY <1>5
  <2>2. InRoom(t, socket', ghosts')
    BY DEF Watched, InRoom
  <2> QED BY <1>3, <2>1, <2>2
<1>6. ArmedIffWatched'
  BY <1>2, <1>4, <1>5 DEF ArmedIffWatched
<1>7. armed' \subseteq Symbols
  BY <1>1 DEF Disarmed
<1> QED BY <1>6, <1>7

(* What is in a room while the sessions of all but c stay as they are. *)
LEMMA RoomKept ==
  ASSUME NEW c \in Clients, NEW t, InRoom(t, socket, ghosts),
         \A d \in Clients \ {c} : socket'[d] = socket[d], ghosts \subseteq ghosts',
         <<t, "all">> \in socket[c].rooms => InRoom(t, socket', ghosts')
  PROVE  InRoom(t, socket', ghosts')
<1>1. CASE \E d \in Clients \ {c} : <<t, "all">> \in socket[d].rooms
  BY <1>1 DEF InRoom
<1>2. CASE \E g \in ghosts : <<t, "all">> \in g.rooms
  BY <1>2 DEF InRoom
<1>3. CASE <<t, "all">> \in socket[c].rooms
  BY <1>3
<1> QED BY <1>1, <1>2, <1>3 DEF InRoom

LEMMA Armed ==
  ASSUME Joined, NEW t
  PROVE  /\ \A c \in Clients : ~socket[c].restored => Watched(socket[c]) \subseteq armed
         /\ \A g \in ghosts : ~g.restored => Watched(g) \subseteq armed
         /\ "none" \notin armed
  BY RoomsAssumption DEF Joined, ArmedIffWatched, RoomsAssumption

LEMMA SessionEndsKeeps ==
  ASSUME Joined, NEW c \in Clients, SessionEnds(c)
  PROVE  Joined'
<1> DEFINE s == socket[c].active.sym
<1>1. /\ socket' = [socket EXCEPT ![c] = NoSession] /\ kept' = [kept EXCEPT ![c] = socket[c]]
      /\ armed' = Disarmed(s, socket', ghosts) /\ ghosts' = ghosts
  BY DEF SessionEnds
<1> HIDE DEF s
<1>2. /\ socket \in [Clients -> Sessions] /\ kept \in [Clients -> Sessions] /\ ghosts \subseteq Sessions
      /\ \A d \in Clients : Fits(socket[d]) /\ Fits(kept[d])
      /\ \A g \in ghosts : Fits(g)
  BY DEF Joined
<1>3. /\ socket' \in [Clients -> Sessions] /\ socket'[c] = NoSession
      /\ \A d \in Clients \ {c} : socket'[d] = socket[d]
      /\ kept' \in [Clients -> Sessions] /\ kept'[c] = socket[c]
      /\ \A d \in Clients \ {c} : kept'[d] = kept[d]
  BY <1>1, <1>2, NoSessionFits
<1>4. ASSUME NEW t \in Symbols, t # s, InRoom(t, socket, ghosts) PROVE InRoom(t, socket', ghosts')
  <2>1. <<t, "all">> \notin socket[c].rooms
    BY <1>2, <1>4 DEF Fits, s
  <2> QED BY <1>1, <1>3, <1>4, <2>1, RoomKept
<1>5. \A d \in Clients : ~socket'[d].restored => Watched(socket'[d]) \subseteq armed \cup {}
  BY <1>3, Armed, NoSessionFits
<1>6. \A g \in ghosts' : ~g.restored => Watched(g) \subseteq armed \cup {}
  BY <1>1, Armed
<1>7. armed' = Disarmed(s, socket', ghosts') \cup {} /\ {} \in SUBSET Symbols
  BY <1>1
<1>8. ArmedIffWatched' /\ armed' \subseteq Symbols
  BY <1>1, <1>2, <1>3, <1>4, <1>5, <1>6, <1>7, Rearms
<1>9. \A d \in Clients : Fits(socket'[d]) /\ Fits(kept'[d])
  BY <1>2, <1>3, NoSessionFits
<1> QED BY <1>1, <1>2, <1>3, <1>8, <1>9 DEF Joined

LEMMA GhostEndsKeeps ==
  ASSUME Joined, NEW h \in ghosts, GhostEnds(h)
  PROVE  Joined'
<1> DEFINE s == h.active.sym
<1>1. /\ ghosts' = ghosts \ {h} /\ armed' = Disarmed(s, socket, ghosts')
      /\ socket' = socket /\ kept' = kept
  BY DEF GhostEnds
<1> HIDE DEF s
<1>2. /\ socket \in [Clients -> Sessions] /\ ghosts \subseteq Sessions
      /\ \A g \in ghosts : Fits(g)
  BY DEF Joined
<1>3. ASSUME NEW t \in Symbols, t # s, InRoom(t, socket, ghosts) PROVE InRoom(t, socket', ghosts')
  <2>1. <<t, "all">> \notin h.rooms
    BY <1>2, <1>3 DEF Fits, s
  <2> QED BY <1>1, <1>3, <2>1 DEF InRoom
<1>4. /\ \A d \in Clients : ~socket'[d].restored => Watched(socket'[d]) \subseteq armed \cup {}
      /\ \A g \in ghosts' : ~g.restored => Watched(g) \subseteq armed \cup {}
  BY <1>1, Armed
<1>5. armed' = Disarmed(s, socket', ghosts') \cup {} /\ {} \in SUBSET Symbols
  BY <1>1
<1>6. ArmedIffWatched' /\ armed' \subseteq Symbols
  BY <1>1, <1>2, <1>3, <1>4, <1>5, Rearms
<1> QED BY <1>1, <1>6 DEF Joined

LEMMA RestartKeeps ==
  ASSUME BackendRestarts
  PROVE  Joined'
<1>1. /\ socket' = [c \in Clients |-> NoSession] /\ ghosts' = {}
      /\ kept' = [c \in Clients |-> NoSession] /\ armed' = {}
  BY DEF BackendRestarts
<1>2. ArmedIffWatched'
  BY <1>1, NoSessionFits DEF ArmedIffWatched
<1> QED BY <1>1, <1>2, NoSessionFits DEF Joined

(* A session that is kept comes back in its rooms, but arms no pair yet. *)
LEMMA ConnectKeeps ==
  ASSUME Joined, NEW c \in Clients, Connect(c)
  PROVE  Joined'
<1>1. /\ kept' = [kept EXCEPT ![c] = NoSession] /\ armed' = armed
      /\ ghosts' = IF socket[c].up THEN ghosts \cup {socket[c]} ELSE ghosts
  BY DEF Connect
<1>2. PICK k \in {[kept[c] EXCEPT !.restored = TRUE], [NoSession EXCEPT !.up = TRUE]} :
           socket' = [socket EXCEPT ![c] = k]
  BY DEF Connect
<1>3. /\ socket \in [Clients -> Sessions] /\ kept \in [Clients -> Sessions] /\ ghosts \subseteq Sessions
      /\ armed \subseteq Symbols
      /\ \A d \in Clients : Fits(socket[d]) /\ Fits(kept[d])
      /\ \A g \in ghosts : Fits(g)
  BY DEF Joined
<1>4. k \in Sessions /\ Fits(k) /\ (~k.restored => Watched(k) = {})
  <2>1. CASE k = [NoSession EXCEPT !.up = TRUE]
    BY <2>1, NoSessionFits
  <2>2. CASE k = [kept[c] EXCEPT !.restored = TRUE]
    <3>1. kept[c] \in Sessions /\ Fits(kept[c])
      BY <1>3
    <3>2. /\ k \in Sessions /\ k.restored
          /\ k.rooms = kept[c].rooms /\ k.active = kept[c].active /\ k.up = kept[c].up
      BY <2>2, <3>1 DEF Sessions
    <3> QED BY <3>1, <3>2 DEF Fits
  <2> QED BY <1>2, <2>1, <2>2
<1>5. /\ socket' \in [Clients -> Sessions] /\ socket'[c] = k
      /\ \A d \in Clients \ {c} : socket'[d] = socket[d]
      /\ kept' \in [Clients -> Sessions] /\ kept'[c] = NoSession
      /\ \A d \in Clients \ {c} : kept'[d] = kept[d]
      /\ ghosts' \subseteq Sessions /\ ghosts \subseteq ghosts'
  BY <1>1, <1>2, <1>3, <1>4, NoSessionFits
<1>6. ASSUME NEW t \in armed PROVE InRoom(t, socket', ghosts')
  <2>1. InRoom(t, socket, ghosts)
    BY DEF Joined, ArmedIffWatched
  <2>2. ASSUME <<t, "all">> \in socket[c].rooms PROVE InRoom(t, socket', ghosts')
    <3>1. socket[c].up
      BY <1>3, <2>2 DEF Fits
    <3>2. socket[c] \in ghosts'
      BY <1>1, <3>1
    <3> QED BY <2>2, <3>2 DEF InRoom
  <2> QED BY <1>5, <2>1, <2>2, RoomKept
<1>7. ASSUME NEW d \in Clients, ~socket'[d].restored PROVE Watched(socket'[d]) \subseteq armed
  BY <1>4, <1>5, <1>7, Armed
<1>8. ASSUME NEW g \in ghosts', ~g.restored PROVE Watched(g) \subseteq armed
  BY <1>1, <1>8, Armed
<1>9. ArmedIffWatched'
  BY <1>1, <1>6, <1>7, <1>8 DEF ArmedIffWatched
<1>10. /\ \A d \in Clients : Fits(socket'[d]) /\ Fits(kept'[d])
       /\ \A g \in ghosts' : Fits(g)
  BY <1>1, <1>3, <1>4, <1>5, NoSessionFits
<1> QED BY <1>1, <1>3, <1>5, <1>9, <1>10 DEF Joined

-----------------------------------------------------------------------------
(* The handlers.                                                               *)

LEMMA Served ==
  ASSUME ClientTypeOK, NEW c \in Clients, NEW k, Serves(c, k)
  PROVE  wire[c][1] \in Messages /\ wire[c][1].kind = k /\ Tail(wire[c]) \in Seq(Messages)
<1>1. wire[c] \in Seq(Messages) /\ wire[c] # <<>> /\ wire[c][1].kind = k
  BY DEF ClientTypeOK, Serves
<1>2. Head(wire[c]) = wire[c][1]
  BY <1>1
<1> QED BY <1>1, <1>2, HeadTailProperties

(* The handler of c's socket leaves its session k. *)
LEMMA HandlerKeeps ==
  ASSUME Joined, NEW c \in Clients, NEW k \in Sessions, Fits(k),
         NEW s, NEW extra \in SUBSET Symbols,
         socket' = [socket EXCEPT ![c] = k], UNCHANGED <<ghosts, kept>>,
         armed' = Disarmed(s, socket', ghosts) \cup extra,
         \A t \in Symbols : t # s /\ <<t, "all">> \in socket[c].rooms => <<t, "all">> \in k.rooms,
         \A t \in extra : <<t, "all">> \in k.rooms,
         ~k.restored => Watched(k) \subseteq armed \cup extra
  PROVE  Joined'
<1>1. /\ socket \in [Clients -> Sessions] /\ ghosts \subseteq Sessions
      /\ \A d \in Clients : Fits(socket[d]) /\ Fits(kept[d])
      /\ kept \in [Clients -> Sessions] /\ \A g \in ghosts : Fits(g)
  BY DEF Joined
<1>2. /\ socket' \in [Clients -> Sessions] /\ socket'[c] = k
      /\ \A d \in Clients \ {c} : socket'[d] = socket[d]
      /\ ghosts' = ghosts /\ kept' = kept
  BY <1>1
<1>3. \A t : <<t, "all">> \in k.rooms => InRoom(t, socket', ghosts')
  BY <1>2 DEF InRoom
<1>4. ASSUME NEW t \in Symbols, t # s, InRoom(t, socket, ghosts) PROVE InRoom(t, socket', ghosts')
  BY <1>2, <1>3, <1>4, RoomKept
<1>5. \A d \in Clients : ~socket'[d].restored => Watched(socket'[d]) \subseteq armed \cup extra
  <2> TAKE d \in Clients
  <2>1. CASE d = c
    BY <1>2, <2>1
  <2>2. CASE d # c
    <3>1. socket'[d] = socket[d]
      BY <1>2, <2>2
    <3> QED BY <3>1, Armed
  <2> QED BY <2>1, <2>2
<1>6. \A g \in ghosts' : ~g.restored => Watched(g) \subseteq armed \cup extra
  BY <1>2, Armed
<1>7. ArmedIffWatched' /\ armed' \subseteq Symbols
  BY <1>1, <1>2, <1>3, <1>4, <1>5, <1>6, Rearms
<1>8. \A d \in Clients : Fits(socket'[d]) /\ Fits(kept'[d])
  BY <1>1, <1>2
<1> QED BY <1>1, <1>2, <1>7, <1>8 DEF Joined

LEMMA RoomsOfTyped ==
  ASSUME NEW s \in Symbols, NEW f \in Frames
  PROVE  RoomsOf(s, f) \subseteq Rooms
  BY DEF RoomsOf, Rooms

LEMMA SubscribeKeeps ==
  ASSUME ClientTypeOK, Joined, NEW c \in Clients, HandleSubscribe(c)
  PROVE  Joined'
<1> DEFINE m == wire[c][1]
           was == socket[c].active
           leaves == was.sym \notin {"none", m.sym}
           joined == socket[c].rooms \cup RoomsOf(m.sym, m.frame)
           k == [rooms |-> IF leaves THEN joined \ RoomsOf(was.sym, was.frame) ELSE joined,
                 active |-> Referring(m), restored |-> FALSE, up |-> TRUE]
           s == IF leaves THEN was.sym ELSE "none"
<1>1. /\ socket' = [socket EXCEPT ![c] = k] /\ UNCHANGED <<ghosts, kept>>
      /\ armed' = (IF leaves THEN Disarmed(was.sym, socket', ghosts) ELSE armed) \cup {m.sym}
  BY DEF HandleSubscribe
<1>2. m \in Messages /\ m.sym \in Symbols /\ m.frame \in Frames /\ Referring(m) \in Refs /\ Referring(m).sym = m.sym
  BY Served, RefKinds DEF HandleSubscribe, Referring
<1>3. socket[c].rooms \in SUBSET Rooms /\ was \in Refs /\ Fits(socket[c])
  BY SessionKinds DEF Joined
<1>4. "none" \notin Symbols /\ "none" \notin armed
  BY RoomsAssumption, Armed DEF RoomsAssumption
<1>5. armed' = Disarmed(s, socket', ghosts) \cup {m.sym}
  <2>1. CASE leaves
    BY <1>1, <2>1
  <2>2. CASE ~leaves
    BY <1>1, <1>4, <2>2 DEF Disarmed
  <2> QED BY <2>1, <2>2
<1>6. \A t \in Symbols : <<t, "all">> \in k.rooms => t = m.sym
  <2> SUFFICES ASSUME NEW t \in Symbols, <<t, "all">> \in k.rooms, t # m.sym PROVE FALSE
    OBVIOUS
  <2>1. <<t, "all">> \in socket[c].rooms
    BY DEF RoomsOf
  <2>2. t = was.sym
    BY <1>3, <2>1 DEF Fits
  <2>3. leaves /\ <<t, "all">> \in RoomsOf(was.sym, was.frame)
    BY <1>4, <2>2 DEF RoomsOf
  <2> QED BY <2>3
<1>7. <<m.sym, "all">> \in k.rooms
  BY DEF RoomsOf
<1>8. k \in Sessions
  <2>1. joined \in SUBSET Rooms
    BY <1>2, <1>3, RoomsOfTyped
  <2>2. k.rooms \in SUBSET Rooms
    BY <2>1
  <2> QED BY <1>2, <2>2 DEF Sessions
<1>9. k.active.sym = m.sym /\ k.up
  BY <1>2
<1>10. ASSUME NEW t \in Symbols, t # s, <<t, "all">> \in socket[c].rooms PROVE <<t, "all">> \in k.rooms
  <2>1. t = was.sym
    BY <1>3, <1>10 DEF Fits
  <2>2. ~leaves
    BY <1>10, <2>1
  <2> QED BY <1>10, <2>2
<1> HIDE DEF k, s, m
<1>11. Fits(k)
  BY <1>6, <1>9 DEF Fits
<1>12. Watched(k) \subseteq armed \cup {m.sym}
  BY <1>6 DEF Watched
<1> DEFINE extra == {m.sym}
<1>13. /\ extra \in SUBSET Symbols /\ \A t \in extra : <<t, "all">> \in k.rooms
       /\ armed' = Disarmed(s, socket', ghosts) \cup extra
       /\ ~k.restored => Watched(k) \subseteq armed \cup extra
  BY <1>2, <1>5, <1>7, <1>12
<1> HIDE DEF extra
<1> QED BY <1>1, <1>8, <1>10, <1>11, <1>13, HandlerKeeps

LEMMA UnsubscribeKeeps ==
  ASSUME ClientTypeOK, Joined, NEW c \in Clients, HandleUnsubscribe(c)
  PROVE  Joined'
<1> DEFINE m == wire[c][1]
           was == socket[c].active
           frame == IF was.sym = m.sym THEN was.frame ELSE m.frame
           gone == RoomsOf(m.sym, frame)
           k == [socket[c] EXCEPT !.rooms = @ \ gone,
                                  !.active = IF was.sym = m.sym THEN NoRef ELSE was]
<1>1. /\ socket' = [socket EXCEPT ![c] = k] /\ UNCHANGED <<ghosts, kept>>
      /\ armed' = Disarmed(m.sym, socket', ghosts)
  <2>1. socket[c] \in Sessions /\ socket \in [Clients -> Sessions]
    BY DEF Joined
  <2> QED BY <2>1 DEF HandleUnsubscribe, Sessions
<1>2. m.sym \in Symbols
  BY Served, RefKinds DEF HandleUnsubscribe
<1>3. socket[c] \in Sessions /\ socket[c].rooms \in SUBSET Rooms /\ was \in Refs /\ Fits(socket[c])
  BY SessionKinds DEF Joined
<1>4. /\ k.rooms = socket[c].rooms \ gone /\ k.active = (IF was.sym = m.sym THEN NoRef ELSE was)
      /\ k.restored = socket[c].restored /\ k.up = socket[c].up
  BY <1>3 DEF Sessions
<1>5. <<m.sym, "all">> \in gone /\ \A t : t # m.sym => <<t, "all">> \notin gone
  BY DEF RoomsOf
<1>6. k \in Sessions
  <2>1. k.rooms \in SUBSET Rooms /\ k.active \in Refs
    BY <1>3, <1>4, RefKinds
  <2> QED BY <1>3, <2>1 DEF Sessions
<1> HIDE DEF k, m, gone
<1>7. Fits(k)
  <2>1. ASSUME NEW t \in Symbols, <<t, "all">> \in k.rooms PROVE t = k.active.sym
    <3>1. t # m.sym /\ t = was.sym
      BY <1>3, <1>4, <1>5, <2>1 DEF Fits
    <3> QED BY <1>4, <3>1
  <2>2. ~k.up => k.rooms = {}
    BY <1>3, <1>4 DEF Fits
  <2> QED BY <2>1, <2>2 DEF Fits
<1>8. \A t \in Symbols : t # m.sym /\ <<t, "all">> \in socket[c].rooms => <<t, "all">> \in k.rooms
  BY <1>4, <1>5
<1>9. ~k.restored => Watched(k) \subseteq armed \cup {}
  BY <1>4, Armed DEF Watched
<1> DEFINE extra == {}
           s == m.sym
<1>10. /\ extra \in SUBSET Symbols /\ \A t \in extra : <<t, "all">> \in k.rooms
       /\ armed' = Disarmed(s, socket', ghosts) \cup extra
       /\ ~k.restored => Watched(k) \subseteq armed \cup extra
       /\ \A t \in Symbols : t # s /\ <<t, "all">> \in socket[c].rooms => <<t, "all">> \in k.rooms
  BY <1>1, <1>8, <1>9
<1> HIDE DEF extra, s
<1> QED BY <1>1, <1>6, <1>7, <1>10, HandlerKeeps

-----------------------------------------------------------------------------
LEMMA RoomsStart == RoomsInit => ClientTypeOK /\ Joined /\ Piped
<1> SUFFICES ASSUME RoomsInit PROVE ClientTypeOK /\ Joined /\ Piped
  OBVIOUS
<1>1. Joined
  BY NoSessionFits DEF RoomsInit, Joined, ArmedIffWatched
<1>2. Piped
  BY DEF RoomsInit, Piped
<1>3. page \in [Clients -> Pages]
  BY DEF RoomsInit, Pages
<1>4. refs \in [Clients -> [Hooks -> Refs]] /\ wire \in [Clients -> Seq(Messages)]
  BY RefKinds DEF RoomsInit
<1>5. left \in [moves : 0..MaxMoves, breaks : 0..MaxBreaks]
  BY RoomsAssumption DEF RoomsInit, RoomsAssumption
<1> QED BY <1>1, <1>2, <1>3, <1>4, <1>5 DEF ClientTypeOK

(* The frames on their way and the client's own state, where a step leaves its  *)
(* own moves alone.                                                            *)
LEMMA SettlesTyped ==
  ASSUME RoomsInv, NEW c \in Clients, Settles(c) \/ Cut(c)
  PROVE  ClientTypeOK' /\ Piped'
<1>1. ClientTypeOK /\ Piped /\ RoomsTypeOK
  BY RoomsParts DEF RoomsInv
<1>2. CASE Connect(c)
  <2>1. page' = page /\ left' = left
    BY <1>2 DEF Connect
  <2>2. refs' \in [Clients -> [Hooks -> Refs]]
    <3>1. Referring(page[c]) \in Refs
      BY <1>1, RefKinds DEF ClientTypeOK
    <3>2. refs' = [refs EXCEPT ![c] = [h \in Hooks |-> IF h \in Mounted(c) THEN Referring(page[c]) ELSE @[h]]]
      BY <1>2 DEF Connect
    <3> QED BY <1>1, <3>1, <3>2 DEF ClientTypeOK
  <2>3. wire' \in [Clients -> Seq(Messages)]
    <3>1. wire[c] \in Seq(Messages) /\ Rejoin(c) \in Seq(Messages)
      BY <1>1, RejoinTyped DEF ClientTypeOK
    <3>2. wire[c] \o Rejoin(c) \in Seq(Messages)
      BY <3>1, ConcatProperties
    <3> QED BY <1>1, <1>2, <3>2 DEF Connect, ClientTypeOK
  <2>4. Piped'
    BY <1>1, <1>2 DEF Connect, Piped
  <2> QED BY <1>1, <2>1, <2>2, <2>3, <2>4 DEF ClientTypeOK
<1>3. CASE ClientNotices(c)
  BY <1>1, <1>3 DEF ClientNotices, ClientTypeOK, Piped
<1>4. CASE SessionEnds(c)
  BY <1>1, <1>4 DEF SessionEnds, ClientTypeOK, Piped
<1>5. ASSUME NEW k, Serves(c, k), wire' = [wire EXCEPT ![c] = Tail(@)],
             UNCHANGED <<page, refs, pipe, left>>
      PROVE  ClientTypeOK' /\ Piped'
  <2>1. Tail(wire[c]) \in Seq(Messages)
    BY <1>1, <1>5, Served
  <2> QED BY <1>1, <1>5, <2>1 DEF ClientTypeOK, Piped
<1>6. CASE HandleSubscribe(c)
  BY <1>5, <1>6 DEF HandleSubscribe
<1>7. CASE HandleUnsubscribe(c)
  BY <1>5, <1>7 DEF HandleUnsubscribe
<1>8. CASE Cut(c)
  <2>1. left' \in [moves : 0..MaxMoves, breaks : 0..MaxBreaks]
    BY <1>1, <1>8, Spent DEF Cut, ClientTypeOK
  <2> QED BY <1>1, <1>8, <2>1 DEF Cut, ClientTypeOK, Piped
<1> QED BY <1>2, <1>3, <1>4, <1>6, <1>7, <1>8 DEF Settles

LEMMA RoomsKeep ==
  ASSUME RoomsInv, [RoomsNext]_roomVars
  PROVE  ClientTypeOK' /\ Joined' /\ Piped'
<1>1. ClientTypeOK /\ Joined /\ Piped
  BY RoomsParts
<1>2. ASSUME UNCHANGED <<socket, ghosts, kept, armed>> PROVE Joined'
  BY <1>1, <1>2 DEF Joined, ArmedIffWatched
<1>3. CASE UNCHANGED roomVars
  BY <1>1, <1>2, <1>3 DEF roomVars, ClientTypeOK, Piped
<1>4. ASSUME NEW c \in Clients, UserMoves(c) PROVE ClientTypeOK' /\ Joined' /\ Piped'
  <2>1. UNCHANGED <<pipe, socket, ghosts, kept, armed>>
    BY <1>4 DEF UserMoves, SelectSymbol, SelectFrame, LeaveChart, EnterChart
  <2>2. ClientTypeOK'
    BY <1>1, <1>4, SelectSymbolTyped, SelectFrameTyped, ChartTyped DEF UserMoves
  <2> QED BY <1>1, <1>2, <2>1, <2>2 DEF Piped
<1>5. ASSUME NEW c \in Clients, Settles(c) \/ Cut(c) PROVE ClientTypeOK' /\ Joined' /\ Piped'
  <2>1. ClientTypeOK' /\ Piped'
    BY <1>5, SettlesTyped
  <2>2. CASE ClientNotices(c) \/ Cut(c)
    BY <1>2, <2>1, <2>2 DEF ClientNotices, Cut
  <2>3. CASE Connect(c) \/ SessionEnds(c) \/ HandleSubscribe(c) \/ HandleUnsubscribe(c)
    BY <1>1, <2>1, <2>3, ConnectKeeps, SessionEndsKeeps, SubscribeKeeps, UnsubscribeKeeps
  <2> QED BY <1>5, <2>2, <2>3 DEF Settles
<1>6. ASSUME NEW g \in ghosts, GhostEnds(g) PROVE ClientTypeOK' /\ Joined' /\ Piped'
  <2>1. Joined'
    BY <1>1, <1>6, GhostEndsKeeps
  <2> QED BY <1>1, <1>6, <2>1 DEF GhostEnds, ClientTypeOK, Piped
<1>7. CASE BackendRestarts
  <2>1. Joined'
    BY <1>7, RestartKeeps
  <2>2. left' \in [moves : 0..MaxMoves, breaks : 0..MaxBreaks]
    BY <1>1, <1>7, Spent DEF BackendRestarts, ClientTypeOK
  <2>3. wire' \in [Clients -> Seq(Messages)]
    BY <1>1, <1>7 DEF BackendRestarts, ClientTypeOK
  <2> QED BY <1>1, <1>7, <2>1, <2>2, <2>3 DEF BackendRestarts, ClientTypeOK, Piped
<1> QED BY <1>3, <1>4, <1>5, <1>6, <1>7 DEF RoomsNext

LEMMA RoomsInvKeeps == RoomsInv /\ [RoomsNext]_roomVars => RoomsInv'
<1> SUFFICES ASSUME RoomsInv, [RoomsNext]_roomVars PROVE RoomsInv'
  OBVIOUS
<1>1. ClientTypeOK' /\ Joined' /\ Piped'
  BY RoomsKeep
<1> QED BY <1>1 DEF RoomsInv, RoomsTypeOK, ClientTypeOK, Joined, Piped

LEMMA RoomsInvHolds == RoomsSpec => []RoomsInv
<1>1. RoomsInit => RoomsInv
  BY RoomsStart, RoomsParts
<1> QED BY <1>1, RoomsInvKeeps, PTL DEF RoomsSpec

(* A pair is armed at Pocket Option while a chart is in its room and no longer:   *)
(* the handlers of a socket and of its end, in whatever order a break, a return  *)
(* and a new frame reach them, arm none for nobody and give none up that is used. *)
THEOREM AlwaysArmedIffWatched == RoomsSpec => []ArmedIffWatched
<1>1. RoomsInv => ArmedIffWatched
  BY DEF RoomsInv
<1> QED BY <1>1, RoomsInvHolds, PTL

(* The newest frame of a client on its way asks for what it shows, and when no   *)
(* frame is on its way, its socket is in those rooms.                            *)
Attaching(c) ==
    IF wire[c] = <<>> THEN RoomsOf(page[c].sym, page[c].frame) \subseteq socket[c].rooms
    ELSE wire[c][Len(wire[c])] = Subscribe(page[c].sym, page[c].frame)

AttachInv == \A c \in Clients : pipe[c] = "open" /\ page[c].chart => Attaching(c)

(* What is emitted in two parts ends as the second does.                         *)
LEMMA EndsWith ==
  ASSUME NEW before \in Seq(Messages), NEW after \in Seq(Messages), after # <<>>
  PROVE  /\ before \o after # <<>>
         /\ (before \o after)[Len(before \o after)] = after[Len(after)]
<1>1. Len(after) \in Nat \ {0} /\ Len(before) \in Nat
  BY EmptySeq, LenProperties
<1>2. Len(before \o after) = Len(before) + Len(after)
  BY ConcatProperties
<1> QED BY <1>1, <1>2, ConcatProperties

(* A hook ends with its subscribe. *)
LEMMA EmittedEnds ==
  ASSUME NEW r \in Refs, NEW p \in Pages
  PROVE  /\ Emitted(r, p) \in Seq(Messages) /\ Emitted(r, p) # <<>>
         /\ Emitted(r, p)[Len(Emitted(r, p))] = Subscribe(p.sym, p.frame)
<1> DEFINE leave == IF r.sym \notin {"none", p.sym} THEN <<Unsubscribe(r.sym, r.frame)>> ELSE <<>>
           join == <<Subscribe(p.sym, p.frame)>>
<1>1. r.sym \in Symbols \cup {"none"} /\ p.sym \in Symbols /\ p.frame \in Frames
  BY DEF Refs, Pages
<1>2. Subscribe(p.sym, p.frame) \in Messages /\ \A s \in Symbols : Unsubscribe(s, r.frame) \in Messages
  BY <1>1, EmittedTyped DEF Subscribe, Messages
<1>3. leave \in Seq(Messages)
  BY <1>1, <1>2
<1>4. join \in Seq(Messages) /\ join # <<>> /\ join[Len(join)] = Subscribe(p.sym, p.frame)
  BY <1>2
<1>5. Emitted(r, p) = leave \o join
  BY DEF Emitted
<1> HIDE DEF leave, join
<1> QED BY <1>3, <1>4, <1>5, EmittedTyped, EndsWith

LEMMA RejoinEnds ==
  ASSUME ClientTypeOK, NEW c \in Clients, page[c].chart
  PROVE  /\ Rejoin(c) \in Seq(Messages) /\ Rejoin(c) # <<>>
         /\ Rejoin(c)[Len(Rejoin(c))] = Subscribe(page[c].sym, page[c].frame)
<1> DEFINE a == Emitted(refs[c]["header"], page[c])
           b == Emitted(refs[c]["page"], page[c])
<1>1. refs[c]["header"] \in Refs /\ refs[c]["page"] \in Refs /\ page[c] \in Pages
  BY DEF ClientTypeOK, Hooks
<1>2. /\ a \in Seq(Messages) /\ b \in Seq(Messages) /\ b # <<>>
      /\ b[Len(b)] = Subscribe(page[c].sym, page[c].frame)
  BY <1>1, EmittedEnds
<1>3. Rejoin(c) = a \o b
  BY DEF Rejoin
<1> HIDE DEF a, b
<1> QED BY <1>2, <1>3, EndsWith, ConcatProperties

(* A client that emits has asked last for what it shows then.                    *)
LEMMA EmitsAttach ==
  ASSUME ClientTypeOK, NEW c \in Clients, pipe[c] = "open",
         NEW before \in Seq(Messages), NEW after \in Seq(Messages), after # <<>>,
         Emits(c, before \o after),
         after[Len(after)] = Subscribe(page'[c].sym, page'[c].frame)
  PROVE  Attaching(c)'
<1>1. wire[c] \in Seq(Messages) /\ wire'[c] = wire[c] \o (before \o after)
  BY DEF ClientTypeOK, Emits
<1>2. before \o after \in Seq(Messages)
  BY ConcatProperties
<1>3. before \o after # <<>> /\ (before \o after)[Len(before \o after)] = after[Len(after)]
  BY EndsWith
<1> DEFINE messages == before \o after
<1>4. wire[c] \o messages # <<>> /\ (wire[c] \o messages)[Len(wire[c] \o messages)] = messages[Len(messages)]
  <2> HIDE DEF messages
  <2>1. messages \in Seq(Messages) /\ messages # <<>>
    BY <1>2, <1>3 DEF messages
  <2> QED BY <1>1, <2>1, EndsWith
<1> QED BY <1>1, <1>3, <1>4 DEF Attaching

LEMMA MovesAttach ==
  ASSUME ClientTypeOK, NEW c \in Clients, UserMoves(c), pipe[c] = "open", page'[c].chart
  PROVE  Attaching(c)'
<1>1. page[c] \in Pages /\ page \in [Clients -> Pages] /\ refs[c]["page"] \in Refs /\ refs[c]["header"] \in Refs
  BY DEF ClientTypeOK, Hooks
<1>2. ClientTypeOK'
  BY SelectSymbolTyped, SelectFrameTyped, ChartTyped DEF UserMoves
<1>3. page'[c] \in Pages
  BY <1>2 DEF ClientTypeOK
<1>4. NoRef \in Refs /\ page[c].sym \in Symbols
  BY <1>1, RefKinds
<1>5. ASSUME NEW s \in Symbols, SelectSymbol(c, s) PROVE Attaching(c)'
  <2> DEFINE r == refs[c]["page"]
             after == IF r.sym = page[c].sym THEN NoRef ELSE r
             before == <<Unsubscribe(page[c].sym, r.frame)>>
  <2>1. Emits(c, before \o Emitted(after, page'[c]))
    BY <1>5 DEF SelectSymbol
  <2>2. after \in Refs
    BY <1>1, <1>4
  <2>3. before \in Seq(Messages)
    BY <1>1, <1>4, EmittedTyped
  <2> HIDE DEF after, before
  <2> QED BY <1>3, <2>1, <2>2, <2>3, EmittedEnds, EmitsAttach
<1>6. ASSUME NEW f \in Frames, SelectFrame(c, f) PROVE Attaching(c)'
  <2> DEFINE a == [refs[c]["header"] EXCEPT !.frame = f]
             b == [refs[c]["page"] EXCEPT !.frame = f]
  <2>1. Emits(c, Emitted(a, page'[c]) \o Emitted(b, page'[c]))
    BY <1>6 DEF SelectFrame
  <2>2. a \in Refs /\ b \in Refs
    BY <1>1 DEF Refs
  <2> HIDE DEF a, b
  <2> QED BY <1>3, <2>1, <2>2, EmittedEnds, EmitsAttach
<1>7. CASE EnterChart(c)
  <2>1. Emits(c, <<>> \o Emitted(NoRef, page'[c]))
    <3>1. Emitted(NoRef, page'[c]) \in Seq(Messages)
      BY <1>3, <1>4, EmittedEnds
    <3>2. <<>> \o Emitted(NoRef, page'[c]) = Emitted(NoRef, page'[c])
      BY <3>1, ConcatEmptySeq
    <3> QED BY <1>7, <3>2 DEF EnterChart
  <2>2. <<>> \in Seq(Messages)
    OBVIOUS
  <2> QED BY <1>3, <1>4, <2>1, <2>2, EmittedEnds, EmitsAttach
<1>8. CASE LeaveChart(c)
  <2>1. page'[c] = [page[c] EXCEPT !.chart = FALSE]
    BY <1>1, <1>8 DEF LeaveChart
  <2>2. ~page'[c].chart
    BY <1>1, <2>1 DEF Pages
  <2> QED BY <2>2
<1> QED BY <1>5, <1>6, <1>7, <1>8 DEF UserMoves

(* A handler takes the first frame.  If that was the last, it asked for what is   *)
(* shown, and the session has joined its rooms: those it leaves are of another    *)
(* symbol.                                                                        *)
LEMMA TakesFirst ==
  ASSUME ClientTypeOK, NEW c \in Clients, NEW k, Serves(c, k), Attaching(c),
         wire' = [wire EXCEPT ![c] = Tail(@)], UNCHANGED page
  PROVE  \/ Attaching(c)'
         \/ wire[c][1] = Subscribe(page[c].sym, page[c].frame) /\ wire'[c] = <<>>
<1>1. wire[c] \in Seq(Messages) /\ wire[c] # <<>> /\ wire'[c] = Tail(wire[c])
  BY DEF ClientTypeOK, Serves
<1>2. wire[c][Len(wire[c])] = Subscribe(page[c].sym, page[c].frame)
  BY <1>1 DEF Attaching
<1> DEFINE line == wire[c]
           tail == Tail(line)
           len == Len(line)
<1>3. /\ len \in Nat \ {0} /\ tail \in Seq(Messages) /\ Len(tail) = len - 1
      /\ \A i \in 1 .. Len(tail) : tail[i] = line[i + 1]
  BY <1>1, HeadTailProperties, EmptySeq
<1>4. CASE len = 1
  <2> HIDE DEF tail
  <2>1. Len(tail) = 0
    BY <1>3, <1>4
  <2>2. tail = <<>>
    BY <1>3, <2>1, EmptySeq
  <2> QED BY <1>1, <1>2, <1>4, <2>2 DEF tail
<1>5. CASE len # 1
  <2> HIDE DEF len, tail, line
  <2>1. Len(tail) \in 1 .. Len(tail) /\ Len(tail) + 1 = len
    BY <1>3, <1>5
  <2>2. tail[Len(tail)] = line[len] /\ tail # <<>>
    BY <1>3, <2>1, EmptySeq
  <2> USE DEF len, tail, line
  <2> QED BY <1>1, <1>2, <2>2 DEF Attaching
<1> QED BY <1>4, <1>5

LEMMA HandlersAttach ==
  ASSUME ClientTypeOK, Joined, NEW c \in Clients, HandleSubscribe(c) \/ HandleUnsubscribe(c), Attaching(c)
  PROVE  Attaching(c)'
<1>1. /\ \/ Serves(c, "subscribe") \/ Serves(c, "unsubscribe_symbol")
      /\ wire' = [wire EXCEPT ![c] = Tail(@)] /\ UNCHANGED page
  BY DEF HandleSubscribe, HandleUnsubscribe
<1>2. SUFFICES ASSUME wire[c][1] = Subscribe(page[c].sym, page[c].frame), wire'[c] = <<>>
               PROVE  Attaching(c)'
  BY <1>1, TakesFirst
<1> DEFINE m == wire[c][1]
           was == socket[c].active
<1>3. m.kind = "subscribe" /\ m.sym = page[c].sym /\ m.frame = page[c].frame
  BY <1>2 DEF Subscribe
<1>4. HandleSubscribe(c)
  BY <1>3 DEF HandleUnsubscribe, Serves
<1>5. RoomsOf(m.sym, m.frame) \subseteq socket'[c].rooms
  <2>1. socket \in [Clients -> Sessions]
    BY DEF Joined
  <2>2. was.sym # m.sym => RoomsOf(was.sym, was.frame) \cap RoomsOf(m.sym, m.frame) = {}
    BY DEF RoomsOf
  <2> DEFINE joined == socket[c].rooms \cup RoomsOf(m.sym, m.frame)
             leaves == was.sym \notin {"none", m.sym}
  <2>3. socket'[c].rooms = IF leaves THEN joined \ RoomsOf(was.sym, was.frame) ELSE joined
    BY <1>4, <2>1 DEF HandleSubscribe
  <2>4. RoomsOf(m.sym, m.frame) \subseteq joined
    OBVIOUS
  <2>5. leaves => was.sym # m.sym
    OBVIOUS
  <2> HIDE DEF joined, leaves, m, was
  <2> QED BY <2>2, <2>3, <2>4, <2>5
<1> QED BY <1>1, <1>2, <1>3, <1>5 DEF Attaching

(* What a step leaves alone of a client stays attached.                           *)
LEMMA AloneAttaches ==
  ASSUME AttachInv, NEW c \in Clients, page'[c] = page[c],
         pipe'[c] = "open" => pipe[c] = "open" /\ wire'[c] = wire[c] /\ socket'[c] = socket[c]
  PROVE  pipe'[c] = "open" /\ page'[c].chart => Attaching(c)'
  BY DEF AttachInv, Attaching

LEMMA RoomsAttach ==
  ASSUME RoomsInv, AttachInv, [RoomsNext]_roomVars
  PROVE  AttachInv'
<1>1. ClientTypeOK /\ Joined /\ Piped
  BY RoomsParts
<1> SUFFICES ASSUME NEW d \in Clients, pipe'[d] = "open", page'[d].chart
             PROVE  Attaching(d)'
  BY DEF AttachInv
<1>2. /\ page \in [Clients -> Pages] /\ wire \in [Clients -> Seq(Messages)]
      /\ socket \in [Clients -> Sessions] /\ pipe \in [Clients -> {"open", "cut", "closed"}]
  BY <1>1 DEF ClientTypeOK, Joined, Piped
<1>3. CASE UNCHANGED roomVars
  BY <1>3, AloneAttaches DEF roomVars
<1>4. ASSUME NEW c \in Clients, UserMoves(c) PROVE Attaching(d)'
  <2>1. UNCHANGED <<pipe, socket>>
    BY <1>4 DEF UserMoves, SelectSymbol, SelectFrame, LeaveChart, EnterChart
  <2>2. CASE d = c
    BY <1>1, <1>4, <2>1, <2>2, MovesAttach
  <2>3. CASE d # c
    <3>1. page'[d] = page[d] /\ wire'[d] = wire[d]
      BY <1>2, <1>4, <2>3 DEF UserMoves, SelectSymbol, SelectFrame, LeaveChart, EnterChart, Emits
    <3> QED BY <2>1, <3>1, AloneAttaches
  <2> QED BY <2>2, <2>3
<1>5. ASSUME NEW c \in Clients, Settles(c) \/ Cut(c) PROVE Attaching(d)'
  <2>1. page' = page
    BY <1>5 DEF Settles, Connect, ClientNotices, SessionEnds, HandleSubscribe, HandleUnsubscribe, Cut
  <2>2. CASE d # c
    <3>1. pipe'[d] = pipe[d] /\ wire'[d] = wire[d] /\ socket'[d] = socket[d]
      BY <1>2, <1>5, <2>2 DEF Settles, Connect, ClientNotices, SessionEnds, HandleSubscribe, HandleUnsubscribe, Cut
    <3> QED BY <2>1, <3>1, AloneAttaches
  <2>3. CASE d = c /\ Connect(c)
    <3>1. wire'[c] = wire[c] \o Rejoin(c) /\ wire[c] \in Seq(Messages)
      BY <1>2, <2>3 DEF Connect
    <3>2. /\ Rejoin(c) \in Seq(Messages) /\ Rejoin(c) # <<>>
          /\ Rejoin(c)[Len(Rejoin(c))] = Subscribe(page[c].sym, page[c].frame)
      BY <1>1, <2>1, <2>3, RejoinEnds
    <3> DEFINE messages == Rejoin(c)
    <3> HIDE DEF messages
    <3>3. wire'[c] # <<>> /\ wire'[c][Len(wire'[c])] = messages[Len(messages)]
      BY <3>1, <3>2, EndsWith DEF messages
    <3> QED BY <2>1, <2>3, <3>2, <3>3 DEF Attaching, messages
  <2>4. CASE d = c /\ (Cut(c) \/ ClientNotices(c) \/ SessionEnds(c))
    <3>1. pipe'[c] # "open"
      BY <1>2, <2>4 DEF Cut, ClientNotices, SessionEnds
    <3> QED BY <2>4, <3>1
  <2>5. CASE d = c /\ (HandleSubscribe(c) \/ HandleUnsubscribe(c))
    <3>1. pipe[c] = "open" /\ page[c].chart
      BY <2>1, <2>5 DEF HandleSubscribe, HandleUnsubscribe, Serves
    <3>2. Attaching(c)
      BY <3>1 DEF AttachInv
    <3> QED BY <1>1, <2>5, <3>2, HandlersAttach
  <2> QED BY <1>5, <2>2, <2>3, <2>4, <2>5 DEF Settles
<1>6. ASSUME NEW g \in ghosts, GhostEnds(g) PROVE Attaching(d)'
  BY <1>6, AloneAttaches DEF GhostEnds
<1>7. CASE BackendRestarts
  BY <1>2, <1>7, AloneAttaches DEF BackendRestarts
<1> QED BY <1>3, <1>4, <1>5, <1>6, <1>7 DEF RoomsNext

(* When a connection holds and its frames are handled, the socket of a chart is  *)
(* in the rooms of what it shows, however often the user moved and whatever was  *)
(* cut, restored, or kept for the connection before.                             *)
THEOREM ChartAlwaysAttached == RoomsSpec => []ChartAttached
<1>1. RoomsInit => AttachInv
  BY DEF RoomsInit, AttachInv
<1>2. RoomsInv /\ AttachInv /\ [RoomsNext]_roomVars => AttachInv'
  BY RoomsAttach
<1>3. AttachInv => ChartAttached
  BY DEF AttachInv, Attaching, ChartAttached
<1> QED BY <1>1, <1>2, <1>3, RoomsInvHolds, PTL DEF RoomsSpec

-----------------------------------------------------------------------------

Consistent == TypeOK /\ ThresholdTrips /\ HalfOpenIsNotOpen

(* The initial state is consistent: no failure counts. *)
LEMMA InitConsistent == Init => Consistent
<1> SUFFICES ASSUME Init PROVE Consistent
  OBVIOUS
<1>1. life \in [Ranks -> 0..Window] /\ ~ThresholdReached(life) /\ openFor \in 0..Cooldown
  BY SettingsAssumption DEF SettingsAssumption, Init, NoFailures, Ranks, ThresholdReached
<1>2. tripped = FALSE /\ halfOpen = FALSE /\ up \in BOOLEAN
      /\ calls = [r \in Requests |-> "idle"]
  BY DEF Init
<1>3. calls \in [Requests -> {"idle", "posted", "probe"}]
  BY <1>2
<1> QED BY <1>1, <1>2, <1>3, Zenon DEF Consistent, TypeOK, ThresholdTrips, HalfOpenIsNotOpen

(* A new failure pushes the others one rank down and counts for a Window. *)
LEMMA WithFailureType ==
  ASSUME TypeOK
  PROVE  WithFailure \in [Ranks -> 0..Window]
  BY SettingsAssumption DEF SettingsAssumption, TypeOK, WithFailure, Ranks

(* recordEngineFailure keeps the breaker consistent, whoever calls it. *)
LEMMA RecordFailureConsistent ==
  ASSUME Consistent, RecordFailure,
         calls' \in [Requests -> {"idle", "posted", "probe"}], up' \in BOOLEAN
  PROVE  Consistent'
<1> USE SettingsAssumption DEF SettingsAssumption, Consistent
<1>0. Cooldown \in 0..Cooldown
  BY DEF SettingsAssumption
<1>1. CASE halfOpen
  <2>1. halfOpen' = FALSE /\ tripped' = TRUE /\ openFor' = Cooldown /\ life' = life
    BY <1>1 DEF RecordFailure, Trip
  <2> QED BY <1>0, <2>1, Zenon DEF TypeOK, ThresholdTrips, HalfOpenIsNotOpen
<1>2. CASE ~halfOpen
  <2>1. life' = WithFailure /\ halfOpen' = FALSE
    BY <1>2 DEF RecordFailure, TypeOK
  <2>2. life' \in [Ranks -> 0..Window]
    BY <2>1, WithFailureType
  <2>3. CASE ThresholdReached(life')
    <3>1. tripped' = TRUE /\ openFor' = Cooldown
      BY <1>2, <2>3 DEF RecordFailure, Trip
    <3> QED BY <1>0, <2>1, <2>2, <3>1, Zenon DEF TypeOK, ThresholdTrips, HalfOpenIsNotOpen
  <2>4. CASE ~ThresholdReached(life')
    <3>1. tripped' = tripped /\ openFor' = openFor
      BY <1>2, <2>4 DEF RecordFailure
    <3> QED BY <2>1, <2>2, <2>4, <3>1, Zenon DEF TypeOK, ThresholdTrips, HalfOpenIsNotOpen
  <2> QED BY <2>3, <2>4
<1> QED BY <1>1, <1>2

(* A request's slot changes to one of the three values a slot can have. *)
LEMMA CallsType ==
  ASSUME TypeOK, NEW r \in Requests, NEW v \in {"idle", "posted", "probe"},
         calls' = [calls EXCEPT ![r] = v]
  PROVE  calls' \in [Requests -> {"idle", "posted", "probe"}]
  BY DEF TypeOK

(* Every step keeps the breaker consistent. *)
LEMMA NextConsistent == Consistent /\ [Next]_vars => Consistent'
<1> SUFFICES ASSUME Consistent, [Next]_vars PROVE Consistent'
  OBVIOUS
<1> USE SettingsAssumption DEF SettingsAssumption, Consistent
<1>1. ASSUME NEW r \in Requests, Admit(r) PROVE Consistent'
  <2>1. calls' \in [Requests -> {"idle", "posted", "probe"}]
    BY <1>1, CallsType DEF Admit
  <2>2. tripped' = FALSE /\ openFor' = 0 /\ life' = life /\ up' = up
    BY <1>1 DEF Admit
  <2>3. halfOpen' = (halfOpen \/ tripped)
    BY <1>1 DEF Admit
  <2>4. openFor' \in 0..Cooldown
    BY <2>2 DEF SettingsAssumption
  <2>5. ThresholdReached(life') = ThresholdReached(life)
    BY <2>2
  <2>6. TypeOK'
    BY <2>1, <2>2, <2>3, <2>4, Zenon DEF TypeOK
  <2>7. ThresholdTrips'
    BY <2>2, <2>3, <2>5, Zenon DEF ThresholdTrips
  <2>8. HalfOpenIsNotOpen'
    BY <2>2, Zenon DEF HalfOpenIsNotOpen
  <2> QED BY <2>6, <2>7, <2>8
<1>2. ASSUME NEW r \in Requests, Refuse(r) PROVE Consistent'
  BY <1>2, RecordFailureConsistent DEF Refuse, TypeOK
<1>3. ASSUME NEW r \in Requests, Succeed(r) PROVE Consistent'
  <2>1. calls' \in [Requests -> {"idle", "posted", "probe"}] /\ up' = up
    BY <1>3, CallsType DEF Succeed, Return
  <2>2. life' \in [Ranks -> 0..Window] /\ ~ThresholdReached(life') /\ openFor' \in 0..Cooldown
    BY <1>3 DEF Succeed, RecordSuccess, NoFailures, Ranks, ThresholdReached
  <2>3. tripped' = FALSE /\ halfOpen' = FALSE
    BY <1>3 DEF Succeed, RecordSuccess
  <2> QED BY <2>1, <2>2, <2>3, Zenon DEF TypeOK, ThresholdTrips, HalfOpenIsNotOpen
<1>4. ASSUME NEW r \in Requests, Fail(r) PROVE Consistent'
  <2>1. calls' \in [Requests -> {"idle", "posted", "probe"}] /\ up' = up
    BY <1>4, CallsType DEF Fail, Return
  <2> QED BY <1>4, <2>1, RecordFailureConsistent DEF Fail, TypeOK
<1>5. ASSUME NEW r \in Requests, Unrecorded(r) PROVE Consistent'
  <2>1. calls' \in [Requests -> {"idle", "posted", "probe"}] /\ up' = up
    BY <1>5, CallsType DEF Unrecorded, Return
  <2> QED BY <1>5, <2>1
      DEF Unrecorded, breaker, TypeOK, ThresholdTrips, HalfOpenIsNotOpen, ThresholdReached
<1>6. CASE Tick
  <2>1. life' \in [Ranks -> 0..Window] /\ openFor' \in 0..Cooldown
    BY <1>6 DEF Tick, TypeOK
  <2>2. ThresholdReached(life') => ThresholdReached(life)
    BY <1>6 DEF Tick, TypeOK, ThresholdReached, Ranks
  <2> QED BY <1>6, <2>1, <2>2 DEF Tick, TypeOK, ThresholdTrips, HalfOpenIsNotOpen
<1>7. CASE EngineChanges
  BY <1>7 DEF EngineChanges, breaker, TypeOK, ThresholdTrips, HalfOpenIsNotOpen, ThresholdReached
<1>8. CASE UNCHANGED vars
  BY <1>8 DEF vars, TypeOK, ThresholdTrips, HalfOpenIsNotOpen, ThresholdReached
<1> QED BY <1>1, <1>2, <1>3, <1>4, <1>5, <1>6, <1>7, <1>8 DEF Next, Arrive

(* The breaker is consistent in every reachable state. *)
LEMMA AlwaysConsistent == Spec => []Consistent
  BY InitConsistent, NextConsistent, PTL DEF Spec

(* The state of the breaker and of the requests stays typed. *)
THEOREM CircuitTypeCorrect == Spec => []TypeOK
<1>1. Consistent => TypeOK
  BY DEF Consistent
<1> QED BY <1>1, AlwaysConsistent, PTL

(* Enough failures in the window always leave the circuit open or half-open,  *)
(* in whatever order the requests under way return.                           *)
THEOREM ThresholdAlwaysTrips == Spec => []ThresholdTrips
<1>1. Consistent => ThresholdTrips
  BY DEF Consistent
<1> QED BY <1>1, AlwaysConsistent, PTL

(* What one step needs for the action property: leaving the open and half-open *)
(* states is the work of a success alone.                                     *)
LEMMA ClosingStep ==
  ASSUME Consistent, Next, tripped \/ halfOpen, ~(tripped' \/ halfOpen')
  PROVE  up /\ life' = NoFailures
<1>1. ASSUME NEW r \in Requests, Admit(r) PROVE FALSE
  BY <1>1 DEF Admit
<1>2. ASSUME RecordFailure PROVE FALSE
  BY <1>2 DEF RecordFailure, Trip
<1>3. ASSUME NEW r \in Requests, Succeed(r) PROVE up /\ life' = NoFailures
  BY <1>3 DEF Succeed, RecordSuccess
<1>4. ASSUME UNCHANGED <<tripped, halfOpen>> PROVE FALSE
  BY <1>4
<1> QED BY <1>1, <1>2, <1>3, <1>4
    DEF Next, Arrive, Refuse, Fail, Unrecorded, Tick, EngineChanges, breaker

(* Only a success of the engine closes an open or half-open circuit. *)
THEOREM OnlySuccessClosesCircuit == Spec => OnlySuccessCloses
<1>1. Consistent /\ [Next]_vars
      => [(tripped \/ halfOpen) /\ ~(tripped' \/ halfOpen') => up /\ life' = NoFailures]_vars
  BY ClosingStep
<1> QED BY <1>1, AlwaysConsistent, PTL DEF Spec, OnlySuccessCloses

-----------------------------------------------------------------------------
(* Each step of the route is one of the breaker's, or leaves it alone. *)
LEMMA RouteStep == [RouteNext]_routeVars => [Next]_vars
<1> SUFFICES ASSUME [RouteNext]_routeVars PROVE [Next]_vars
  OBVIOUS
<1>1. ASSUME NEW r \in Requests, Ask(r) \/ AskRefused(r) \/ Answers(r) \/ Undecided(r)
                                 \/ Rejected(r) \/ PostFails(r)
      PROVE  Next
  BY <1>1 DEF Ask, AskRefused, Answers, Undecided, Rejected, PostFails, Next, Arrive
<1>2. ASSUME NEW r \in Requests, MarketUnknown(r) \/ AttemptFails(r) \/ PostAgain(r)
      PROVE  UNCHANGED vars
  BY <1>2 DEF MarketUnknown, AttemptFails, PostAgain
<1>3. ASSUME NEW r \in Requests, NEW k \in Identities, ServeCached(r, k) \/ Begin(r, k)
      PROVE  UNCHANGED vars
  BY <1>3 DEF ServeCached, Begin
<1>4. CASE TimePasses \/ EngineTurns
  BY <1>4 DEF TimePasses, EngineTurns, Next
<1>5. CASE UNCHANGED routeVars
  BY <1>5 DEF routeVars
<1> QED BY <1>1, <1>2, <1>3, <1>4, <1>5 DEF RouteNext

(* POST /predict uses the breaker as EngineCircuit says its user does, so that   *)
(* what is proved of the breaker holds of the route.                            *)
THEOREM RouteImplementsCircuit == RouteSpec => Spec
<1>1. RouteInit => Init
  BY DEF RouteInit
<1> QED BY <1>1, RouteStep, PTL DEF RouteSpec, Spec

(* What the caches hold of k: nothing, or a verdict of k that is not too old. *)
Kept(k) ==
    \/ good[k] = Nothing
    \/ /\ good[k] \in Verdict /\ good[k].of = k
       /\ good[k].kept + good[k].age = LastGoodTtl

Stages == {"idle", "market", "engine", "pause"}
AsksTyped ==
    /\ asks \in [Requests -> Identities \cup {"nothing"}]
    /\ stage \in [Requests -> Stages]
    /\ \A r \in Requests : stage[r] # "idle" => asks[r] \in Identities
CachesKept ==
    /\ good \in [Identities -> Verdict \cup {Nothing}]
    /\ \A k \in Identities : Kept(k)
RouteInv == AsksTyped /\ CachesKept /\ AnswersAreTrue

LEMMA RouteStarts == RouteInit => RouteInv
  BY DEF RouteInit, RouteInv, AsksTyped, CachesKept, Stages, Kept, AnswersAreTrue, Silence

(* The two conditions on an entry are about verdicts that are young enough. *)
LEMMA EntriesAreYoung ==
  ASSUME CachesKept, NEW k \in Identities
  PROVE  /\ ~Has(k) => good[k] = Nothing
         /\ Has(k) => /\ good[k] \in Verdict /\ good[k].of = k
                      /\ good[k].age < LastGoodTtl
         /\ Cached(k) => Has(k) /\ good[k].age < CacheTtl
<1> USE RouteAssumption DEF RouteAssumption
<1>1. CASE good[k] = Nothing
  BY <1>1 DEF Nothing, Has, Cached
<1>2. CASE good[k] # Nothing
  <2>1. good[k] \in Verdict /\ good[k].of = k /\ good[k].kept + good[k].age = LastGoodTtl
    BY <1>2 DEF CachesKept, Kept
  <2>2. good[k].kept \in 1..LastGoodTtl /\ good[k].age \in Nat
    BY <2>1 DEF Verdict
  <2> QED BY <2>1, <2>2 DEF Has, Cached
<1> QED BY <1>1, <1>2

(* What serves as an answer of each kind is true. *)
LEMMA FallBackIsTrue ==
  ASSUME RouteInv, NEW r \in Requests, stage[r] # "idle", FallBack(r)
  PROVE  AnswersAreTrue'
<1>1. asks[r] \in Identities
  BY DEF RouteInv, AsksTyped
<1>2. CASE Has(asks[r])
  <2>1. PICK safe \in BOOLEAN : answer' = Stale(asks[r], safe)
    BY <1>2 DEF FallBack, Replies
  <2>2. good[asks[r]].of = asks[r] /\ good[asks[r]].age < LastGoodTtl
    BY <1>1, <1>2, EntriesAreYoung DEF RouteInv
  <2> QED BY <2>1, <2>2 DEF Stale, AnswersAreTrue
<1>3. CASE ~Has(asks[r])
  <2>1. answer' = Failed(asks[r]) /\ good' = good
    BY <1>3 DEF FallBack, Replies
  <2>2. good[asks[r]] = Nothing
    BY <1>1, <1>3, EntriesAreYoung DEF RouteInv
  <2> QED BY <2>1, <2>2 DEF Failed, AnswersAreTrue
<1> QED BY <1>2, <1>3

(* A request that gets a reply is idle again. *)
LEMMA RepliesTyped ==
  ASSUME AsksTyped, NEW r \in Requests, NEW a, Replies(r, a)
  PROVE  AsksTyped'
  BY DEF AsksTyped, Replies, Goes, Stages

(* One that has asked for something may go on to any stage. *)
LEMMA GoesTyped ==
  ASSUME AsksTyped, NEW r \in Requests, NEW s \in Stages, Goes(r, s), asks' = asks,
         asks[r] \in Identities
  PROVE  AsksTyped'
  BY DEF AsksTyped, Goes

LEMMA SameCaches == ASSUME CachesKept, good' = good PROVE CachesKept'
  BY DEF CachesKept, Kept

(* Nothing is claimed by a step that answers nothing, or waiting. *)
LEMMA NoVerdictIsTrue ==
  ASSUME answer' = Silence \/ \E k : answer' = Waiting(k)
  PROVE  AnswersAreTrue'
  BY DEF AnswersAreTrue, Silence, Waiting

(* A verdict just received is of what was asked, and new. *)
LEMMA AnswersKept ==
  ASSUME RouteInv, NEW r \in Requests, Answers(r)
  PROVE  RouteInv'
<1> USE RouteAssumption DEF RouteAssumption
<1> DEFINE k == asks[r]
<1> DEFINE v(e) == [of |-> k, kept |-> LastGoodTtl, age |-> 0, executable |-> e]
<1>1. k \in Identities
  BY DEF RouteInv, AsksTyped, Answers
<1>2. PICK e \in BOOLEAN : good' = [good EXCEPT ![k] = v(e)] /\ Replies(r, Unmarked(k, v(e)))
  BY DEF Answers
<1>3. AsksTyped'
  BY <1>2, RepliesTyped DEF RouteInv
<1>4. CachesKept'
  <2>1. v(e) \in Verdict /\ v(e).of = k /\ v(e).kept + v(e).age = LastGoodTtl
    BY <1>1 DEF Verdict
  <2>2. good' \in [Identities -> Verdict \cup {Nothing}]
    BY <1>2, <2>1 DEF RouteInv, CachesKept
  <2>3. ASSUME NEW j \in Identities PROVE Kept(j)'
    <3>1. CASE j = k
      BY <1>1, <1>2, <2>1, <3>1 DEF RouteInv, CachesKept, Kept
    <3>2. CASE j # k
      BY <1>1, <1>2, <3>2 DEF RouteInv, CachesKept, Kept
    <3> QED BY <3>1, <3>2
  <2> QED BY <2>2, <2>3 DEF CachesKept
<1>5. AnswersAreTrue'
  BY <1>2 DEF Replies, Unmarked, AnswersAreTrue
<1> QED BY <1>3, <1>4, <1>5 DEF RouteInv

(* What ages has that much less left. *)
LEMMA AgedKept ==
  ASSUME CachesKept, good' = [k \in Identities |-> Aged(good[k])]
  PROVE  CachesKept'
<1> USE RouteAssumption DEF RouteAssumption
<1>1. ASSUME NEW k \in Identities PROVE good'[k] \in Verdict \cup {Nothing} /\ Kept(k)'
  <2> DEFINE v == good[k]
  <2>0. good'[k] = Aged(v)
    BY <1>1
  <2>1. CASE good[k] = Nothing
    <3>1. ~(v.kept > 1)
      BY <2>1 DEF Nothing
    <3>2. Aged(v) = Nothing
      BY <3>1 DEF Aged
    <3> QED BY <2>0, <3>2 DEF Kept
  <2>2. CASE good[k] # Nothing /\ good[k].kept > 1
    <3>1. good[k] \in Verdict /\ good[k].of = k /\ good[k].kept + good[k].age = LastGoodTtl
      BY <1>1, <2>2 DEF CachesKept, Kept
    <3> DEFINE w == [of |-> v.of, kept |-> v.kept - 1, age |-> v.age + 1,
                     executable |-> v.executable]
    <3>2. v = [of |-> v.of, kept |-> v.kept, age |-> v.age, executable |-> v.executable]
          /\ v.kept \in 1..LastGoodTtl /\ v.age \in Nat /\ v.executable \in BOOLEAN
      BY <3>1 DEF Verdict
    <3>3. good'[k] = w
      BY <2>0, <2>2, <3>2 DEF Aged
    <3>4. w \in Verdict /\ w.of = k /\ w.kept + w.age = LastGoodTtl
      BY <2>2, <3>1, <3>2 DEF Verdict
    <3> QED BY <3>3, <3>4 DEF Kept
  <2>3. CASE good[k] # Nothing /\ ~(good[k].kept > 1)
    BY <1>1, <2>3 DEF Aged, Kept
  <2> QED BY <2>1, <2>2, <2>3
<1> QED BY <1>1 DEF CachesKept

LEMMA RouteKeeps == RouteInv /\ [RouteNext]_routeVars => RouteInv'
<1> SUFFICES ASSUME RouteInv, [RouteNext]_routeVars PROVE RouteInv'
  OBVIOUS
<1>1. ASSUME NEW r \in Requests, NEW k \in Identities, ServeCached(r, k) PROVE RouteInv'
  <2>1. good[k].of = k /\ good[k].age < CacheTtl
    BY <1>1, EntriesAreYoung DEF ServeCached, RouteInv
  <2>2. AnswersAreTrue'
    BY <1>1, <2>1 DEF ServeCached, Unmarked, AnswersAreTrue
  <2> QED BY <1>1, <2>2, SameCaches DEF ServeCached, RouteInv, AsksTyped
<1>2. ASSUME NEW r \in Requests, NEW k \in Identities, Begin(r, k) PROVE RouteInv'
  <2>1. AsksTyped'
    BY <1>2 DEF Begin, Goes, RouteInv, AsksTyped, Stages
  <2> QED BY <1>2, <2>1, SameCaches, NoVerdictIsTrue DEF Begin, RouteInv
<1>3. ASSUME NEW r \in Requests, MarketUnknown(r) \/ Undecided(r) PROVE RouteInv'
  <2>1. Replies(r, Waiting(asks[r])) /\ good' = good
    BY <1>3 DEF MarketUnknown, Undecided
  <2>2. answer' = Waiting(asks[r])
    BY <2>1 DEF Replies
  <2> QED BY <2>1, <2>2, RepliesTyped, SameCaches, NoVerdictIsTrue DEF RouteInv
<1>4. ASSUME NEW r \in Requests, Ask(r) \/ AttemptFails(r) \/ PostAgain(r) PROVE RouteInv'
  <2>1. PICK s \in Stages : Goes(r, s)
    BY <1>4 DEF Ask, AttemptFails, PostAgain, Stages
  <2>2. stage[r] # "idle" /\ asks' = asks /\ good' = good /\ answer' = Silence
    BY <1>4 DEF Ask, AttemptFails, PostAgain
  <2>3. asks[r] \in Identities
    BY <2>2 DEF RouteInv, AsksTyped
  <2> QED BY <2>1, <2>2, <2>3, GoesTyped, SameCaches, NoVerdictIsTrue DEF RouteInv
<1>5. ASSUME NEW r \in Requests, AskRefused(r) \/ Rejected(r) \/ PostFails(r) PROVE RouteInv'
  <2>1. FallBack(r) /\ stage[r] # "idle"
    BY <1>5 DEF AskRefused, Rejected, PostFails
  <2>2. PICK a : Replies(r, a)
    BY <2>1 DEF FallBack
  <2>3. good' = good
    BY <2>1 DEF FallBack
  <2> QED BY <2>1, <2>2, <2>3, RepliesTyped, SameCaches, FallBackIsTrue DEF RouteInv
<1>6. CASE TimePasses
  BY <1>6, AgedKept, NoVerdictIsTrue DEF TimePasses, RouteInv, AsksTyped
<1>7. CASE EngineTurns
  BY <1>7, SameCaches, NoVerdictIsTrue DEF EngineTurns, RouteInv, AsksTyped
<1>8. CASE UNCHANGED routeVars
  BY <1>8, SameCaches DEF routeVars, RouteInv, AsksTyped, AnswersAreTrue
<1> QED BY <1>1, <1>2, <1>3, <1>4, <1>5, <1>6, <1>7, <1>8, AnswersKept DEF RouteNext

(* Whatever requests overlap, and whatever fails: a verdict that is answered is  *)
(* of what was asked, no older than it says, tradable only if the engine said   *)
(* so, and a failure is answered only when there is none.                       *)
THEOREM AnswersAlwaysTrue == RouteSpec => []AnswersAreTrue
<1>1. RouteInv => AnswersAreTrue
  BY DEF RouteInv
<1> QED BY <1>1, RouteStarts, RouteKeeps, PTL DEF RouteSpec
-----------------------------------------------------------------------------
(* The types of the route.                                                     *)

(* A request is with the breaker while it is posted or waits to be posted again, *)
(* and it is posted no more often than it may be.                                *)
Slots ==
    /\ calls \in [Requests -> {"idle", "posted", "probe"}]
    /\ tries \in [Requests -> 0..MaxRetries]
    /\ \A r \in Requests :
        /\ calls[r] # "idle" <=> stage[r] \in {"engine", "pause"}
        /\ stage[r] = "pause" => tries[r] < MaxRetries
AnswerTyped == answer \in Answer \cup {Silence}
RouteTypes == Consistent /\ RouteInv /\ Slots /\ AnswerTyped

LEMMA RouteTypesOK == RouteTypes => RouteTypeOK
  BY DEF RouteTypes, RouteTypeOK, Consistent, RouteInv, AsksTyped, Stages, CachesKept, Slots, AnswerTyped

LEMMA RouteTypesStart == RouteInit => RouteTypes
<1> SUFFICES ASSUME RouteInit PROVE RouteTypes
  OBVIOUS
<1>1. Consistent /\ RouteInv
  BY InitConsistent, RouteStarts DEF RouteInit
<1>2. 0 \in 0..MaxRetries
  BY RouteAssumption DEF RouteAssumption
<1>3. Slots /\ AnswerTyped
  BY <1>2 DEF RouteInit, Init, Slots, AnswerTyped
<1> QED BY <1>1, <1>3 DEF RouteTypes

(* A reply frees the request, here and at the breaker. *)
LEMMA RepliesSlots ==
  ASSUME Slots, AsksTyped, NEW r \in Requests, NEW a, Replies(r, a),
         calls' = [calls EXCEPT ![r] = "idle"] \/ (calls' = calls /\ calls[r] = "idle")
  PROVE  Slots'
<1>1. 0 \in 0..MaxRetries
  BY RouteAssumption DEF RouteAssumption
<1>2. calls' \in [Requests -> {"idle", "posted", "probe"}] /\ tries' \in [Requests -> 0..MaxRetries]
  BY <1>1 DEF Slots, Replies
<1>3. /\ calls'[r] = "idle" /\ stage'[r] = "idle"
      /\ \A q \in Requests \ {r} : calls'[q] = calls[q] /\ stage'[q] = stage[q] /\ tries'[q] = tries[q]
  BY DEF Slots, Replies, AsksTyped, Goes
<1> QED BY <1>2, <1>3 DEF Slots

(* One that goes on is with the breaker from its first post to its reply. *)
LEMMA GoesSlots ==
  ASSUME Slots, AsksTyped, NEW r \in Requests, NEW s \in Stages, Goes(r, s), NEW n \in 0..MaxRetries,
         tries' = [tries EXCEPT ![r] = n],
         calls' \in [Requests -> {"idle", "posted", "probe"}],
         \A q \in Requests \ {r} : calls'[q] = calls[q],
         calls'[r] # "idle" <=> s \in {"engine", "pause"}, s = "pause" => n < MaxRetries
  PROVE  Slots'
<1>1. tries' \in [Requests -> 0..MaxRetries]
  BY DEF Slots
<1>2. /\ stage'[r] = s /\ tries'[r] = n
      /\ \A q \in Requests \ {r} : calls'[q] = calls[q] /\ stage'[q] = stage[q] /\ tries'[q] = tries[q]
  BY DEF Slots, AsksTyped, Goes
<1> QED BY <1>1, <1>2 DEF Slots

LEMMA FallBackTyped ==
  ASSUME CachesKept, NEW r \in Requests, asks[r] \in Identities, FallBack(r)
  PROVE  AnswerTyped' /\ \E a : Replies(r, a)
<1>1. Has(asks[r]) => good[asks[r]] \in Verdict
  BY EntriesAreYoung
<1>2. good[asks[r]] \in Verdict => good[asks[r]].executable \in BOOLEAN
  BY DEF Verdict
<1> QED BY <1>1, <1>2 DEF FallBack, Replies, AnswerTyped, Answer, Stale, Failed

LEMMA RouteTypesKeep == RouteTypes /\ [RouteNext]_routeVars => RouteTypes'
<1> SUFFICES ASSUME RouteTypes, [RouteNext]_routeVars PROVE Slots' /\ AnswerTyped'
  BY RouteKeeps, RouteStep, NextConsistent DEF RouteTypes
<1>0. /\ Slots /\ AsksTyped /\ CachesKept /\ AnswerTyped /\ MaxRetries \in Nat /\ MaxRetries >= 1
      /\ LastGoodTtl \in Nat /\ LastGoodTtl >= 1
  BY RouteAssumption DEF RouteAssumption, RouteTypes, RouteInv
<1>1. ASSUME NEW r \in Requests, NEW k \in Identities, ServeCached(r, k) PROVE Slots' /\ AnswerTyped'
  <2>1. good[k] \in Verdict
    BY <1>0, <1>1, EntriesAreYoung DEF ServeCached
  <2>2. AnswerTyped'
    BY <1>1, <2>1 DEF ServeCached, Unmarked, AnswerTyped, Answer, Verdict
  <2> QED BY <1>0, <1>1, <2>2 DEF ServeCached, Slots, vars
<1>2. ASSUME NEW r \in Requests, NEW k \in Identities, Begin(r, k) PROVE Slots' /\ AnswerTyped'
  <2>1. /\ stage'[r] = "market" /\ calls[r] = "idle"
        /\ \A q \in Requests \ {r} : stage'[q] = stage[q]
    BY <1>0, <1>2 DEF Begin, Goes, AsksTyped, Slots
  <2>2. Slots'
    BY <1>0, <1>2, <2>1 DEF Begin, Slots, vars
  <2> QED BY <1>2, <2>2 DEF Begin, AnswerTyped
<1>3. ASSUME NEW r \in Requests, MarketUnknown(r) \/ Undecided(r) PROVE Slots' /\ AnswerTyped'
  <2>1. Replies(r, Waiting(asks[r])) /\ asks[r] \in Identities
    BY <1>0, <1>3 DEF MarketUnknown, Undecided, AsksTyped
  <2>2. calls' = [calls EXCEPT ![r] = "idle"] \/ (calls' = calls /\ calls[r] = "idle")
    BY <1>0, <1>3 DEF MarketUnknown, Undecided, Unrecorded, Return, vars, Slots
  <2>3. Slots'
    BY <1>0, <2>1, <2>2, RepliesSlots
  <2> QED BY <2>1, <2>3 DEF Replies, AnswerTyped, Waiting, Answer
<1>4. ASSUME NEW r \in Requests, Ask(r) PROVE Slots' /\ AnswerTyped'
  <2>1. /\ calls' \in [Requests -> {"idle", "posted", "probe"}] /\ calls'[r] # "idle"
        /\ \A q \in Requests \ {r} : calls'[q] = calls[q]
    BY <1>0, <1>4 DEF Ask, Admit, Slots
  <2>2. "engine" \in Stages /\ 1 \in 0..MaxRetries /\ Goes(r, "engine") /\ tries' = [tries EXCEPT ![r] = 1]
    BY <1>0, <1>4 DEF Ask, Stages
  <2>3. Slots'
    BY <1>0, <2>1, <2>2, GoesSlots
  <2> QED BY <1>4, <2>3 DEF Ask, AnswerTyped
<1>5. ASSUME NEW r \in Requests, AttemptFails(r) PROVE Slots' /\ AnswerTyped'
  <2>1. stage'[r] = "pause" /\ \A q \in Requests \ {r} : stage'[q] = stage[q]
    BY <1>0, <1>5 DEF AttemptFails, Goes, AsksTyped
  <2>2. Slots'
    BY <1>0, <1>5, <2>1 DEF AttemptFails, vars, Slots
  <2> QED BY <1>5, <2>2 DEF AttemptFails, AnswerTyped
<1>6. ASSUME NEW r \in Requests, PostAgain(r) PROVE Slots' /\ AnswerTyped'
  <2>1. tries[r] \in 0..MaxRetries /\ tries[r] + 1 \in 0..MaxRetries /\ calls'[r] # "idle" /\ calls' = calls
        /\ tries' = [tries EXCEPT ![r] = tries[r] + 1]
    BY <1>0, <1>6 DEF PostAgain, Slots, vars
  <2>2. Slots'
    BY <1>0, <1>6, <2>1, GoesSlots DEF PostAgain, Stages, Slots
  <2> QED BY <1>6, <2>2 DEF PostAgain, AnswerTyped
<1>7. ASSUME NEW r \in Requests, Answers(r) PROVE Slots' /\ AnswerTyped'
  <2>1. PICK e \in BOOLEAN : Replies(r, Unmarked(asks[r],
            [of |-> asks[r], kept |-> LastGoodTtl, age |-> 0, executable |-> e]))
    BY <1>7 DEF Answers
  <2>2. asks[r] \in Identities /\ calls' = [calls EXCEPT ![r] = "idle"]
    BY <1>0, <1>7 DEF Answers, Succeed, Return, AsksTyped
  <2>3. Slots'
    BY <1>0, <2>1, <2>2, RepliesSlots
  <2>4. [of |-> asks[r], kept |-> LastGoodTtl, age |-> 0, executable |-> e] \in Verdict
    BY <1>0, <2>2 DEF Verdict
  <2> QED BY <2>1, <2>2, <2>3, <2>4 DEF Replies, Unmarked, AnswerTyped, Answer
<1>8. ASSUME NEW r \in Requests, AskRefused(r) \/ Rejected(r) \/ PostFails(r) PROVE Slots' /\ AnswerTyped'
  <2>1. FallBack(r) /\ asks[r] \in Identities
    BY <1>0, <1>8 DEF AskRefused, Rejected, PostFails, AsksTyped
  <2>2. AnswerTyped' /\ \E a : Replies(r, a)
    BY <1>0, <2>1, FallBackTyped
  <2>3. calls' = [calls EXCEPT ![r] = "idle"] \/ (calls' = calls /\ calls[r] = "idle")
    BY <1>8 DEF AskRefused, Refuse, Rejected, Unrecorded, PostFails, Fail, Return
  <2> QED BY <1>0, <2>2, <2>3, RepliesSlots
<1>9. CASE TimePasses \/ EngineTurns
  BY <1>0, <1>9 DEF TimePasses, Tick, EngineTurns, EngineChanges, Slots, AnswerTyped
<1>10. CASE UNCHANGED routeVars
  BY <1>0, <1>10 DEF routeVars, vars, Slots, AnswerTyped
<1> QED BY <1>1, <1>2, <1>3, <1>4, <1>5, <1>6, <1>7, <1>8, <1>9, <1>10 DEF RouteNext

-----------------------------------------------------------------------------
(* The types of the dispatcher.                                                *)

(* A dispatch of window n, when the windows still unanswered are `others`. *)
LEMMA DispatchTyped ==
  ASSUME NEW n \in 0..MaxTicks, NEW s, NEW others, others = {},
         NEW rearms \in BOOLEAN, Dispatch(n, s, others, rearms), considered \in 0..MaxTicks
  PROVE  /\ beat' \in {"none", "running", "over"}
         /\ timer' \in BOOLEAN /\ inFlight' \in BOOLEAN /\ rescan' \in BOOLEAN
         /\ posts' \subseteq 1..MaxTicks /\ inFlight' = (posts' # {})
         /\ considered' \in 0..MaxTicks
<1>1. n >= 2 => n \in 1..MaxTicks
  OBVIOUS
<1>2. CASE DispatchPosted(n, s, others, rearms)
  BY <1>1, <1>2 DEF DispatchPosted
<1>3. CASE DispatchNothing(n, s, others) \/ DispatchBlocked(n, s, others)
  BY <1>1, <1>3 DEF DispatchNothing, DispatchBlocked
<1> QED BY <1>2, <1>3 DEF Dispatch

TickInv == TickTypeOK /\ InOrder /\ ShownOK(shown)

LEMMA TickStarts == TickInit => TickInv
<1> SUFFICES ASSUME TickInit PROVE TickInv
  OBVIOUS
<1>1. ShownOK(shown)
  BY InitShows
<1>2. 0 \in 0..MaxTicks
  BY TickAssumption DEF TickAssumption
<1>3. TickTypeOK
  BY <1>1, <1>2 DEF TickInit, TickTypeOK, ShownOK
<1> QED BY <1>1, <1>3 DEF TickInit, TickInv, InOrder

LEMMA TickKeeps == TickInv /\ [TickNext]_tickVars => TickInv'
<1> SUFFICES ASSUME TickInv, [TickNext]_tickVars PROVE TickInv'
  OBVIOUS
<1>0. TickTypeOK /\ InOrder /\ ShownOK(shown) /\ MaxTicks \in Nat
  BY TickAssumption DEF TickAssumption, TickInv
<1>1. InOrder' /\ ShownOK(shown')
  BY <1>0, StepInOrder, StepShows
<1>2. shown' \in [last : Shapes, wanted : Shapes]
  BY <1>1 DEF ShownOK
<1>3. CASE TickArrives
  <2>1. newest' \in 1..MaxTicks /\ newest' \in 0..MaxTicks /\ due' \in 0..MaxTicks /\ UNCHANGED <<subscribed, answered>>
    BY <1>0, <1>3 DEF TickArrives, TickTypeOK
  <2>2. CASE ~inFlight /\ Dispatch(newest', shown, posts, timer)
    <3>1. posts = {} /\ shown \in [last : Shapes, wanted : Shapes] /\ timer \in BOOLEAN /\ considered \in 0..MaxTicks
      BY <1>0, <2>2 DEF TickTypeOK
    <3> QED BY <1>0, <1>1, <1>2, <2>1, <2>2, <3>1, DispatchTyped DEF TickTypeOK, TickInv
  <2>3. CASE inFlight \/ ArmTimer
    BY <1>0, <1>1, <1>2, <1>3, <2>1, <2>3 DEF TickArrives, Enqueue, ArmTimer, TickTypeOK, TickInv
  <2> QED BY <1>3, <2>2, <2>3 DEF TickArrives, Enqueue
<1>4. CASE TimerFires
  <2>1. UNCHANGED <<newest, subscribed, due, answered>>
    BY <1>4 DEF TimerFires
  <2>2. CASE ~inFlight /\ Dispatch(newest, shown, posts, FALSE)
    <3>1. posts = {} /\ shown \in [last : Shapes, wanted : Shapes] /\ considered \in 0..MaxTicks
      BY <1>0, <2>2 DEF TickTypeOK
    <3>2. newest \in 0..MaxTicks
      BY <1>0 DEF TickTypeOK
    <3> QED BY <1>0, <1>1, <1>2, <2>1, <2>2, <3>1, <3>2, DispatchTyped DEF TickTypeOK, TickInv
  <2>3. CASE inFlight
    BY <1>0, <1>1, <1>2, <1>4, <2>1, <2>3 DEF TimerFires, TickTypeOK, TickInv
  <2> QED BY <1>4, <2>2, <2>3 DEF TimerFires
<1>5. ASSUME NEW w \in posts, EngineAnswers(w) PROVE TickInv'
  <2>1. /\ UNCHANGED <<newest, subscribed, due>> /\ answered' = w /\ posts \ {w} = {}
        /\ w \in 0..MaxTicks /\ newest \in 0..MaxTicks /\ considered \in 0..MaxTicks
    BY <1>0, <1>5 DEF EngineAnswers, InOrder, TickTypeOK
  <2>2. ASSUME NEW s, Settle(s, {}) PROVE TickInv'
    <3>1. CASE ~rescan
      BY <1>0, <1>1, <1>2, <2>1, <2>2, <3>1 DEF Settle, TickTypeOK, TickInv
    <3>2. CASE rescan
      BY <1>0, <1>1, <1>2, <2>1, <2>2, <3>2, DispatchTyped DEF Settle, TickTypeOK, TickInv
    <3> QED BY <3>1, <3>2
  <2> QED BY <1>5, <2>1, <2>2 DEF EngineAnswers
<1>6. CASE BeatEnds \/ FeedDegrades \/ ClientsChange \/ UNCHANGED tickVars
  <2>1. 0 \in 0..MaxTicks
    BY <1>0
  <2> QED BY <1>0, <1>1, <1>2, <1>6, <2>1 DEF BeatEnds, FeedDegrades, ClientsChange, tickVars, TickTypeOK, TickInv
<1> QED BY <1>3, <1>4, <1>5, <1>6 DEF TickNext

-----------------------------------------------------------------------------
(* The types of the feed.                                                      *)

LatchesTyped ==
    /\ failures \in 0..Len(Ladder) /\ wait \in Nat
    /\ degraded \in BOOLEAN /\ proxied \in BOOLEAN /\ told \in {"nothing", "ONLINE", "DEGRADED"}
TapeTyped == tape \in {"nobody", "po", "http", "github"} /\ tapeAge \in 0..Old
SourcesTyped == sourceFailures \in 0..CoolFailures /\ rest \in 0..CoolDown
PricesAged == poAge \in 0..Old /\ spotAge \in 0..Old
WorldTyped ==
    /\ kind \in {"otc", "forex"} /\ streaming \in BOOLEAN /\ pollDue \in BOOLEAN
    /\ live \in BOOLEAN /\ sourcesUp \in BOOLEAN /\ closed \in BOOLEAN

LEMMA FeedParts ==
    FeedTypeOK <=> LatchesTyped /\ TapeTyped /\ SourcesTyped /\ PricesAged /\ WorldTyped /\ asking \in BOOLEAN
  BY DEF FeedTypeOK, LatchesTyped, TapeTyped, SourcesTyped, PricesAged, WorldTyped

(* Counting up to a bound and down to nothing stays within it. *)
LEMMA FeedCounts ==
  /\ \A n \in 0..Old : Older(n) \in 0..Old
  /\ \A n \in 0..CoolDown : Less(n) \in 0..CoolDown
  /\ \A n \in Nat : Less(n) \in Nat
  /\ 0 \in 0..Old /\ Old \in 0..Old /\ 0 \in 0..CoolDown /\ CoolDown \in 0..CoolDown
  /\ 0 \in 0..CoolFailures /\ 0 \in 0..Len(Ladder) /\ 0 \in Nat
  /\ \A n \in 0..CoolFailures : (IF n < CoolFailures THEN n + 1 ELSE n) \in 0..CoolFailures
  BY FeedAssumption DEF FeedAssumption, Older, Less

(* handleFeedFailure climbs the ladder, whose rungs are waits. *)
LEMMA PollFailsTyped ==
  ASSUME LatchesTyped, PollFails
  PROVE  LatchesTyped'
<1>1. Ladder \in Seq(Nat \ {0}) /\ Len(Ladder) \in Nat /\ Len(Ladder) >= 1
  BY FeedAssumption DEF FeedAssumption
<1>2. failures' \in 1..Len(Ladder) /\ failures' \in 0..Len(Ladder)
  BY <1>1 DEF PollFails, LatchesTyped
<1>3. wait' \in Nat
  BY <1>1, <1>2 DEF PollFails
<1> QED BY <1>2, <1>3 DEF PollFails, LatchesTyped

LEMMA RecoverTyped ==
  ASSUME LatchesTyped, NEW from, Recover(from)
  PROVE  LatchesTyped'
  BY FeedCounts DEF Recover, LatchesTyped

LEMMA AcceptTyped ==
  ASSUME LatchesTyped, TapeTyped, NEW from \in {"po", "http", "github"}, Accept(from)
  PROVE  LatchesTyped' /\ TapeTyped'
  BY RecoverTyped, FeedCounts DEF Accept, TapeTyped, Silent, Write

LEMMA PollTyped ==
  ASSUME LatchesTyped, TapeTyped, asking \in BOOLEAN, PollOnce
  PROVE  LatchesTyped' /\ TapeTyped' /\ asking' \in BOOLEAN
<1>1. Unthrottle => LatchesTyped'
  BY FeedCounts DEF LatchesTyped, Unthrottle
<1>2. Silent => TapeTyped'
  BY DEF TapeTyped, Silent
<1> QED BY <1>1, <1>2, AcceptTyped, PollFailsTyped DEF PollOnce

LEMMA FeedStarts == FeedInit => FeedTypeOK
<1>1. FeedInit => LatchesTyped /\ TapeTyped /\ SourcesTyped /\ PricesAged /\ WorldTyped /\ asking \in BOOLEAN
  BY FeedCounts DEF FeedInit, LatchesTyped, TapeTyped, SourcesTyped, PricesAged, WorldTyped
<1> QED BY <1>1, FeedParts

LEMMA FeedKeeps == FeedTypeOK /\ [FeedNext]_feedVars => FeedTypeOK'
<1> SUFFICES ASSUME LatchesTyped, TapeTyped, SourcesTyped, PricesAged, WorldTyped, asking \in BOOLEAN, [FeedNext]_feedVars
             PROVE  LatchesTyped' /\ TapeTyped' /\ SourcesTyped' /\ PricesAged' /\ WorldTyped' /\ asking' \in BOOLEAN
  BY FeedParts DEF FeedTypeOK, LatchesTyped, TapeTyped, SourcesTyped, PricesAged, WorldTyped
<1>0. /\ UNCHANGED latches => LatchesTyped'
      /\ Silent => TapeTyped'
      /\ UNCHANGED source => SourcesTyped'
      /\ UNCHANGED <<poAge, spotAge>> => PricesAged'
      /\ streaming' \in BOOLEAN /\ pollDue' \in BOOLEAN /\ UNCHANGED world => WorldTyped'
  BY DEF latches, Silent, source, world, LatchesTyped, TapeTyped, SourcesTyped, PricesAged, WorldTyped
<1>1. CASE StartStream
  BY <1>0, <1>1, FeedCounts DEF StartStream, LatchesTyped, Silent, ages
<1>2. CASE Second
  <2>1. LatchesTyped' /\ TapeTyped' /\ PricesAged' /\ SourcesTyped'
    BY <1>2, FeedCounts DEF Second, LatchesTyped, TapeTyped, PricesAged, SourcesTyped
  <2> QED BY <1>0, <1>2, <2>1 DEF Second, WorldTyped
<1>3. CASE Polls
  <2>1. LatchesTyped' /\ TapeTyped' /\ asking' \in BOOLEAN
    BY <1>0, <1>3, PollTyped DEF Polls, Idle
  <2> QED BY <1>0, <1>3, <2>1 DEF Polls, WorldTyped
<1>4. CASE SourcesAnswer
  <2>1. LatchesTyped' /\ TapeTyped'
    BY <1>4, AcceptTyped DEF SourcesAnswer
  <2>2. PricesAged' /\ SourcesTyped'
    BY <1>4, FeedCounts DEF SourcesAnswer, PricesAged, SourcesTyped
  <2> QED BY <1>0, <1>4, <2>1, <2>2 DEF SourcesAnswer, WorldTyped
<1>5. CASE SourcesFail
  <2>1. LatchesTyped'
    BY <1>5, PollFailsTyped DEF SourcesFail
  <2>2. SourcesTyped'
    BY <1>5, FeedCounts DEF SourcesFail, SourcesTyped
  <2> QED BY <1>0, <1>5, <2>1, <2>2 DEF SourcesFail, WorldTyped
<1>6. CASE PoTick \/ GithubTick \/ RepositoryPolled
  <2>1. TapeTyped' /\ PricesAged'
    BY <1>6, FeedCounts DEF PoTick, GithubTick, RepositoryPolled, Write, TapeTyped, PricesAged
  <2> QED BY <1>0, <1>6, <2>1 DEF PoTick, GithubTick, RepositoryPolled, WorldTyped
<1>7. CASE WorldChanges
  <2>1. WorldTyped'
    BY <1>7 DEF WorldChanges, WorldTyped
  <2> QED BY <1>0, <1>7, <2>1 DEF WorldChanges, Silent, ages
<1>8. CASE UNCHANGED feedVars
  BY <1>0, <1>8 DEF feedVars, LatchesTyped, TapeTyped, SourcesTyped, PricesAged, WorldTyped
<1> QED BY <1>1, <1>2, <1>3, <1>4, <1>5, <1>6, <1>7, <1>8 DEF FeedNext

-----------------------------------------------------------------------------
(* The services beside each other.                                             *)

(* The requests that are under way at the start of the other services' runs are  *)
(* typed as those of the route's own.                                            *)
LEMMA UnderWayTyped == UnderWay => RouteTypes
<1> SUFFICES ASSUME UnderWay PROVE RouteTypes
  OBVIOUS
<1> DEFINE k0 == CHOOSE k \in Identities : TRUE
<1>1. k0 \in Identities
  BY BackendAssumption DEF BackendAssumption
<1>2. Consistent
  <2>1. life \in [Ranks -> 0..Window] /\ ~ThresholdReached(life) /\ openFor \in 0..Cooldown
    BY SettingsAssumption DEF SettingsAssumption, UnderWay, NoFailures, Ranks, ThresholdReached
  <2>2. tripped = FALSE /\ halfOpen = FALSE /\ up \in BOOLEAN /\ calls \in [Requests -> {"idle", "posted", "probe"}]
    BY DEF UnderWay
  <2> QED BY <2>1, <2>2, Zenon DEF Consistent, TypeOK, ThresholdTrips, HalfOpenIsNotOpen
<1>3. asks \in [Requests -> Identities]
  BY <1>1 DEF UnderWay
<1>4. AsksTyped
  BY <1>3 DEF UnderWay, AsksTyped, Stages
<1>5. CachesKept /\ AnswersAreTrue /\ AnswerTyped
  BY DEF UnderWay, CachesKept, Kept, AnswersAreTrue, Silence, AnswerTyped
<1>6. Slots
  BY RouteAssumption DEF RouteAssumption, UnderWay, Slots
<1> QED BY <1>2, <1>4, <1>5, <1>6 DEF RouteTypes, RouteInv

BackendInv == RouteTypes /\ TickInv /\ StreamInv /\ FeedTypeOK /\ AuthInv /\ RoomsInv

(* A step of one service is a stutter of the others. *)
LEMMA OneServiceMoves ==
  ASSUME [BackendNext]_backendVars
  PROVE  /\ [RouteNext]_routeVars /\ [TickNext]_tickVars /\ [StreamNext]_streamVars
         /\ [FeedNext]_feedVars /\ [AuthNext]_authVars /\ [RoomsNext]_roomVars
  BY DEF BackendNext, backendVars, socketVars

(* Every service keeps its types, whatever the engine answers, whichever sources *)
(* fail and whatever clients and consumers do.                                  *)
THEOREM BackendTyped == BackendSpec => []BackendTypeOK
<1>1. BackendInit => BackendInv
  BY RouteTypesStart, UnderWayTyped, TickStarts, StreamStarts, FeedStarts, AuthStarts, RoomsStart, RoomsParts
  DEF BackendInit, BackendInv
<1>2. BackendInv => BackendTypeOK
  BY RouteTypesOK DEF BackendInv, BackendTypeOK, TickInv, StreamInv, AuthInv, RoomsInv
<1>3. BackendInv /\ [BackendNext]_backendVars => BackendInv'
  BY OneServiceMoves, RouteTypesKeep, TickKeeps, StreamKeeps, FeedKeeps, AuthKeeps, RoomsInvKeeps
  DEF BackendInv
<1> QED BY <1>1, <1>2, <1>3, PTL DEF BackendSpec
=============================================================================

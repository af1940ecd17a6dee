---------------------------- MODULE FeedIngestion ----------------------------
(***************************************************************************)
(* The live tape of one symbol: the poll loop of core-backend's            *)
(* tickIngestion.service.ts, the cascade of price sources behind it        *)
(* (forexData.service.ts), the ticks of the Pocket Option bridge and of    *)
(* the GitHub provider, and the engine status told to clients.             *)
(*                                                                         *)
(* Time passes in ticks of the poll interval; ages stop counting at Old.   *)
(***************************************************************************)
EXTENDS Naturals, Sequences

CONSTANTS
    MaxFailures,   \* MAX_CONSECUTIVE_ERRORS
    Ladder,        \* FEED_BACKOFF_LADDER_MS, in ticks
    ForcePoll,     \* FORCE_POLL_AGE_MS, in ticks
    Fresh,         \* the age below which a price counts as live (15 s)
    Covered,       \* the age below which Pocket Option covers a symbol (20 s)
    Hold,          \* the age below which a Pocket Option price is held (60 s)
    Old,           \* STALE_HOLD_MAX_AGE_MS: the age from which nothing is held
    CoolFailures,  \* SOURCE_COOLDOWN_FAILURES
    CoolDown       \* SOURCE_COOLDOWN_MS, in ticks

ASSUME FeedAssumption ==
    /\ MaxFailures \in Nat \ {0} /\ CoolFailures \in Nat \ {0} /\ CoolDown \in Nat
    /\ Ladder \in Seq(Nat \ {0}) /\ Len(Ladder) >= MaxFailures
    /\ {ForcePoll, Fresh, Covered, Hold, Old} \subseteq Nat \ {0}
    /\ ForcePoll <= Old /\ Fresh <= Covered /\ Covered <= Hold /\ Hold <= Old

VARIABLES
    kind,       \* getAssetSubType of the symbol: "otc" or "forex"
    streaming,  \* activeStreams has the symbol
    failures,   \* streamConsecutiveErrors, as far as the ladder goes
    wait,       \* how far nextAllowedPollAt is ahead
    degraded,   \* streamDegraded
    proxied,    \* streamDegradedProxy
    pollDue,        \* the poll interval has come round
    asking,     \* inFlightPolls: a poll waits for the HTTP sources
    poAge,      \* age of pocketOptionCache's price
    spotAge,    \* age of lastSpotCache's price
    tape,       \* who wrote the newest fresh tick of the ring...
    tapeAge,    \* ...and its age
    sourceFailures, \* sourceHealth.failCount of the HTTP sources
    rest,       \* how long they are left alone
    told,       \* the engine status last broadcast for this symbol
    live,       \* is the Pocket Option bridge connected and ONLINE?
    sourcesUp,         \* do the HTTP sources work?
    closed      \* is the forex market closed?

feedVars == <<kind, streaming, failures, wait, degraded, proxied, pollDue, asking, poAge,
              spotAge, tape, tapeAge, sourceFailures, rest, told, live, sourcesUp, closed>>
latches == <<failures, wait, degraded, proxied, told>>
ages == <<poAge, spotAge, tapeAge>>
world == <<kind, live, sourcesUp, closed>>
source == <<sourceFailures, rest>>

Older(a) == IF a < Old THEN a + 1 ELSE Old
Less(n) == IF n > 0 THEN n - 1 ELSE 0

FeedInit ==
    /\ kind \in {"otc", "forex"}
    /\ streaming = FALSE /\ failures = 0 /\ wait = 0
    /\ degraded = FALSE /\ proxied = FALSE /\ pollDue = FALSE /\ asking = FALSE
    /\ poAge = Old /\ spotAge = Old /\ tape = "nobody" /\ tapeAge = Old
    /\ sourceFailures = 0 /\ rest = 0 /\ told = "nothing"
    /\ live = FALSE /\ sourcesUp \in BOOLEAN /\ closed = FALSE

PoAuthority(age) == live /\ poAge < age

-----------------------------------------------------------------------------
(* mutant: consecutive failures are not counted *)
FailUncounted ==
    /\ failures' = 1 /\ wait' = Ladder[1]
    /\ UNCHANGED <<degraded, proxied, told>>

(* handleFeedFailure. *)
PollFails ==
    /\ failures' = IF failures < Len(Ladder) THEN failures + 1 ELSE failures
    /\ wait' = Ladder[failures']
    /\ IF failures' >= MaxFailures /\ ~degraded
       THEN degraded' = TRUE /\ told' = "DEGRADED"
       ELSE UNCHANGED <<degraded, told>>
    /\ UNCHANGED proxied

(* restoredFeedStatus: an OTC pair has recovered only on Pocket Option's own print. *)
Restored(from) == kind = "forex" \/ from = "po"

(* A poll that has a price: the incident ends, for an OTC pair only on the real one. *)
Recover(from) ==
    /\ failures' = 0 /\ wait' = 0
    /\ IF ~degraded THEN UNCHANGED <<degraded, proxied, told>>
       ELSE IF Restored(from)
       THEN degraded' = FALSE /\ proxied' = FALSE /\ told' = "ONLINE"
       ELSE proxied' = TRUE /\ told' = "DEGRADED" /\ UNCHANGED degraded

Write(from) == tape' = from /\ tapeAge' = 0
Silent == UNCHANGED <<tape, tapeAge>>

(* mutant: Pocket Option's authority is not looked at again after the await *)
AcceptBlindly(from) == Recover(from) /\ Write(from)

(* pollOnce with a live price at hand: Pocket Option is not written over. *)
Accept(from) ==
    /\ Recover(from)
    /\ IF live /\ (from = "po" \/ poAge < Fresh) THEN Silent ELSE Write(from)

-----------------------------------------------------------------------------
(* startSymbolStream: idempotent; it polls at once. *)
StartStream ==
    /\ ~streaming
    /\ streaming' = TRUE /\ pollDue' = TRUE
    /\ failures' = 0 /\ wait' = 0 /\ degraded' = FALSE /\ proxied' = FALSE
    /\ UNCHANGED <<told, asking, ages, tape, source, world>>

(* mutant: the cool-down of the sources never runs out *)
SecondKeepingRest ==
    /\ streaming /\ ~pollDue
    /\ pollDue' = TRUE
    /\ poAge' = Older(poAge) /\ spotAge' = Older(spotAge) /\ tapeAge' = Older(tapeAge)
    /\ wait' = Less(wait)
    /\ UNCHANGED <<streaming, failures, degraded, proxied, asking, tape,
                   sourceFailures, rest, told, world>>

Second ==
    /\ streaming /\ ~pollDue
    /\ pollDue' = TRUE
    /\ poAge' = Older(poAge) /\ spotAge' = Older(spotAge) /\ tapeAge' = Older(tapeAge)
    /\ wait' = Less(wait) /\ rest' = Less(rest)
    /\ UNCHANGED <<streaming, failures, degraded, proxied, asking, tape,
                   sourceFailures, told, world>>

(* pollLiveTick: a closed market pauses a forex pair; polls do not overlap; a feed *)
(* that lingers waits for nextAllowedPollAt, unless the tape is starved.           *)
MayPoll ==
    /\ ~closed /\ ~asking
    /\ failures >= MaxFailures /\ wait > 0 => tapeAge > ForcePoll

Idle == UNCHANGED <<latches, asking>> /\ Silent

(* A poll that is let through drops its throttle, and may end without a price. *)
Unthrottle ==
    /\ wait' = IF failures >= MaxFailures THEN 0 ELSE wait
    /\ UNCHANGED <<failures, degraded, proxied, told>>

(* pollOnce and getLiveSpotFresh as far as they need no network: Pocket Option's  *)
(* price, which counts as a failure once it is held, then the cached one, and the *)
(* HTTP sources unless they cool down.                                            *)
PollOnce ==
    IF PoAuthority(Covered) THEN Unthrottle /\ Silent /\ UNCHANGED asking
    ELSE IF poAge < Fresh THEN Accept("po") /\ UNCHANGED asking
    ELSE IF poAge < Hold THEN PollFails /\ Silent /\ UNCHANGED asking
    ELSE IF spotAge < Fresh THEN Accept("http") /\ UNCHANGED asking
    ELSE IF rest = 0 THEN asking' = TRUE /\ Unthrottle /\ Silent
    ELSE PollFails /\ Silent /\ UNCHANGED asking

Polls ==
    /\ pollDue
    /\ pollDue' = FALSE
    /\ IF MayPoll THEN PollOnce ELSE Idle
    /\ UNCHANGED <<streaming, poAge, spotAge, source, world>>

SourcesAnswer ==
    /\ asking /\ sourcesUp
    /\ Accept("http")
    /\ asking' = FALSE
    /\ spotAge' = 0 /\ sourceFailures' = 0 /\ rest' = 0
    /\ UNCHANGED <<streaming, pollDue, poAge, world>>

(* Every source failed: a price seen within Old is held, which is a failure too. *)
SourcesFail ==
    /\ asking /\ ~sourcesUp
    /\ PollFails /\ Silent
    /\ asking' = FALSE
    /\ sourceFailures' = IF sourceFailures < CoolFailures THEN sourceFailures + 1 ELSE sourceFailures
    /\ rest' = IF sourceFailures' = CoolFailures THEN CoolDown ELSE 0
    /\ UNCHANGED <<streaming, pollDue, poAge, spotAge, world>>

(* ingestTick: a tick of the Pocket Option bridge. *)
PoTick ==
    /\ live
    /\ poAge' = 0 /\ spotAge' = 0 /\ Write("po")
    /\ UNCHANGED <<streaming, latches, pollDue, asking, source, world>>

(* The GitHub provider delivers a tick; forexData's own poll of the repository *)
(* only feeds the cache.                                                       *)
GithubTick ==
    /\ streaming /\ sourcesUp
    /\ Write("github")
    /\ UNCHANGED <<streaming, latches, pollDue, asking, poAge, spotAge, source, world>>

RepositoryPolled ==
    /\ sourcesUp /\ spotAge # 0
    /\ spotAge' = 0
    /\ UNCHANGED <<streaming, latches, pollDue, asking, poAge, tape, tapeAge, source, world>>

WorldChanges ==
    /\ UNCHANGED kind
    /\ \/ live' = ~live /\ UNCHANGED <<sourcesUp, closed>>
       \/ sourcesUp' = ~sourcesUp /\ UNCHANGED <<live, closed>>
       \/ kind = "forex" /\ closed' = ~closed /\ UNCHANGED <<live, sourcesUp>>
    /\ UNCHANGED <<streaming, latches, pollDue, asking, ages, tape, source>>

FeedNext ==
    \/ StartStream \/ Second \/ Polls \/ SourcesAnswer \/ SourcesFail
    \/ PoTick \/ GithubTick \/ RepositoryPolled \/ WorldChanges

(* The interval fires; a request ends within its timeout. *)
FeedFairness ==
    WF_feedVars(Second) /\ WF_feedVars(Polls) /\ WF_feedVars(SourcesAnswer \/ SourcesFail)

FeedSpec == FeedInit /\ [][FeedNext]_feedVars /\ FeedFairness

-----------------------------------------------------------------------------
FeedTypeOK ==
    /\ kind \in {"otc", "forex"}
    /\ failures \in 0..Len(Ladder) /\ wait \in Nat
    /\ {streaming, degraded, proxied, pollDue, asking, live, sourcesUp, closed} \subseteq BOOLEAN
    /\ {poAge, spotAge, tapeAge} \subseteq 0..Old
    /\ tape \in {"nobody", "po", "http", "github"}
    /\ sourceFailures \in 0..CoolFailures /\ rest \in 0..CoolDown
    /\ told \in {"nothing", "ONLINE", "DEGRADED"}

(* The latch and what clients were told agree through every incident: DEGRADED *)
(* when it begins, ONLINE when it ends, never an incident nobody heard of.     *)
ToldWhatIsLatched == degraded <=> told = "DEGRADED"

(* HTTP prices never write over Pocket Option's while it is the authority, even *)
(* when it came back while they were fetched.                                   *)
HttpYieldsToPo ==
    [][(tape' = "http" /\ tape # "http") => ~PoAuthority(Fresh)]_feedVars

(* "The stream loop never stops": while the sources work, the tape goes on. *)
FeedResumes == []<>(~(streaming /\ sourcesUp /\ ~closed)) \/ []<>(tapeAge = 0)

(* An outage is told: with every source gone for good, clients hear DEGRADED. *)
OutageIsTold ==
    []<>(~streaming \/ closed \/ sourcesUp \/ live) \/ []<>(told = "DEGRADED")

(* "The eventual genuine Pocket Option recovery still flips the engine back to *)
(* ONLINE": no incident lasts while Pocket Option is the authority for good.    *)
PoRecoveryIsOnline == []<>(~(streaming /\ PoAuthority(Covered))) \/ []<>(~degraded)
=============================================================================

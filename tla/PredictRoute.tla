------------------------------ MODULE PredictRoute ------------------------------
(***************************************************************************)
(* POST /predict of core-backend (controllers/signal.controller.ts): the   *)
(* handler looks into its result cache, awaits the market, asks the        *)
(* circuit breaker, posts to the AI engine with retries, and answers with  *)
(* the verdict, with the last good one marked stale, or with none.         *)
(*                                                                         *)
(* The breaker is EngineCircuit, whose steps the handler's are.  A verdict *)
(* enters the two caches (predictCache and lastGoodCache) at the same      *)
(* moment, so that one entry, with what remains of the longer life, serves *)
(* for both.                                                               *)
(***************************************************************************)
EXTENDS EngineCircuit

CONSTANTS
    Identities,     \* buildPredictCacheKey: symbol, frame, filters and horizon
    CacheTtl,       \* PREDICT_CACHE_TTL_MS, in ticks
    LastGoodTtl,    \* LAST_GOOD_TTL_MS, in ticks
    MaxRetries      \* PREDICT_MAX_RETRIES: posts of one request

(* The last good verdict is kept for 15 seconds at least, the cached one for 5. *)
ASSUME RouteAssumption ==
    /\ CacheTtl \in Nat \ {0} /\ MaxRetries \in Nat \ {0}
    /\ LastGoodTtl \in Nat /\ CacheTtl <= LastGoodTtl

VARIABLES
    asks,       \* what each request asks for
    stage,      \* where it is
    tries,      \* how often it has been posted
    good,       \* the caches
    answer      \* what the step has answered

routeVars == <<vars, asks, stage, tries, good, answer>>

(* executable is what the engine has said, age the ticks since (history).      *)
Verdict == [of : Identities, kept : 1..LastGoodTtl, age : Nat, executable : BOOLEAN]
Nothing == [kept |-> 0]

Silence == [kind |-> "silence"]
Answer == [kind : {"fresh", "stale"}, to : Identities, verdict : Verdict, executable : BOOLEAN]
          \cup [kind : {"waiting", "failed"}, to : Identities]

RouteTypeOK ==
    /\ TypeOK
    /\ asks \in [Requests -> Identities \cup {"nothing"}]
    /\ stage \in [Requests -> {"idle", "market", "engine", "pause"}]
    /\ tries \in [Requests -> 0..MaxRetries]
    /\ \A r \in Requests :
        /\ stage[r] # "idle" => asks[r] \in Identities
        /\ calls[r] # "idle" <=> stage[r] \in {"engine", "pause"}
    /\ good \in [Identities -> Verdict \cup {Nothing}]
    /\ answer \in Answer \cup {Silence}

RouteInit ==
    /\ Init
    /\ asks = [r \in Requests |-> "nothing"]
    /\ stage = [r \in Requests |-> "idle"]
    /\ tries = [r \in Requests |-> 0]
    /\ good = [k \in Identities |-> Nothing]
    /\ answer = Silence

-----------------------------------------------------------------------------
Goes(r, s) == stage' = [stage EXCEPT ![r] = s]
Replies(r, a) ==
    /\ Goes(r, "idle") /\ tries' = [tries EXCEPT ![r] = 0]
    /\ asks' = [asks EXCEPT ![r] = "nothing"] /\ answer' = a

Has(k) == good[k].kept > 0                                  \* getLastGoodPredict
Cached(k) == good[k].kept > LastGoodTtl - CacheTtl          \* getCachedPredict

Unmarked(k, v) == [kind |-> "fresh", to |-> k, verdict |-> v, executable |-> v.executable]
Waiting(k) == [kind |-> "waiting", to |-> k]
Failed(k) == [kind |-> "failed", to |-> k]

(* buildStaleFallbackPayload: it is tradable if it was, and if the price and    *)
(* the volatility read by this request are within bounds.                      *)
Stale(k, safe) ==
    [kind |-> "stale", to |-> k, verdict |-> good[k],
     executable |-> good[k].executable /\ safe]

(* mutant: what is served is stored again *)
FallBackStored(r) ==
    IF Has(asks[r])
    THEN /\ \E safe \in BOOLEAN : Replies(r, Stale(asks[r], safe))
         /\ good' = [good EXCEPT ![asks[r]].kept = LastGoodTtl]
    ELSE Replies(r, Failed(asks[r])) /\ UNCHANGED good

(* The end of the catch block. *)
FallBack(r) ==
    /\ IF Has(asks[r])
       THEN \E safe \in BOOLEAN : Replies(r, Stale(asks[r], safe))
       ELSE Replies(r, Failed(asks[r]))
    /\ UNCHANGED good

-----------------------------------------------------------------------------
ServeCached(r, k) ==
    /\ stage[r] = "idle" /\ Cached(k)
    /\ answer' = Unmarked(k, good[k])
    /\ UNCHANGED <<vars, asks, stage, tries, good>>

Begin(r, k) ==
    /\ stage[r] = "idle" /\ ~Cached(k)
    /\ Goes(r, "market") /\ asks' = [asks EXCEPT ![r] = k] /\ answer' = Silence
    /\ UNCHANGED <<vars, tries, good>>

(* No live quote, or not enough real bars. *)
MarketUnknown(r) ==
    /\ stage[r] = "market"
    /\ Replies(r, Waiting(asks[r]))
    /\ UNCHANGED <<vars, good>>

Ask(r) ==
    /\ stage[r] = "market" /\ Admit(r)
    /\ Goes(r, "engine") /\ tries' = [tries EXCEPT ![r] = 1] /\ answer' = Silence
    /\ UNCHANGED <<asks, good>>

AskRefused(r) == stage[r] = "market" /\ Refuse(r) /\ FallBack(r)

(* postWithRetry: a failure that may pass is tried again, after a pause, and    *)
(* without asking the breaker.                                                 *)
AttemptFails(r) ==
    /\ stage[r] = "engine" /\ ~up /\ tries[r] < MaxRetries
    /\ Goes(r, "pause") /\ answer' = Silence
    /\ UNCHANGED <<vars, asks, tries, good>>

PostAgain(r) ==
    /\ stage[r] = "pause"
    /\ Goes(r, "engine") /\ tries' = [tries EXCEPT ![r] = @ + 1] /\ answer' = Silence
    /\ UNCHANGED <<vars, asks, good>>

(* A verdict with a direction, and with a confidence, a target and a horizon    *)
(* that are valid.                                                             *)
Answers(r) ==
    /\ stage[r] = "engine" /\ Succeed(r)
    /\ \E e \in BOOLEAN :
        LET v == [of |-> asks[r], kept |-> LastGoodTtl, age |-> 0, executable |-> e]
        IN good' = [good EXCEPT ![asks[r]] = v] /\ Replies(r, Unmarked(asks[r], v))

(* An answer that lacks one of them.                                           *)
Undecided(r) ==
    /\ stage[r] = "engine" /\ Unrecorded(r)
    /\ Replies(r, Waiting(asks[r])) /\ UNCHANGED good

(* A permanent error, or one of the handler's own. *)
Rejected(r) == stage[r] = "engine" /\ Unrecorded(r) /\ FallBack(r)

(* The last attempt fails, or one that is not worth another: nothing listens.   *)
PostFails(r) == stage[r] = "engine" /\ Fail(r) /\ FallBack(r)

Aged(v) == IF v.kept > 1 THEN [v EXCEPT !.kept = @ - 1, !.age = @ + 1] ELSE Nothing

TimePasses ==
    /\ Tick
    /\ good' = [k \in Identities |-> Aged(good[k])] /\ answer' = Silence
    /\ UNCHANGED <<asks, stage, tries>>

EngineTurns == EngineChanges /\ answer' = Silence /\ UNCHANGED <<asks, stage, tries, good>>

RouteNext ==
    \/ \E r \in Requests :
        \/ \E k \in Identities : ServeCached(r, k) \/ Begin(r, k)
        \/ MarketUnknown(r) \/ Ask(r) \/ AskRefused(r)
        \/ AttemptFails(r) \/ PostAgain(r)
        \/ Answers(r) \/ Undecided(r) \/ Rejected(r) \/ PostFails(r)
    \/ TimePasses
    \/ EngineTurns

RouteSpec == RouteInit /\ [][RouteNext]_routeVars

(* What a client that polls makes the handler do in the end. *)
HandlerMoves(r) == (\E k \in Identities : Begin(r, k)) \/ AskRefused(r) \/ PostAgain(r) \/ PostFails(r)

-----------------------------------------------------------------------------
(* What a client is answered is what the engine has said of what it asked: a    *)
(* verdict that is not marked is younger than the cache's life, one marked      *)
(* stale younger than the last good one's, neither is tradable unless the       *)
(* engine made it so, and a failure is only shown when no such verdict exists:  *)
(* through all hits, fallbacks and answers that come in another order.          *)
AnswersAreTrue ==
    /\ answer.kind \in {"fresh", "stale"} =>
        /\ answer.verdict.of = answer.to
        /\ answer.executable => answer.verdict.executable
        /\ answer.verdict.age < (IF answer.kind = "fresh" THEN CacheTtl ELSE LastGoodTtl)
    /\ answer.kind = "failed" => good[answer.to] = Nothing
=============================================================================

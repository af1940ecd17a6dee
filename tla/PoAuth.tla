-------------------------------- MODULE PoAuth ---------------------------------
(***************************************************************************)
(* A Pocket Option session that dies, and what core-backend does about it: *)
(* the status of the relay as pocketOptionBridge.service.ts takes it, the  *)
(* refreshes of poAuthManager.ts, which run refresh_ssid.py and, as a last *)
(* resort, log in with a password, and the alerts of poSessionMonitor.     *)
(*                                                                         *)
(* PO_AUTH_NODE_TRIGGER is set and the credential tier is open: otherwise  *)
(* nothing logs in.  Time goes by in beats, the polls of the monitor.      *)
(***************************************************************************)
EXTENDS Naturals, FiniteSetsExt

CONSTANTS
    MaxLogins,      \* MAX_CONSECUTIVE_LOGIN_FAILURES
    BackoffCap,     \* BACKOFF_CAP_MS, in beats; the base is one
    StaleAfter,     \* PO_SESSION_STALE_ALERT_MIN, in beats
    MaxTroubles     \* bound: sessions that die, restarts, late frames, runs that hang

ASSUME AuthAssumption ==
    /\ MaxLogins \in Nat \ {0} /\ BackoffCap \in Nat \ {0}
    /\ StaleAfter \in Nat \ {0} /\ MaxTroubles \in Nat

VARIABLES
    relay,      \* the status of the bridge
    lastStatus, \* lastRelayStatus
    auth,       \* the fields of PoAuthManager
    run,        \* the run of refresh_ssid.py, and whether it logs in
    monitor,    \* the fields of PoSessionMonitor: invalidSince as an age
    past,       \* since a human or a login that worked: logins, and runs cut short
    troubles

authVars == <<relay, lastStatus, auth, run, monitor, past, troubles>>

Never == BackoffCap + 1             \* lastAttemptAt = 0
Quiet(age) == [logins |-> 0, refreshes |-> 0, open |-> FALSE, reason |-> "none",
               challenge |-> FALSE, age |-> age]
NoRun == [by |-> "none", login |-> FALSE]
Watching == [since |-> 0, alert |-> FALSE]
NoLogins == [logins |-> 0, cut |-> 0, challenge |-> FALSE]

Auths == [logins : 0..MaxLogins, refreshes : 0..BackoffCap, open : BOOLEAN,
          reason : {"none", "max_login_failures", "captcha_or_2fa"},
          challenge : BOOLEAN, age : 0..Never]
RefreshRuns == [by : {"none", "auto", "human"}, login : BOOLEAN]
Pasts == [logins : Nat, cut : 0..MaxTroubles, challenge : BOOLEAN]

AuthTypeOK ==
    /\ relay \in {"connected", "session_expired"}
    /\ lastStatus \in {"connected", "session_expired", "connecting"}
    /\ auth \in Auths /\ run \in RefreshRuns /\ past \in Pasts
    /\ monitor \in [since : 0..(StaleAfter + 1), alert : BOOLEAN]
    /\ troubles \in 0..MaxTroubles
    /\ auth.challenge => auth.open

AuthInit ==
    /\ relay = "connected" /\ lastStatus = "connected"
    /\ auth = Quiet(Never) /\ run = NoRun /\ monitor = Watching
    /\ past = NoLogins /\ troubles = MaxTroubles

Trouble == troubles > 0 /\ troubles' = troubles - 1

-----------------------------------------------------------------------------
(* What the relay says.                                                        *)

(* The session dies: the bridge says so to whoever is connected, and says so    *)
(* again at every attempt of a reader.                                         *)
SessionDies ==
    /\ relay = "connected" /\ Trouble
    /\ relay' = "session_expired"
    /\ UNCHANGED <<lastStatus, auth, run, monitor, past>>

CurrentBackoff == Min({BackoffCap, 2 ^ Min({auth.refreshes, 5})})

(* maybeAutoRefresh: not while the circuit is open or a challenge is pending,   *)
(* not while a refresh runs, not before the backoff is over.                   *)
AutoRefresh ==
    IF auth.open \/ auth.challenge \/ run # NoRun \/ auth.age < CurrentBackoff
    THEN UNCHANGED run
    ELSE run' = [by |-> "auto", login |-> FALSE]

(* A frame "status"; a session that has expired is to be refreshed.             *)
HandleStatus ==
    /\ lastStatus' = relay
    /\ IF relay = "session_expired" THEN AutoRefresh ELSE UNCHANGED run
    /\ UNCHANGED <<relay, auth, monitor, past, troubles>>

(* mutant: a heartbeat refreshes the age of the heartbeat alone                 *)
HeartbeatIgnored == UNCHANGED authVars

(* A heartbeat carries the status too, and refreshes nothing.                   *)
HandleHeartbeat ==
    /\ lastStatus' = relay
    /\ UNCHANGED <<relay, auth, run, monitor, past, troubles>>

(* A tick that was still under way, or the `ready` that greets a new            *)
(* connection: both count as proof of a session.                               *)
LateProof ==
    /\ relay = "session_expired" /\ Trouble
    /\ lastStatus' = "connected"
    /\ UNCHANGED <<relay, auth, run, monitor, past>>

(* The connection to the relay is lost and made again: what the relay said in   *)
(* between has gone.                                                           *)
LinkFlaps ==
    /\ Trouble
    /\ lastStatus' = "connecting"
    /\ UNCHANGED <<relay, auth, run, monitor, past>>

-----------------------------------------------------------------------------
(* Refreshes.                                                                  *)

(* resetBreaker, which a human alone calls.                                     *)
ResetBreaker ==
    /\ auth' = Quiet(auth.age)
    /\ past' = [logins |-> IF run.login THEN 1 ELSE 0, cut |-> 0, challenge |-> FALSE]

HumanResets ==
    /\ Trouble /\ ResetBreaker
    /\ UNCHANGED <<relay, lastStatus, run, monitor>>

(* refresh with humanReset, refused while one is under way.                     *)
HumanRefreshes ==
    /\ run = NoRun /\ Trouble /\ ResetBreaker
    /\ run' = [by |-> "human", login |-> FALSE]
    /\ UNCHANGED <<relay, lastStatus, monitor>>

(* The stored session has yielded nothing: the script says that it logs in.     *)
ScriptLogsIn ==
    /\ run.by # "none" /\ ~run.login
    /\ run' = [run EXCEPT !.login = TRUE]
    /\ past' = [past EXCEPT !.logins = @ + 1]
    /\ UNCHANGED <<relay, lastStatus, auth, monitor, troubles>>

(* mutant: a failed run counts only if it names the login as its method         *)
FailedUncounted ==
    [auth EXCEPT !.age = 0, !.refreshes = Min({@ + 1, BackoffCap})]

(* applyOutcome of a run that has failed.                                       *)
FailedOutcome ==
    LET logins == IF run.login THEN auth.logins + 1 ELSE auth.logins
        out == run.login /\ logins >= MaxLogins
    IN [auth EXCEPT !.age = 0, !.refreshes = Min({@ + 1, BackoffCap}), !.logins = Min({logins, MaxLogins}),
                    !.open = @ \/ out, !.reason = IF out THEN "max_login_failures" ELSE @]

(* ... of one that met a captcha or a second factor.                            *)
Challenged ==
    [auth EXCEPT !.age = 0, !.challenge = TRUE, !.open = TRUE, !.reason = "captcha_or_2fa"]

(* ... and of one that has a new session: the circuit closes if it was a login,  *)
(* or if failed logins had opened it.                                          *)
Succeeded ==
    IF run.login \/ auth.reason = "max_login_failures"
    THEN [auth EXCEPT !.age = 0, !.refreshes = 0, !.logins = 0, !.open = FALSE, !.reason = "none"]
    ELSE [auth EXCEPT !.age = 0, !.refreshes = 0]

Ends == run.by # "none" /\ run' = NoRun

RunFails ==
    /\ Ends /\ auth' = FailedOutcome
    /\ UNCHANGED <<relay, lastStatus, monitor, past, troubles>>

RunIsChallenged ==
    /\ Ends /\ run.login /\ auth' = Challenged
    /\ past' = [past EXCEPT !.challenge = TRUE]
    /\ UNCHANGED <<relay, lastStatus, monitor, troubles>>

(* The bridge reads the new session and connects.                               *)
RunSucceeds ==
    /\ Ends /\ auth' = Succeeded
    /\ past' = IF run.login THEN [NoLogins EXCEPT !.challenge = past.challenge] ELSE past
    /\ relay' = "connected"
    /\ UNCHANGED <<lastStatus, monitor, troubles>>

(* The run is killed after REFRESH_TIMEOUT_MS, or could not be started: it is    *)
(* recorded for the page of the operator only.                                 *)
RunIsCutShort ==
    /\ Ends /\ Trouble
    /\ past' = IF run.login THEN [past EXCEPT !.cut = @ + 1] ELSE past
    /\ UNCHANGED <<relay, lastStatus, auth, monitor>>

-----------------------------------------------------------------------------
(* The monitor's poll, a beat after the last.                                   *)
Poll ==
    /\ auth' = [auth EXCEPT !.age = Min({@ + 1, Never})]
    /\ monitor' =
        IF lastStatus = "session_expired"
        THEN [since |-> Min({monitor.since + 1, StaleAfter + 1}),
              alert |-> monitor.alert \/ monitor.since >= StaleAfter]
        ELSE IF monitor.since # 0 /\ lastStatus # "connected" THEN monitor ELSE Watching
    /\ UNCHANGED <<relay, lastStatus, run, past, troubles>>

(* core-backend starts again: it has forgotten everything.                      *)
BackendForgets ==
    /\ Trouble
    /\ auth' = Quiet(Never) /\ run' = NoRun /\ monitor' = Watching /\ lastStatus' = "connecting"
    /\ past' = NoLogins
    /\ UNCHANGED relay

AuthNext ==
    \/ SessionDies \/ HandleStatus \/ HandleHeartbeat \/ LateProof \/ LinkFlaps
    \/ HumanResets \/ HumanRefreshes
    \/ ScriptLogsIn \/ RunFails \/ RunIsChallenged \/ RunSucceeds \/ RunIsCutShort
    \/ Poll \/ BackendForgets

AuthFairness == WF_authVars(HandleHeartbeat) /\ WF_authVars(Poll)

AuthSpec == AuthInit /\ [][AuthNext]_authVars /\ AuthFairness

-----------------------------------------------------------------------------
(* Nobody hammers the login page: until a human looks at it, core-backend logs   *)
(* in at most MaxLogins times in a row without success, but for the runs that    *)
(* were cut short, and never again after a captcha.  The bound holds for the     *)
(* life of a process, whose restart forgets it.                                 *)
LoginsHalt ==
    /\ past.logins <= MaxLogins + past.cut
    /\ past.challenge => run.by = "none"

(* A session that stays dead raises the alarm, whatever frame was lost or late.  *)
ExpiryIsAlerted ==
    (relay = "session_expired") ~> (monitor.alert \/ relay = "connected")
=============================================================================

------------------------------- MODULE MCStreams -------------------------------
(* Two parts by which a stream of Pocket Option reaches a page, for TLC.  They      *)
(* share no state; one of them runs in each behaviour, the other stays as it starts: *)
(*   bridge   the bridge, its readers and the client of core-backend               *)
(*   watch    how a page knows that its stream is alive                            *)
EXTENDS PoBridge, StreamWatch

VARIABLE part

bridge == part = "bridge"
watch == part = "watch"

StreamsInit ==
    /\ part \in {"bridge", "watch"}
    /\ BridgeInit /\ WatchInit
    /\ watch => session.cred = "good" /\ broker

(* The pairs that browsers ask for are alike: one of them is the first.           *)
First == CHOOSE s \in Asked : TRUE
FirstComesFirst == bounds.asks = MaxAsks => wanted' \subseteq {First}

StreamsNext ==
    /\ UNCHANGED part
    /\ \/ bridge /\ BridgeNext /\ FirstComesFirst /\ UNCHANGED watchVars
       \/ watch /\ WatchNext /\ UNCHANGED bridgeVars

(* The fairness of each part, while it runs.                                      *)
StreamsFairness ==
    /\ WF_bridgeVars(bridge /\ Backend) /\ WF_bridgeVars(bridge /\ Relay)
    /\ WF_bridgeVars(bridge /\ Handlers) /\ WF_bridgeVars(bridge /\ Keepers)
    /\ WF_bridgeVars(bridge /\ BrokerReturns)
    /\ \A s \in Pairs : WF_bridgeVars(bridge /\ Reading(s) /\ reader'[s] # reader[s])
    /\ WF_watchVars(watch /\ (Beat \/ Sweep \/ Watch))

StreamsSpec ==
    StreamsInit /\ [][StreamsNext]_<<part, bridgeVars, watchVars>> /\ StreamsFairness

-----------------------------------------------------------------------------
(* The types of both parts: among them that a reader never holds the client of     *)
(* another pair, and that a page without a connection shows no stream as stalled.  *)
StreamsTypeOK == BridgeTypeOK /\ WatchTypeOK
=============================================================================

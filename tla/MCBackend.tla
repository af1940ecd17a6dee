------------------------------- MODULE MCBackend -------------------------------
(* Services of core-backend that share no state, for TLC.  One of them runs in   *)
(* each behaviour, while the others stay where they are: the /predict route with  *)
(* its requests under way, the others as they start.                             *)
EXTENDS PredictRoute, TickDispatch, DurableSignals, MCFeedIngestion, PoAuth, ChartRooms

(* A /predict request asks for something. *)
ASSUME BackendAssumption == Identities # {}

VARIABLE service    \* the one that runs

route == service = "route"
dispatch == service = "dispatch"
durable == service = "durable"
feed == service = "feed"
authn == service = "auth"
rooms == service = "rooms"

V(dir, conf, tier) ==
    [dir |-> dir, conf |-> conf, waiting |-> FALSE, tier |-> tier, target |-> TRUE]

(* Confidences in the bands signal_gatekeeper.py gives them, in steps smaller and *)
(* larger than Step, and an answer of every other sort.                           *)
SampleVerdicts ==
    {V("BUY", c, "T2") : c \in 90..92}
    \cup {V("SELL", 92, "T2"), V("BUY", 80, "T4"), V("BUY", 79, "T5"),
          [V("BUY", 92, "T2") EXCEPT !.target = FALSE],
          V("none", 0, "null"),
          [V("BUY", 91, "T2") EXCEPT !.waiting = TRUE]}

UnderWay ==
    /\ life = NoFailures /\ tripped = FALSE /\ openFor = 0 /\ halfOpen = FALSE
    /\ calls = [r \in Requests |-> "posted"] /\ up = TRUE
    /\ asks = [r \in Requests |-> CHOOSE k \in Identities : TRUE]
    /\ stage = [r \in Requests |-> "engine"] /\ tries = [r \in Requests |-> 1]
    /\ good = [k \in Identities |-> Nothing] /\ answer = Silence

(* The pages start with one symbol and one frame: others differ by their names.    *)
FirstViews ==
    [sym : {CHOOSE s \in Symbols : TRUE}, frame : {CHOOSE f \in Frames : TRUE}, chart : BOOLEAN]

BackendInit ==
    /\ service \in {"route", "dispatch", "durable", "feed", "auth", "rooms"}
    /\ IF route THEN RouteInit ELSE UnderWay
    /\ TickInit /\ StreamInit /\ FeedInit /\ AuthInit /\ RoomsInit
    /\ ~feed => sourcesUp /\ kind = "otc"
    /\ page \in {[c \in Clients |-> v] : v \in FirstViews}
    /\ ~rooms => \A c \in Clients : ~page[c].chart

socketVars == <<authVars, roomVars>>

BackendNext ==
    /\ UNCHANGED service
    /\ \/ route /\ RouteNext /\ UNCHANGED <<tickVars, streamVars, feedVars, socketVars>>
       \/ dispatch /\ TickNext /\ UNCHANGED <<routeVars, streamVars, feedVars, socketVars>>
       \/ durable /\ StreamNext /\ UNCHANGED <<routeVars, tickVars, feedVars, socketVars>>
       \/ feed /\ FeedNext /\ UNCHANGED <<routeVars, tickVars, streamVars, socketVars>>
       \/ authn /\ AuthNext /\ UNCHANGED <<routeVars, tickVars, streamVars, feedVars, roomVars>>
       \/ rooms /\ RoomsNext /\ UNCHANGED <<routeVars, tickVars, streamVars, feedVars, authVars>>

backendVars == <<service, routeVars, tickVars, streamVars, feedVars, socketVars>>

(* The fairness of each module, owed by the service that runs only: time does not *)
(* pass for the others and no process of theirs is started.                       *)
BackendFairness ==
    /\ WF_routeVars(route /\ TimePasses)
    /\ \A r \in Requests : WF_routeVars(route /\ HandlerMoves(r)) /\ SF_routeVars(route /\ Ask(r))
    /\ TickFairness
    /\ \A c \in Instances : WF_streamVars(durable /\ Runs(c))
    /\ WF_streamVars(\E e \in pel : GrowsIdle(e))
    /\ FeedFairness
    /\ WF_authVars(authn /\ HandleHeartbeat) /\ WF_authVars(authn /\ Poll)

BackendSpec == BackendInit /\ [][BackendNext]_backendVars /\ BackendFairness

-----------------------------------------------------------------------------
(* The types of every service: among them that the dispatcher has one request of  *)
(* a symbol under way at most, and that the stream keeps no more than its cap.    *)
BackendTypeOK ==
    /\ RouteTypeOK /\ TickTypeOK /\ StreamTypeOK /\ FeedTypeOK
    /\ AuthTypeOK /\ RoomsTypeOK
=============================================================================

--------------------------- MODULE MCExecutionGateway --------------------------
(* Instances of ExecutionGateway for TLC.                                      *)
EXTENDS ExecutionGateway

(* Two signals of one dedupe window. *)
TwoSignals == <<"signal", "signal">>
TwoEvents == {"e1", "e2"}
TwoEventsKeyOf == [e \in TwoEvents |-> "k1"]
TwoEventsEventOf == <<"e1", "e2">>

(* An entry that fails validation (recorded under its entry id) and a signal. *)
MixedEvents == {"x1", "e2"}
MixedKeyOf == [e \in MixedEvents |-> IF e = "e2" THEN "k1" ELSE "x1"]
MixedEventOf == <<"x1", "e2">>
InvalidKindOf == <<"invalid", "signal">>
=============================================================================

----------------------------- MODULE OrderContract -----------------------------
(***************************************************************************)
(* What the order gateway promises of the signals it is handed, whatever   *)
(* fails, is lost or restarted on the way: every event has one order at    *)
(* the venue at most, placed after a row of it was written; rows are never *)
(* deleted; and a signal is answered for good, once a row accounts for it. *)
(***************************************************************************)
EXTENDS Naturals

CONSTANTS
    Events,         \* what an order can be placed for
    VenueOutcomes,  \* how an open order may end at the venue
    Signals,        \* the stream's entries that carry a signal
    Answers         \* [Signals -> SUBSET Events]: the rows that account for one

VARIABLES
    recorded,       \* events with a row
    order,          \* [Events -> how many orders were placed, and how the last one stands]
    answered        \* signals that are not handed out again

contractVars == <<recorded, order, answered>>

Unplaced == [made |-> 0, status |-> "none"]

Init ==
    /\ recorded = {} /\ answered = {}
    /\ order = [e \in Events |-> Unplaced]

Write(e) ==
    /\ e \notin recorded
    /\ recorded' = recorded \cup {e}
    /\ UNCHANGED <<order, answered>>

Place(e) ==
    /\ e \in recorded /\ order[e] = Unplaced
    /\ order' = [order EXCEPT ![e] = [made |-> 1, status |-> "open"]]
    /\ UNCHANGED <<recorded, answered>>

Settle(e) ==
    /\ order[e].status = "open"
    /\ \E s \in VenueOutcomes : order' = [order EXCEPT ![e] = [made |-> 1, status |-> s]]
    /\ UNCHANGED <<recorded, answered>>

Answer(i) ==
    /\ i \notin answered
    /\ Answers[i] \cap recorded # {}
    /\ answered' = answered \cup {i}
    /\ UNCHANGED <<recorded, order>>

Next ==
    \/ \E e \in Events : Write(e) \/ Place(e) \/ Settle(e)
    \/ \E i \in Signals : Answer(i)

Spec == Init /\ [][Next]_contractVars
=============================================================================

---------------------------- MODULE ExpiryContract ----------------------------
(***************************************************************************)
(* What a signal lock promises about one identity (symbol, asset class,    *)
(* horizon, expiry): at most one verdict is in force at any time, it stays *)
(* in force, unchanged, until its own deadline, and the deadline is never  *)
(* further away than the expiry that was selected.                         *)
(***************************************************************************)
EXTENDS Naturals

CONSTANTS
    Signals,        \* the verdicts that can be contracts
    Expiry          \* the selected expiry

VARIABLES
    now,
    contract        \* the verdict in force, with its deadline

NoContract == [signal |-> "NONE", expires |-> 0]

Init == now = 0 /\ contract = NoContract

Commit ==
    /\ contract = NoContract
    /\ contract' \in [signal : Signals, expires : (now + 1)..(now + Expiry)]
    /\ UNCHANGED now

Matured(c, time) == c.expires <= time

Pass ==
    /\ now' = now + 1
    /\ contract' = IF Matured(contract, now') THEN NoContract ELSE contract

Next == Commit \/ Pass

Spec == Init /\ [][Next]_<<now, contract>>
=============================================================================

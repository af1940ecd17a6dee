--------------------------- MODULE DeliveryContract ---------------------------
(***************************************************************************)
(* What the durable stream promises of the broadcasts it is handed: an     *)
(* entry gets one row at most, which is never rewritten or removed; the    *)
(* newest Kept entries are not trimmed; and an entry is released for good, *)
(* once it has its row, cannot be read or was trimmed.                     *)
(***************************************************************************)
EXTENDS Integers

CONSTANTS
    Entries,    \* numbers of the entries, in stream order
    Kept        \* how many of the newest are not trimmed

VARIABLES
    appended,   \* the newest entry
    unreadable, \* entries that hold no signal
    trimmed,    \* entries the stream has dropped
    rows,       \* how many rows each entry has
    released    \* entries that are not handed out again

deliveryVars == <<appended, unreadable, trimmed, rows, released>>

Init ==
    /\ appended = 0
    /\ unreadable = {} /\ trimmed = {} /\ released = {}
    /\ rows = [e \in Entries |-> 0]

Append ==
    /\ appended' = appended + 1
    /\ unreadable' \in {unreadable, unreadable \cup {appended'}}
    /\ \E beyond \in SUBSET (1..appended' - Kept) : trimmed' = trimmed \cup beyond
    /\ UNCHANGED <<rows, released>>

Store(e) ==
    /\ e \in 1..appended /\ e \notin unreadable /\ rows[e] = 0
    /\ rows' = [rows EXCEPT ![e] = 1]
    /\ UNCHANGED <<appended, unreadable, trimmed, released>>

MayGo(e) == rows[e] > 0 \/ e \in unreadable \cup trimmed

Release ==
    /\ \E gone \in SUBSET {e \in 1..appended : MayGo(e)} : released' = released \cup gone
    /\ UNCHANGED <<appended, unreadable, trimmed, rows>>

Next ==
    \/ Append
    \/ \E e \in Entries : Store(e)
    \/ Release

Spec == Init /\ [][Next]_deliveryVars
=============================================================================

------------------------------ MODULE CandleTape -------------------------------
(***************************************************************************)
(* The candles of one symbol and one frame in core-backend                 *)
(* (services/realtimeCandleAggregator.service.ts, with the rows that        *)
(* services/historyCollector.service.ts stores).                           *)
(*                                                                         *)
(* Every tick that is broadcast goes to the bar that is open, or to the    *)
(* last one closed if it is late; a sweep closes bars by the clock of the  *)
(* newest stamp of ALL symbols.  At boot the minute bars a collector has   *)
(* stored are read, rolled up and merged into the closed ones, while live  *)
(* ticks already come in.                                                  *)
(*                                                                         *)
(* A tick is its number; its stamp is of the broker's clock, two hours     *)
(* ahead, or of the local one when an HTTP source serves the symbol.  A    *)
(* bar keeps the ticks it was made of and the one its close is from.      *)
(***************************************************************************)
EXTENDS Integers, SequencesExt

CONSTANTS
    Minute,         \* HISTORY_MINUTE_MS
    Width,          \* of the frame: TF_MS
    Reorder,        \* REORDER_MS
    Ahead,          \* of the broker's clock
    MaxClosed,      \* MAX_CLOSED_PER_TF
    MaxClock,       \* bound: the last instant
    MaxTicks,       \* bound: ticks
    MaxBoots        \* bound: starts of the process

ASSUME TapeAssumption ==
    /\ {Minute, Width, MaxClosed, MaxClock, MaxBoots} \subseteq Nat \ {0}
    /\ Width % Minute = 0
    /\ {Reorder, Ahead, MaxTicks} \subseteq Nat

VARIABLES
    clock,      \* the local clock
    stamps,     \* the ticks so far: their stamps
    held,       \* the last of the broker, which the bridge repeats
    newest,     \* [stamp, ahead]: latestTsMs and clockOffsetMs
    open,       \* the bar that forms, or NoBar
    closed,     \* the bars that are closed
    due,        \* the boot backfill has yet to come
    boots,      \* starts of the process
    since       \* history: the first tick of this tape

tapeVars == <<clock, stamps, held, newest, open, closed, due, boots, since>>

NoBar == [start |-> -1]
Silent == [stamp |-> 0, ahead |-> 0]

Ticks == 1..MaxTicks
Bar == [start : Nat, seen : (SUBSET Ticks) \ {{}}, last : Ticks]

TapeTypeOK ==
    /\ clock \in 0..MaxClock
    /\ stamps \in Seq(Nat) /\ Len(stamps) <= MaxTicks
    /\ held \in 0..Len(stamps)
    /\ newest \in [stamp : Nat, ahead : Int]
    /\ open \in Bar \cup {NoBar}
    /\ closed \in Seq(Bar) /\ Len(closed) <= MaxClosed
    /\ due \in BOOLEAN
    /\ boots \in 1..MaxBoots
    /\ since \in 1..(MaxTicks + 1)

TapeInit ==
    /\ clock = 1 /\ stamps = <<>> /\ held = 0
    /\ newest = Silent /\ open = NoBar /\ closed = <<>>
    /\ due = TRUE /\ boots = 1 /\ since = 1

-----------------------------------------------------------------------------
Floor(t, width) == (t \div width) * width       \* floorBucket

(* mutant: the cap is checked before the bar is added *)
LatestAndOne(bars, n) ==
    SubSeq(bars, (IF Len(bars) > n + 1 THEN Len(bars) - n ELSE 0) + 1, Len(bars))

Latest(bars, n) == SubSeq(bars, (IF Len(bars) > n THEN Len(bars) - n ELSE 0) + 1, Len(bars))
Extended(bar, seen, last) == [bar EXCEPT !.seen = @ \cup seen, !.last = last]

(* closeBucket: a bar of the window of the last one extends it (SEAM GUARD).   *)
Closed(bar, bars) ==
    IF bars # <<>> /\ Last(bars).start = bar.start
    THEN [bars EXCEPT ![Len(bars)] = Extended(@, bar.seen, bar.last)]
    ELSE Latest(Append(bars, bar), MaxClosed)

(* addTick, of tick n: before it, the newest stamp moves on.                  *)
AddTick(n, stamp) ==
    LET start == Floor(stamp, Width)
        opened == [start |-> start, seen |-> {n}, last |-> n]
        recent == newest'.stamp - stamp <= Reorder
    IN CASE open = NoBar -> open' = opened /\ UNCHANGED closed
         [] open # NoBar /\ start = open.start ->
                open' = Extended(open, {n}, n) /\ UNCHANGED closed
         [] open # NoBar /\ start > open.start ->
                open' = opened /\ closed' = Closed(open, closed)
         [] OTHER ->
                /\ closed' = IF closed # <<>> /\ Last(closed).start = start /\ recent
                             THEN [closed EXCEPT ![Len(closed)] = Extended(@, {n}, n)]
                             ELSE closed
                /\ UNCHANGED open

Seen(stamp) ==
    newest' = IF stamp > newest.stamp
              THEN [stamp |-> stamp, ahead |-> stamp - clock] ELSE newest

Arrives(stamp) ==
    /\ Len(stamps) < MaxTicks
    /\ stamps' = Append(stamps, stamp)
    /\ Seen(stamp) /\ AddTick(Len(stamps'), stamp)
    /\ UNCHANGED <<clock, due, boots, since>>

BrokerTick == Arrives(clock + Ahead) /\ held' = Len(stamps')

(* A source of the fallback cascade, while the broker is away.                 *)
HttpTick == Arrives(clock) /\ UNCHANGED held

(* The bridge repeats its last tick, old stamp and all, when it subscribes.    *)
HeldTick ==
    /\ held > 0
    /\ Seen(stamps[held]) /\ AddTick(held, stamps[held])
    /\ UNCHANGED <<clock, stamps, held, due, boots, since>>

(* A tick of another symbol, on the broker's clock.                            *)
OtherTick ==
    /\ Seen(clock + Ahead)
    /\ UNCHANGED <<clock, stamps, held, open, closed, due, boots, since>>

Sweep ==
    /\ newest.stamp > 0 /\ open # NoBar
    /\ clock + newest.ahead >= open.start + Width + Reorder
    /\ closed' = Closed(open, closed) /\ open' = NoBar
    /\ UNCHANGED <<clock, stamps, held, newest, due, boots, since>>

(* removeSymbol: the last subscriber of the symbol leaves.                     *)
LastLeaves ==
    /\ open' = NoBar /\ closed' = <<>>
    /\ since' = Len(stamps) + 1
    /\ UNCHANGED <<clock, stamps, held, newest, due, boots>>

-----------------------------------------------------------------------------
(* A bar's place is the number of those of earlier windows.                    *)
Older(b, bars) == {c \in bars : c.start < b.start}
InOrder(bars) ==
    [i \in 1..Cardinality(bars) |-> CHOOSE b \in bars : Cardinality(Older(b, bars)) = i - 1]

(* buildMinuteBars: a bar of each minute, with the ticks in the order they came. *)
MinuteBars(ticks) ==
    LET minute(n) == Floor(stamps[n], Minute)
        of(w) == {n \in ticks : minute(n) = w}
    IN {[start |-> w, seen |-> of(w), last |-> Max(of(w))] : w \in {minute(n) : n \in ticks}}

(* aggregatePersistedBars                                                      *)
RolledUp(bars) ==
    LET within(w) == {b \in bars : Floor(b.start, Width) = w}
        latest(w) == CHOOSE b \in within(w) : \A c \in within(w) : c.start <= b.start
    IN {[start |-> w, seen |-> UNION {b.seen : b \in within(w)}, last |-> latest(w).last]
            : w \in {Floor(b.start, Width) : b \in bars}}

(* mutant: what is stored replaces the bars of the same window *)
MergedOver(bars, rolled) ==
    LET older == {b \in {bars[i] : i \in DOMAIN bars} : \A r \in rolled : r.start # b.start}
    IN Latest(InOrder(older \cup rolled), MaxClosed)

(* mergeSealedHistory: a window that is already closed keeps what it has seen, *)
(* and takes the close that is stored.                                         *)
Merged(bars, rolled) ==
    LET live == {bars[i] : i \in DOMAIN bars}
        of(w) == {b \in live \cup rolled : b.start = w}
        close(w) == IF \E r \in rolled : r.start = w
                    THEN (CHOOSE r \in rolled : r.start = w).last
                    ELSE (CHOOSE b \in live : b.start = w).last
        both == {[start |-> w, seen |-> UNION {b.seen : b \in of(w)}, last |-> close(w)]
                    : w \in {b.start : b \in live \cup rolled}}
    IN IF rolled = {} THEN bars ELSE Latest(InOrder(both), MaxClosed)

(* The rows read at boot.  The collector upserts the minutes of the ring every   *)
(* minute and replaces what a row held: a row is made of any of the ticks of its *)
(* minute (the ring was cut, the process restarted, an upsert failed), and the   *)
(* read may have been a while ago.  It may also have failed.                     *)
Backfill ==
    /\ due /\ due' = FALSE
    /\ \E ticks \in SUBSET (1..Len(stamps)) :
        closed' = Merged(closed, RolledUp(MinuteBars(ticks)))
    /\ UNCHANGED <<clock, stamps, held, newest, open, boots, since>>

Reboot ==
    /\ boots < MaxBoots /\ boots' = boots + 1
    /\ newest' = Silent /\ open' = NoBar /\ closed' = <<>>
    /\ due' = TRUE
    /\ since' = Len(stamps) + 1
    /\ UNCHANGED <<clock, stamps, held>>

ClockTicks ==
    /\ clock < MaxClock /\ clock' = clock + 1
    /\ UNCHANGED <<stamps, held, newest, open, closed, due, boots, since>>

TapeNext ==
    \/ BrokerTick \/ HttpTick \/ HeldTick \/ OtherTick
    \/ Sweep \/ LastLeaves \/ Backfill
    \/ Reboot \/ ClockTicks

TapeSpec == TapeInit /\ [][TapeNext]_tapeVars

-----------------------------------------------------------------------------
(* The series must "hold each time window EXACTLY once"                         *)
(* (lib/__tests__/realtimeCandleAggregator.backfill.test.ts:14), and in order,  *)
(* whatever has the clocks of its ticks been.                                  *)
WindowsInOrder == \A i \in 2..Len(closed) : closed[i - 1].start < closed[i].start

(* The stamps of the symbol never went back: one clock has served it.  (A tick *)
(* that the bridge repeats is not new; it can be of an older window than the    *)
(* newest only after more local time than the broker's clock is ahead.)         *)
Steady == \A n \in 2..Len(stamps) : stamps[n - 1] <= stamps[n]

OnTape(n) ==
    \/ open # NoBar /\ n \in open.seen
    \/ \E i \in DOMAIN closed : n \in closed[i].seen

(* Then the tape is whole.  Neither a restart within a window, nor a sweep by   *)
(* the clock of another symbol, a tick that is repeated or the backfill makes   *)
(* two bars of a window, or lets a bar form that is older than one closed; and  *)
(* all ticks since the start, or since the symbol was last removed, are in a    *)
(* bar, but those whose bar was dropped at the cap.                            *)
TapeIsWhole ==
    Steady =>
        /\ WindowsInOrder
        /\ open # NoBar /\ closed # <<>> => Last(closed).start <= open.start
        /\ \A n \in since..Len(stamps) :
            OnTape(n) \/ (Len(closed) = MaxClosed /\ stamps[n] < closed[1].start)
=============================================================================

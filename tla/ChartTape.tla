------------------------------- MODULE ChartTape -------------------------------
(***************************************************************************)
(* The candles of the chart of client-app: the series that                 *)
(* lib/realtimeCandleAggregator.ts keeps of the active symbol, fed by      *)
(* store/useTradingStore.ts and hooks/useWebSocket.ts.                     *)
(*                                                                         *)
(* Four writers take turns on one series: live ticks, the ring of ticks    *)
(* that core-backend sends on every subscribe, the bars of /predict        *)
(* answers, and the rebuild at a change of the frame.  Every close of a    *)
(* bar asks the engine for a new verdict, whose bars are seeded again: a   *)
(* window told twice is a request too many, and a replay that tells its    *)
(* windows a storm of them.                                                *)
(*                                                                         *)
(* A bar is the start of its window.  What is in it, the projections drawn *)
(* ahead of it and the sanitizing of prices are left out; the wall clock   *)
(* moves no bar here (zeroFabrication), and the lead offset is zero.       *)
(***************************************************************************)
EXTENDS Integers, SequencesExt

CONSTANTS
    Widths,         \* TIMEFRAME_MS: the frames, each by its width
    MaxCandles,     \* maxCandles
    RingSize,       \* the ticks core-backend replays
    Tolerance,      \* how far ahead of the local clock a tick may be (2 s)
    MaxNow,         \* bound: the last instant
    MaxQuotes,      \* bound: ticks
    MaxRewrites     \* bound: seeds, changes of the frame and resets

ASSUME ChartAssumption ==
    /\ Widths \subseteq Nat \ {0} /\ Widths # {}
    /\ {MaxCandles, RingSize, MaxNow} \subseteq Nat \ {0}
    /\ {Tolerance, MaxQuotes, MaxRewrites} \subseteq Nat

VARIABLES
    wall,        \* the local clock
    ring,       \* the stamps core-backend holds (realtimeTickBuffer)
    quotes,     \* ticks so far
    ordered,    \* history: no stamp has been older than one before it
    attached,   \* the socket is in the symbol's room
    width,      \* bucketMs, of the frame that is selected
    ticks,      \* state.ticks: the stamps retained
    history,    \* state.history: the starts of the bars seeded
    sealed,     \* state.closed
    live,       \* the start of state.live, or Nobar
    rewrites,   \* seeds, changes and resets so far
    told        \* history: the windows whose close was told, in each frame

chartSeries == <<ticks, history, sealed, live>>
chartVars == <<wall, ring, quotes, ordered, attached, width, chartSeries, rewrites, told>>

Nobar == -1
Stamps == 0..(MaxNow + Tolerance + 1)

ChartTypeOK ==
    /\ wall \in 1..MaxNow /\ quotes \in 0..MaxQuotes /\ rewrites \in 0..MaxRewrites
    /\ ring \in Seq(Stamps) /\ Len(ring) <= RingSize
    /\ {ordered, attached} \subseteq BOOLEAN
    /\ width \in Widths
    /\ ticks \subseteq Stamps /\ history \subseteq Stamps
    /\ sealed \in Seq(Stamps) /\ Len(sealed) <= MaxCandles
    /\ live \in Stamps \cup {Nobar}
    /\ told \in [Widths -> Seq(Stamps)]

Untold == [w \in Widths |-> <<>>]
ChartInit ==
    /\ wall = 1 /\ ring = <<>> /\ quotes = 0 /\ ordered = TRUE /\ attached = FALSE
    /\ width = Min(Widths)
    /\ ticks = {} /\ history = {} /\ sealed = <<>> /\ live = Nobar
    /\ rewrites = 0 /\ told = Untold

-----------------------------------------------------------------------------
(* bucketForTimestamp, and the windows of a set of stamps.                     *)
Window(t, w) == (t \div w) * w
Windows(stamps, w) == {Window(t, w) : t \in stamps}

Newest(seq, n) == SubSeq(seq, (IF Len(seq) > n THEN Len(seq) - n ELSE 0) + 1, Len(seq))
Ascending(starts) ==
    [i \in 1..Cardinality(starts) |->
        CHOOSE s \in starts : Cardinality({e \in starts : e < s}) = i - 1]
Series(starts) == Newest(Ascending(starts), MaxCandles)

CloseIsTold(start) == told' = [told EXCEPT ![width] = Append(@, start)]

(* ingest *)
Ingest(stamp) ==
    LET start == Window(stamp, width)
        covered == sealed # <<>> /\ start <= Last(sealed)
    IN /\ ticks' = ticks \cup {stamp}
       /\ IF live # Nobar /\ start > live
          THEN sealed' = Newest(Append(sealed, live), MaxCandles) /\ CloseIsTold(live)
          ELSE UNCHANGED <<sealed, told>>
       /\ live' = IF live = Nobar /\ covered THEN Nobar
                  ELSE IF start > live THEN start ELSE live
       /\ UNCHANGED history

(* A tick that core-backend holds, and sends to the room it is of. *)
Quote(stamp) ==
    /\ quotes < MaxQuotes /\ quotes' = quotes + 1
    /\ ring' = Newest(Append(ring, stamp), RingSize)
    /\ ordered' = (ordered /\ \A t \in ToSet(ring) \cup ticks : t <= stamp)
    /\ IF attached /\ stamp <= wall + Tolerance
       THEN Ingest(stamp) ELSE UNCHANGED <<chartSeries, told>>
    /\ UNCHANGED <<wall, attached, width, rewrites>>

(* Stamped now, a moment ago, or by a clock too far ahead.                     *)
Quotes == \E stamp \in {wall - 1, wall, wall + Tolerance + 1} : Quote(stamp)

(* mutant: the windows of the ring are closed like live ones *)
SeedBatchAloud ==
    LET starts == Windows(ToSet(ring), width)
    IN /\ ticks' = ticks \cup ToSet(ring) /\ live' = Max(starts)
       /\ sealed' = Series(ToSet(sealed) \cup (starts \ {live'}))
       /\ told' = [told EXCEPT ![width] = @ \o Ascending(starts \ {live'})]
       /\ UNCHANGED history

(* seedBatch, of a ring that is not empty: its last window is the live bar.    *)
SeedBatch ==
    LET starts == Windows(ToSet(ring), width)
    IN /\ ticks' = ticks \cup ToSet(ring) /\ live' = Max(starts)
       /\ sealed' = Series(ToSet(sealed) \cup (starts \ {live'}))
       /\ UNCHANGED <<history, told>>

(* emitSubscribe, on every connect and change of the frame or the symbol: the   *)
(* ring comes back on it (replayHistory).                                      *)
Subscribe ==
    /\ attached' = TRUE
    /\ IF ring # <<>> THEN SeedBatch ELSE UNCHANGED <<chartSeries, told>>
    /\ UNCHANGED <<wall, ring, quotes, ordered, width, rewrites>>

(* The socket is lost, or the client looks at another symbol.                  *)
Detach ==
    /\ attached /\ attached' = FALSE
    /\ UNCHANGED <<wall, ring, quotes, ordered, width, chartSeries, rewrites, told>>

Rewrites == rewrites < MaxRewrites /\ rewrites' = rewrites + 1

(* seedHistory: bars of the past that are on the grid take the series' place.  *)
Seeded(w) ==
    \E starts \in SUBSET Windows(0..wall, w) :
        history' = starts /\ sealed' = Series(starts) /\ live' = Nobar

(* An answer of /predict, which may be about any time until now.               *)
SeedHistory ==
    /\ Rewrites /\ Seeded(width)
    /\ UNCHANGED <<wall, ring, quotes, ordered, attached, width, ticks, told>>

(* rebuild: what is retained of ticks and bars, in the windows of the frame.   *)
Rebuilt(w) ==
    LET known == Windows(history \cup ticks, w)
        starts == IF known = {} /\ live # Nobar THEN {Window(live, w)} ELSE known
    IN /\ live' = IF starts = {} THEN Nobar ELSE Max(starts)
       /\ sealed' = Series(starts \ {live'})
       /\ UNCHANGED history

(* setTimeframe; selected by the user, the bars kept in candlesCache follow.   *)
SetTimeframe(w) ==
    /\ Rewrites /\ w # width /\ width' = w
    /\ Rebuilt(w) \/ Seeded(w)
    /\ UNCHANGED <<wall, ring, quotes, ordered, attached, ticks, told>>

(* hardResetLiveData.  The windows told are counted from here.                 *)
HardReset ==
    /\ Rewrites
    /\ ticks' = {} /\ history' = {} /\ sealed' = <<>> /\ live' = Nobar /\ told' = Untold
    /\ UNCHANGED <<wall, ring, quotes, ordered, attached, width>>

BackendRestarts ==
    /\ ring' = <<>> /\ attached' = FALSE
    /\ UNCHANGED <<wall, quotes, ordered, width, chartSeries, rewrites, told>>

NowPasses ==
    /\ wall < MaxNow /\ wall' = wall + 1
    /\ UNCHANGED <<ring, quotes, ordered, attached, width, chartSeries, rewrites, told>>

ChartNext ==
    \/ Quotes \/ Subscribe \/ Detach
    \/ SeedHistory \/ HardReset \/ \E w \in Widths : SetTimeframe(w)
    \/ BackendRestarts \/ NowPasses

ChartSpec == ChartInit /\ [][ChartNext]_chartVars

-----------------------------------------------------------------------------
(* Replayed bars "MUST NOT re-fire onCandleClose"                               *)
(* (lib/realtimeCandleAggregator.ts:2796), nor may seeded or rebuilt ones: as   *)
(* long as stamps do not go back, the close of a window is told once in a frame *)
(* and in order, whatever seeds, replays, changes and losses of the socket come *)
(* between its ticks.                                                          *)
CloseToldOnce ==
    ordered => \A w \in Widths : \A i \in 2..Len(told[w]) : told[w][i - 1] < told[w][i]
=============================================================================

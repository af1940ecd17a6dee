---------------------------- MODULE DurableSignals ----------------------------
(***************************************************************************)
(* The durable half of the signal transport: broadcasts are appended to a  *)
(* Redis stream (core-backend/src/messaging/signalStream.ts) and stored as *)
(* rows by the consumer group of the core-backend instances (the same file *)
(* and messaging/subscriber.ts).  Entries are numbered in stream order.    *)
(***************************************************************************)
EXTENDS Naturals, FiniteSets, FiniteSetsExt

CONSTANTS
    Instances,     \* core-backend processes, every one in the same group
    MaxEntries,    \* bound: entries appended in a behaviour
    MaxLen,        \* SIGNAL_STREAM_MAXLEN
    ReadCount,     \* READ_COUNT
    ClaimCount,    \* RECLAIM_COUNT
    MaxCrashes,    \* bound: crashes
    MaxErrors      \* bound: commands and queries that raise

ASSUME StreamAssumption ==
    /\ MaxEntries \in Nat /\ MaxCrashes \in Nat /\ MaxErrors \in Nat
    /\ MaxLen \in Nat \ {0} /\ ReadCount \in Nat \ {0} /\ ClaimCount \in Nat \ {0}

VARIABLES
    log,        \* newest entry of the stream
    first,      \* oldest entry that is not trimmed
    malformed,  \* entries from which no signal can be read
    delivered,  \* the group's last delivered entry
    pel,        \* the group's pending entries...
    idle,       \* ...those delivered RECLAIM_MIN_IDLE_MS ago
    rows,       \* how many rows each entry has in the table
    at,         \* what each instance waits for
    batch,      \* entries each instance still has to handle, the oldest first
    crashes,
    errors

streamVars == <<log, first, malformed, delivered, pel, idle, rows, at, batch, crashes, errors>>
stream == <<log, first, malformed>>
group == <<delivered, pel, idle>>
faults == <<crashes, errors>>

Entries == 1..MaxEntries

StreamInit ==
    /\ log = 0 /\ first = 1 /\ malformed = {}
    /\ delivered = 0 /\ pel = {} /\ idle = {}
    /\ rows = [e \in Entries |-> 0]
    /\ at = [c \in Instances |-> "down"]
    /\ batch = [c \in Instances |-> {}]
    /\ crashes = 0 /\ errors = 0

Fails == errors < MaxErrors /\ errors' = errors + 1

Least(S, n) == {e \in S : Cardinality({d \in S : d < e}) < n}

-----------------------------------------------------------------------------
(* publishDurableSignal, Redis reachable; an append that fails leaves no trace. *)
(* MAXLEN ~ trims what is beyond the cap, at Redis's leisure, and no more.      *)
Publish ==
    /\ log < MaxEntries
    /\ log' = log + 1
    /\ malformed' \in {malformed, malformed \cup {log'}}
    /\ first' \in {first} \cup {f \in first..log' : log' - f + 1 >= MaxLen}
    /\ UNCHANGED <<group, rows, at, batch, faults>>

(* Entries are at hand: the oldest is looked up, or the next read is awaited. *)
HandleAll(c, entries) ==
    /\ batch' = [batch EXCEPT ![c] = entries]
    /\ at' = [at EXCEPT ![c] = IF entries = {} THEN "reading" ELSE "look"]

(* mutant: a reclaim that Redis refuses, which start-up swallows *)
StartWithoutReclaim(c) ==
    /\ at[c] = "down"
    /\ HandleAll(c, {})
    /\ UNCHANGED <<stream, group, rows, faults>>

Claimable == Least({e \in pel \cap idle : e >= first}, ClaimCount)

(* startDurableSignalConsumer.  XAUTOCLAIM takes over what is idle, whoever owns *)
(* it, and drops what is trimmed; when it raises the loop starts all the same;   *)
(* when the connection or the group fails, nothing runs in this process.         *)
Start(c) ==
    /\ at[c] = "down"
    /\ \/ /\ HandleAll(c, Claimable)
          /\ idle' = {e \in idle : e >= first} \ Claimable
          /\ pel' = pel \ {e \in idle : e < first}
          /\ UNCHANGED <<delivered, errors>>
       \/ Fails /\ HandleAll(c, {}) /\ UNCHANGED group
       \/ Fails /\ at' = [at EXCEPT ![c] = "off"] /\ UNCHANGED <<group, batch>>
    /\ UNCHANGED <<stream, rows, crashes>>

(* XREADGROUP ">" answers. *)
Read(c) ==
    /\ at[c] = "reading"
    /\ LET new == Least({e \in delivered + 1..log : e >= first}, ReadCount)
       IN /\ new # {}
          /\ HandleAll(c, new)
          /\ delivered' = Max(new)
          /\ pel' = pel \cup new
    /\ UNCHANGED <<stream, idle, rows, faults>>

Current(c) == Min(batch[c])
Advance(c) == HandleAll(c, batch[c] \ {Current(c)})
Goto(c, where) == at' = [at EXCEPT ![c] = where] /\ UNCHANGED batch

(* The handler up to persistSignal's findUnique: an entry without a signal is *)
(* dropped, one with a row is done; a query that raises leaves it pending.    *)
LookUp(c) ==
    /\ at[c] = "look"
    /\ \/ /\ Goto(c, IF Current(c) \in malformed \/ rows[Current(c)] > 0
                     THEN "ack" ELSE "create")
          /\ UNCHANGED errors
       \/ Fails /\ Advance(c)
    /\ UNCHANGED <<stream, group, rows, crashes>>

(* mutant: no unique index *)
CreateAnyway(c) ==
    /\ at[c] = "create"
    /\ rows' = [rows EXCEPT ![Current(c)] = @ + 1]
    /\ Goto(c, "ack")
    /\ UNCHANGED <<stream, group, faults>>

(* persistSignal's create: the unique index refuses a second row, and the first *)
(* counts as this one's.  A create that raises may have taken effect.           *)
Create(c) ==
    /\ at[c] = "create"
    /\ \/ /\ rows' = [rows EXCEPT ![Current(c)] = 1]
          /\ Goto(c, "ack") /\ UNCHANGED errors
       \/ /\ Fails /\ Advance(c)
          /\ rows' \in {rows, [rows EXCEPT ![Current(c)] = 1]}
    /\ UNCHANGED <<stream, group, crashes>>

(* XACK.  When it raises, the rest of the batch is left where it is. *)
Ack(c) ==
    /\ at[c] = "ack"
    /\ \/ /\ pel' = pel \ {Current(c)} /\ idle' = idle \ {Current(c)}
          /\ Advance(c) /\ UNCHANGED errors
       \/ /\ Fails /\ HandleAll(c, {})
          /\ pel' \in {pel, pel \ {Current(c)}} /\ idle' = idle \cap pel'
    /\ UNCHANGED <<stream, delivered, rows, crashes>>

Crash(c) ==
    /\ at[c] # "down" /\ crashes < MaxCrashes
    /\ crashes' = crashes + 1
    /\ at' = [at EXCEPT ![c] = "down"]
    /\ batch' = [batch EXCEPT ![c] = {}]
    /\ UNCHANGED <<stream, group, rows, errors>>

(* RECLAIM_MIN_IDLE_MS passed since e was delivered, handled or not. *)
GrowsIdle(e) ==
    /\ e \in pel \ idle
    /\ idle' = idle \cup {e}
    /\ UNCHANGED <<stream, delivered, pel, rows, at, batch, faults>>

Runs(c) == Start(c) \/ Read(c) \/ LookUp(c) \/ Create(c) \/ Ack(c)

StreamNext ==
    \/ Publish
    \/ \E c \in Instances : Runs(c) \/ Crash(c)
    \/ \E e \in pel : GrowsIdle(e)

(* A process is started again, and its commands and queries end. *)
StreamFairness ==
    /\ \A c \in Instances : WF_streamVars(Runs(c))
    /\ WF_streamVars(\E e \in pel : GrowsIdle(e))

StreamSpec == StreamInit /\ [][StreamNext]_streamVars /\ StreamFairness

-----------------------------------------------------------------------------
StreamTypeOK ==
    /\ log \in 0..MaxEntries /\ first \in 1..MaxEntries + 1
    /\ malformed \subseteq Entries /\ delivered \in 0..log
    /\ pel \subseteq 1..delivered /\ idle \subseteq pel
    /\ rows \in [Entries -> Nat]
    /\ at \in [Instances -> {"down", "off", "reading", "look", "create", "ack"}]
    /\ batch \in [Instances -> SUBSET Entries]
    /\ crashes \in 0..MaxCrashes /\ errors \in 0..MaxErrors

(* "A crash between persisted and XACK cannot create a duplicate row", nor can *)
(* two instances that handle one entry at once.                                *)
OneRowPerEntry == \A e \in Entries : rows[e] <= 1

(* At least once: what the group no longer owes has a row, unless it had no *)
(* signal in it or was trimmed.                                             *)
AckedIsStored ==
    \A e \in 1..delivered \ pel : rows[e] > 0 \/ e \in malformed \/ e < first

(* Both halves of exactly once.                                               *)
StoredOnce == OneRowPerEntry /\ AckedIsStored

(* The consumer group implements DeliveryContract.  What it has delivered and no *)
(* longer owes is released.  Neither a crash nor a command that raises between    *)
(* persistSignal and XACK, nor a second instance with the same entry, writes an   *)
(* entry twice, takes its row away or lets it go without one; MAXLEN ~ never      *)
(* reaches the newest entries.                                                    *)
Delivery == INSTANCE DeliveryContract WITH
    Kept <- MaxLen, appended <- log, unreadable <- malformed,
    trimmed <- 1..first - 1, released <- 1..delivered \ pel

StoresAsPromised == Delivery!Spec

(* What is idle when an instance is started for the last time is handled, if *)
(* nothing raises from then on and no more than RECLAIM_COUNT are pending.   *)
RestartReclaims ==
    \A e \in Entries :
        (/\ e \in pel \cap idle /\ \E c \in Instances : at[c] = "down"
         /\ crashes = MaxCrashes /\ errors = MaxErrors) ~> e \notin pel

(* "If WE crash, the record survives and is written when the consumer returns." *)
WrittenWhenBack == \A e \in Entries : e <= log ~> (rows[e] > 0 \/ e \in malformed \/ e < first)
=============================================================================

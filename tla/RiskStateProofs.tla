---------------------------- MODULE RiskStateProofs ----------------------------
(***************************************************************************)
(* Proofs about RiskState, for any number of requests, any results, any    *)
(* limits, midnights, restarts and failures: the state stays typed, no     *)
(* trade bypasses the gate, and the cache keeps up with the row and the     *)
(* limit.  The row adds up as long as none of the events happens that the  *)
(* theorems name: those that can spoil it.                                 *)
(***************************************************************************)
EXTENDS RiskState, FiniteSetTheorems, WellFoundedInduction, SequenceTheorems, TLAPS

(* What a request still has to do ends with its answer, and what it adds or    *)
(* configures is a trade or a limit of the configuration.                     *)
GoodTodo(q) ==
    /\ q.todo # <<>> => q.todo[Len(q.todo)] = "respond"
    /\ \A i \in 1..Len(q.todo) : /\ q.todo[i] = "increment" => q.arg \in Trades
                                 /\ q.todo[i] = "configure" => q.arg \in LimitChoices
Good(q, d) == q \in RequestType /\ q.day <= d /\ GoodTodo(q)

(* Where a trade's request may be, and what it holds there: a snapshot that    *)
(* lets it through was a row that lets it through.                            *)
ToRead == <<"read", "enforce", "respond">>
ToRoll == <<"roll", "enforce", "respond">>
ToHeal == <<"heal", "enforce", "respond">>
ToEnforce == <<"enforce", "respond">>
ToRespond == <<"respond">>
Gated(q, let) ==
    q.op = "trade" =>
        /\ q.todo \in {ToRead, ToRoll, ToHeal, ToEnforce, ToRespond}
        /\ q.todo = ToHeal => ~q.snap.state.locked /\ (q.snap.over \/ let)
        /\ q.todo = ToRespond => q.snap.state.locked \/ let

Stored(w, l, c, b, f) ==
    /\ w \in Rows /\ l \in LimitChoices \cup {DefaultLimit} /\ c \in SnapshotType
    /\ b \in [Trades -> 0..MaxDay] /\ f \in 0..MaxFaults

Inv ==
    /\ TypeOK
    /\ \A r \in Requests : Good(req[r], today) /\ Gated(req[r], r \in permitted)

-----------------------------------------------------------------------------
(* Types of the helpers. *)
LEMMA RowFields ==
  ASSUME NEW s \in Rows
  PROVE  /\ s.day \in 0..MaxDay /\ s.start \in Int /\ s.pnl \in Int /\ s.peak \in Int
         /\ s.locked \in BOOLEAN
         /\ Equity(s) \in Int /\ High(s) \in Int /\ Loss(s) \in Int
  BY DEF Rows, Equity, High, Loss, Max2

LEMMA FreshIsRow ==
  ASSUME NEW d \in 0..MaxDay, NEW e \in Int
  PROVE  FreshRow(d, e) \in Rows
  BY DEF FreshRow, Rows

LEMMA ReleasedIsRow ==
  ASSUME NEW s \in Rows
  PROVE  /\ Released(s) \in Rows /\ ~Released(s).locked /\ Released(s).day = s.day
  BY DEF Released, Rows

LEMMA MarkedIsRow ==
  ASSUME NEW s \in Rows
  PROVE  Marked(s) \in Rows /\ Marked(s).locked = s.locked
  BY RowFields DEF Marked, Rows

LEMMA SnapshotIsTyped ==
  ASSUME NEW s \in Rows
  PROVE  /\ Snapshot(s) \in SnapshotType
         /\ Snapshot(s).over = Over(s) /\ Snapshot(s).state.locked = s.locked
         /\ Healed(s) \in SnapshotType
         /\ Healed(s).over = Over(s) /\ ~Healed(s).state.locked
  <1>1. Over(s) \in BOOLEAN
    BY DEF Over
  <1>2. Released(Marked(s)) \in Rows /\ ~Released(Marked(s)).locked
    BY MarkedIsRow, ReleasedIsRow
  <1> QED
    BY <1>1, <1>2, MarkedIsRow DEF Snapshot, Healed, SnapshotType

LEMMA NoSnapshotIsTyped ==
  NoSnapshot \in SnapshotType
  BY SettingsAssumption, FreshIsRow DEF NoSnapshot, SnapshotType

LEMMA IdleIsGood ==
  ASSUME NEW d \in Nat, NEW let
  PROVE  Good(Idle, d) /\ Gated(Idle, let) /\ Idle.op = "none"
  BY SettingsAssumption, NoSnapshotIsTyped
     DEF Good, GoodTodo, Gated, Idle, RequestType

LEMMA RequestFields ==
  ASSUME NEW q \in RequestType
  PROVE  /\ q.op \in AllOps \cup {"none"} /\ q.todo \in Seq(Stages) /\ q.day \in 0..MaxDay
         /\ q.peak \in Int /\ q.snap \in SnapshotType /\ q.arg \in Nat
         /\ q.snap.state \in Rows /\ q.snap.over \in BOOLEAN
         /\ q.snap.state.locked \in BOOLEAN
  BY DEF RequestType, SnapshotType, Rows

(* What is left after a stage that is not the answer. *)
LEMMA TailOfTodo ==
  ASSUME NEW q \in RequestType, GoodTodo(q), q.todo # <<>>, Head(q.todo) # "respond"
  PROVE  LET p == [q EXCEPT !.todo = Tail(@)] IN
         /\ p \in RequestType /\ GoodTodo(p) /\ p.todo # <<>> /\ p.todo = Tail(q.todo)
         /\ p.op = q.op /\ p.day = q.day /\ p.snap = q.snap /\ p.arg = q.arg
  <1> DEFINE t == q.todo
             p == [q EXCEPT !.todo = Tail(@)]
  <1>1. t \in Seq(Stages) /\ Len(t) \in Nat /\ Len(t) >= 1 /\ Head(t) = t[1]
    BY RequestFields
  <1>2. Len(t) >= 2
    BY <1>1 DEF GoodTodo
  <1>3. Tail(t) \in Seq(Stages) /\ Len(Tail(t)) = Len(t) - 1
    BY <1>1
  <1>4. \A i \in 1..Len(Tail(t)) : Tail(t)[i] = t[i + 1] /\ i + 1 \in 1..Len(t)
    BY <1>1, <1>3
  <1>5. p \in RequestType /\ p.todo = Tail(t)
    BY <1>3, RequestFields DEF RequestType
  <1>6. p.op = q.op /\ p.day = q.day /\ p.snap = q.snap /\ p.arg = q.arg
    BY DEF RequestType
  <1>7. Tail(t) # <<>> /\ Tail(t)[Len(Tail(t))] = "respond"
    <2>1. Len(Tail(t)) \in 1..Len(Tail(t)) /\ Len(Tail(t)) + 1 = Len(t)
      BY <1>1, <1>2, <1>3
    <2>2. Tail(t)[Len(Tail(t))] = t[Len(t)]
      BY <1>4, <2>1
    <2>3. Tail(t) # <<>>
      <3>1. \A w \in Seq(Stages) : Len(w) = Len(t) - 1 => w # <<>>
        BY <1>1, <1>2
      <3> QED
        BY <1>3, <3>1
    <2> QED
      BY <2>2, <2>3 DEF GoodTodo
  <1>8. GoodTodo(p)
    BY <1>3, <1>4, <1>5, <1>6, <1>7 DEF GoodTodo
  <1> QED
    BY <1>5, <1>6, <1>7, <1>8

(* A stage put in front. *)
LEMMA InsertedStage ==
  ASSUME NEW q \in RequestType, GoodTodo(q), q.todo # <<>>,
         NEW stage \in {"roll", "heal", "mark"}
  PROVE  LET t == <<stage>> \o q.todo IN
         /\ t \in Seq(Stages) /\ t # <<>>
         /\ \A p \in RequestType : p.todo = t /\ p.arg = q.arg => GoodTodo(p)
  <1> DEFINE u == q.todo
             t == <<stage>> \o q.todo
  <1>1. u \in Seq(Stages) /\ Len(u) \in Nat /\ Len(u) >= 1
    BY RequestFields
  <1>2. stage \in Stages
    BY DEF Stages, Queries
  <1>3. t \in Seq(Stages) /\ Len(t) = Len(u) + 1 /\ t # <<>>
    BY <1>1, <1>2
  <1>4. t[1] = stage /\ \A i \in 2..Len(t) : t[i] = u[i - 1] /\ i - 1 \in 1..Len(u)
    BY <1>1, <1>2, <1>3
  <1>5. t[Len(t)] = "respond"
    BY <1>1, <1>3, <1>4 DEF GoodTodo
  <1>6. \A i \in 1..Len(t) : /\ t[i] = "increment" => q.arg \in Trades
                             /\ t[i] = "configure" => q.arg \in LimitChoices
    <2> TAKE i \in 1..Len(t)
    <2>1. CASE i = 1
      BY <2>1, <1>4
    <2>2. CASE i # 1
      <3>1. i \in 2..Len(t)
        BY <2>2, <1>1, <1>3
      <3> QED
        BY <3>1, <1>4 DEF GoodTodo
    <2> QED
      BY <2>1, <2>2
  <1> QED
    BY <1>3, <1>5, <1>6 DEF GoodTodo

(* The lists of a trade after a stage has been put in front. *)
LEMMA InsertedInTrade ==
  /\ <<"heal">> \o ToEnforce = ToHeal
  /\ <<"roll">> \o ToEnforce = ToRoll
  <1>1. /\ ToEnforce \in Seq(Stages) /\ Len(ToEnforce) = 2
        /\ ToEnforce[1] = "enforce" /\ ToEnforce[2] = "respond"
    BY DEF ToEnforce, Stages, Queries
  <1>2. ASSUME NEW stage \in {"heal", "roll"}, NEW u \in Seq(Stages), Len(u) = 3,
               u[1] = stage, u[2] = "enforce", u[3] = "respond"
        PROVE  <<stage>> \o ToEnforce = u
    <2> DEFINE h == <<stage>>
               t == h \o ToEnforce
    <2>1. h \in Seq(Stages) /\ Len(h) = 1 /\ h[1] = stage
      BY DEF Stages, Queries
    <2> HIDE DEF h
    <2>2. /\ t \in Seq(Stages) /\ Len(t) = Len(h) + Len(ToEnforce)
          /\ \A i \in 1..Len(h) + Len(ToEnforce) :
                t[i] = IF i <= Len(h) THEN h[i] ELSE ToEnforce[i - Len(h)]
      BY ONLY <1>1, <2>1, ConcatProperties
    <2> HIDE DEF t
    <2>3. Len(t) = 3 /\ t[1] = stage /\ t[2] = "enforce" /\ t[3] = "respond"
      BY <1>1, <2>1, <2>2
    <2>4. \A i \in 1..Len(t) : t[i] = u[i]
      BY <1>2, <2>3
    <2>5. t = u
      BY <1>2, <2>2, <2>3, <2>4, SeqEqual
    <2> QED
      BY <2>5 DEF t, h
  <1>3. /\ ToHeal \in Seq(Stages) /\ Len(ToHeal) = 3
        /\ ToHeal[1] = "heal" /\ ToHeal[2] = "enforce" /\ ToHeal[3] = "respond"
    BY DEF ToHeal, Stages, Queries
  <1>4. /\ ToRoll \in Seq(Stages) /\ Len(ToRoll) = 3
        /\ ToRoll[1] = "roll" /\ ToRoll[2] = "enforce" /\ ToRoll[3] = "respond"
    BY DEF ToRoll, Stages, Queries
  <1> QED
    BY <1>2, <1>3, <1>4

-----------------------------------------------------------------------------
(* getState, as a whole and in its parts. *)
LEMMA Calling ==
  ASSUME today \in 1..MaxDay, NEW q, Good(q, today)
  PROVE  /\ Good(Called(q), today)
         /\ Called(q).op = q.op /\ Called(q).todo = q.todo /\ Called(q).snap = q.snap
  <1>1. q \in RequestType /\ today \in 0..MaxDay
    BY SettingsAssumption DEF Good
  <1>2. CASE Head(q.todo) = "read"
    <2>1. Called(q) = [q EXCEPT !.day = today]
      BY <1>2 DEF Called
    <2>2. Called(q) \in RequestType /\ Called(q).day = today /\ Called(q).op = q.op
          /\ Called(q).todo = q.todo /\ Called(q).snap = q.snap /\ Called(q).arg = q.arg
      BY <1>1, <2>1 DEF RequestType
    <2> QED
      BY <1>1, <2>2 DEF Good, GoodTodo
  <1>3. CASE Head(q.todo) # "read"
    BY <1>3 DEF Called
  <1> QED
    BY <1>2, <1>3

LEMMA Returning ==
  ASSUME today \in 1..MaxDay, NEW q, Good(q, today), q.todo # <<>>, NEW let,
         q.op = "trade" => /\ q.todo = ToEnforce
                           /\ ~q.snap.state.locked /\ ~q.snap.over => let
  PROVE  /\ Good(Returned(q), today) /\ Returned(q).op = q.op
         /\ Gated(Returned(q), let)
  <1> DEFINE p == [q EXCEPT !.todo = Tail(@)]
  <1>1. q \in RequestType /\ GoodTodo(q)
    BY DEF Good
  <1>2. CASE Head(q.todo) = "enforce" /\ (q.snap.state.locked \/ ~q.snap.over)
    <2>1. /\ p \in RequestType /\ GoodTodo(p) /\ p.todo = Tail(q.todo)
          /\ p.op = q.op /\ p.day = q.day /\ p.snap = q.snap
      BY <1>1, <1>2, TailOfTodo
    <2> HIDE DEF p
    <2>2. Good(p, today)
      BY <2>1 DEF Good
    <2>3. Returned(q) = Called(p)
      BY <1>2 DEF Returned, p
    <2>4. /\ Good(Called(p), today) /\ Called(p).op = p.op /\ Called(p).todo = p.todo
          /\ Called(p).snap = p.snap
      BY <2>2, Calling
    <2>5. Tail(ToEnforce) = ToRespond /\ ToRespond # ToHeal
      BY DEF ToEnforce, ToRespond, ToHeal
    <2> QED
      BY <1>2, <2>1, <2>3, <2>4, <2>5 DEF Gated
  <1>3. CASE ~(Head(q.todo) = "enforce" /\ (q.snap.state.locked \/ ~q.snap.over))
    <2>1. Returned(q) = Called(q)
      BY <1>3 DEF Returned
    <2>2. ToEnforce # ToHeal /\ ToEnforce # ToRespond
      BY DEF ToEnforce, ToHeal, ToRespond
    <2> QED
      BY <2>1, <2>2, Calling DEF Gated
  <1> QED
    BY <1>2, <1>3

LEMMA Resolving ==
  ASSUME today \in 1..MaxDay, NEW q, Good(q, today), q.todo # <<>>,
         NEW s \in Rows, NEW let,
         q.op = "trade" => q.todo = ToEnforce,
         (s.locked => Phantom(s)) /\ ~Over(s) => let
  PROVE  /\ Good(Resolved(q, s), today) /\ Resolved(q, s).op = q.op
         /\ Gated(Resolved(q, s), let)
  <1>1. q \in RequestType /\ GoodTodo(q) /\ q.day <= today
    BY DEF Good
  <1>2. CASE Phantom(s)
    <2> DEFINE t == <<"heal">> \o q.todo
               p == [q EXCEPT !.todo = t, !.snap = Healed(s)]
    <2>1. /\ t \in Seq(Stages) /\ t # <<>>
          /\ \A w \in RequestType : w.todo = t /\ w.arg = q.arg => GoodTodo(w)
      BY <1>1, InsertedStage
    <2>2. q.todo = ToEnforce => t = ToHeal
      BY InsertedInTrade
    <2> HIDE DEF t
    <2>3. /\ p \in RequestType /\ p.todo = t /\ p.op = q.op /\ p.day = q.day
          /\ p.snap = Healed(s) /\ p.arg = q.arg
      BY <1>1, <2>1, SnapshotIsTyped DEF RequestType
    <2>4. Resolved(q, s) = p
      BY <1>2 DEF Resolved, t
    <2> HIDE DEF p
    <2>5. ~p.snap.state.locked /\ (p.snap.over \/ let)
      BY <1>2, <2>3, SnapshotIsTyped
    <2>6. ToHeal # ToRespond
      BY DEF ToHeal, ToRespond
    <2> QED
      BY <1>1, <2>1, <2>2, <2>3, <2>4, <2>5, <2>6 DEF Good, Gated
  <1>3. CASE ~Phantom(s)
    <2> DEFINE p == [q EXCEPT !.snap = Snapshot(s)]
    <2>1. /\ p \in RequestType /\ p.todo = q.todo /\ p.op = q.op /\ p.day = q.day
          /\ p.snap = Snapshot(s) /\ p.arg = q.arg
      BY <1>1, SnapshotIsTyped DEF RequestType
    <2>2. Resolved(q, s) = Returned(p)
      BY <1>3 DEF Resolved
    <2> HIDE DEF p
    <2>3. Good(p, today)
      BY <1>1, <2>1 DEF Good, GoodTodo
    <2>4. ~p.snap.state.locked /\ ~p.snap.over => let
      BY <1>3, <2>1, SnapshotIsTyped
    <2> QED
      BY <2>1, <2>2, <2>3, <2>4, Returning
  <1> QED
    BY <1>2, <1>3

-----------------------------------------------------------------------------
(* The lists of a trade. *)
LEMMA TradeLists ==
  /\ Head(ToRead) = "read" /\ Head(ToRoll) = "roll" /\ Head(ToHeal) = "heal"
  /\ Head(ToEnforce) = "enforce" /\ Head(ToRespond) = "respond"
  /\ Tail(ToRead) = ToEnforce /\ Tail(ToRoll) = ToEnforce /\ Tail(ToHeal) = ToEnforce
  /\ Tail(ToEnforce) = ToRespond
  BY DEF ToRead, ToRoll, ToHeal, ToEnforce, ToRespond

LEMMA PermitsStays ==
  ASSUME UNCHANGED limit
  PROVE  Permits' = ((row'.locked => Phantom(row')) /\ ~Over(row'))
  BY DEF Permits, Phantom, Over, Breached, High, Loss, Equity, Max2

LEMMA DriftTyped ==
  ASSUME drift \in DriftType, Remember
  PROVE  drift' \in DriftType
  BY DEF Remember, Drifts, DriftType

(* A step of one request that leaves it in a good and gated state. *)
LEMMA RequestStep ==
  ASSUME Inv, NEW r \in Requests, NEW q, Become(r, q), Remember, UNCHANGED today,
         Stored(row', limit', cache', booked', faults'), row'.day <= today,
         Good(q, today), Gated(q, Permits' \/ r \in permitted)
  PROVE  Inv'
  <1>1. req \in [Requests -> RequestType] /\ req' = [req EXCEPT ![r] = q]
    BY DEF Inv, TypeOK, Become
  <1>2. req'[r] = q /\ \A o \in Requests : o # r => req'[o] = req[o]
    BY <1>1
  <1>3. q \in RequestType
    BY DEF Good
  <1>4. TypeOK'
    BY <1>1, <1>3, DriftTyped DEF Inv, TypeOK, Stored, Remember
  <1>5. ASSUME NEW o \in Requests
        PROVE  Good(req'[o], today') /\ Gated(req'[o], o \in permitted')
    <2>1. CASE o = r
      <3>1. q.op = "trade" => (r \in permitted' <=> Permits' \/ r \in permitted)
        BY <1>2 DEF Remember
      <3> QED
        BY <2>1, <1>2, <3>1 DEF Gated
    <2>2. CASE o # r
      <3>1. Good(req[o], today) /\ Gated(req[o], o \in permitted)
        BY DEF Inv
      <3>2. req[o].op = "trade" /\ o \in permitted => o \in permitted'
        BY <2>2, <1>2 DEF Remember
      <3> QED
        BY <2>2, <1>2, <3>1, <3>2 DEF Gated
    <2> QED
      BY <2>1, <2>2
  <1>6. (\A o \in Requests : Good(req[o], today) /\ Gated(req[o], o \in permitted))'
    BY <1>5
  <1> QED
    BY <1>4, <1>6 DEF Inv

(* What a request about to do a stage looks like, and what Rest leaves of it. *)
LEMMA AtStage ==
  ASSUME Inv, NEW r \in Requests, NEW stage, At(r, stage), stage # "respond"
  PROVE  /\ today \in 1..MaxDay /\ req[r] \in RequestType /\ Good(Rest(r), today)
         /\ Rest(r).todo # <<>> /\ Rest(r).todo = Tail(req[r].todo)
         /\ Rest(r).op = req[r].op /\ Rest(r).snap = req[r].snap /\ Rest(r).arg = req[r].arg
         /\ GoodTodo(req[r]) /\ req[r].day <= today /\ Gated(req[r], r \in permitted)
  <1>1. /\ today \in 1..MaxDay /\ Good(req[r], today) /\ Gated(req[r], r \in permitted)
        /\ req[r].todo # <<>> /\ Head(req[r].todo) = stage
    BY DEF Inv, TypeOK, At
  <1>2. req[r] \in RequestType /\ GoodTodo(req[r]) /\ req[r].day <= today
    BY <1>1 DEF Good
  <1>3. /\ Rest(r) \in RequestType /\ GoodTodo(Rest(r)) /\ Rest(r).todo # <<>>
        /\ Rest(r).todo = Tail(req[r].todo)
        /\ Rest(r).op = req[r].op /\ Rest(r).day = req[r].day
        /\ Rest(r).snap = req[r].snap /\ Rest(r).arg = req[r].arg
    BY <1>1, <1>2, TailOfTodo DEF Rest
  <1> QED
    BY <1>1, <1>2, <1>3 DEF Good

LEMMA StoredTyped ==
  ASSUME Inv
  PROVE  Stored(row, limit, cache, booked, faults) /\ row.day <= today
  BY DEF Inv, TypeOK, Stored

(* A trade is at a stage of a trade, and the stages lead to each other. *)
LEMMA TradeAt ==
  ASSUME Inv, NEW r \in Requests, NEW stage, At(r, stage), req[r].op = "trade"
  PROVE  /\ stage \in {"read", "roll", "heal", "enforce", "respond"}
         /\ stage = "read" => req[r].todo = ToRead
         /\ stage \in {"read", "roll", "heal"} => Tail(req[r].todo) = ToEnforce
         /\ stage = "heal" => req[r].todo = ToHeal
         /\ stage = "enforce" => Tail(req[r].todo) = ToRespond
         /\ stage = "respond" => req[r].todo = ToRespond
  <1>1. /\ req[r].todo \in {ToRead, ToRoll, ToHeal, ToEnforce, ToRespond}
        /\ Head(req[r].todo) = stage
    BY DEF Inv, Gated, At
  <1> QED
    BY <1>1, TradeLists

-----------------------------------------------------------------------------
(* The steps of a request. *)
LEMMA ProgramIsTyped ==
  ASSUME NEW op \in AllOps
  PROVE  /\ Program(op) \in Seq(Stages) /\ Program(op) # <<>>
         /\ Program(op)[Len(Program(op))] = "respond"
         /\ \A i \in 1..Len(Program(op)) :
              /\ Program(op)[i] = "increment" => op = "settle"
              /\ Program(op)[i] = "configure" => op = "limit"
  <1>1. CASE op = "poll"
    BY <1>1 DEF Program, Stages, Queries
  <1>2. CASE op = "trade"
    BY <1>2 DEF Program, Stages, Queries
  <1>3. CASE op = "settle"
    BY <1>3 DEF Program, Stages, Queries
  <1>4. CASE op = "reset"
    BY <1>4 DEF Program, Stages, Queries
  <1>5. CASE op = "engage"
    BY <1>5 DEF Program, Stages, Queries
  <1>6. CASE op = "limit"
    BY <1>6 DEF Program, Stages, Queries
  <1> QED
    BY <1>1, <1>2, <1>3, <1>4, <1>5, <1>6 DEF AllOps

LEMMA ArriveKeeps ==
  ASSUME Inv, NEW r \in Requests, NEW op \in AllOps, NEW arg \in Nat, Arrive(r, op, arg),
         op = "settle" => arg \in Trades, op = "limit" => arg \in LimitChoices
  PROVE  Inv'
  <1> DEFINE q == [Idle EXCEPT !.op = op, !.todo = Program(op), !.day = today, !.arg = arg]
  <1>1. today \in 1..MaxDay /\ today \in 0..MaxDay
    BY SettingsAssumption DEF Inv, TypeOK
  <1>2. /\ q.op = op /\ q.todo = Program(op) /\ q.day = today /\ q.arg = arg
        /\ q \in RequestType
    <2>1. Program(op) \in Seq(Stages) /\ Idle \in RequestType
      BY IdleIsGood, ProgramIsTyped DEF Good
    <2> HIDE DEF Idle
    <2> QED
      BY <1>1, <2>1 DEF RequestType
  <1> HIDE DEF q
  <1>3. Good(q, today)
    BY <1>1, <1>2, ProgramIsTyped DEF Good, GoodTodo
  <1>4. Gated(q, Permits' \/ r \in permitted)
    <2>1. Program("trade") = ToRead
      BY DEF Program, ToRead
    <2> QED
      BY <1>2, <2>1, TradeLists DEF Gated
  <1>5. Become(r, q) /\ Remember
        /\ UNCHANGED <<row, limit, cache, today, booked, faults>>
    BY DEF Arrive, q
  <1> QED
    BY <1>3, <1>4, <1>5, StoredTyped, RequestStep

LEMMA SendKeeps ==
  ASSUME Inv, NEW r \in Requests, Send(r)
  PROVE  Inv'
  <1>1. CASE \E op \in {"poll", "trade", "reset", "engage"} : Arrive(r, op, 0)
    BY <1>1, ArriveKeeps DEF AllOps
  <1>2. CASE \E l \in LimitChoices : Arrive(r, "limit", l)
    BY <1>2, ArriveKeeps, SettingsAssumption DEF AllOps
  <1>3. CASE \E t \in Trades : Arrive(r, "settle", t)
    BY <1>3, ArriveKeeps, SettingsAssumption DEF AllOps
  <1> QED
    BY <1>1, <1>2, <1>3 DEF Send

LEMMA ReadKeeps ==
  ASSUME Inv, NEW r \in Requests, Read(r)
  PROVE  Inv'
  <1> DEFINE t == <<"roll">> \o Tail(req[r].todo)
             toRoll == [req[r] EXCEPT !.todo = t, !.peak = row.peak]
  <1>1. At(r, "read") /\ Remember /\ UNCHANGED <<row, limit, cache, today, booked, faults>>
    BY DEF Read
  <1>2. row \in Rows /\ Stored(row', limit', cache', booked', faults') /\ row'.day <= today
    BY <1>1, StoredTyped DEF Stored
  <1>3. /\ today \in 1..MaxDay /\ req[r] \in RequestType /\ Good(Rest(r), today)
        /\ Rest(r).todo # <<>> /\ Rest(r).todo = Tail(req[r].todo)
        /\ Rest(r).op = req[r].op /\ Rest(r).arg = req[r].arg
        /\ GoodTodo(req[r]) /\ req[r].day <= today
    BY <1>1, AtStage
  <1>4. CASE row.day = req[r].day
    <2>1. Become(r, Resolved(Rest(r), row))
      BY <1>4 DEF Read
    <2>2. Rest(r).op = "trade" => Rest(r).todo = ToEnforce
      BY <1>1, <1>3, TradeAt
    <2>3. (row.locked => Phantom(row)) /\ ~Over(row) => Permits' \/ r \in permitted
      BY <1>1, PermitsStays
    <2>4. /\ Good(Resolved(Rest(r), row), today)
          /\ Gated(Resolved(Rest(r), row), Permits' \/ r \in permitted)
      BY <1>2, <1>3, <2>2, <2>3, Resolving
    <2> QED
      BY <1>1, <1>2, <2>1, <2>4, RequestStep
  <1>5. CASE row.day # req[r].day
    <2>1. Become(r, toRoll)
      BY <1>5 DEF Read
    <2>2. Rest(r) \in RequestType /\ GoodTodo(Rest(r))
      BY <1>3 DEF Good
    <2>3. /\ <<"roll">> \o Rest(r).todo \in Seq(Stages)
          /\ \A w \in RequestType : w.todo = <<"roll">> \o Rest(r).todo /\ w.arg = Rest(r).arg
                                      => GoodTodo(w)
      BY <1>3, <2>2, InsertedStage
    <2>4. t \in Seq(Stages) /\ \A w \in RequestType : w.todo = t /\ w.arg = req[r].arg => GoodTodo(w)
      BY <1>3, <2>3
    <2>5. req[r].op = "trade" => t = ToRoll
      BY <1>1, TradeAt, InsertedInTrade
    <2> HIDE DEF t
    <2>6. /\ toRoll \in RequestType /\ toRoll.todo = t /\ toRoll.op = req[r].op
          /\ toRoll.day = req[r].day /\ toRoll.arg = req[r].arg
      BY <1>2, <1>3, <2>4, RowFields DEF RequestType
    <2> HIDE DEF toRoll
    <2>7. Good(toRoll, today)
      BY <1>3, <2>4, <2>6 DEF Good
    <2>8. Gated(toRoll, Permits' \/ r \in permitted)
      <3>1. ToRoll # ToHeal /\ ToRoll # ToRespond
        BY TradeLists
      <3> QED
        BY <2>5, <2>6, <3>1 DEF Gated
    <2> QED
      BY <1>1, <1>2, <2>1, <2>7, <2>8, RequestStep
  <1> QED
    BY <1>4, <1>5

LEMMA RollKeeps ==
  ASSUME Inv, NEW r \in Requests, Roll(r)
  PROVE  Inv'
  <1>1. /\ At(r, "roll") /\ Remember /\ UNCHANGED <<limit, cache, today, booked, faults>>
        /\ Become(r, Resolved(Rest(r), row')) /\ row' = FreshRow(req[r].day, req[r].peak)
    BY DEF Roll
  <1>2. /\ today \in 1..MaxDay /\ req[r] \in RequestType /\ Good(Rest(r), today)
        /\ Rest(r).todo # <<>> /\ Rest(r).todo = Tail(req[r].todo)
        /\ Rest(r).op = req[r].op /\ req[r].day <= today
    BY <1>1, AtStage
  <1>3. row' \in Rows /\ row'.day = req[r].day
    BY <1>1, <1>2, FreshIsRow, RequestFields DEF FreshRow
  <1>4. Stored(row', limit', cache', booked', faults') /\ row'.day <= today
    BY <1>1, <1>2, <1>3, StoredTyped DEF Stored
  <1>5. Rest(r).op = "trade" => Rest(r).todo = ToEnforce
    BY <1>1, <1>2, TradeAt
  <1>6. (row'.locked => Phantom(row')) /\ ~Over(row') => Permits' \/ r \in permitted
    BY <1>1, PermitsStays
  <1>7. /\ Good(Resolved(Rest(r), row'), today)
        /\ Gated(Resolved(Rest(r), row'), Permits' \/ r \in permitted)
    BY <1>2, <1>3, <1>5, <1>6, Resolving
  <1> QED
    BY <1>1, <1>4, <1>7, RequestStep

LEMMA HealKeeps ==
  ASSUME Inv, NEW r \in Requests, Heal(r)
  PROVE  Inv'
  <1>1. /\ At(r, "heal") /\ Remember /\ UNCHANGED <<limit, cache, today, booked, faults>>
        /\ Become(r, Returned(Rest(r))) /\ row' = Released(row)
    BY DEF Heal
  <1>2. /\ today \in 1..MaxDay /\ Good(Rest(r), today)
        /\ Rest(r).todo # <<>> /\ Rest(r).todo = Tail(req[r].todo)
        /\ Rest(r).op = req[r].op /\ Rest(r).snap = req[r].snap
        /\ Gated(req[r], r \in permitted)
    BY <1>1, AtStage
  <1>3. Stored(row', limit', cache', booked', faults') /\ row'.day <= today
    BY <1>1, StoredTyped, ReleasedIsRow DEF Stored
  <1>4. Rest(r).op = "trade" =>
          /\ Rest(r).todo = ToEnforce
          /\ ~Rest(r).snap.state.locked /\ ~Rest(r).snap.over => Permits' \/ r \in permitted
    BY <1>1, <1>2, TradeAt DEF Gated
  <1>5. /\ Good(Returned(Rest(r)), today)
        /\ Gated(Returned(Rest(r)), Permits' \/ r \in permitted)
    BY <1>2, <1>4, Returning
  <1> QED
    BY <1>1, <1>3, <1>5, RequestStep

(* The stages that no trade has. *)
LEMMA OtherStage ==
  ASSUME Inv, NEW r \in Requests, NEW q, NEW stage,
         At(r, stage), stage \in {"increment", "refresh", "mark", "unlock", "lock", "configure"},
         Become(r, q), Remember, UNCHANGED today,
         Stored(row', limit', cache', booked', faults'), row'.day <= today,
         q = Rest(r) \/ q = Called(Rest(r))
  PROVE  Inv'
  <1>1. req[r].op # "trade"
    BY TradeAt
  <1>2. today \in 1..MaxDay /\ Good(Rest(r), today) /\ Rest(r).op = req[r].op
    BY AtStage
  <1>3. Good(q, today) /\ q.op = req[r].op
    BY <1>2, Calling
  <1>4. Gated(q, Permits' \/ r \in permitted)
    BY <1>1, <1>3 DEF Gated
  <1> QED
    BY <1>3, <1>4, RequestStep

(* What a settled trade adds is a number. *)
LEMMA FirstOfTodo ==
  ASSUME NEW q \in RequestType, GoodTodo(q), q.todo # <<>>
  PROVE  /\ Head(q.todo) = "increment" => q.arg \in Trades
         /\ Head(q.todo) = "configure" => q.arg \in LimitChoices
  <1>1. q.todo \in Seq(Stages) /\ Len(q.todo) >= 1 /\ Head(q.todo) = q.todo[1]
    BY RequestFields
  <1> QED
    BY <1>1 DEF GoodTodo

LEMMA IncrementKeeps ==
  ASSUME Inv, NEW r \in Requests, Increment(r)
  PROVE  Inv'
  <1> DEFINE t == req[r].arg
  <1>1. /\ At(r, "increment") /\ Remember /\ UNCHANGED <<limit, cache, today, faults>>
        /\ Become(r, Rest(r)) /\ row' = [row EXCEPT !.pnl = @ + PnlOf[t]]
        /\ booked' = [booked EXCEPT ![t] = row.day]
    BY DEF Increment
  <1>2. req[r] \in RequestType /\ GoodTodo(req[r])
    BY <1>1, AtStage
  <1>3. t \in Trades
    BY <1>1, <1>2, FirstOfTodo DEF At
  <1>4. PnlOf[t] \in Int
    BY <1>3, SettingsAssumption
  <1>5. Stored(row, limit, cache, booked, faults) /\ row.day <= today /\ row \in Rows
    BY StoredTyped DEF Stored
  <1>6. row' \in Rows /\ row'.day = row.day
    BY <1>1, <1>4, <1>5 DEF Rows
  <1>7. booked' \in [Trades -> 0..MaxDay]
    BY <1>1, <1>5, RowFields DEF Stored
  <1>8. Stored(row', limit', cache', booked', faults') /\ row'.day <= today
    BY <1>1, <1>5, <1>6, <1>7 DEF Stored
  <1> QED
    BY <1>1, <1>8, OtherStage

LEMMA RefreshKeeps ==
  ASSUME Inv, NEW r \in Requests, Refresh(r)
  PROVE  Inv'
  <1> DEFINE t == <<"mark">> \o Tail(req[r].todo)
             toMark == [req[r] EXCEPT !.todo = t, !.peak = Equity(row)]
  <1>1. At(r, "refresh") /\ Remember /\ UNCHANGED <<row, limit, cache, today, booked, faults>>
    BY DEF Refresh
  <1>2. /\ row \in Rows /\ Stored(row', limit', cache', booked', faults')
        /\ row'.day <= today
    BY <1>1, StoredTyped DEF Stored
  <1>3. /\ req[r] \in RequestType /\ Good(Rest(r), today)
        /\ Rest(r).todo # <<>> /\ Rest(r).todo = Tail(req[r].todo)
        /\ Rest(r).arg = req[r].arg /\ req[r].day <= today
    BY <1>1, AtStage
  <1>4. CASE Equity(row) > row.peak
    <2>1. Become(r, toMark)
      BY <1>4 DEF Refresh
    <2>2. Rest(r) \in RequestType /\ GoodTodo(Rest(r))
      BY <1>3 DEF Good
    <2>3. /\ <<"mark">> \o Rest(r).todo \in Seq(Stages)
          /\ \A w \in RequestType : w.todo = <<"mark">> \o Rest(r).todo /\ w.arg = Rest(r).arg
                                      => GoodTodo(w)
      BY <1>3, <2>2, InsertedStage
    <2>4. t \in Seq(Stages) /\ \A w \in RequestType : w.todo = t /\ w.arg = req[r].arg => GoodTodo(w)
      BY <1>3, <2>3
    <2> HIDE DEF t
    <2>5. /\ toMark \in RequestType /\ toMark.todo = t /\ toMark.op = req[r].op
          /\ toMark.day = req[r].day /\ toMark.arg = req[r].arg
      BY <1>2, <1>3, <2>4, RowFields DEF RequestType
    <2> HIDE DEF toMark
    <2>6. Good(toMark, today)
      BY <1>3, <2>4, <2>5 DEF Good
    <2>7. Gated(toMark, Permits' \/ r \in permitted)
      <3>1. toMark.op # "trade"
        BY <1>1, <2>5, TradeAt
      <3> QED
        BY <3>1 DEF Gated
    <2> QED
      BY <1>1, <1>2, <2>1, <2>6, <2>7, RequestStep
  <1>5. CASE ~(Equity(row) > row.peak)
    <2>1. Become(r, Called(Rest(r)))
      BY <1>5 DEF Refresh
    <2> QED
      BY <1>1, <1>2, <2>1, OtherStage
  <1> QED
    BY <1>4, <1>5

LEMMA MarkKeeps ==
  ASSUME Inv, NEW r \in Requests, Mark(r)
  PROVE  Inv'
  <1>1. /\ At(r, "mark") /\ Remember /\ UNCHANGED <<limit, cache, today, booked, faults>>
        /\ Become(r, Called(Rest(r))) /\ row' = [row EXCEPT !.peak = req[r].peak]
    BY DEF Mark
  <1>2. req[r].peak \in Int
    BY <1>1, AtStage, RequestFields
  <1>3. row' \in Rows /\ row'.day = row.day
    BY <1>1, <1>2, StoredTyped DEF Stored, Rows
  <1>4. Stored(row', limit', cache', booked', faults') /\ row'.day <= today
    BY <1>1, <1>3, StoredTyped DEF Stored
  <1> QED
    BY <1>1, <1>4, OtherStage

LEMMA LockedIsRow ==
  ASSUME NEW s \in Rows, NEW reason \in {"drawdown", "emergency"}
  PROVE  LockedBy(s, reason) \in Rows /\ LockedBy(s, reason).locked /\ LockedBy(s, reason).day = s.day
  BY DEF LockedBy, Rows

LEMMA EnforceKeeps ==
  ASSUME Inv, NEW r \in Requests, Enforce(r)
  PROVE  Inv'
  <1> DEFINE snap == [state |-> LockedBy(req[r].snap.state, "drawdown"), over |-> req[r].snap.over]
             q == [Rest(r) EXCEPT !.snap = snap]
  <1>1. /\ At(r, "enforce") /\ Remember /\ UNCHANGED <<limit, cache, today, booked, faults>>
        /\ Become(r, q) /\ row' = LockedBy(row, "drawdown")
    BY DEF Enforce
  <1>2. /\ req[r] \in RequestType /\ Good(Rest(r), today)
        /\ Rest(r).todo = Tail(req[r].todo) /\ Rest(r).op = req[r].op
    BY <1>1, AtStage
  <1>3. row \in Rows /\ Stored(row', limit', cache', booked', faults') /\ row'.day <= today
    BY <1>1, StoredTyped, LockedIsRow DEF Stored
  <1>4. snap \in SnapshotType /\ snap.state.locked
    BY <1>2, RequestFields, LockedIsRow DEF SnapshotType
  <1> HIDE DEF snap
  <1>5. /\ q \in RequestType /\ q.todo = Rest(r).todo /\ q.op = Rest(r).op
        /\ q.day = Rest(r).day /\ q.arg = Rest(r).arg /\ q.snap = snap
    BY <1>2, <1>4 DEF Good, RequestType
  <1> HIDE DEF q
  <1>6. Good(q, today)
    BY <1>2, <1>5 DEF Good, GoodTodo
  <1>7. Gated(q, Permits' \/ r \in permitted)
    <2>1. q.op = "trade" => q.todo = ToRespond
      BY <1>1, <1>2, <1>5, TradeAt
    <2>2. ToRespond # ToHeal
      BY TradeLists
    <2> QED
      BY <1>4, <1>5, <2>1, <2>2 DEF Gated
  <1> QED
    BY <1>1, <1>3, <1>6, <1>7, RequestStep

LEMMA UnlockKeeps ==
  ASSUME Inv, NEW r \in Requests, Unlock(r)
  PROVE  Inv'
  <1>1. /\ At(r, "unlock") /\ Remember /\ UNCHANGED <<limit, cache, today, booked, faults>>
        /\ Become(r, Called(Rest(r))) /\ row' = Released(row)
    BY DEF Unlock
  <1>2. Stored(row', limit', cache', booked', faults') /\ row'.day <= today
    BY <1>1, StoredTyped, ReleasedIsRow DEF Stored
  <1> QED
    BY <1>1, <1>2, OtherStage

LEMMA LockKeeps ==
  ASSUME Inv, NEW r \in Requests, Lock(r)
  PROVE  Inv'
  <1>1. /\ At(r, "lock") /\ Remember /\ UNCHANGED <<limit, cache, today, booked, faults>>
        /\ Become(r, Called(Rest(r))) /\ row' = LockedBy(row, "emergency")
    BY DEF Lock
  <1>2. Stored(row', limit', cache', booked', faults') /\ row'.day <= today
    BY <1>1, StoredTyped, LockedIsRow DEF Stored
  <1> QED
    BY <1>1, <1>2, OtherStage

LEMMA ConfigureKeeps ==
  ASSUME Inv, NEW r \in Requests, Configure(r)
  PROVE  Inv'
  <1>1. /\ At(r, "configure") /\ Remember /\ UNCHANGED <<row, cache, today, booked, faults>>
        /\ Become(r, Called(Rest(r))) /\ limit' = req[r].arg
    BY DEF Configure
  <1>2. req[r].arg \in LimitChoices
    BY <1>1, AtStage, FirstOfTodo DEF At
  <1>3. Stored(row', limit', cache', booked', faults') /\ row'.day <= today
    BY <1>1, <1>2, StoredTyped DEF Stored
  <1> QED
    BY <1>1, <1>3, OtherStage

(* A request that ends, answered or not. *)
LEMMA EndKeeps ==
  ASSUME Inv, NEW r \in Requests, Become(r, Idle), Remember, UNCHANGED today,
         Stored(row', limit', cache', booked', faults'), row'.day <= today
  PROVE  Inv'
  <1>1. today \in Nat
    BY SettingsAssumption DEF Inv, TypeOK
  <1>2. Good(Idle, today) /\ Gated(Idle, Permits' \/ r \in permitted)
    BY <1>1, IdleIsGood
  <1> QED
    BY <1>2, RequestStep

LEMMA RespondKeeps ==
  ASSUME Inv, NEW r \in Requests, Respond(r)
  PROVE  Inv'
  <1>1. /\ Remember /\ UNCHANGED <<row, limit, today, booked, faults>>
        /\ Become(r, Idle) /\ cache' = CacheAfter(r)
    BY DEF Respond
  <1>2. req[r].snap \in SnapshotType
    BY RequestFields DEF Inv, TypeOK
  <1>3. cache' \in SnapshotType
    BY <1>1, <1>2, StoredTyped, NoSnapshotIsTyped DEF Stored, CacheAfter
  <1>4. Stored(row', limit', cache', booked', faults') /\ row'.day <= today
    BY <1>1, <1>3, StoredTyped DEF Stored
  <1> QED
    BY <1>1, <1>4, EndKeeps

LEMMA FailKeeps ==
  ASSUME Inv, NEW r \in Requests, Fail(r)
  PROVE  Inv'
  <1>1. /\ Remember /\ UNCHANGED <<row, limit, cache, today, booked>>
        /\ Become(r, Idle) /\ faults < MaxFaults /\ faults' = faults + 1
    BY DEF Fail
  <1>2. faults' \in 0..MaxFaults
    BY <1>1, SettingsAssumption DEF Inv, TypeOK
  <1>3. Stored(row', limit', cache', booked', faults') /\ row'.day <= today
    BY <1>1, <1>2, StoredTyped DEF Stored
  <1> QED
    BY <1>1, <1>3, EndKeeps

-----------------------------------------------------------------------------
(* The steps of the world around the requests. *)
LEMMA RestartKeeps ==
  ASSUME Inv, Restart
  PROVE  Inv'
  <1>1. today \in Nat /\ faults' \in 0..MaxFaults
    BY SettingsAssumption DEF Inv, TypeOK, Restart
  <1>2. Good(Idle, today) /\ Idle.op = "none" /\ Idle \in RequestType
    BY <1>1, IdleIsGood DEF Good
  <1>3. \A r \in Requests : req'[r] = Idle
    BY DEF Restart
  <1>4. TypeOK'
    BY <1>1, <1>2, NoSnapshotIsTyped, DriftTyped DEF Inv, TypeOK, Restart, Remember
  <1>5. (\A r \in Requests : Good(req[r], today) /\ Gated(req[r], r \in permitted))'
    BY <1>2, <1>3 DEF Restart, Gated
  <1> QED
    BY <1>4, <1>5 DEF Inv

(* Steps that leave the requests alone. *)
LEMMA OutsideStep ==
  ASSUME Inv, UNCHANGED req, Remember, today' \in 1..MaxDay, today <= today',
         Stored(row', limit', cache', booked', faults'), row'.day <= today'
  PROVE  Inv'
  <1>1. TypeOK'
    BY DriftTyped DEF Inv, TypeOK, Stored, Remember
  <1>2. ASSUME NEW r \in Requests
        PROVE  Good(req'[r], today') /\ Gated(req'[r], r \in permitted')
    <2>1. Good(req[r], today) /\ Gated(req[r], r \in permitted)
      BY DEF Inv
    <2>2. today \in Int /\ today' \in Int /\ req[r].day \in Int
      BY <2>1, RequestFields, SettingsAssumption DEF Inv, TypeOK, Good
    <2>3. Good(req'[r], today')
      BY <2>1, <2>2 DEF Good
    <2>4. req[r].op = "trade" /\ r \in permitted => r \in permitted'
      BY DEF Remember
    <2> QED
      BY <2>1, <2>3, <2>4 DEF Gated
  <1>3. (\A r \in Requests : Good(req[r], today) /\ Gated(req[r], r \in permitted))'
    BY <1>2
  <1> QED
    BY <1>1, <1>3 DEF Inv

LEMMA ClockAndCacheKeep ==
  ASSUME Inv, CacheExpires \/ Midnight
  PROVE  Inv'
  <1>1. UNCHANGED <<row, limit, req, booked, faults>> /\ Remember
        /\ (cache' = NoSnapshot \/ UNCHANGED cache)
    BY DEF CacheExpires, Midnight
  <1>2. today' \in 1..MaxDay /\ today <= today'
    BY SettingsAssumption DEF CacheExpires, Midnight, Inv, TypeOK
  <1>3. row'.day <= today'
    <2>1. row.day \in Int /\ row.day <= today /\ today \in Int /\ today' \in Int
      BY <1>2, RowFields, SettingsAssumption DEF Inv, TypeOK
    <2> QED
      BY <1>1, <1>2, <2>1
  <1>4. Stored(row', limit', cache', booked', faults')
    BY <1>1, StoredTyped, NoSnapshotIsTyped DEF Stored
  <1> QED
    BY <1>1, <1>2, <1>3, <1>4, OutsideStep

(* The first day, with the row of that day or none yet.                      *)
LEMMA InvStart ==
  ASSUME NEW day \in {0, 1}, row = FreshRow(day, BaseEquity),
         limit = DefaultLimit, cache = NoSnapshot, today = 1,
         req = [r \in Requests |-> Idle], booked = [t \in Trades |-> 0],
         permitted = {}, drift = NoDrift, faults = 0
  PROVE  Inv
  <1>1. today = 1 /\ 1 \in 1..MaxDay /\ 1 \in Nat
    BY SettingsAssumption
  <1>2. \A r \in Requests : req[r] = Idle /\ Good(Idle, today) /\ Idle \in RequestType
                            /\ Gated(Idle, r \in permitted)
    BY <1>1, IdleIsGood DEF Good
  <1>3. row \in Rows /\ row.day <= today
    <2>1. day \in 0..MaxDay /\ day <= 1
      BY <1>1, SettingsAssumption
    <2> QED BY <1>1, <2>1, FreshIsRow, SettingsAssumption DEF FreshRow
  <1>4. req \in [Requests -> RequestType]
    BY <1>2
  <1>5. TypeOK
    BY <1>1, <1>3, <1>4, NoSnapshotIsTyped, SettingsAssumption DEF TypeOK, NoDrift, DriftType
  <1> QED
    BY <1>2, <1>5 DEF Inv

LEMMA InvInit == Init => Inv
  BY InvStart DEF Init

LEMMA InvNext == Inv /\ [Next]_vars => Inv'
  <1> SUFFICES ASSUME Inv, [Next]_vars PROVE Inv'
    OBVIOUS
  <1>1. ASSUME NEW r \in Requests, Step(r) PROVE Inv'
    BY <1>1, SendKeeps, ReadKeeps, RollKeeps, HealKeeps, IncrementKeeps, RefreshKeeps,
       MarkKeeps, EnforceKeeps, UnlockKeeps, LockKeeps, ConfigureKeeps, RespondKeeps,
       FailKeeps DEF Step
  <1>2. CASE Restart
    BY <1>2, RestartKeeps
  <1>3. CASE CacheExpires \/ Midnight
    BY <1>3, ClockAndCacheKeep
  <1>4. CASE UNCHANGED vars
    BY <1>4 DEF vars, Inv, TypeOK, Good, Gated, GoodTodo
  <1> QED
    BY <1>1, <1>2, <1>3, <1>4 DEF Next

(* The state stays typed, and the row is never of a day to come. *)
THEOREM RiskTypeCorrect == Spec => []TypeOK
  <1>1. Inv => TypeOK
    BY DEF Inv
  <1> QED
    BY <1>1, InvInit, InvNext, PTL DEF Spec

(* No trade bypasses the gate: whatever other requests, midnight, a restart or *)
(* a failing database do meanwhile, a trade about to be executed was let       *)
(* through by the stored row at some moment since it asked.                   *)
THEOREM GateHolds == Spec => []NoBypass
  <1>1. Inv => NoBypass
    <2> SUFFICES ASSUME Inv, NEW r \in Requests, Executes(r) PROVE r \in permitted
      BY DEF NoBypass
    <2>1. At(r, "respond") /\ req[r].op = "trade" /\ ~req[r].snap.state.locked
      BY DEF Executes
    <2>2. req[r].todo = ToRespond
      BY <2>1, TradeAt
    <2> QED
      BY <2>1, <2>2 DEF Inv, Gated
  <1> QED
    BY <1>1, InvInit, InvNext, PTL DEF Spec

-----------------------------------------------------------------------------
(* A poll and what it holds: once it knows the row it holds the row's snapshot,   *)
(* or the one the row will have after the heal, unless others overtook it.      *)
PollRead == <<"read", "respond">>
PollRoll == <<"roll", "respond">>
PollHeal == <<"heal", "respond">>
PollAt(q) == q.todo \in {PollRead, PollRoll, PollHeal, ToRespond}
Holds(q, w) ==
    /\ q.todo = PollHeal => q.snap = Snapshot(Released(w))
    /\ q.todo = ToRespond => q.snap = Snapshot(w)
Polling(q, w) == PollAt(q) /\ Holds(q, w)

CacheInv ==
    /\ \A r \in Requests : req[r] = Idle \/ req[r].op # "none"
    /\ \A r \in Requests : req[r].op = "poll" =>
                                PollAt(req[r]) /\ (r \in drift.late \/ Holds(req[r], row))
    /\ CacheKeepsUp

-----------------------------------------------------------------------------
(* What is cached does not depend on a lock that is cleared.                    *)
LEMMA HealedIsSnapshot ==
  ASSUME NEW s \in Rows
  PROVE  Healed(s) = Snapshot(Released(s))
<1>1. Released(Marked(s)) = Marked(Released(s))
  BY DEF Rows, Released, Marked, High, Equity, Max2
<1>2. Over(Released(s)) = Over(s)
  BY DEF Rows, Released, Over, High, Loss, Equity, Max2
<1> QED BY <1>1, <1>2 DEF Healed, Snapshot

LEMMA OpKept ==
  ASSUME NEW q \in RequestType, NEW s
  PROVE  Called(q).op = q.op /\ Returned(q).op = q.op /\ Resolved(q, s).op = q.op
  BY DEF RequestType, Called, Returned, Resolved

LEMMA PollLists ==
  /\ Head(PollRead) = "read" /\ Head(PollRoll) = "roll" /\ Head(PollHeal) = "heal"
  /\ Tail(PollRead) = ToRespond /\ Tail(PollRoll) = ToRespond /\ Tail(PollHeal) = ToRespond
  /\ PollHeal # ToRespond /\ PollRoll # ToRespond /\ PollRead # ToRespond
  /\ PollHeal # PollRoll /\ PollHeal # PollRead /\ PollRead # <<>> /\ Head(ToRespond) = "respond"
  BY DEF PollRead, PollRoll, PollHeal, ToRespond

LEMMA InsertedInPoll ==
  ASSUME NEW stage \in {"heal", "roll"}
  PROVE  <<stage>> \o ToRespond = <<stage, "respond">>
<1> DEFINE h == <<stage>>
           u == <<stage, "respond">>
           t == h \o ToRespond
<1>1. ToRespond \in Seq(Stages) /\ Len(ToRespond) = 1 /\ ToRespond[1] = "respond"
  BY DEF ToRespond, Stages, Queries
<1>2. h \in Seq(Stages) /\ Len(h) = 1 /\ h[1] = stage
  BY DEF Stages, Queries
<1>3. u \in Seq(Stages) /\ Len(u) = 2 /\ u[1] = stage /\ u[2] = "respond"
  BY DEF Stages, Queries
<1> HIDE DEF h, u
<1>4. /\ t \in Seq(Stages) /\ Len(t) = Len(h) + Len(ToRespond)
      /\ \A i \in 1..Len(h) + Len(ToRespond) :
            t[i] = IF i <= Len(h) THEN h[i] ELSE ToRespond[i - Len(h)]
  BY ONLY <1>1, <1>2, ConcatProperties
<1> HIDE DEF t
<1>5. Len(t) = 2 /\ t[1] = stage /\ t[2] = "respond"
  BY <1>1, <1>2, <1>4
<1>6. t = u
  BY <1>3, <1>4, <1>5, SeqEqual
<1> QED BY <1>6 DEF t, h, u

(* A poll that knows its row.                                                   *)
LEMMA PollResolves ==
  ASSUME NEW q \in RequestType, q.todo = ToRespond, NEW s \in Rows
  PROVE  Polling(Resolved(q, s), s)
<1>1. CASE Phantom(s)
  <2> DEFINE t == <<"heal">> \o q.todo
             p == [q EXCEPT !.todo = t, !.snap = Healed(s)]
  <2>1. t = PollHeal
    BY InsertedInPoll DEF PollHeal
  <2> HIDE DEF t
  <2>2. p.todo = t /\ p.snap = Healed(s)
    BY DEF RequestType
  <2>3. Resolved(q, s) = p
    BY <1>1 DEF Resolved, t
  <2> HIDE DEF p
  <2> QED BY <2>1, <2>2, <2>3, HealedIsSnapshot, PollLists DEF Polling, PollAt, Holds
<1>2. CASE ~Phantom(s)
  <2> DEFINE p == [q EXCEPT !.snap = Snapshot(s)]
  <2>1. p.todo = q.todo /\ p.snap = Snapshot(s)
    BY DEF RequestType
  <2>2. Resolved(q, s) = Returned(p)
    BY <1>2 DEF Resolved
  <2> HIDE DEF p
  <2>3. Returned(p) = p
    BY <2>1, PollLists DEF Returned, Called
  <2> QED BY <2>1, <2>2, <2>3, PollLists DEF Polling, PollAt, Holds
<1> QED BY <1>1, <1>2

LEMMA RestFields ==
  ASSUME Inv, NEW r \in Requests, req[r].todo # <<>>, Head(req[r].todo) # "respond"
  PROVE  Rest(r) \in RequestType /\ Rest(r).op = req[r].op /\ Rest(r).todo = Tail(req[r].todo)
         /\ Rest(r).snap = req[r].snap /\ Rest(r).todo # <<>>
  BY TailOfTodo DEF Inv, Good, Rest

LEMMA SnapshotStays ==
  ASSUME UNCHANGED <<row, limit>>
  PROVE  Snapshot(row)' = Snapshot(row)
  BY DEF Snapshot, Over


(* What a request still has to do after a step is not what it had to do.         *)
LEMMA ShorterTodo ==
  ASSUME NEW t \in Seq(Stages), t # <<>>
  PROVE  Tail(t) # t /\ (Tail(t) # <<>> => Tail(Tail(t)) # t)
<1> DEFINE u == Tail(t)
<1>1. u \in Seq(Stages) /\ Len(t) \in Nat /\ Len(u) = Len(t) - 1
  OBVIOUS
<1> HIDE DEF u
<1>2. u # t
  BY <1>1
<1>3. ASSUME u # <<>> PROVE Tail(u) # t
  <2>1. Len(Tail(u)) = Len(u) - 1 /\ Len(u) \in Nat
    BY <1>1, <1>3
  <2>2. Len(Tail(u)) # Len(t)
    BY <1>1, <2>1
  <2> QED BY <2>2
<1> QED BY <1>2, <1>3 DEF u

LEMMA ReturnedMoves ==
  ASSUME NEW q \in RequestType, q.todo # <<>>,
         NEW p \in RequestType, p.todo = Tail(q.todo), p.todo # <<>>
  PROVE  Returned(p) # q
<1>1. Tail(q.todo) # q.todo /\ Tail(Tail(q.todo)) # q.todo
  BY ShorterTodo, RequestFields
<1>2. /\ Called(p).todo = p.todo
      /\ Called([p EXCEPT !.todo = Tail(@)]).todo = Tail(p.todo)
  BY DEF Called, RequestType
<1>3. Returned(p).todo \in {p.todo, Tail(p.todo)}
  BY <1>2 DEF Returned
<1> QED BY <1>1, <1>3

LEMMA ResolvedMoves ==
  ASSUME NEW q \in RequestType, q.todo # <<>>, Head(q.todo) = "roll",
         NEW p \in RequestType, p.todo = Tail(q.todo), p.todo # <<>>, NEW s \in Rows
  PROVE  Resolved(p, s) # q
<1>1. CASE Phantom(s)
  <2> DEFINE t == <<"heal">> \o p.todo
  <2>1. Head(t) = "heal"
    <3>1. p.todo \in Seq(Stages) /\ "heal" \in Stages
      BY RequestFields DEF Stages, Queries
    <3> QED BY <3>1
  <2>2. Resolved(p, s).todo = t
    BY <1>1 DEF Resolved, RequestType
  <2> QED BY <2>1, <2>2
<1>2. CASE ~Phantom(s)
  <2> DEFINE w == [p EXCEPT !.snap = Snapshot(s)]
  <2>1. w \in RequestType /\ w.todo = p.todo
    BY SnapshotIsTyped DEF RequestType
  <2>2. Resolved(p, s) = Returned(w)
    BY <1>2 DEF Resolved
  <2> HIDE DEF w
  <2> QED BY <2>1, <2>2, ReturnedMoves
<1> QED BY <1>1, <1>2

(* A request that does not step keeps what it holds, or is overtaken.            *)
LEMMA LooksOnCache ==
  ASSUME CacheInv, Drifts, NEW o \in Requests, req'[o] = req[o]
  PROVE  /\ req'[o] = Idle \/ req'[o].op # "none"
         /\ req'[o].op = "poll" =>
                PollAt(req'[o]) /\ (o \in drift'.late \/ Holds(req[o], row)')
<1>1. SUFFICES ASSUME req[o].op = "poll", o \notin drift'.late
               PROVE  PollAt(req[o]) /\ Holds(req[o], row)'
  BY DEF CacheInv
<1>2. PollAt(req[o]) /\ (o \in drift.late \/ Holds(req[o], row))
  BY <1>1 DEF CacheInv
<1>3. ~Goes(o) /\ ~Ends(o)
  BY DEF Goes, Ends
<1>4. o \notin drift.late /\ (~Changes \/ At(o, "read"))
  BY <1>1, <1>3 DEF Drifts
<1>5. CASE ~Changes
  <2>1. UNCHANGED <<row, limit>>
    BY <1>5 DEF Changes
  <2> QED BY <1>2, <1>4, <2>1 DEF Holds, Snapshot, Over
<1>6. CASE At(o, "read")
  <2>1. req[o].todo = PollRead
    BY <1>2, <1>6, PollLists DEF At, PollAt
  <2> QED BY <1>2, <2>1, PollLists DEF Holds
<1> QED BY <1>4, <1>5, <1>6

(* A request steps and does not end: if it makes a change it is among those that  *)
(* have made one.                                                               *)
LEMMA GoesOn ==
  ASSUME Inv, CacheInv, Drifts, NEW r \in Requests, NEW q, Become(r, q), UNCHANGED cache,
         q.op # "none", Changes => q # req[r],
         q.op = "poll" => /\ PollAt(q) /\ UNCHANGED limit
                          /\ (r \in drift.late /\ req[r].op = "poll") \/ Holds(q, row')
  PROVE  CacheInv'
<1>1. req'[r] = q /\ \A o \in Requests \ {r} : req'[o] = req[o]
  BY DEF Become, Inv, TypeOK
<1>2. \A o \in Requests : ~Ends(o)
  BY <1>1 DEF Ends, Goes, Idle
<1>3. q.op = "poll" => PollAt(req'[r]) /\ (r \in drift'.late \/ Holds(req[r], row)')
  <2>1. r \in drift.late /\ req[r].op = "poll" => r \in drift'.late
    BY <1>2 DEF Drifts
  <2>2. q.op = "poll" /\ Holds(q, row') => Holds(req[r], row)'
    BY <1>1 DEF Holds, Snapshot, Over
  <2> QED BY <1>1, <2>1, <2>2
<1>4. CacheKeepsUp'
  <2> SUFFICES ASSUME cache' # NoSnapshot, drift'.writers = {}, ~drift'.excused
               PROVE  cache' = Snapshot(row)'
    BY DEF CacheKeepsUp, NoSnapshot, FreshRow
  <2>1. ~drift.excused
    BY <1>2 DEF Drifts, Clears
  <2>2. drift.writers = {} /\ ~Changes
    <3>1. drift.writers \subseteq drift'.writers
      BY <1>2 DEF Drifts, Inv, TypeOK, DriftType
    <3>2. Changes => r \in drift'.writers
      BY <1>1, <1>2 DEF Drifts, Goes
    <3> QED BY <3>1, <3>2
  <2>3. UNCHANGED <<row, limit>>
    BY <2>2 DEF Changes
  <2> QED BY <2>1, <2>2, <2>3, SnapshotStays DEF CacheInv, CacheKeepsUp
<1>5. \A o \in Requests \ {r} :
          /\ req'[o] = Idle \/ req'[o].op # "none"
          /\ req'[o].op = "poll" => PollAt(req'[o]) /\ (o \in drift'.late \/ Holds(req[o], row)')
  BY <1>1, LooksOnCache
<1>6. (\A o \in Requests : req[o] = Idle \/ req[o].op # "none")'
  BY <1>1, <1>5
<1>7. (\A o \in Requests : req[o].op = "poll" => PollAt(req[o]) /\ (o \in drift.late \/ Holds(req[o], row)))'
  <2> SUFFICES ASSUME NEW o \in Requests, req'[o].op = "poll"
               PROVE  PollAt(req'[o]) /\ (o \in drift'.late \/ Holds(req[o], row)')
    BY DEF PollAt
  <2> QED BY <1>1, <1>3, <1>5
<1> QED BY <1>4, <1>6, <1>7 DEF CacheInv

(* A request ends.                                                              *)
LEMMA EndsCache ==
  ASSUME Inv, CacheInv, Drifts, NEW r \in Requests, Become(r, Idle), CacheKeepsUp'
  PROVE  CacheInv'
<1>1. req'[r] = Idle /\ Idle.op = "none" /\ \A o \in Requests \ {r} : req'[o] = req[o]
  BY DEF Become, Inv, TypeOK, Idle
<1>2. \A o \in Requests \ {r} :
          /\ req'[o] = Idle \/ req'[o].op # "none"
          /\ req'[o].op = "poll" => PollAt(req'[o]) /\ (o \in drift'.late \/ Holds(req[o], row)')
  BY <1>1, LooksOnCache
<1>3. (\A o \in Requests : req[o] = Idle \/ req[o].op # "none")'
  BY <1>1, <1>2
<1>4. (\A o \in Requests : req[o].op = "poll" => PollAt(req[o]) /\ (o \in drift.late \/ Holds(req[o], row)))'
  <2> SUFFICES ASSUME NEW o \in Requests, req'[o].op = "poll"
               PROVE  PollAt(req'[o]) /\ (o \in drift'.late \/ Holds(req[o], row)')
    BY DEF PollAt
  <2> QED BY <1>1, <1>2
<1> QED BY <1>3, <1>4 DEF CacheInv

(* It leaves the cache: if it had made a change, the cache is excused.           *)
LEMMA LeavesCache ==
  ASSUME Inv, CacheInv, Drifts, NEW r \in Requests, Become(r, Idle), req[r] # Idle,
         UNCHANGED <<row, limit, cache>>, ~Clears(r)
  PROVE  CacheInv'
<1>1. req'[r] = Idle /\ \A o \in Requests \ {r} : req'[o] = req[o]
  BY DEF Become, Inv, TypeOK
<1>2. Ends(r) /\ \A o \in Requests \ {r} : ~Ends(o)
  BY <1>1 DEF Ends, Goes
<1>3. ~\E o \in Requests : Clears(o)
  BY <1>2 DEF Clears
<1>4. CacheKeepsUp'
  <2> SUFFICES ASSUME cache' # NoSnapshot, drift'.writers = {}, ~drift'.excused
               PROVE  cache' = Snapshot(row)'
    BY DEF CacheKeepsUp, NoSnapshot, FreshRow
  <2>1. ~drift.excused /\ r \notin drift.writers
    BY <1>2, <1>3 DEF Drifts
  <2>2. drift.writers \subseteq drift'.writers \cup {r}
    BY <1>2 DEF Drifts, Inv, TypeOK, DriftType
  <2>3. drift.writers = {}
    BY <2>1, <2>2
  <2> QED BY <2>1, <2>3, SnapshotStays DEF CacheInv, CacheKeepsUp
<1> QED BY <1>4, EndsCache

LEMMA PollReads ==
  ASSUME Inv, CacheInv, NEW r \in Requests, Read(r)
  PROVE  CacheInv'
<1> DEFINE q == req[r]
           p == IF row.day = q.day THEN Resolved(Rest(r), row)
                ELSE [q EXCEPT !.todo = <<"roll">> \o Tail(@), !.peak = row.peak]
<1>1. q \in RequestType /\ row \in Rows /\ Become(r, p) /\ UNCHANGED <<row, limit, cache>> /\ Drifts
  BY DEF Read, Inv, TypeOK, Remember
<1>2. q.todo # <<>> /\ Head(q.todo) = "read"
  BY DEF Read, At
<1>3. Rest(r) \in RequestType /\ Rest(r).op = q.op /\ Rest(r).todo = Tail(q.todo)
  BY <1>2, RestFields
<1>4. q.op # "none" /\ ~Changes
  BY <1>1, <1>2 DEF Idle, CacheInv, Changes
<1>5. p.op = q.op
  BY <1>1, <1>3, OpKept DEF RequestType
<1>6. q.op = "poll" => Polling(p, row')
  <2> SUFFICES ASSUME q.op = "poll" PROVE Polling(p, row)
    BY <1>1
  <2>1. PollAt(q)
    BY DEF CacheInv
  <2>2. Tail(q.todo) = ToRespond
    BY <1>2, <2>1, PollLists DEF PollAt
  <2>3. CASE row.day = q.day
    <3>1. Polling(Resolved(Rest(r), row), row)
      BY <1>1, <1>3, <2>2, PollResolves
    <3> QED BY <2>3, <3>1
  <2>4. CASE row.day # q.day
    <3>1. p.todo = <<"roll">> \o Tail(q.todo)
      BY <1>1, <2>4 DEF RequestType
    <3>2. p.todo = PollRoll
      BY <2>2, <3>1, InsertedInPoll DEF PollRoll
    <3> HIDE DEF p
    <3> QED BY <3>2, PollLists DEF Polling, PollAt, Holds
  <2> QED BY <2>3, <2>4
<1> HIDE DEF p
<1> QED BY <1>1, <1>4, <1>5, <1>6, GoesOn DEF Polling

LEMMA PollRolls ==
  ASSUME Inv, CacheInv, NEW r \in Requests, Roll(r)
  PROVE  CacheInv'
<1> DEFINE q == req[r]
           p == Resolved(Rest(r), row')
<1>1. q \in RequestType /\ Become(r, p) /\ UNCHANGED <<limit, cache>> /\ Drifts
  BY DEF Roll, Inv, TypeOK, Remember
<1>2. q.todo # <<>> /\ Head(q.todo) = "roll"
  BY DEF Roll, At
<1>3. Rest(r) \in RequestType /\ Rest(r).op = q.op /\ Rest(r).todo = Tail(q.todo)
  BY <1>2, RestFields
<1>4. q.op # "none"
  BY <1>2 DEF Idle, CacheInv
<1>5. p.op = q.op
  BY <1>3, OpKept
<1>6. row' \in Rows
  BY <1>1, FreshIsRow, RequestFields DEF Roll
<1>7. q.op = "poll" => Polling(p, row')
  <2> SUFFICES ASSUME q.op = "poll" PROVE Polling(p, row')
    OBVIOUS
  <2>1. PollAt(q)
    BY DEF CacheInv
  <2>2. Tail(q.todo) = ToRespond
    BY <1>2, <2>1, PollLists DEF PollAt
  <2> QED BY <1>3, <1>6, <2>2, PollResolves
<1>8. p # q
  BY <1>1, <1>2, <1>3, <1>6, RestFields, ResolvedMoves
<1> HIDE DEF p
<1> QED BY <1>1, <1>4, <1>5, <1>7, <1>8, GoesOn DEF Polling

LEMMA PollHeals ==
  ASSUME Inv, CacheInv, NEW r \in Requests, Heal(r)
  PROVE  CacheInv'
<1> DEFINE q == req[r]
           p == Returned(Rest(r))
<1>1. /\ q \in RequestType /\ Become(r, p) /\ row' = Released(row) /\ UNCHANGED <<limit, cache>>
      /\ Drifts
  BY DEF Heal, Inv, TypeOK, Remember
<1>2. q.todo # <<>> /\ Head(q.todo) = "heal"
  BY DEF Heal, At
<1>3. /\ Rest(r) \in RequestType /\ Rest(r).op = q.op /\ Rest(r).todo = Tail(q.todo)
      /\ Rest(r).snap = q.snap
  BY <1>2, RestFields
<1>4. q.op # "none"
  BY <1>2 DEF Idle, CacheInv
<1>5. p.op = q.op
  BY <1>3, OpKept
<1>6. q.op = "poll" => PollAt(p) /\ (r \in drift.late \/ Holds(p, row'))
  <2> SUFFICES ASSUME q.op = "poll" PROVE PollAt(p) /\ (r \in drift.late \/ Holds(p, row'))
    OBVIOUS
  <2>1. PollAt(q) /\ (r \in drift.late \/ Holds(q, row))
    BY DEF CacheInv
  <2>2. q.todo = PollHeal /\ Tail(q.todo) = ToRespond
    BY <1>2, <2>1, PollLists DEF PollAt
  <2>3. p = Rest(r)
    BY <1>3, <2>2, PollLists DEF Returned, Called
  <2>4. p.todo = ToRespond /\ p.snap = q.snap
    BY <1>3, <2>2, <2>3
  <2> HIDE DEF p
  <2> QED BY <1>1, <2>1, <2>2, <2>4, PollLists DEF PollAt, Holds
<1>7. p # q
  BY <1>1, <1>2, <1>3, RestFields, ReturnedMoves
<1> HIDE DEF p
<1> QED BY <1>1, <1>4, <1>5, <1>6, <1>7, GoesOn

(* The stages of other requests than polls.                                     *)
Elsewhere == {"increment", "refresh", "mark", "enforce", "unlock", "lock", "configure"}

LEMMA NoPoll ==
  ASSUME Inv, CacheInv, NEW r \in Requests, NEW stage \in Elsewhere, At(r, stage)
  PROVE  req[r].op # "poll" /\ req[r].op # "none"
<1>1. req[r].todo # <<>> /\ Head(req[r].todo) = stage
  BY DEF At
<1>2. \A t \in {PollRead, PollRoll, PollHeal, ToRespond} : Head(t) \notin Elsewhere
  BY PollLists DEF Elsewhere
<1> QED BY <1>1, <1>2 DEF CacheInv, PollAt, Idle

LEMMA ElsewhereKeeps ==
  ASSUME Inv, CacheInv, NEW r \in Requests,
         \/ Increment(r) \/ Refresh(r) \/ Mark(r) \/ Enforce(r)
         \/ Unlock(r) \/ Lock(r) \/ Configure(r)
  PROVE  CacheInv'
<1> DEFINE q == req[r]
<1>1. q \in RequestType
  BY DEF Inv, TypeOK
<1>2. /\ \E stage \in Elsewhere : At(r, stage)
      /\ UNCHANGED cache /\ Drifts
  BY DEF Increment, Refresh, Mark, Enforce, Unlock, Lock, Configure, Elsewhere, Remember
<1>3. q.op # "poll" /\ q.op # "none"
  BY <1>2, NoPoll
<1>4. q.todo # <<>> /\ Head(q.todo) # "respond"
  BY <1>2 DEF At, Elsewhere
<1>5. Rest(r) \in RequestType /\ Rest(r).op = q.op /\ Rest(r).todo = Tail(q.todo)
  BY <1>4, RestFields
<1>6. Called(Rest(r)).op = q.op /\ Called(Rest(r)).todo = Tail(q.todo)
  BY <1>5, OpKept DEF Called, RequestType
<1>7. /\ \A t, e : [q EXCEPT !.todo = t, !.peak = e].op = q.op
      /\ \A s : /\ [Rest(r) EXCEPT !.snap = s].op = q.op
                /\ [Rest(r) EXCEPT !.snap = s].todo = Tail(q.todo)
  BY <1>1, <1>5 DEF RequestType
<1>8. Tail(q.todo) # q.todo
  BY <1>1, <1>4, ShorterTodo, RequestFields
<1>9. \E p : Become(r, p) /\ p.op = q.op /\ (Changes => p.todo = Tail(q.todo))
  <2>1. CASE Increment(r)
    BY <2>1, <1>5 DEF Increment
  <2>2. CASE Refresh(r)
    <3>1. ~Changes
      BY <2>2 DEF Refresh, Changes
    <3>2. CASE Equity(row) > row.peak
      <4> DEFINE p == [q EXCEPT !.todo = <<"mark">> \o Tail(@), !.peak = Equity(row)]
      <4>1. Become(r, p)
        BY <2>2, <3>2 DEF Refresh
      <4>2. p.op = q.op
        BY <1>1 DEF RequestType
      <4> QED BY <3>1, <4>1, <4>2
    <3>3. CASE ~(Equity(row) > row.peak)
      BY <2>2, <3>1, <3>3, <1>6 DEF Refresh
    <3> QED BY <3>2, <3>3
  <2>3. CASE Mark(r) \/ Unlock(r) \/ Lock(r) \/ Configure(r)
    BY <2>3, <1>6 DEF Mark, Unlock, Lock, Configure
  <2>4. CASE Enforce(r)
    <3> DEFINE s == [state |-> LockedBy(req[r].snap.state, "drawdown"), over |-> req[r].snap.over]
    <3>1. Become(r, [Rest(r) EXCEPT !.snap = s])
      BY <2>4 DEF Enforce
    <3> HIDE DEF s
    <3> QED BY <3>1, <1>7
  <2> QED BY <2>1, <2>2, <2>3, <2>4
<1> QED BY <1>2, <1>3, <1>8, <1>9, GoesOn

(* A request comes or is answered.                                              *)
LEMMA SendsKeep ==
  ASSUME Inv, CacheInv, NEW r \in Requests, Send(r)
  PROVE  CacheInv'
<1>1. PICK op, arg : Arrive(r, op, arg) /\ op \in {"poll", "trade", "reset", "engage", "limit", "settle"}
  BY DEF Send
<1> DEFINE q == [Idle EXCEPT !.op = op, !.todo = Program(op), !.day = today, !.arg = arg]
<1>2. q.op = op /\ q.todo = Program(op) /\ op # "none"
  BY <1>1 DEF Idle
<1>3. Become(r, q) /\ UNCHANGED <<row, limit, cache>> /\ Drifts
  BY <1>1 DEF Arrive, Remember
<1>4. op = "poll" => Program(op) = PollRead
  BY DEF Program, PollRead
<1> HIDE DEF q
<1>5. q.op = "poll" => PollAt(q) /\ Holds(q, row')
  BY <1>2, <1>4, PollLists DEF PollAt, Holds
<1> QED BY <1>2, <1>3, <1>5, GoesOn DEF Changes

LEMMA RespondsKeep ==
  ASSUME Inv, CacheInv, NEW r \in Requests, Respond(r)
  PROVE  CacheInv'
<1>1. Become(r, Idle) /\ UNCHANGED <<row, limit>> /\ cache' = CacheAfter(r) /\ Drifts
  BY DEF Respond, Remember
<1>2. req[r].todo # <<>> /\ Head(req[r].todo) = "respond" /\ req[r] # Idle /\ At(r, "respond")
  BY DEF Respond, At, Idle
<1>3. req'[r] = Idle /\ Ends(r)
  BY <1>1, <1>2 DEF Become, Inv, TypeOK, Ends, Goes
<1>4. CASE req[r].op = "poll"
  <2>1. cache' = req[r].snap
    BY <1>1, <1>4 DEF CacheAfter
  <2>2. Clears(r)
    BY <1>2, <1>3, <1>4 DEF Clears
  <2>3. ASSUME cache' # NoSnapshot, ~drift'.excused PROVE r \notin drift.late
    <3>1. ~\E o \in drift.late : Ends(o)
      BY <1>1, <2>2, <2>3 DEF Drifts
    <3> QED BY <1>3, <3>1
  <2>4. r \notin drift.late => req[r].snap = Snapshot(row)
    BY <1>2, <1>4, PollLists DEF CacheInv, PollAt, Holds
  <2>5. CacheKeepsUp'
    BY <1>1, <2>1, <2>3, <2>4, SnapshotStays DEF CacheKeepsUp, NoSnapshot, FreshRow
  <2> QED BY <1>1, <2>5, EndsCache
<1>5. CASE req[r].op = "trade"
  <2>1. UNCHANGED cache /\ ~Clears(r)
    BY <1>1, <1>5 DEF CacheAfter, Clears
  <2> QED BY <1>1, <1>2, <2>1, LeavesCache
<1>6. CASE req[r].op \notin {"poll", "trade"}
  <2>1. cache' = NoSnapshot
    BY <1>1, <1>6 DEF CacheAfter
  <2>2. CacheKeepsUp'
    BY <2>1 DEF CacheKeepsUp, NoSnapshot, FreshRow
  <2> QED BY <1>1, <2>2, EndsCache
<1> QED BY <1>4, <1>5, <1>6

LEMMA FailsCache ==
  ASSUME Inv, CacheInv, NEW r \in Requests, Fail(r)
  PROVE  CacheInv'
<1>1. Become(r, Idle) /\ UNCHANGED <<row, limit, cache>> /\ Drifts
  BY DEF Fail, Remember
<1>2. req[r] # Idle /\ ~Clears(r)
  BY DEF Fail, Idle, Clears, At, Queries
<1> QED BY <1>1, <1>2, LeavesCache

(* What changes no request, and at most empties the cache.                       *)
LEMMA OutsideCache ==
  ASSUME Inv, CacheInv, CacheExpires \/ Midnight
  PROVE  CacheInv'
<1>1. UNCHANGED <<row, limit, req>> /\ (cache' = NoSnapshot \/ cache' = cache) /\ Drifts
  BY DEF CacheExpires, Midnight, Remember
<1>2. \A o \in Requests :
          /\ req'[o] = Idle \/ req'[o].op # "none"
          /\ req'[o].op = "poll" => PollAt(req'[o]) /\ (o \in drift'.late \/ Holds(req[o], row)')
  BY <1>1, LooksOnCache
<1>3. \A o \in Requests : ~Ends(o)
  BY <1>1 DEF Ends, Goes
<1>4. drift.writers \subseteq drift'.writers
  BY <1>1, <1>3 DEF Drifts, Inv, TypeOK, DriftType
<1>5. ASSUME cache' # NoSnapshot, ~drift'.excused PROVE ~drift.excused
  BY <1>1, <1>3, <1>5 DEF Drifts, Clears
<1>6. CacheKeepsUp'
  BY <1>1, <1>4, <1>5, SnapshotStays DEF CacheInv, CacheKeepsUp, NoSnapshot, FreshRow
<1>7. (\A o \in Requests : req[o] = Idle \/ req[o].op # "none")'
  BY <1>2
<1>8. (\A o \in Requests : req[o].op = "poll" => PollAt(req[o]) /\ (o \in drift.late \/ Holds(req[o], row)))'
  <2> SUFFICES ASSUME NEW o \in Requests, req'[o].op = "poll"
               PROVE  PollAt(req'[o]) /\ (o \in drift'.late \/ Holds(req[o], row)')
    BY DEF PollAt
  <2> QED BY <1>2
<1> QED BY <1>6, <1>7, <1>8 DEF CacheInv

LEMMA CacheStep ==
  ASSUME Inv, CacheInv, [Next]_vars
  PROVE  CacheInv'
<1>1. ASSUME NEW r \in Requests, Step(r) PROVE CacheInv'
  BY <1>1, SendsKeep, PollReads, PollRolls, PollHeals, ElsewhereKeeps, RespondsKeep, FailsCache DEF Step
<1>2. CASE Restart
  <2>1. cache' = NoSnapshot /\ \A r \in Requests : req'[r] = Idle
    BY <1>2 DEF Restart
  <2> QED BY <2>1 DEF CacheInv, CacheKeepsUp, NoSnapshot, FreshRow, Idle
<1>3. CASE UNCHANGED vars
  BY <1>3 DEF vars, CacheInv, CacheKeepsUp, PollAt, Holds, Snapshot, Over
<1> QED BY <1>1, <1>2, <1>3, OutsideCache DEF Next

(* However polls, trades, results, resets, locks and new limits overlap, fail and  *)
(* are cut short by a restart, the cache is behind the row only while the request *)
(* that changed it is under way, after a fill by a poll that others overtook, or  *)
(* after a trade or a failed request that had changed it.                        *)
THEOREM CacheAlwaysKeepsUp == Spec => []CacheKeepsUp
<1>1. Init => CacheInv
  BY DEF Init, CacheInv, CacheKeepsUp, Idle
<1>2. CacheInv => CacheKeepsUp
  BY DEF CacheInv
<1> QED BY <1>1, <1>2, CacheStep, InvInit, InvNext, PTL DEF Spec

-----------------------------------------------------------------------------
(* Sums.  MapThenSumSet is a recursive function, whose value is found by looking  *)
(* at a smallest set for which it would be another: whole numbers have a least    *)
(* one among them, which the library states of well-founded orders.              *)

LEMMA LeastNumber ==
  ASSUME NEW N \in SUBSET Nat, N # {}
  PROVE  \E k \in N : \A l \in N : k <= l
<1>1. PICK k \in N : \A l \in N : ~(<<l, k>> \in OpToRel(<, Nat))
  <2>1. IsWellFoundedOn(OpToRel(<, Nat), Nat)
    BY NatLessThanWellFounded
  <2> QED BY <2>1, WFMin
<1>2. \A l \in N : ~(l < k)
  <2> SUFFICES ASSUME NEW l \in N, l < k PROVE FALSE
    OBVIOUS
  <2>1. <<l, k>> \in OpToRel(<, Nat)
    BY DEF OpToRel
  <2> QED BY <1>1, <2>1
<1>3. k \in Nat /\ \A l \in N : l \in Nat
  OBVIOUS
<1> QED BY <1>2, <1>3

(* Of a family of finite sets that is not empty, one has no smaller one in it.   *)
LEMMA SmallestSet ==
  ASSUME NEW D, NEW family \in SUBSET {S \in SUBSET D : IsFiniteSet(S)}, family # {}
  PROVE  \E S \in family : \A R \in SUBSET S : R # S => R \notin family
<1> DEFINE sizes == {Cardinality(S) : S \in family}
<1>1. \A S \in family : IsFiniteSet(S) /\ Cardinality(S) \in Nat
  BY FS_CardinalityType
<1>2. sizes \in SUBSET Nat /\ sizes # {}
  BY <1>1
<1>3. PICK k \in sizes : \A l \in sizes : k <= l
  <2> HIDE DEF sizes
  <2> QED BY <1>2, LeastNumber
<1>4. PICK S \in family : Cardinality(S) = k
  OBVIOUS
<1>5. ASSUME NEW R \in SUBSET S, R # S, R \in family PROVE FALSE
  <2>1. Cardinality(R) <= Cardinality(S) /\ (Cardinality(R) = Cardinality(S) => R = S)
    BY <1>1, FS_Subset
  <2>2. k <= Cardinality(R) /\ Cardinality(R) \in Nat
    BY <1>1, <1>3, <1>5
  <2>3. Cardinality(S) \in Nat
    BY <1>1
  <2>4. Cardinality(R) = Cardinality(S)
    <3> HIDE DEF sizes
    <3> QED BY <1>4, <2>1, <2>2, <2>3
  <2> QED BY <1>5, <2>1, <2>4
<1> QED BY <1>5

Picked(S) == CHOOSE t \in S : TRUE
Sum(f, S) ==
    CHOOSE g : g = [R \in SUBSET S |-> IF R = {} THEN 0 ELSE f[Picked(R)] + g[R \ {Picked(R)}]]
Summing(f, g, S) ==
    g = [R \in SUBSET S |-> IF R = {} THEN 0 ELSE f[Picked(R)] + g[R \ {Picked(R)}]]
Total(f, S) == MapThenSumSet(LAMBDA t : f[t], S)

LEMMA TotalIsSum ==
  ASSUME NEW f, NEW S
  PROVE  Total(f, S) = Sum(f, S)[S]
  BY DEF Total, MapThenSumSet, MapThenFoldSet, Sum, Picked

LEMMA PickedIn ==
  ASSUME NEW S, S # {}
  PROVE  Picked(S) \in S
  BY DEF Picked

(* Two sums of the same sets agree... *)
LEMMA SumsAgree ==
  ASSUME NEW f, NEW D, NEW S \in SUBSET D, IsFiniteSet(D), NEW g, NEW h,
         Summing(f, g, S), Summing(f, h, D)
  PROVE  \A R \in SUBSET S : g[R] = h[R]
<1> DEFINE family == {R \in SUBSET S : g[R] # h[R]}
<1>1. family \in SUBSET {R \in SUBSET D : IsFiniteSet(R)}
  BY FS_Subset
<1> SUFFICES ASSUME family # {} PROVE FALSE
  OBVIOUS
<1>2. PICK R \in family : \A Q \in SUBSET R : Q # R => Q \notin family
  <2> HIDE DEF family
  <2> QED BY <1>1, SmallestSet
<1>3. /\ R \in SUBSET S /\ R \in SUBSET D
      /\ g[R] = IF R = {} THEN 0 ELSE f[Picked(R)] + g[R \ {Picked(R)}]
      /\ h[R] = IF R = {} THEN 0 ELSE f[Picked(R)] + h[R \ {Picked(R)}]
  BY DEF Summing
<1>4. R # {}
  BY <1>3
<1>5. g[R \ {Picked(R)}] = h[R \ {Picked(R)}]
  <2>1. R \ {Picked(R)} \in SUBSET R /\ R \ {Picked(R)} # R
    BY <1>4, PickedIn
  <2> QED BY <1>2, <1>3, <2>1
<1> QED BY <1>3, <1>4, <1>5

(* ...and every finite set has one.                                            *)
LEMMA SumExists ==
  ASSUME NEW f, NEW D, IsFiniteSet(D)
  PROVE  \E g : Summing(f, g, D)
<1> DEFINE family == {S \in SUBSET D : ~\E g : Summing(f, g, S)}
<1>1. family \in SUBSET {S \in SUBSET D : IsFiniteSet(S)}
  BY FS_Subset
<1> SUFFICES ASSUME family # {} PROVE FALSE
  OBVIOUS
<1>2. PICK S \in family : \A R \in SUBSET S : R # S => R \notin family
  <2> HIDE DEF family
  <2> QED BY <1>1, SmallestSet
<1>3. ASSUME NEW R \in SUBSET S, R # S PROVE Summing(f, Sum(f, R), R) /\ IsFiniteSet(R)
  <2>1. \E g : Summing(f, g, R)
    BY <1>2, <1>3
  <2>2. Summing(f, Sum(f, R), R)
    BY <2>1 DEF Summing, Sum
  <2> QED BY <1>1, <1>2, <2>2, FS_Subset
<1> DEFINE value(R) == Sum(f, R)[R]
           g == [R \in SUBSET S |-> IF R = {} THEN 0 ELSE f[Picked(R)] + value(R \ {Picked(R)})]
<1>4. ASSUME NEW R \in SUBSET S, R # S PROVE g[R] = value(R)
  <2>1. value(R) = IF R = {} THEN 0 ELSE f[Picked(R)] + Sum(f, R)[R \ {Picked(R)}]
    <3>1. R \in SUBSET R
      OBVIOUS
    <3> QED BY <1>3, <1>4, <3>1 DEF Summing
  <2>2. CASE R = {}
    BY <2>1, <2>2
  <2>3. CASE R # {}
    <3> DEFINE Q == R \ {Picked(R)}
    <3>1. Q \in SUBSET R /\ Q \in SUBSET S /\ Q # S /\ Q \in SUBSET Q
      BY <1>4, <2>3, PickedIn
    <3>2. Summing(f, Sum(f, Q), Q) /\ Summing(f, Sum(f, R), R) /\ IsFiniteSet(R)
      BY <1>3, <1>4, <3>1
    <3>3. Sum(f, Q)[Q] = Sum(f, R)[Q]
      <4> HIDE DEF Q
      <4> QED BY <3>1, <3>2, SumsAgree
    <3>4. g[R] = f[Picked(R)] + value(Q)
      BY <2>3
    <3> QED BY <2>1, <2>3, <3>3, <3>4
  <2> QED BY <2>2, <2>3
<1>5. Summing(f, g, S)
  <2>1. ASSUME NEW R \in SUBSET S
        PROVE  g[R] = IF R = {} THEN 0 ELSE f[Picked(R)] + g[R \ {Picked(R)}]
    <3>1. CASE R = {}
      BY <3>1
    <3>2. CASE R # {}
      <4> DEFINE Q == R \ {Picked(R)}
      <4>1. Q \in SUBSET S /\ Q # S
        BY <3>2, PickedIn
      <4>2. g[Q] = value(Q)
        <5> HIDE DEF g, Q, value
        <5> QED BY <1>4, <4>1
      <4>3. g[R] = f[Picked(R)] + value(Q)
        BY <3>2
      <4> QED BY <3>2, <4>2, <4>3
    <3> QED BY <3>1, <3>2
  <2>2. g = [R \in SUBSET S |-> g[R]]
    OBVIOUS
  <2> HIDE DEF g
  <2>3. [R \in SUBSET S |-> g[R]]
            = [R \in SUBSET S |-> IF R = {} THEN 0 ELSE f[Picked(R)] + g[R \ {Picked(R)}]]
    BY <2>1
  <2> QED BY <2>2, <2>3 DEF Summing
<1> QED BY <1>2, <1>5

LEMMA TotalUnfolds ==
  ASSUME NEW f, NEW S, IsFiniteSet(S)
  PROVE  Total(f, S) = IF S = {} THEN 0 ELSE f[Picked(S)] + Total(f, S \ {Picked(S)})
<1>1. ASSUME NEW R, IsFiniteSet(R) PROVE Summing(f, Sum(f, R), R)
  <2>1. \E g : Summing(f, g, R)
    BY <1>1, SumExists
  <2> QED BY <2>1 DEF Summing, Sum
<1>2. Sum(f, S)[S] = IF S = {} THEN 0 ELSE f[Picked(S)] + Sum(f, S)[S \ {Picked(S)}]
  <2>1. S \in SUBSET S
    OBVIOUS
  <2> QED BY <1>1, <2>1 DEF Summing
<1>3. CASE S = {}
  BY <1>2, <1>3, TotalIsSum
<1>4. CASE S # {}
  <2> DEFINE Q == S \ {Picked(S)}
  <2>1. Q \in SUBSET S /\ IsFiniteSet(Q) /\ Q \in SUBSET Q
    BY FS_Subset
  <2>2. Sum(f, Q)[Q] = Sum(f, S)[Q]
    <3> HIDE DEF Q
    <3> QED BY <1>1, <2>1, SumsAgree
  <2> QED BY <1>2, <1>4, <2>2, TotalIsSum
<1> QED BY <1>3, <1>4

LEMMA TotalIsInt ==
  ASSUME NEW D, NEW f \in [D -> Int], NEW T \in SUBSET D, IsFiniteSet(T)
  PROVE  Total(f, T) \in Int
<1> DEFINE family == {S \in SUBSET T : Total(f, S) \notin Int}
<1>1. family \in SUBSET {S \in SUBSET T : IsFiniteSet(S)}
  BY FS_Subset
<1> SUFFICES ASSUME family # {} PROVE FALSE
  OBVIOUS
<1>2. PICK S \in family : \A R \in SUBSET S : R # S => R \notin family
  <2> HIDE DEF family
  <2> QED BY <1>1, SmallestSet
<1>3. IsFiniteSet(S) /\ S \in SUBSET T
  BY <1>1, <1>2
<1>4. S # {}
  <2>1. S = {} => Total(f, S) = 0
    BY <1>3, TotalUnfolds
  <2> QED BY <1>2, <2>1
<1>5. Picked(S) \in D /\ S \ {Picked(S)} \in SUBSET S /\ S \ {Picked(S)} # S
  BY <1>3, <1>4, PickedIn
<1>6. Total(f, S) = f[Picked(S)] + Total(f, S \ {Picked(S)})
  BY <1>3, <1>4, TotalUnfolds
<1>7. Total(f, S \ {Picked(S)}) \in Int /\ f[Picked(S)] \in Int
  BY <1>2, <1>3, <1>5
<1> QED BY <1>2, <1>6, <1>7

(* Whichever element is taken out.                                              *)
LEMMA TotalSplits ==
  ASSUME NEW D, NEW f \in [D -> Int], NEW T \in SUBSET D, IsFiniteSet(T), NEW x \in T
  PROVE  Total(f, T) = f[x] + Total(f, T \ {x})
<1> DEFINE family == {S \in SUBSET T : \E y \in S : Total(f, S) # f[y] + Total(f, S \ {y})}
<1>1. family \in SUBSET {S \in SUBSET T : IsFiniteSet(S)}
  BY FS_Subset
<1> SUFFICES ASSUME family # {} PROVE FALSE
  OBVIOUS
<1>2. PICK S \in family : \A R \in SUBSET S : R # S => R \notin family
  <2> HIDE DEF family
  <2> QED BY <1>1, SmallestSet
<1>3. PICK y \in S : Total(f, S) # f[y] + Total(f, S \ {y})
  BY <1>2
<1>4. IsFiniteSet(S) /\ S \in SUBSET T
  BY <1>1, <1>2
<1> DEFINE p == Picked(S)
<1>5. p \in S /\ Total(f, S) = f[p] + Total(f, S \ {p})
  BY <1>4, PickedIn, TotalUnfolds
<1> HIDE DEF p
<1>6. p # y
  BY <1>3, <1>5
<1>7. /\ S \ {p} \in SUBSET S /\ S \ {p} # S /\ y \in S \ {p}
      /\ S \ {y} \in SUBSET S /\ S \ {y} # S /\ p \in S \ {y}
      /\ (S \ {p}) \ {y} = (S \ {y}) \ {p}
  BY <1>5, <1>6
<1>8. Total(f, S \ {p}) = f[y] + Total(f, (S \ {p}) \ {y})
  BY <1>2, <1>4, <1>7
<1>9. Total(f, S \ {y}) = f[p] + Total(f, (S \ {y}) \ {p})
  BY <1>2, <1>4, <1>7
<1>10. Total(f, (S \ {y}) \ {p}) \in Int /\ f[p] \in Int /\ f[y] \in Int
  <2>1. (S \ {y}) \ {p} \in SUBSET D /\ IsFiniteSet((S \ {y}) \ {p})
    BY <1>4, FS_Subset
  <2>2. p \in D /\ y \in D
    BY <1>4, <1>5
  <2>3. Total(f, (S \ {y}) \ {p}) \in Int
    BY <2>1, TotalIsInt
  <2>4. f[p] \in Int /\ f[y] \in Int
    <3> HIDE DEF family
    <3> QED BY <2>2
  <2> QED BY <2>3, <2>4
<1>11. Total(f, S \ {p}) = f[y] + Total(f, (S \ {y}) \ {p})
  BY <1>7, <1>8
<1> HIDE DEF family
<1> QED BY <1>3, <1>5, <1>9, <1>10, <1>11

-----------------------------------------------------------------------------
(* The lists of a posted result, up to its second look at the state, after which  *)
(* they are those of a trade.                                                    *)
SettleRead == <<"read", "increment", "refresh", "read", "enforce", "respond">>
SettleRoll == <<"roll", "increment", "refresh", "read", "enforce", "respond">>
SettleHeal == <<"heal", "increment", "refresh", "read", "enforce", "respond">>
SettleAdd == <<"increment", "refresh", "read", "enforce", "respond">>
SettleRefresh == <<"refresh", "read", "enforce", "respond">>
SettleMark == <<"mark", "read", "enforce", "respond">>
Unbooked == {SettleRead, SettleRoll, SettleHeal, SettleAdd}
Settling == Unbooked \cup {SettleRefresh, SettleMark, ToRead, ToRoll, ToHeal, ToEnforce, ToRespond}

Judged == {"settle", "trade"}
Judging == {"increment", "refresh", "mark", "enforce"}
Free(t) == \A i \in 1..Len(t) : t[i] \notin Judging
Listed(q) == IF q.op \in Judged THEN q.todo \in Settling ELSE Free(q.todo)

(* A request was called on some day, and none adds to a row of no day.            *)
Dated(q, d) == q.todo # <<>> =>
    /\ q.day >= 1
    /\ q.op = "settle" /\ q.todo \in {SettleHeal, SettleAdd} => d >= 1
Owing(q, b) == q.op = "settle" /\ q.todo \in Unbooked => b[q.arg] = 0
Fair(q, d, b) == Listed(q) /\ Dated(q, d) /\ Owing(q, b)

BookedOn(d, b) == {t \in Trades : b[t] = d /\ d # 0}
Sums(w, b) == w.pnl = Total(PnlOf, BookedOn(w.day, b))

Apart == \A r, o \in Requests :
    req[r].op = "settle" /\ req[o].op = "settle" /\ req[r].arg = req[o].arg => r = o

SumInv ==
    /\ Sums(row, booked)
    /\ IsFiniteSet({t \in Trades : booked[t] # 0})
    /\ \A t \in Trades : booked[t] <= row.day
    /\ Apart
    /\ \A r \in Requests : Fair(req[r], row.day, booked)

(* A new day's row is written over a row that another request has already made of  *)
(* that day, or of a later one.                                                  *)
LateRoll == \E r \in Requests : Roll(r) /\ row.day >= req[r].day

-----------------------------------------------------------------------------
(* The lists.                                                                  *)

LEMMA SettleLists ==
  /\ Head(SettleRead) = "read" /\ Head(SettleRoll) = "roll" /\ Head(SettleHeal) = "heal"
  /\ Head(SettleAdd) = "increment" /\ Head(SettleRefresh) = "refresh" /\ Head(SettleMark) = "mark"
  /\ Tail(SettleRead) = SettleAdd /\ Tail(SettleRoll) = SettleAdd /\ Tail(SettleHeal) = SettleAdd
  /\ Tail(SettleAdd) = SettleRefresh /\ Tail(SettleRefresh) = ToRead /\ Tail(SettleMark) = ToRead
  /\ \A t \in Settling : t # <<>>
  BY DEF SettleRead, SettleRoll, SettleHeal, SettleAdd, SettleRefresh, SettleMark,
         Settling, Unbooked, ToRead, ToRoll, ToHeal, ToEnforce, ToRespond

LEMMA UnbookedLists ==
  /\ SettleRefresh \notin Unbooked /\ SettleMark \notin Unbooked
  /\ ToRead \notin Unbooked /\ ToRoll \notin Unbooked /\ ToHeal \notin Unbooked
  /\ ToEnforce \notin Unbooked /\ ToRespond \notin Unbooked
<1>1. \A t \in Unbooked : Len(t) > 4
  BY DEF Unbooked, SettleRead, SettleRoll, SettleHeal, SettleAdd
<1>2. ~(Len(SettleRefresh) > 4) /\ ~(Len(SettleMark) > 4)
  BY DEF SettleRefresh, SettleMark
<1>3. /\ ~(Len(ToRead) > 4) /\ ~(Len(ToRoll) > 4) /\ ~(Len(ToHeal) > 4) /\ ~(Len(ToEnforce) > 4)
      /\ ~(Len(ToRespond) > 4)
  BY DEF ToRead, ToRoll, ToHeal, ToEnforce, ToRespond
<1> HIDE DEF Unbooked
<1> QED BY <1>1, <1>2, <1>3

(* Where a posted result is.                                                     *)
LEMMA SettleAt ==
  ASSUME NEW t \in Settling
  PROVE  /\ Head(t) = "read" => t \in {SettleRead, ToRead}
         /\ Head(t) = "roll" => t \in {SettleRoll, ToRoll}
         /\ Head(t) = "heal" => t \in {SettleHeal, ToHeal}
         /\ Head(t) = "increment" => t = SettleAdd
         /\ Head(t) = "refresh" => t = SettleRefresh
         /\ Head(t) = "mark" => t = SettleMark
         /\ Head(t) = "enforce" => t = ToEnforce
         /\ Head(t) = "respond" => t = ToRespond
         /\ Head(t) \notin {"unlock", "lock", "configure"}
  BY SettleLists, TradeLists DEF Settling, Unbooked

LEMMA Prefixed ==
  ASSUME NEW u \in Seq(Stages), NEW t \in Seq(Stages), NEW stage \in Stages,
         t # <<>>, Head(t) = stage, Tail(t) = u
  PROVE  <<stage>> \o u = t
<1> DEFINE h == <<stage>>
           c == h \o u
<1>1. h \in Seq(Stages) /\ Len(h) = 1 /\ h[1] = stage
  OBVIOUS
<1>2. /\ Len(t) \in Nat /\ Len(t) >= 1 /\ t[1] = stage /\ Len(u) = Len(t) - 1
      /\ \A i \in 1..Len(u) : u[i] = t[i + 1]
  OBVIOUS
<1> HIDE DEF h
<1>3. /\ c \in Seq(Stages) /\ Len(c) = Len(h) + Len(u)
      /\ \A i \in 1..Len(h) + Len(u) : c[i] = IF i <= Len(h) THEN h[i] ELSE u[i - Len(h)]
  BY ONLY <1>1, u \in Seq(Stages), ConcatProperties
<1> HIDE DEF c
<1>4. Len(c) = Len(t)
  BY <1>1, <1>2, <1>3
<1>5. \A i \in 1..Len(c) : c[i] = t[i]
  <2> TAKE i \in 1..Len(c)
  <2>1. CASE i = 1
    BY <1>1, <1>2, <1>3, <1>4, <2>1
  <2>2. CASE i # 1
    <3>1. i - 1 \in 1..Len(u) /\ (i - 1) + 1 = i /\ ~(i <= 1) /\ i \in 1..Len(h) + Len(u)
      BY <1>1, <1>2, <1>3, <1>4, <2>2
    <3>2. c[i] = u[i - 1]
      BY <1>1, <1>3, <3>1
    <3> QED BY <1>2, <3>1, <3>2
  <2> QED BY <2>1, <2>2
<1>6. c = t
  BY <1>3, <1>4, <1>5, SeqEqual
<1> QED BY <1>6 DEF c, h

LEMMA SettlePrefixed ==
  /\ <<"roll">> \o SettleAdd = SettleRoll /\ <<"heal">> \o SettleAdd = SettleHeal
  /\ <<"mark">> \o ToRead = SettleMark
<1>1. {SettleAdd, SettleRoll, SettleHeal, SettleMark, ToRead} \in SUBSET Seq(Stages)
  BY DEF SettleAdd, SettleRoll, SettleHeal, SettleMark, ToRead, Stages, Queries
<1>2. {"roll", "heal", "mark"} \in SUBSET Stages
  BY DEF Stages, Queries
<1>3. SettleRoll # <<>> /\ SettleHeal # <<>> /\ SettleMark # <<>>
  BY DEF SettleRoll, SettleHeal, SettleMark
<1> QED BY <1>1, <1>2, <1>3, SettleLists, Prefixed

(* The lists of other requests hold nothing of these, whatever is taken from     *)
(* them or put in front.                                                         *)
LEMMA FreeTail ==
  ASSUME NEW t \in Seq(Stages), t # <<>>, Free(t)
  PROVE  Free(Tail(t))
<1>1. \A i \in 1..Len(Tail(t)) : Tail(t)[i] = t[i + 1] /\ i + 1 \in 1..Len(t)
  OBVIOUS
<1> QED BY <1>1 DEF Free

LEMMA FreePrefixed ==
  ASSUME NEW t \in Seq(Stages), Free(t), NEW stage \in {"roll", "heal"}
  PROVE  Free(<<stage>> \o t) /\ Head(<<stage>> \o t) = stage
<1> DEFINE c == <<stage>> \o t
<1>1. c \in Seq(Stages) /\ Len(c) = Len(t) + 1 /\ c[1] = stage /\ Len(t) \in Nat
      /\ \A i \in 2..Len(c) : c[i] = t[i - 1] /\ i - 1 \in 1..Len(t)
  BY DEF Stages, Queries
<1> HIDE DEF c
<1>2. \A i \in 1..Len(c) : i = 1 \/ i \in 2..Len(c)
  BY <1>1
<1>3. c[1] \notin Judging
  BY <1>1 DEF Judging
<1>4. \A i \in 2..Len(c) : c[i] \notin Judging
  BY <1>1 DEF Free
<1>5. Head(c) = stage
  BY <1>1
<1> QED BY <1>2, <1>3, <1>4, <1>5 DEF c, Free

LEMMA FreeHead ==
  ASSUME NEW t \in Seq(Stages), t # <<>>, Free(t)
  PROVE  Head(t) \notin Judging
<1>1. 1 \in 1..Len(t) /\ Head(t) = t[1]
  OBVIOUS
<1> QED BY <1>1 DEF Free

LEMMA FreePrograms ==
  ASSUME NEW op \in AllOps, op \notin Judged
  PROVE  Free(Program(op)) /\ Head(Program(op)) = "read" /\ Program(op) # <<>>
<1>1. CASE op = "poll"
  BY <1>1 DEF Program, Free, Judging
<1>4. CASE op = "reset"
  BY <1>4 DEF Program, Free, Judging
<1>5. CASE op = "engage"
  BY <1>5 DEF Program, Free, Judging
<1>6. CASE op = "limit"
  BY <1>6 DEF Program, Free, Judging
<1> QED BY <1>1, <1>4, <1>5, <1>6 DEF AllOps, Judged

-----------------------------------------------------------------------------
(* What becomes of a request.                                                   *)

LEMMA CalledFields ==
  ASSUME NEW q \in RequestType
  PROVE  /\ Called(q).todo = q.todo /\ Called(q).op = q.op /\ Called(q).arg = q.arg
         /\ Called(q).day = IF Head(q.todo) = "read" THEN today ELSE q.day
  BY DEF RequestType, Called

(* What a request looks like before it goes on to its next stage.                 *)
Ready(q, d, b) ==
    /\ q \in RequestType /\ Listed(q) /\ Owing(q, b) /\ q.day >= 1
    /\ q.op = "settle" /\ q.todo \in {SettleHeal, SettleAdd} => d >= 1

LEMMA CalledFair ==
  ASSUME NEW q, NEW d \in Int, NEW b, Ready(q, d, b), d <= today, today >= 1
  PROVE  Fair(Called(q), d, b) /\ Called(q).op = q.op /\ Called(q).arg = q.arg
<1>1. /\ Called(q).todo = q.todo /\ Called(q).op = q.op /\ Called(q).arg = q.arg
      /\ Called(q).day = IF Head(q.todo) = "read" THEN today ELSE q.day
  BY CalledFields DEF Ready
<1>2. Listed(Called(q)) /\ Owing(Called(q), b)
  BY <1>1 DEF Ready, Listed, Owing
<1>3. Dated(Called(q), d)
  BY <1>1 DEF Ready, Dated
<1> QED BY <1>1, <1>2, <1>3 DEF Fair

LEMMA ReturnedFair ==
  ASSUME NEW q, NEW d \in Int, NEW b, Ready(q, d, b), d <= today, today >= 1, q.todo # <<>>
  PROVE  Fair(Returned(q), d, b) /\ Returned(q).op = q.op /\ Returned(q).arg = q.arg
<1>1. CASE Head(q.todo) = "enforce" /\ (q.snap.state.locked \/ ~q.snap.over)
  <2> DEFINE p == [q EXCEPT !.todo = Tail(@)]
  <2>1. Returned(q) = Called(p)
    BY <1>1 DEF Returned
  <2>2. q \in RequestType /\ q.todo \in Seq(Stages)
    BY RequestFields DEF Ready
  <2>3. /\ p \in RequestType /\ p.todo = Tail(q.todo) /\ p.op = q.op /\ p.day = q.day
        /\ p.arg = q.arg
    <3>1. Tail(q.todo) \in Seq(Stages)
      BY <2>2
    <3> QED BY <2>2, <3>1 DEF RequestType
  <2> HIDE DEF p
  <2>4. CASE q.op \in Judged
    <3>1. q.todo = ToEnforce
      BY <1>1, <2>4, SettleAt DEF Ready, Listed
    <3>2. p.todo = ToRespond /\ ToRespond \in Settling /\ Head(ToRespond) = "respond"
      BY <2>3, <3>1, TradeLists DEF Settling
    <3>3. ToRespond \notin {SettleHeal, SettleAdd}
      BY <3>2, SettleLists
    <3>4. Ready(p, d, b)
      BY <2>3, <2>4, <3>2, <3>3, UnbookedLists DEF Ready, Listed, Owing
    <3> QED BY <2>1, <2>3, <3>4, CalledFair
  <2>5. CASE q.op \notin Judged
    <3>1. Free(q.todo)
      BY <2>5 DEF Ready, Listed
    <3>2. Free(p.todo)
      BY <2>2, <2>3, <3>1, FreeTail
    <3>3. Ready(p, d, b)
      BY <2>3, <2>5, <3>2 DEF Ready, Listed, Owing, Judged
    <3> QED BY <2>1, <2>3, <3>3, CalledFair
  <2> QED BY <2>4, <2>5
<1>2. CASE ~(Head(q.todo) = "enforce" /\ (q.snap.state.locked \/ ~q.snap.over))
  BY <1>2, CalledFair DEF Returned
<1> QED BY <1>1, <1>2

LEMMA ResolvedFair ==
  ASSUME NEW q, NEW s \in Rows, NEW b, Ready(q, s.day, b), s.day <= today, today >= 1, q.todo # <<>>,
         q.op \in Judged => q.todo \in {SettleAdd, ToEnforce}
  PROVE  Fair(Resolved(q, s), s.day, b) /\ Resolved(q, s).op = q.op /\ Resolved(q, s).arg = q.arg
<1>1. q \in RequestType /\ q.todo \in Seq(Stages) /\ q.day \in Int /\ s.day \in Int
  BY RequestFields, RowFields DEF Ready
<1>2. CASE Phantom(s)
  <2> DEFINE t == <<"heal">> \o q.todo
             p == [q EXCEPT !.todo = t, !.snap = Healed(s)]
  <2>1. Resolved(q, s) = p
    BY <1>2 DEF Resolved
  <2>2. q.op \in Judged => t \in {SettleHeal, ToHeal} /\ (q.todo = SettleAdd => t = SettleHeal)
                           /\ (q.todo = ToEnforce => t = ToHeal)
    BY SettlePrefixed, InsertedInTrade
  <2>3. q.op \notin Judged => Free(t) /\ Head(t) = "heal"
    BY <1>1, FreePrefixed DEF Ready, Listed
  <2> HIDE DEF t
  <2>4. p.todo = t /\ p.op = q.op /\ p.day = q.day /\ p.arg = q.arg
    BY <1>1 DEF RequestType
  <2> HIDE DEF p
  <2>5. Head(SettleHeal) = "heal" /\ Head(ToHeal) = "heal"
    BY SettleLists, TradeLists
  <2>6. Listed(p)
    BY <2>2, <2>3, <2>4 DEF Listed, Settling, Unbooked
  <2>7. ToHeal \notin {SettleHeal, SettleAdd}
    BY UnbookedLists DEF Unbooked
  <2>8. Head(t) = "heal"
    BY <2>2, <2>3, <2>5
  <2>9. Dated(p, s.day)
    BY <2>2, <2>4, <2>7, <2>8 DEF Ready, Dated, Judged
  <2>10. q.op = "settle" /\ t \in Unbooked => q.todo \in Unbooked
    BY <2>2, UnbookedLists DEF Unbooked, Judged
  <2>11. Owing(p, b)
    BY <2>4, <2>10 DEF Ready, Owing
  <2> QED BY <2>1, <2>4, <2>6, <2>9, <2>11 DEF Fair
<1>3. CASE ~Phantom(s)
  <2> DEFINE p == [q EXCEPT !.snap = Snapshot(s)]
  <2>1. Resolved(q, s) = Returned(p)
    BY <1>3 DEF Resolved
  <2>2. p.todo = q.todo /\ p.op = q.op /\ p.day = q.day /\ p.arg = q.arg /\ p \in RequestType
    BY <1>1, SnapshotIsTyped DEF RequestType
  <2> HIDE DEF p
  <2>3. Ready(p, s.day, b)
    BY <2>2 DEF Ready, Listed, Owing
  <2> QED BY <1>1, <2>1, <2>2, <2>3, ReturnedFair
<1> QED BY <1>2, <1>3

(* What is left of a request, when it does not add what it takes away.            *)
LEMMA RestReady ==
  ASSUME Inv, SumInv, NEW r \in Requests, req[r].todo # <<>>, Head(req[r].todo) # "respond",
         NEW d \in Int, NEW b,
         req[r].op = "settle" /\ Tail(req[r].todo) \in Unbooked => b[req[r].arg] = 0,
         req[r].op = "settle" /\ Tail(req[r].todo) = SettleAdd => d >= 1
  PROVE  /\ Ready(Rest(r), d, b) /\ Rest(r).todo # <<>> /\ Rest(r).todo = Tail(req[r].todo)
         /\ Rest(r).op = req[r].op /\ Rest(r).arg = req[r].arg
<1> DEFINE q == req[r]
<1>1. /\ Rest(r) \in RequestType /\ Rest(r).todo # <<>> /\ Rest(r).todo = Tail(q.todo)
      /\ Rest(r).op = q.op /\ Rest(r).arg = q.arg /\ Rest(r).day = q.day
  BY TailOfTodo DEF Inv, Good, Rest
<1>2. q \in RequestType /\ q.todo \in Seq(Stages) /\ Fair(q, row.day, booked)
  BY RequestFields DEF Inv, Good, SumInv
<1>3. q.day >= 1
  BY <1>2 DEF Fair, Dated
<1>4. CASE q.op \in Judged
  <2>1. q.todo \in Settling
    BY <1>2, <1>4 DEF Fair, Listed
  <2>2. Tail(q.todo) \in {SettleAdd, SettleRefresh, ToRead, ToEnforce, ToRespond}
    BY <2>1, SettleLists, TradeLists DEF Settling, Unbooked
  <2>3. Tail(q.todo) \in Settling /\ Tail(q.todo) # SettleHeal
    BY <2>2, SettleLists, TradeLists DEF Settling, Unbooked
  <2> QED BY <1>1, <1>3, <1>4, <2>3 DEF Ready, Listed, Owing
<1>5. CASE q.op \notin Judged
  <2>1. Free(q.todo)
    BY <1>2, <1>5 DEF Fair, Listed
  <2>2. Free(Tail(q.todo))
    BY <1>2, <2>1, FreeTail
  <2> QED BY <1>1, <1>3, <1>5, <2>2 DEF Ready, Listed, Owing, Judged
<1> QED BY <1>4, <1>5

(* A request goes on, ends or comes; the sum of the row and what was added are as   *)
(* they were.                                                                    *)
LEMMA Moved ==
  ASSUME Inv, SumInv, NEW r \in Requests, NEW q, Become(r, q), UNCHANGED booked,
         row'.day = row.day, row'.pnl = row.pnl, Fair(q, row.day, booked),
         q.op = "settle" => req[r].op = "settle" /\ q.arg = req[r].arg
  PROVE  SumInv'
<1>1. req'[r] = q /\ \A o \in Requests : o # r => req'[o] = req[o]
  BY DEF Inv, TypeOK, Become
<1>2. Sums(row', booked')
  BY DEF SumInv, Sums
<1>3. IsFiniteSet({t \in Trades : booked'[t] # 0}) /\ \A t \in Trades : booked'[t] <= row'.day
  BY DEF SumInv
<1>4. Apart'
  <2>1. \A o, p \in Requests :
          req'[o].op = "settle" /\ req'[p].op = "settle" /\ req'[o].arg = req'[p].arg => o = p
    BY <1>1 DEF SumInv, Apart
  <2> QED BY <2>1 DEF Apart
<1>5. \A o \in Requests : Fair(req'[o], row'.day, booked')
  BY <1>1 DEF SumInv
<1> QED BY <1>2, <1>3, <1>4, <1>5 DEF SumInv

LEMMA DayBound ==
  ASSUME Inv, NEW r \in Requests
  PROVE  /\ today \in Nat /\ today >= 1 /\ today <= MaxDay /\ row \in Rows /\ row.day \in Nat
         /\ row.day <= today /\ req[r] \in RequestType /\ req[r].day \in Nat /\ req[r].day <= today
         /\ booked \in [Trades -> 0..MaxDay]
  BY SettingsAssumption, RowFields, RequestFields DEF Inv, TypeOK, Good

(* Where a request of results or trades is, by its next stage.                     *)
LEMMA Where ==
  ASSUME Inv, SumInv, NEW r \in Requests, NEW stage, At(r, stage)
  PROVE  /\ req[r] \in RequestType /\ Fair(req[r], row.day, booked) /\ req[r].todo # <<>>
         /\ req[r] # Idle /\ Head(req[r].todo) = stage /\ GoodTodo(req[r])
         /\ req[r].op \in Judged => req[r].todo \in Settling
         /\ stage \in Judging => req[r].op \in Judged
         /\ stage \in {"increment", "refresh", "mark"} => req[r].op = "settle"
<1>1. /\ req[r] \in RequestType /\ Fair(req[r], row.day, booked) /\ req[r].todo # <<>>
      /\ Head(req[r].todo) = stage /\ GoodTodo(req[r])
  BY DEF At, Inv, Good, SumInv
<1>2. req[r] # Idle
  BY <1>1 DEF Idle
<1>3. req[r].op \in Judged => req[r].todo \in Settling
  BY <1>1 DEF Fair, Listed
<1>4. stage \in Judging => req[r].op \in Judged
  <2> SUFFICES ASSUME req[r].op \notin Judged PROVE stage \notin Judging
    OBVIOUS
  <2>1. Free(req[r].todo) /\ req[r].todo \in Seq(Stages)
    BY <1>1, RequestFields DEF Fair, Listed
  <2> QED BY <1>1, <2>1, FreeHead
<1>5. stage \in {"increment", "refresh", "mark"} => req[r].op = "settle"
  <2>1. stage \in {"increment", "refresh", "mark"} => req[r].op # "trade"
    BY TradeAt
  <2> QED BY <1>4, <2>1 DEF Judged, Judging
<1> QED BY <1>1, <1>2, <1>3, <1>4, <1>5

LEMMA IdleIsFair ==
  ASSUME NEW d, NEW b
  PROVE  Fair(Idle, d, b) /\ Idle.op = "none"
<1>1. Idle.op = "none" /\ Idle.todo = <<>>
  BY DEF Idle
<1>2. Free(Idle.todo)
  BY <1>1 DEF Free
<1> QED BY <1>1, <1>2 DEF Fair, Listed, Dated, Owing, Judged

LEMMA ArriveSums ==
  ASSUME Inv, SumInv, NEW r \in Requests, NEW op \in AllOps, NEW arg, Arrive(r, op, arg),
         op = "settle" => /\ booked[arg] = 0
                          /\ \A o \in Requests : ~(req[o].op = "settle" /\ req[o].arg = arg)
  PROVE  SumInv'
<1> DEFINE q == [Idle EXCEPT !.op = op, !.todo = Program(op), !.day = today, !.arg = arg]
<1>1. q.op = op /\ q.todo = Program(op) /\ q.day = today /\ q.arg = arg
  BY DEF Idle
<1>2. Become(r, q) /\ UNCHANGED <<row, booked>>
  BY DEF Arrive
<1> HIDE DEF q
<1>3. req'[r] = q /\ \A o \in Requests : o # r => req'[o] = req[o]
  BY <1>2 DEF Inv, TypeOK, Become
<1>4. Head(Program(op)) = "read" /\ (op \in Judged => Program(op) \in Settling)
  <2>1. Program("settle") = SettleRead /\ Program("trade") = ToRead
    BY DEF Program, SettleRead, ToRead
  <2> QED BY <2>1, FreePrograms, SettleLists, TradeLists DEF Judged, Settling, Unbooked
<1>5. Listed(q)
  BY <1>1, <1>4, FreePrograms DEF Listed
<1>6. Dated(q, row.day)
  <2>1. op = "settle" => Program(op) \notin {SettleHeal, SettleAdd}
    BY <1>4, SettleLists
  <2> QED BY <1>1, <1>4, <2>1, DayBound DEF Dated
<1>7. Owing(q, booked)
  BY <1>1 DEF Owing
<1>8. \A o, p \in Requests :
        req'[o].op = "settle" /\ req'[p].op = "settle" /\ req'[o].arg = req'[p].arg => o = p
  <2>1. \A o \in Requests : o # r => ~(req'[o].op = "settle" /\ q.op = "settle" /\ req'[o].arg = q.arg)
    BY <1>1, <1>3
  <2> QED BY <1>3, <2>1 DEF SumInv, Apart
<1>9. \A o \in Requests : Fair(req'[o], row'.day, booked')
  BY <1>2, <1>3, <1>5, <1>6, <1>7 DEF Fair, SumInv
<1>10. Sums(row', booked') /\ Apart'
  BY <1>2, <1>8 DEF SumInv, Apart
<1> QED BY <1>2, <1>9, <1>10 DEF SumInv

LEMMA SendSums ==
  ASSUME Inv, SumInv, NEW r \in Requests, Send(r)
  PROVE  SumInv'
<1>1. CASE \E op \in {"poll", "trade", "reset", "engage"} : Arrive(r, op, 0)
  BY <1>1, ArriveSums DEF AllOps
<1>2. CASE \E l \in LimitChoices : Arrive(r, "limit", l)
  BY <1>2, ArriveSums DEF AllOps
<1>3. CASE \E t \in Trades :
        /\ booked[t] = 0 /\ \A o \in Requests : ~(req[o].op = "settle" /\ req[o].arg = t)
        /\ Arrive(r, "settle", t)
  BY <1>3, ArriveSums DEF AllOps
<1> QED BY <1>1, <1>2, <1>3 DEF Send

LEMMA ReadSums ==
  ASSUME Inv, SumInv, NEW r \in Requests, Read(r)
  PROVE  SumInv'
<1> DEFINE q == req[r]
           u == Tail(q.todo)
           p == [q EXCEPT !.todo = <<"roll">> \o Tail(@), !.peak = row.peak]
<1>1. /\ At(r, "read") /\ UNCHANGED <<row, booked>>
      /\ row.day = q.day => Become(r, Resolved(Rest(r), row))
      /\ row.day # q.day => Become(r, p)
  BY DEF Read
<1>2. /\ q \in RequestType /\ Fair(q, row.day, booked) /\ q.todo # <<>> /\ Head(q.todo) = "read"
      /\ q.op \in Judged => q.todo \in Settling
  BY <1>1, Where
<1>3. q.day >= 1 /\ row \in Rows /\ row.day \in Nat /\ q.day \in Nat
      /\ row.day <= today /\ today >= 1
  BY <1>2, DayBound DEF Fair, Dated
<1>4. q.op \in Judged => q.todo \in {SettleRead, ToRead} /\ u \in {SettleAdd, ToEnforce}
  BY <1>2, SettleAt, SettleLists, TradeLists
<1>5. q.op = "settle" /\ u \in Unbooked => booked[q.arg] = 0
  <2>1. q.op = "settle" /\ u \in Unbooked => q.todo \in Unbooked
    BY <1>4, UnbookedLists, TradeLists DEF Unbooked, Judged
  <2> QED BY <1>2, <2>1 DEF Fair, Owing
<1>6. CASE row.day = q.day
  <2>0. /\ req[r].todo # <<>> /\ Head(req[r].todo) # "respond" /\ row.day \in Int
        /\ req[r].op = "settle" /\ Tail(req[r].todo) \in Unbooked => booked[req[r].arg] = 0
        /\ req[r].op = "settle" /\ Tail(req[r].todo) = SettleAdd => row.day >= 1
    BY <1>2, <1>3, <1>5, <1>6
  <2>1. /\ Ready(Rest(r), row.day, booked) /\ Rest(r).todo # <<>> /\ Rest(r).todo = u
        /\ Rest(r).op = q.op /\ Rest(r).arg = q.arg
    <3> HIDE DEF p
    <3> QED BY <2>0, RestReady
  <2> DEFINE z == Resolved(Rest(r), row)
  <2>2. Fair(z, row.day, booked) /\ z.op = q.op /\ z.arg = q.arg
    BY <1>3, <1>4, <2>1, ResolvedFair
  <2> HIDE DEF z
  <2> QED BY <1>1, <1>6, <2>2, Moved DEF z
<1>7. CASE row.day # q.day
  <2> DEFINE t == <<"roll">> \o u
  <2>1. q.op \in Judged => t \in {SettleRoll, ToRoll} /\ (t = SettleRoll => u = SettleAdd)
    <3>1. SettleRoll # ToRoll
      BY UnbookedLists DEF Unbooked
    <3> QED BY <1>4, <3>1, SettlePrefixed, InsertedInTrade
  <2>2. q.op \notin Judged => Free(t) /\ Head(t) = "roll"
    <3> SUFFICES ASSUME q.op \notin Judged PROVE Free(t) /\ Head(t) = "roll"
      OBVIOUS
    <3>1. Free(q.todo) /\ q.todo \in Seq(Stages)
      BY <1>2, RequestFields DEF Fair, Listed
    <3>2. Free(u) /\ u \in Seq(Stages)
      BY <1>2, <3>1, FreeTail
    <3> HIDE DEF u
    <3> QED BY <3>2, FreePrefixed
  <2> HIDE DEF t
  <2>3. p.todo = t /\ p.op = q.op /\ p.day = q.day /\ p.arg = q.arg
    BY <1>2 DEF RequestType, t
  <2>4. Become(r, p)
    BY <1>1, <1>7
  <2> HIDE DEF p
  <2>5. Listed(p)
    BY <2>1, <2>2, <2>3 DEF Listed, Settling, Unbooked
  <2>6. Head(SettleRoll) = "roll" /\ Head(ToRoll) = "roll" /\ Head(SettleHeal) = "heal"
        /\ Head(SettleAdd) = "increment"
    BY SettleLists, TradeLists
  <2>7. Head(t) = "roll"
    BY <2>1, <2>2, <2>6
  <2>8. t \notin {SettleHeal, SettleAdd}
    BY <2>6, <2>7
  <2>9. Dated(p, row.day)
    BY <1>3, <2>3, <2>8 DEF Dated
  <2>10. q.op = "settle" /\ t \in Unbooked => u \in Unbooked
    BY <2>1, UnbookedLists DEF Judged, Unbooked
  <2>11. Owing(p, booked)
    BY <1>5, <2>3, <2>10 DEF Owing
  <2>12. Fair(p, row.day, booked)
    BY <2>5, <2>9, <2>11 DEF Fair
  <2> QED BY <1>1, <2>3, <2>4, <2>12, Moved
<1> QED BY <1>6, <1>7

LEMMA TotalOfNothing ==
  ASSUME NEW f
  PROVE  Total(f, {}) = 0
BY TotalUnfolds, FS_EmptySet

(* No result was added on the day of a row that is made in time; the requests that  *)
(* have read the old row add to the new one.                                      *)
LEMMA RollSums ==
  ASSUME Inv, SumInv, NEW r \in Requests, Roll(r), ~LateRoll
  PROVE  SumInv'
<1> DEFINE q == req[r]
           u == Tail(q.todo)
           w == FreshRow(q.day, q.peak)
           z == Resolved(Rest(r), w)
<1>1. At(r, "roll") /\ UNCHANGED booked /\ row' = w /\ Become(r, z)
  BY DEF Roll
<1>2. /\ q \in RequestType /\ Fair(q, row.day, booked) /\ q.todo # <<>> /\ Head(q.todo) = "roll"
      /\ q.op \in Judged => q.todo \in Settling
  BY <1>1, Where
<1>3. row.day < q.day /\ q.day >= 1 /\ row.day \in Nat /\ q.day \in Nat
      /\ q.day <= today /\ today >= 1 /\ today <= MaxDay /\ today \in Nat
  BY <1>2, DayBound DEF Fair, Dated, LateRoll
<1>4. \A o \in Requests : Fair(req[o], row.day, booked) => Fair(req[o], q.day, booked)
  <2> TAKE o \in Requests
  <2>1. Dated(req[o], row.day) => Dated(req[o], q.day)
    BY <1>3 DEF Dated
  <2> QED BY <2>1 DEF Fair
<1>5. w \in Rows /\ w.day = q.day /\ w.pnl = 0
  BY <1>2, RequestFields, FreshIsRow DEF FreshRow
<1>6. q.op \in Judged => q.todo \in {SettleRoll, ToRoll} /\ u \in {SettleAdd, ToEnforce}
  BY <1>2, SettleAt, SettleLists, TradeLists
<1>7. q.op = "settle" /\ u \in Unbooked => booked[q.arg] = 0
  <2>1. q.op = "settle" /\ u \in Unbooked => q.todo \in Unbooked
    BY <1>6, UnbookedLists, TradeLists DEF Unbooked, Judged
  <2> QED BY <1>2, <2>1 DEF Fair, Owing
<1> HIDE DEF w
<1>8. /\ Ready(Rest(r), w.day, booked) /\ Rest(r).todo # <<>> /\ Rest(r).todo = u
      /\ Rest(r).op = q.op /\ Rest(r).arg = q.arg
  <2>1. w.day \in Int /\ w.day >= 1 /\ Head(q.todo) # "respond"
    BY <1>2, <1>3, <1>5
  <2> QED BY <1>2, <1>7, <2>1, RestReady
<1>9. Fair(z, w.day, booked) /\ z.op = q.op /\ z.arg = q.arg
  BY <1>3, <1>5, <1>6, <1>8, ResolvedFair
<1> HIDE DEF z
<1>10. req'[r] = z /\ \A o \in Requests : o # r => req'[o] = req[o]
  BY <1>1 DEF Inv, TypeOK, Become
<1>11. \A t \in Trades : booked[t] < w.day
  <2>1. \A t \in Trades : booked[t] <= row.day /\ booked[t] \in 0..MaxDay
    BY DayBound DEF SumInv
  <2> HIDE DEF q
  <2> QED BY <1>3, <1>5, <2>1, SettingsAssumption
<1>12. BookedOn(w.day, booked) = {}
  <2>1. \A t \in Trades : booked[t] \in 0..MaxDay
    BY DayBound
  <2>2. \A t \in Trades : booked[t] # w.day
    BY <1>3, <1>5, <1>11, <2>1, SettingsAssumption
  <2> QED BY <2>2 DEF BookedOn
<1>13. Sums(w, booked)
  BY <1>5, <1>12, TotalOfNothing DEF Sums
<1>14. \A t \in Trades : booked[t] <= w.day
  <2>1. \A t \in Trades : booked[t] \in 0..MaxDay
    BY DayBound
  <2> QED BY <1>3, <1>5, <1>11, <2>1, SettingsAssumption
<1>15. Apart'
  <2>1. \A o, p \in Requests :
          req'[o].op = "settle" /\ req'[p].op = "settle" /\ req'[o].arg = req'[p].arg => o = p
    BY <1>9, <1>10 DEF SumInv, Apart
  <2> QED BY <2>1 DEF Apart
<1>16. \A o \in Requests : Fair(req'[o], w.day, booked)
  BY <1>4, <1>5, <1>9, <1>10 DEF SumInv
<1> QED BY <1>1, <1>13, <1>14, <1>15, <1>16 DEF SumInv

LEMMA HealSums ==
  ASSUME Inv, SumInv, NEW r \in Requests, Heal(r)
  PROVE  SumInv'
<1> DEFINE q == req[r]
           u == Tail(q.todo)
           z == Returned(Rest(r))
<1>1. At(r, "heal") /\ UNCHANGED booked /\ row' = Released(row) /\ Become(r, z)
  BY DEF Heal
<1>2. /\ q \in RequestType /\ Fair(q, row.day, booked) /\ q.todo # <<>> /\ Head(q.todo) = "heal"
      /\ q.op \in Judged => q.todo \in Settling
  BY <1>1, Where
<1>3. row \in Rows /\ row.day \in Nat /\ row.day <= today /\ today >= 1
  BY DayBound
<1>4. row'.day = row.day /\ row'.pnl = row.pnl
  BY <1>1, <1>3 DEF Rows, Released
<1>5. q.op \in Judged => q.todo \in {SettleHeal, ToHeal} /\ u \in {SettleAdd, ToEnforce}
                         /\ (u = SettleAdd => q.todo = SettleHeal)
  <2>1. ToEnforce # SettleAdd
    BY UnbookedLists DEF Unbooked
  <2> QED BY <1>2, <2>1, SettleAt, SettleLists, TradeLists
<1>6. q.op = "settle" /\ u \in Unbooked => q.todo = SettleHeal
  BY <1>5, UnbookedLists DEF Judged
<1>7. q.op = "settle" /\ u \in Unbooked => booked[q.arg] = 0
  BY <1>2, <1>6 DEF Fair, Owing, Unbooked
<1>8. q.op = "settle" /\ u = SettleAdd => row.day >= 1
  BY <1>2, <1>5 DEF Fair, Dated, Judged
<1>9. /\ Ready(Rest(r), row.day, booked) /\ Rest(r).todo # <<>>
      /\ Rest(r).op = q.op /\ Rest(r).arg = q.arg
  <2>1. row.day \in Int /\ Head(q.todo) # "respond"
    BY <1>2, <1>3
  <2> QED BY <1>2, <1>7, <1>8, <2>1, RestReady
<1>10. Fair(z, row.day, booked) /\ z.op = q.op /\ z.arg = q.arg
  BY <1>3, <1>9, ReturnedFair
<1> HIDE DEF z
<1> QED BY <1>1, <1>4, <1>10, Moved

(* A request whose list still holds the sum adds a trade.                          *)
LEMMA AddsTrade ==
  ASSUME NEW q \in RequestType, GoodTodo(q), q.todo \in Unbooked
  PROVE  q.arg \in Trades
<1>1. \E i \in 1..Len(q.todo) : q.todo[i] = "increment"
  <2>1. /\ 2 \in 1..Len(SettleRead) /\ SettleRead[2] = "increment"
        /\ 2 \in 1..Len(SettleRoll) /\ SettleRoll[2] = "increment"
        /\ 2 \in 1..Len(SettleHeal) /\ SettleHeal[2] = "increment"
    BY DEF SettleRead, SettleRoll, SettleHeal
  <2>2. 1 \in 1..Len(SettleAdd) /\ SettleAdd[1] = "increment"
    BY DEF SettleAdd
  <2> QED BY <2>1, <2>2 DEF Unbooked
<1> QED BY <1>1 DEF GoodTodo

LEMMA IncrementSums ==
  ASSUME Inv, SumInv, NEW r \in Requests, Increment(r)
  PROVE  SumInv'
<1> DEFINE q == req[r]
           x == q.arg
           d == row.day
           b == [booked EXCEPT ![x] = d]
           old == BookedOn(d, booked)
           new == BookedOn(d, b)
<1>1. /\ At(r, "increment") /\ booked' = b /\ Become(r, Rest(r))
      /\ row' = [row EXCEPT !.pnl = @ + PnlOf[x]]
  BY DEF Increment
<1>2. /\ q \in RequestType /\ Fair(q, d, booked) /\ q.todo # <<>> /\ Head(q.todo) = "increment"
      /\ GoodTodo(q) /\ q.op = "settle" /\ q.todo \in Settling
  BY <1>1, Where DEF Judged
<1>3. q.todo = SettleAdd /\ Tail(q.todo) = SettleRefresh
  BY <1>2, SettleAt, SettleLists
<1>4. booked[x] = 0 /\ d >= 1 /\ x \in Trades
  BY <1>2, <1>3, AddsTrade DEF Fair, Owing, Dated, Unbooked
<1>5. row \in Rows /\ d \in Nat /\ booked \in [Trades -> 0..MaxDay] /\ d <= today /\ today >= 1
      /\ d \in 0..MaxDay
  BY DayBound, RowFields
<1>6. row'.day = d /\ row'.pnl = row.pnl + PnlOf[x]
  BY <1>1, <1>5 DEF Rows
<1>7. b[x] = d /\ \A t \in Trades \ {x} : b[t] = booked[t]
  BY <1>4, <1>5
<1> HIDE DEF b
<1>8. new = old \cup {x} /\ x \notin old /\ new \ {x} = old /\ x \in new
  <2>1. x \notin old
    BY <1>4, <1>5 DEF BookedOn
  <2>2. new = old \cup {x}
    BY <1>4, <1>5, <1>7 DEF BookedOn
  <2> QED BY <2>1, <2>2
<1>9. IsFiniteSet(old) /\ old \in SUBSET Trades
  <2>1. old \in SUBSET {t \in Trades : booked[t] # 0}
    BY DEF BookedOn
  <2> QED BY <2>1, FS_Subset DEF SumInv
<1> HIDE DEF old, new
<1>10. IsFiniteSet(new) /\ new \in SUBSET Trades
  BY <1>4, <1>8, <1>9, FS_AddElement
<1>11. Total(PnlOf, new) = PnlOf[x] + Total(PnlOf, old)
  <2>1. PnlOf \in [Trades -> Int]
    BY SettingsAssumption
  <2>2. Total(PnlOf, new) = PnlOf[x] + Total(PnlOf, new \ {x})
    BY <1>8, <1>10, <2>1, TotalSplits
  <2> QED BY <1>8, <2>2
<1>12. Total(PnlOf, old) \in Int /\ PnlOf[x] \in Int
  BY <1>4, <1>9, SettingsAssumption, TotalIsInt
<1>13. row.pnl = Total(PnlOf, old)
  BY DEF SumInv, Sums, old
<1>14. Sums(row', booked')
  BY <1>1, <1>6, <1>11, <1>12, <1>13 DEF Sums, new
<1>15. IsFiniteSet({t \in Trades : booked'[t] # 0})
  <2>1. {t \in Trades : b[t] # 0} = {t \in Trades : booked[t] # 0} \cup {x}
    BY <1>4, <1>5, <1>7
  <2>2. IsFiniteSet({t \in Trades : booked[t] # 0} \cup {x})
    BY FS_AddElement DEF SumInv
  <2> QED BY <1>1, <2>1, <2>2
<1>16. \A t \in Trades : booked'[t] <= row'.day
  BY <1>1, <1>5, <1>6, <1>7 DEF SumInv
<1>17. /\ Ready(Rest(r), d, b) /\ Rest(r).todo = SettleRefresh
       /\ Rest(r).op = q.op /\ Rest(r).arg = q.arg
  <2>1. d \in Int /\ Head(q.todo) # "respond"
    BY <1>2, <1>5
  <2>2. SettleRefresh \notin Unbooked /\ SettleRefresh # SettleAdd
    BY UnbookedLists DEF Unbooked
  <2> QED BY <1>2, <1>3, <2>1, <2>2, RestReady
<1>18. Fair(Rest(r), d, b)
  <2>1. Head(SettleRefresh) = "refresh" /\ SettleRefresh \notin {SettleHeal, SettleAdd}
    BY SettleLists
  <2> QED BY <1>17, <2>1 DEF Ready, Fair, Dated
<1>19. req'[r] = Rest(r) /\ \A o \in Requests : o # r => req'[o] = req[o]
  BY <1>1 DEF Inv, TypeOK, Become
<1>20. ASSUME NEW o \in Requests, o # r PROVE Fair(req[o], d, b)
  <2>1. Fair(req[o], d, booked) /\ req[o] \in RequestType /\ GoodTodo(req[o])
    BY DEF SumInv, Inv, Good
  <2>2. Owing(req[o], b)
    <3> SUFFICES ASSUME req[o].op = "settle", req[o].todo \in Unbooked PROVE b[req[o].arg] = 0
      BY DEF Owing
    <3>1. req[o].arg \in Trades /\ booked[req[o].arg] = 0
      BY <2>1, AddsTrade DEF Fair, Owing
    <3>2. req[o].arg # x
      BY <1>2, <1>20 DEF SumInv, Apart
    <3> QED BY <1>7, <3>1, <3>2
  <2> QED BY <2>1, <2>2 DEF Fair
<1>21. \A o \in Requests : Fair(req'[o], row'.day, booked')
  BY <1>1, <1>6, <1>18, <1>19, <1>20
<1>22. Apart'
  <2>1. \A o, p \in Requests :
          req'[o].op = "settle" /\ req'[p].op = "settle" /\ req'[o].arg = req'[p].arg => o = p
    BY <1>2, <1>17, <1>19 DEF SumInv, Apart
  <2> QED BY <2>1 DEF Apart
<1> QED BY <1>14, <1>15, <1>16, <1>21, <1>22 DEF SumInv

(* The stages after which a request goes on to the next, which it may have to call.  *)
LEMMA CallsNext ==
  ASSUME Inv, SumInv, NEW r \in Requests,
         NEW stage \in {"refresh", "mark", "unlock", "lock", "configure"}, At(r, stage)
  PROVE  LET z == Called(Rest(r)) IN
         Fair(z, row.day, booked) /\ z.op = req[r].op /\ z.arg = req[r].arg
<1> DEFINE q == req[r]
           u == Tail(q.todo)
<1>1. /\ q \in RequestType /\ q.todo # <<>> /\ Head(q.todo) = stage
      /\ q.op \in Judged => q.todo \in Settling
  BY Where
<1>2. row.day \in Int /\ Head(q.todo) # "respond" /\ row.day <= today /\ today >= 1
  BY <1>1, DayBound
<1>3. q.op \in Judged => u = ToRead
  BY <1>1, SettleAt, SettleLists
<1>4. ToRead \notin Unbooked
  BY UnbookedLists
<1>5. q.op = "settle" => u \notin Unbooked /\ u # SettleAdd
  BY <1>3, <1>4 DEF Judged, Unbooked
<1>6. Ready(Rest(r), row.day, booked) /\ Rest(r).op = q.op /\ Rest(r).arg = q.arg
  BY <1>1, <1>2, <1>5, RestReady
<1> QED BY <1>2, <1>6, CalledFair

LEMMA RefreshSums ==
  ASSUME Inv, SumInv, NEW r \in Requests, Refresh(r)
  PROVE  SumInv'
<1> DEFINE q == req[r]
           z == Called(Rest(r))
           p == [q EXCEPT !.todo = <<"mark">> \o Tail(@), !.peak = Equity(row)]
<1>1. /\ At(r, "refresh") /\ UNCHANGED <<row, booked>>
      /\ Equity(row) > row.peak => Become(r, p)
      /\ ~(Equity(row) > row.peak) => Become(r, z)
  BY DEF Refresh
<1>2. CASE Equity(row) > row.peak
  <2>1. /\ q \in RequestType /\ Fair(q, row.day, booked) /\ q.todo # <<>> /\ Head(q.todo) = "refresh"
        /\ q.op = "settle" /\ q.todo \in Settling
    BY <1>1, Where DEF Judged
  <2>2. Tail(q.todo) = ToRead
    BY <2>1, SettleAt, SettleLists
  <2>3. p.todo = SettleMark /\ p.op = q.op /\ p.day = q.day /\ p.arg = q.arg
    BY <2>1, <2>2, SettlePrefixed DEF RequestType
  <2>4. Become(r, p)
    BY <1>1, <1>2
  <2> HIDE DEF p
  <2>5. Head(SettleMark) = "mark" /\ SettleMark \notin {SettleHeal, SettleAdd} /\ SettleMark \notin Unbooked
    BY SettleLists, UnbookedLists
  <2>6. Fair(p, row.day, booked)
    BY <2>1, <2>3, <2>5 DEF Fair, Listed, Dated, Owing, Judged, Settling
  <2> QED BY <1>1, <2>1, <2>3, <2>4, <2>6, Moved
<1>3. CASE ~(Equity(row) > row.peak)
  <2>1. Fair(z, row.day, booked) /\ z.op = q.op /\ z.arg = q.arg
    BY <1>1, CallsNext
  <2> HIDE DEF z
  <2> QED BY <1>1, <1>3, <2>1, Moved
<1> QED BY <1>2, <1>3

LEMMA WritesSum ==
  ASSUME Inv, SumInv, NEW r \in Requests, Mark(r) \/ Unlock(r) \/ Lock(r) \/ Configure(r)
  PROVE  SumInv'
<1> DEFINE z == Called(Rest(r))
<1>1. PICK stage \in {"mark", "unlock", "lock", "configure"} : At(r, stage)
  BY DEF Mark, Unlock, Lock, Configure
<1>2. UNCHANGED booked /\ Become(r, z)
  BY DEF Mark, Unlock, Lock, Configure
<1>3. row'.day = row.day /\ row'.pnl = row.pnl
  <2>1. row \in Rows
    BY DEF Inv, TypeOK
  <2> QED BY <2>1 DEF Mark, Unlock, Lock, Configure, Released, LockedBy, Rows
<1>4. Fair(z, row.day, booked) /\ z.op = req[r].op /\ z.arg = req[r].arg
  BY <1>1, CallsNext
<1> HIDE DEF z
<1> QED BY <1>2, <1>3, <1>4, Moved

LEMMA EnforceSums ==
  ASSUME Inv, SumInv, NEW r \in Requests, Enforce(r)
  PROVE  SumInv'
<1> DEFINE q == req[r]
           s == [state |-> LockedBy(req[r].snap.state, "drawdown"), over |-> req[r].snap.over]
           p == [Rest(r) EXCEPT !.snap = s]
<1>1. At(r, "enforce") /\ UNCHANGED booked /\ row' = LockedBy(row, "drawdown") /\ Become(r, p)
  BY DEF Enforce
<1>2. /\ q \in RequestType /\ Fair(q, row.day, booked) /\ q.todo # <<>> /\ Head(q.todo) = "enforce"
      /\ q.op \in Judged /\ q.todo \in Settling
  BY <1>1, Where DEF Judging
<1>3. Tail(q.todo) = ToRespond
  BY <1>2, SettleAt, TradeLists
<1>4. row.day \in Int /\ row'.day = row.day /\ row'.pnl = row.pnl
  BY <1>1, DayBound DEF Rows, LockedBy
<1>5. ToRespond \notin Unbooked /\ ToRespond # SettleAdd
  BY UnbookedLists DEF Unbooked
<1>6. /\ Ready(Rest(r), row.day, booked) /\ Rest(r).op = q.op /\ Rest(r).arg = q.arg
      /\ Rest(r).todo = ToRespond
  BY <1>2, <1>3, <1>4, <1>5, RestReady
<1> HIDE DEF s
<1>7. p.todo = ToRespond /\ p.op = q.op /\ p.arg = q.arg /\ p.day = Rest(r).day
  BY <1>6 DEF Ready, RequestType
<1>8. p.day >= 1 /\ Head(ToRespond) = "respond" /\ ToRespond \notin {SettleHeal, SettleAdd}
  BY <1>5, <1>6, <1>7, TradeLists DEF Ready, Unbooked
<1> HIDE DEF p
<1>9. Fair(p, row.day, booked)
  BY <1>2, <1>5, <1>7, <1>8 DEF Fair, Listed, Dated, Owing, Settling
<1> QED BY <1>1, <1>4, <1>7, <1>9, Moved

LEMMA EndSums ==
  ASSUME Inv, SumInv, NEW r \in Requests, Respond(r) \/ Fail(r)
  PROVE  SumInv'
<1>1. UNCHANGED <<row, booked>> /\ Become(r, Idle)
  BY DEF Respond, Fail
<1>2. Fair(Idle, row.day, booked) /\ Idle.op # "settle"
  BY IdleIsFair
<1> HIDE DEF Idle
<1> QED BY <1>1, <1>2, Moved

LEMMA SumStep ==
  ASSUME Inv, SumInv, [Next]_vars, [~LateRoll]_vars
  PROVE  SumInv'
<1>1. ASSUME NEW r \in Requests, Step(r), ~LateRoll PROVE SumInv'
  BY <1>1, SendSums, ReadSums, RollSums, HealSums, IncrementSums, RefreshSums, WritesSum, EnforceSums,
     EndSums DEF Step
<1>2. CASE Restart
  <2>1. UNCHANGED <<row, booked>> /\ \A r \in Requests : req'[r] = Idle
    BY <1>2 DEF Restart
  <2>2. Idle.op # "settle" /\ \A r \in Requests : Fair(req'[r], row'.day, booked')
    BY <2>1, IdleIsFair
  <2>3. Apart'
    BY <2>1, <2>2 DEF Apart
  <2> QED BY <2>1, <2>2, <2>3 DEF SumInv
<1>3. CASE CacheExpires \/ Midnight \/ UNCHANGED vars
  <2>1. UNCHANGED <<row, booked, req>>
    BY <1>3 DEF CacheExpires, Midnight, vars
  <2> QED BY <2>1 DEF SumInv, Apart
<1> QED BY <1>1, <1>2, <1>3 DEF Next

LEMMA SumInit ==
  ASSUME Init
  PROVE  SumInv
<1>1. /\ \A t \in Trades : booked[t] = 0
      /\ \A r \in Requests : req[r] = Idle
      /\ row.pnl = 0 /\ row.day \in {0, 1}
  BY DEF Init, FreshRow
<1>2. BookedOn(row.day, booked) = {} /\ {t \in Trades : booked[t] # 0} = {}
  BY <1>1 DEF BookedOn
<1>3. Sums(row, booked) /\ IsFiniteSet({t \in Trades : booked[t] # 0})
  BY <1>1, <1>2, TotalOfNothing, FS_EmptySet DEF Sums
<1>4. Idle.op # "settle" /\ \A r \in Requests : Fair(req[r], row.day, booked)
  BY <1>1, IdleIsFair
<1>5. Apart
  BY <1>1, <1>4 DEF Apart
<1> QED BY <1>1, <1>3, <1>4, <1>5 DEF SumInv

LEMMA SumsCount ==
  ASSUME SumInv
  PROVE  ResultsCounted
BY DEF SumInv, Sums, BookedOn, Total, ResultsCounted

(* The realized P&L of the row is the sum of the results added on its day,         *)
(* however results, polls, trades, resets, failures, restarts and midnights          *)
(* interleave, as long as no day's row is written over one already made of that day    *)
(* or a later one (which two requests that look first on the new day do): only that    *)
(* write can lose a result, whatever the code does elsewhere.                       *)
THEOREM ResultsAlwaysCounted ==
  Spec /\ [][~LateRoll]_vars => []ResultsCounted
BY SumInit, SumStep, SumsCount, InvInit, InvNext, PTL DEF Spec

-----------------------------------------------------------------------------
(* A posted result writes a high-water mark that another result has already passed; *)
(* and one ends, in a failure or a restart, between its sum and its mark.            *)
LateMark == \E r \in Requests : Mark(r) /\ req[r].peak < row.peak
MarkLeft == \E r \in Requests : (At(r, "refresh") \/ At(r, "mark")) /\ req'[r] = Idle

(* The high-water mark is behind the equity only while a result is about to compare  *)
(* the two, or to write a mark that is not behind.                                *)
Covered(w) == Equity(w) <= w.peak
Catching(q, w) ==
    /\ q.todo # <<>>
    /\ \/ Head(q.todo) = "refresh"
       \/ Head(q.todo) = "mark" /\ Equity(w) <= q.peak
PeakInv == Covered(row) \/ \E r \in Requests : Catching(req[r], row)

-----------------------------------------------------------------------------
(* A step of a request that is not about to move the mark leaves the others to it,   *)
(* unless it makes a gain.                                                        *)
LEMMA OthersCatch ==
  ASSUME Inv, PeakInv, NEW r \in Requests, ~Catching(req[r], row),
         \A o \in Requests : o # r => req'[o] = req[o],
         Equity(row') = Equity(row), row'.peak = row.peak
  PROVE  PeakInv'
<1>1. CASE Covered(row)
  BY <1>1 DEF PeakInv, Covered
<1>2. ASSUME NEW o \in Requests, Catching(req[o], row) PROVE PeakInv'
  <2>1. o # r
    BY <1>2
  <2>2. Catching(req'[o], row')
    BY <1>2, <2>1 DEF Catching
  <2> QED BY <2>2 DEF PeakInv
<1> QED BY <1>1, <1>2 DEF PeakInv

LEMMA NotCatching ==
  ASSUME NEW r \in Requests, NEW stage, At(r, stage), stage \notin {"refresh", "mark"}
  PROVE  ~Catching(req[r], row)
BY DEF At, Catching

(* The steps that leave the equity and the mark as they are.                        *)
LEMMA ElsewherePeak ==
  ASSUME Inv, PeakInv, NEW r \in Requests,
         \/ Send(r) \/ Read(r) \/ Heal(r) \/ Enforce(r) \/ Unlock(r) \/ Lock(r)
         \/ Configure(r) \/ Respond(r)
  PROVE  PeakInv'
<1>1. \A o \in Requests : o # r => req'[o] = req[o]
  <2>1. \E q : Become(r, q)
    BY DEF Send, Arrive, Read, Heal, Enforce, Unlock, Lock, Configure, Respond
  <2> QED BY <2>1 DEF Inv, TypeOK, Become
<1>2. Equity(row') = Equity(row) /\ row'.peak = row.peak
  <2>1. row \in Rows
    BY DEF Inv, TypeOK
  <2> QED BY <2>1 DEF Send, Arrive, Read, Heal, Enforce, Unlock, Lock, Configure, Respond,
                      Equity, Released, LockedBy, Rows
<1>3. ~Catching(req[r], row)
  <2>1. CASE Send(r)
    <3>1. req[r] = Idle
      BY <2>1 DEF Send, Arrive
    <3> QED BY <3>1 DEF Idle, Catching
  <2>2. CASE ~Send(r)
    <3>1. \E stage \in {"read", "heal", "enforce", "unlock", "lock", "configure", "respond"} :
            At(r, stage)
      BY <2>2 DEF Read, Heal, Enforce, Unlock, Lock, Configure, Respond
    <3> QED BY <3>1, NotCatching
  <2> QED BY <2>1, <2>2
<1> QED BY <1>1, <1>2, <1>3, OthersCatch

(* A new row starts at its mark, whatever it replaces.                              *)
LEMMA RollPeak ==
  ASSUME Inv, NEW r \in Requests, Roll(r)
  PROVE  PeakInv'
<1>1. row' = FreshRow(req[r].day, req[r].peak)
  BY DEF Roll
<1>2. req[r].peak \in Int
  BY RequestFields DEF Inv, Good
<1> QED BY <1>1, <1>2 DEF PeakInv, Covered, Equity, FreshRow

(* A result that was added is compared with the mark next.                          *)
LEMMA IncrementPeak ==
  ASSUME Inv, SumInv, NEW r \in Requests, Increment(r)
  PROVE  PeakInv'
<1>1. At(r, "increment") /\ Become(r, Rest(r))
  BY DEF Increment
<1>2. req[r].todo \in Settling /\ Head(req[r].todo) = "increment"
  BY <1>1, Where DEF Judged
<1>3. Rest(r).todo = SettleRefresh
  <2>1. Rest(r).todo = Tail(req[r].todo)
    BY <1>1, RestFields DEF At, Inv
  <2> QED BY <1>2, <2>1, SettleAt, SettleLists
<1>4. req'[r] = Rest(r)
  BY <1>1 DEF Inv, TypeOK, Become
<1>5. Catching(req'[r], row')
  BY <1>3, <1>4, SettleLists DEF Catching, Settling
<1> QED BY <1>5 DEF PeakInv

LEMMA RefreshPeak ==
  ASSUME Inv, PeakInv, NEW r \in Requests, Refresh(r)
  PROVE  PeakInv'
<1> DEFINE t == <<"mark">> \o Tail(req[r].todo)
           p == [req[r] EXCEPT !.todo = t, !.peak = Equity(row)]
<1>1. /\ At(r, "refresh") /\ UNCHANGED row
      /\ Equity(row) > row.peak => Become(r, p)
  BY DEF Refresh
<1>2. row \in Rows /\ Equity(row) \in Int /\ row.peak \in Int
  BY RowFields DEF Inv, TypeOK
<1>3. CASE Equity(row) > row.peak
  <2>1. req[r] \in RequestType /\ req[r].todo \in Seq(Stages) /\ req[r].todo # <<>>
    BY <1>1, RequestFields DEF Inv, Good, At
  <2>2. t # <<>> /\ Head(t) = "mark"
    BY <2>1 DEF Stages, Queries
  <2> HIDE DEF t
  <2>3. p.todo = t /\ p.peak = Equity(row)
    BY <2>1 DEF RequestType
  <2> HIDE DEF p
  <2>4. req'[r] = p
    BY <1>1, <1>3 DEF Inv, TypeOK, Become
  <2>5. Catching(req'[r], row')
    BY <1>1, <1>2, <2>2, <2>3, <2>4 DEF Catching
  <2> QED BY <2>5 DEF PeakInv
<1>4. CASE ~(Equity(row) > row.peak)
  BY <1>1, <1>2, <1>4 DEF PeakInv, Covered
<1> QED BY <1>3, <1>4

(* A mark that does not lower the row's covers what it was to cover.                *)
LEMMA MarkPeak ==
  ASSUME Inv, PeakInv, NEW r \in Requests, Mark(r), ~LateMark
  PROVE  PeakInv'
<1>1. /\ At(r, "mark") /\ row' = [row EXCEPT !.peak = req[r].peak]
      /\ Become(r, Called(Rest(r)))
  BY DEF Mark
<1>2. row \in Rows /\ Equity(row) \in Int /\ row.peak \in Int /\ req[r].peak \in Int
  BY RowFields, RequestFields DEF Inv, TypeOK, Good
<1>3. ~(req[r].peak < row.peak)
  BY DEF LateMark
<1>4. row'.peak = req[r].peak /\ Equity(row') = Equity(row)
  BY <1>1, <1>2 DEF Rows, Equity
<1>5. CASE Covered(row)
  BY <1>2, <1>3, <1>4, <1>5 DEF Covered, PeakInv
<1>6. ASSUME NEW o \in Requests, Catching(req[o], row) PROVE PeakInv'
  <2>1. CASE o = r
    BY <1>1, <1>4, <1>6, <2>1 DEF At, Catching, Covered, PeakInv
  <2>2. CASE o # r
    <3>1. req'[o] = req[o]
      BY <1>1, <2>2 DEF Inv, TypeOK, Become
    <3>2. Catching(req'[o], row')
      BY <1>4, <1>6, <3>1 DEF Catching
    <3> QED BY <3>2 DEF PeakInv
  <2> QED BY <2>1, <2>2
<1> QED BY <1>5, <1>6 DEF PeakInv

(* A failure, or a restart, of requests that are not about to move the mark.         *)
LEMMA EndPeak ==
  ASSUME Inv, PeakInv, ~MarkLeft, (\E r \in Requests : Fail(r)) \/ Restart
  PROVE  PeakInv'
<1>1. UNCHANGED row /\ \A o \in Requests : req'[o] = Idle \/ req'[o] = req[o]
  <2>1. CASE Restart
    BY <2>1 DEF Restart
  <2>2. ASSUME NEW r \in Requests, Fail(r) PROVE UNCHANGED row /\ Become(r, Idle)
    BY <2>2 DEF Fail
  <2>3. ASSUME NEW r \in Requests, Become(r, Idle)
        PROVE  \A o \in Requests : req'[o] = Idle \/ req'[o] = req[o]
    BY <2>3 DEF Inv, TypeOK, Become
  <2> QED BY <2>1, <2>2, <2>3
<1>2. ASSUME NEW o \in Requests, Catching(req[o], row) PROVE req'[o] = req[o]
  <2>1. At(o, "refresh") \/ At(o, "mark")
    BY <1>2 DEF At, Catching
  <2>2. req'[o] # Idle
    BY <2>1 DEF MarkLeft
  <2> QED BY <1>1, <2>2
<1>3. ASSUME NEW o \in Requests, Catching(req[o], row) PROVE Catching(req'[o], row')
  BY <1>1, <1>2, <1>3
<1> QED BY <1>1, <1>3 DEF PeakInv, Covered

LEMMA PeakStep ==
  ASSUME Inv, SumInv, PeakInv, [Next]_vars, [~LateMark /\ ~MarkLeft]_vars
  PROVE  PeakInv'
<1>1. ASSUME NEW r \in Requests, Step(r), ~LateMark, ~MarkLeft PROVE PeakInv'
  BY <1>1, ElsewherePeak, RollPeak, IncrementPeak, RefreshPeak, MarkPeak, EndPeak DEF Step
<1>2. CASE Restart /\ ~MarkLeft
  BY <1>2, EndPeak
<1>3. CASE CacheExpires \/ Midnight \/ UNCHANGED vars
  <2>1. UNCHANGED <<row, req>>
    BY <1>3 DEF CacheExpires, Midnight, vars
  <2> QED BY <2>1 DEF PeakInv
<1> QED BY <1>1, <1>2, <1>3 DEF Next

LEMMA PeakInit ==
  ASSUME Init
  PROVE  PeakInv
BY SettingsAssumption DEF Init, FreshRow, PeakInv, Covered, Equity

LEMMA PeakCovers ==
  ASSUME PeakInv
  PROVE  PeakCoversEquity
BY DEF PeakInv, PeakCoversEquity, Quiet, Covered, Catching, Idle

(* The row adds up: its realized P&L is the sum of the results added on its day, and *)
(* when nothing is under way its high-water mark is not below its equity.  Gains,     *)
(* losses, polls, trades, resets and midnights may interleave, and requests fail, in   *)
(* any way that avoids three events: a day's row over one already made of that day    *)
(* or a later one, a mark lower than the one it replaces, and a result that ends       *)
(* between its sum and its mark.  No other step of the code can spoil the row.         *)
THEOREM RowAlwaysAddsUp ==
  Spec /\ [][~LateRoll]_vars /\ [][~LateMark /\ ~MarkLeft]_vars => []RowAddsUp
<1>1. SumInv /\ PeakInv => RowAddsUp
  BY SumsCount, PeakCovers DEF RowAddsUp
<1> QED BY <1>1, SumInit, SumStep, PeakInit, PeakStep, InvInit, InvNext, PTL DEF Spec
=============================================================================

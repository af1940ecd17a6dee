------------------------------ MODULE TickProofs ------------------------------
(***************************************************************************)
(* Proofs about the way of a tick: the candles core-backend makes of it    *)
(* and those of the client's chart, for any frames, caps and bounds.       *)
(*                                                                         *)
(* TapeIsWhole rests on WholeInv: every bar is made of ticks of its own    *)
(* window, the open one is of the newest, and a series that follows        *)
(* another holds its windows but those dropped at the cap, which are older *)
(* than all it keeps.  CloseToldOnce rests on ToldInv: a told window was   *)
(* left for a tick that is still retained, and the live bar is not older   *)
(* than any tick retained.                                                 *)
(***************************************************************************)
EXTENDS CandleTape, ChartTape,
        FiniteSetTheorems, WellFoundedInduction, SequenceTheorems, TLAPS

-----------------------------------------------------------------------------
(* A set of numbers below a bound has a greatest.                                  *)
LEMMA GreatestNumber ==
  ASSUME NEW S \in SUBSET Nat, S # {}, NEW n \in Nat, \A t \in S : t <= n
  PROVE  Max(S) \in S /\ \A t \in S : t <= Max(S)
<1> DEFINE N == {n - t : t \in S}
<1>1. N \in SUBSET Nat /\ N # {}
  <2>1. \A t \in S : n - t \in Nat
    OBVIOUS
  <2> QED BY <2>1
<1>2. PICK k \in N : \A l \in N : ~(<<l, k>> \in OpToRel(<, Nat))
  <2>1. IsWellFoundedOn(OpToRel(<, Nat), Nat)
    BY NatLessThanWellFounded
  <2> HIDE DEF N
  <2> QED BY <1>1, <2>1, WFMin
<1>3. \A l \in N : ~(l < k)
  <2> SUFFICES ASSUME NEW l \in N, l < k PROVE FALSE
    OBVIOUS
  <2>1. l \in Nat /\ k \in Nat
    BY <1>1
  <2>2. <<l, k>> \in OpToRel(<, Nat)
    BY <2>1 DEF OpToRel
  <2> QED BY <1>2, <2>2
<1>4. PICK m \in S : k = n - m
  BY <1>2
<1>5. \A t \in S : m >= t
  <2> TAKE t \in S
  <2>1. n - t \in N
    OBVIOUS
  <2>2. ~(n - t < n - m)
    BY <1>3, <1>4, <2>1
  <2>3. t \in Nat /\ m \in Nat
    OBVIOUS
  <2> QED BY <2>2, <2>3
<1>6. Max(S) \in S /\ \A t \in S : Max(S) >= t
  BY <1>5 DEF Max
<1>7. Max(S) \in Nat
  BY <1>6
<1> QED BY <1>6, <1>7

-----------------------------------------------------------------------------
(* The candles of core-backend.                                                *)

(* Windows: a multiple of the width, not above the stamp, less than a width below. *)
LEMMA FloorBounds ==
  ASSUME NEW t \in Nat, NEW w \in Nat \ {0}
  PROVE  Floor(t, w) \in Nat /\ Floor(t, w) <= t /\ t < Floor(t, w) + w
<1>1. t \div w \in Nat /\ (t \div w) * w <= t
  OBVIOUS
<1>2. t < ((t \div w) + 1) * w
  OBVIOUS
<1>3. \A q \in Nat : q * w \in Nat /\ (q + 1) * w = q * w + w
  OBVIOUS
<1> QED BY <1>1, <1>2, <1>3 DEF Floor

LEMMA FloorGrows ==
  ASSUME NEW t \in Nat, NEW u \in Nat, NEW w \in Nat \ {0}, t <= u
  PROVE  Floor(t, w) <= Floor(u, w)
<1>1. t \div w <= u \div w /\ t \div w \in Nat /\ u \div w \in Nat
  OBVIOUS
<1>2. \A a \in Nat, b \in Nat : a <= b => a * w <= b * w
  OBVIOUS
<1> QED BY <1>1, <1>2 DEF Floor

(* A stamp of an earlier window is older than the start of a later one.             *)
LEMMA FloorParts ==
  ASSUME NEW t \in Nat, NEW u \in Nat, NEW w \in Nat \ {0}, Floor(t, w) < Floor(u, w)
  PROVE  t < Floor(u, w)
<1> DEFINE q == t \div w
           r == u \div w
<1>1. q \in Nat /\ r \in Nat /\ t < (q + 1) * w
  OBVIOUS
<1>2. q * w < r * w
  BY DEF Floor
<1> HIDE DEF q, r
<1>3. ~(r <= q)
  <2>1. \A a \in Nat, b \in Nat : a <= b => a * w <= b * w
    OBVIOUS
  <2>2. q * w \in Nat /\ r * w \in Nat
    BY <1>1
  <2> QED BY <1>1, <1>2, <2>1, <2>2
<1>4. (q + 1) * w <= r * w
  <2>1. q + 1 <= r /\ q + 1 \in Nat
    BY <1>1, <1>3
  <2>2. \A a \in Nat, b \in Nat : a <= b => a * w <= b * w
    OBVIOUS
  <2> QED BY <1>1, <2>1, <2>2
<1>5. r * w = Floor(u, w)
  BY DEF r, Floor
<1>6. (q + 1) * w \in Nat /\ r * w \in Nat
  BY <1>1
<1> QED BY <1>1, <1>4, <1>5, <1>6

(* The window of a minute is the window of what is in it.                           *)
LEMMA FloorNests ==
  ASSUME NEW t \in Nat, NEW m \in Nat \ {0}, NEW w \in Nat \ {0}, w % m = 0
  PROVE  Floor(Floor(t, m), w) = Floor(t, w)
<1> DEFINE q == t \div w
           f == Floor(t, m)
           k == w \div m
<1>1. q \in Nat /\ q * w <= t /\ k \in Nat /\ q * w \in Nat
  OBVIOUS
<1>2. w = k * m
  <2>1. w = (w \div m) * m + (w % m)
    OBVIOUS
  <2>2. (w \div m) * m \in Nat
    BY <1>1
  <2> QED BY <2>1, <2>2
<1>3. f \in Nat /\ f <= t
  BY FloorBounds
<1>4. q * w <= f
  <2> DEFINE p == q * k
             d == t \div m
  <2>1. p \in Nat /\ p * m = q * w
    BY <1>1, <1>2
  <2>2. d \in Nat /\ t < (d + 1) * m /\ f = d * m
    BY DEF Floor
  <2> HIDE DEF p, d, f, k, q
  <2>3. p * m < (d + 1) * m
    <3>1. p * m \in Nat /\ (d + 1) * m \in Nat
      BY <2>1, <2>2
    <3> QED BY <1>1, <2>1, <2>2, <3>1
  <2>4. ~(d + 1 <= p)
    <3>1. \A a \in Nat, b \in Nat : a <= b => a * m <= b * m
      OBVIOUS
    <3>2. d + 1 \in Nat /\ p * m \in Nat /\ (d + 1) * m \in Nat
      BY <2>1, <2>2
    <3> QED BY <2>1, <2>3, <3>1, <3>2
  <2>5. p <= d
    BY <2>1, <2>2, <2>4
  <2>6. p * m <= d * m
    BY <2>1, <2>2, <2>5
  <2> QED BY <2>1, <2>2, <2>6
<1>5. Floor(f, w) <= Floor(t, w)
  BY <1>3, FloorGrows
<1>6. Floor(q * w, w) <= Floor(f, w)
  BY <1>1, <1>3, <1>4, FloorGrows
<1>7. Floor(q * w, w) = q * w
  BY <1>1 DEF Floor
<1>8. Floor(t, w) = q * w
  BY DEF Floor
<1>9. Floor(f, w) \in Nat /\ Floor(t, w) \in Nat
  BY <1>3, FloorBounds
<1> QED BY <1>5, <1>6, <1>7, <1>8, <1>9

-----------------------------------------------------------------------------
(* Bars in order.                                                              *)

Ascends(z) == \A i \in 1..Len(z) : \A j \in 1..Len(z) : i < j => z[i].start < z[j].start

(* A set of bars of windows of their own is ranked by its windows.                  *)
LEMMA Ranked ==
  ASSUME NEW S, IsFiniteSet(S), \A b \in S : b.start \in Nat,
         \A b, c \in S : b.start = c.start => b = c
  PROVE  /\ InOrder(S) \in Seq(S) /\ Ascends(InOrder(S))
         /\ \A b \in S : \E i \in 1..Len(InOrder(S)) : InOrder(S)[i] = b
<1> DEFINE N == Cardinality(S)
           z == InOrder(S)
           place == [b \in S |-> Cardinality(Older(b, S)) + 1]
<1>1. N \in Nat /\ \A b \in S : Cardinality(Older(b, S)) \in 0..(N - 1)
  <2>1. N \in Nat
    BY FS_CardinalityType
  <2>2. ASSUME NEW b \in S
        PROVE  Cardinality(Older(b, S)) \in 0..(N - 1)
    <3>1. Older(b, S) \in SUBSET S /\ b \notin Older(b, S)
      BY DEF Older
    <3>2. /\ IsFiniteSet(Older(b, S)) /\ Cardinality(Older(b, S)) <= N
          /\ N # Cardinality(Older(b, S))
      BY <3>1, FS_Subset
    <3>3. Cardinality(Older(b, S)) \in Nat
      BY <3>2, FS_CardinalityType
    <3> QED BY <2>1, <3>2, <3>3
  <2> QED BY <2>1, <2>2
<1>2. ASSUME NEW b \in S, NEW c \in S, b.start < c.start
      PROVE  Cardinality(Older(b, S)) < Cardinality(Older(c, S))
  <2>1. Older(b, S) \in SUBSET Older(c, S)
    BY <1>2 DEF Older
  <2>2. b \in Older(c, S) /\ b \notin Older(b, S)
    BY <1>2 DEF Older
  <2>3. Older(c, S) \in SUBSET S
    BY DEF Older
  <2>4. IsFiniteSet(Older(c, S))
    BY <2>3, FS_Subset
  <2>5. /\ Cardinality(Older(b, S)) <= Cardinality(Older(c, S))
        /\ Cardinality(Older(b, S)) # Cardinality(Older(c, S))
    BY <2>1, <2>2, <2>4, FS_Subset
  <2> QED BY <1>1, <2>5
<1>3. \A b, c \in S : place[b] = place[c] => b = c
  <2> SUFFICES ASSUME NEW b \in S, NEW c \in S, place[b] = place[c], b # c
               PROVE  FALSE
    OBVIOUS
  <2>1. Cardinality(Older(b, S)) = Cardinality(Older(c, S))
    BY <1>1
  <2>2. b.start < c.start \/ c.start < b.start
    OBVIOUS
  <2> QED BY <1>1, <1>2, <2>1, <2>2
<1>4. place \in Surjection(S, 1..N)
  <2>1. place \in [S -> 1..N]
    BY <1>1
  <2>2. place \in Injection(S, 1..N)
    <3> HIDE DEF place, N
    <3> QED BY <1>3, <2>1 DEF Injection, IsInjective
  <2>3. IsFiniteSet(1..N) /\ Cardinality(1..N) = N
    BY <1>1, FS_Interval
  <2> HIDE DEF place
  <2> QED BY <2>2, <2>3, FS_Injection
<1>5. \A i \in 1..N : z[i] \in S /\ place[z[i]] = i
  <2> TAKE i \in 1..N
  <2>1. PICK b \in S : place[b] = i
    BY <1>4 DEF Surjection
  <2>2. Cardinality(Older(b, S)) = i - 1
    BY <1>1, <2>1
  <2>3. z[i] = CHOOSE c \in S : Cardinality(Older(c, S)) = i - 1
    BY DEF InOrder
  <2>4. z[i] \in S /\ Cardinality(Older(z[i], S)) = i - 1
    BY <2>2, <2>3
  <2> QED BY <1>1, <2>4
<1>6. z \in Seq(S) /\ Len(z) = N
  <2>1. \A i \in 1..N : (CHOOSE b \in S : Cardinality(Older(b, S)) = i - 1) \in S
    BY <1>5 DEF InOrder
  <2>2. z \in [1..N -> S]
    BY <2>1 DEF InOrder
  <2> HIDE DEF z, N
  <2> QED BY <1>1, <2>2
<1>7. Ascends(z)
  <2> SUFFICES ASSUME NEW i \in 1..N, NEW j \in 1..N, i < j PROVE z[i].start < z[j].start
    BY <1>6 DEF Ascends
  <2>1. z[i] \in S /\ z[j] \in S /\ place[z[i]] = i /\ place[z[j]] = j
    BY <1>5
  <2>2. Cardinality(Older(z[i], S)) = i - 1 /\ Cardinality(Older(z[j], S)) = j - 1
    BY <1>1, <2>1
  <2>3. z[i].start \in Nat /\ z[j].start \in Nat
    BY <2>1
  <2>4. z[i] # z[j]
    BY <2>1
  <2>5. z[i].start # z[j].start
    BY <2>1, <2>4
  <2>6. ~(z[j].start < z[i].start)
    BY <1>2, <2>1, <2>2
  <2> QED BY <2>3, <2>5, <2>6
<1>8. \A b \in S : \E i \in 1..N : z[i] = b
  <2> TAKE b \in S
  <2>1. place[b] \in 1..N
    BY <1>1
  <2>2. z[place[b]] \in S /\ place[z[place[b]]] = place[b]
    BY <1>5, <2>1
  <2> QED BY <1>3, <2>1, <2>2
<1> QED BY <1>6, <1>7, <1>8

(* The latest of a series: what was dropped is older than all that is kept.           *)
LEMMA LatestKeeps ==
  ASSUME NEW S, NEW y \in Seq(S), NEW n \in Nat \ {0}
  PROVE  LET z == Latest(y, n) IN
         /\ z \in Seq(S) /\ Len(z) <= n
         /\ y # <<>> => Len(z) \in 1..Len(y) /\ z[Len(z)] = y[Len(y)]
         /\ \A i \in 1..Len(z) : \E j \in 1..Len(y) : z[i] = y[j]
         /\ Ascends(y) => Ascends(z)
         /\ Ascends(y) => \A j \in 1..Len(y) :
                \/ \E i \in 1..Len(z) : z[i] = y[j]
                \/ Len(z) = n /\ y[j].start < z[1].start
<1> DEFINE m == IF Len(y) > n THEN Len(y) - n ELSE 0
           z == Latest(y, n)
<1>1. Len(y) \in Nat /\ m \in Nat /\ m <= Len(y) /\ (m = 0 \/ Len(y) - m = n) /\ Len(y) - m <= n
  OBVIOUS
<1>2. \A i \in (m + 1)..Len(y) : y[i] \in S
  BY <1>1
<1>3. /\ z \in Seq(S) /\ Len(z) = (IF m + 1 <= Len(y) THEN Len(y) - (m + 1) + 1 ELSE 0)
      /\ \A i \in 1..(Len(y) - (m + 1) + 1) : z[i] = y[(m + 1) + i - 1]
  <2> DEFINE k == m + 1
  <2>1. z = SubSeq(y, k, Len(y)) /\ k \in Int /\ Len(y) \in Int
    BY <1>1 DEF Latest
  <2>2. \A i \in k..Len(y) : y[i] \in S
    BY <1>2
  <2>3. /\ SubSeq(y, k, Len(y)) \in Seq(S)
        /\ Len(SubSeq(y, k, Len(y))) = (IF k <= Len(y) THEN Len(y) - k + 1 ELSE 0)
        /\ \A i \in 1..(Len(y) - k + 1) : SubSeq(y, k, Len(y))[i] = y[k + i - 1]
    <3> HIDE DEF k, z
    <3> QED BY <2>1, <2>2, SubSeqProperties
  <2> HIDE DEF z, m
  <2> QED BY <2>1, <2>3
<1> HIDE DEF m, z
<1>4. Len(z) = Len(y) - m /\ \A i \in 1..Len(z) : z[i] = y[m + i] /\ m + i \in 1..Len(y)
  <2>1. Len(z) = Len(y) - m
    BY <1>1, <1>3
  <2>2. ASSUME NEW i \in 1..Len(z)
        PROVE  z[i] = y[m + i] /\ m + i \in 1..Len(y)
    <3>1. i \in 1..(Len(y) - (m + 1) + 1) /\ (m + 1) + i - 1 = m + i
      BY <1>1, <2>1
    <3>2. z[i] = y[m + i]
      BY <1>3, <3>1
    <3> QED BY <1>1, <2>1, <3>2
  <2> QED BY <2>1, <2>2
<1>5. y # <<>> => Len(z) \in 1..Len(y) /\ z[Len(z)] = y[Len(y)]
  <2> SUFFICES ASSUME y # <<>> PROVE Len(z) \in 1..Len(y) /\ z[Len(z)] = y[Len(y)]
    OBVIOUS
  <2>1. Len(y) # 0
    OBVIOUS
  <2>2. m < Len(y)
    <3>1. n \in Nat /\ n > 0
      OBVIOUS
    <3> QED BY <1>1, <2>1, <3>1
  <2>3. Len(z) \in 1..Len(y) /\ m + Len(z) = Len(y)
    BY <1>1, <1>4, <2>2
  <2>4. Len(z) \in 1..Len(z)
    BY <2>3
  <2>5. z[Len(z)] = y[m + Len(z)]
    BY <1>4, <2>4
  <2> QED BY <2>3, <2>5
<1>6. \A i \in 1..Len(z) : \E j \in 1..Len(y) : z[i] = y[j]
  BY <1>4
<1>7. Ascends(y) => Ascends(z)
  <2> SUFFICES ASSUME Ascends(y), NEW i \in 1..Len(z), NEW j \in 1..Len(z), i < j
               PROVE  z[i].start < z[j].start
    BY DEF Ascends
  <2>1. m + i \in 1..Len(y) /\ m + j \in 1..Len(y) /\ m + i < m + j
    BY <1>1, <1>4
  <2> QED BY <1>4, <2>1 DEF Ascends
<1>8. ASSUME Ascends(y), NEW j \in 1..Len(y)
      PROVE  \/ \E i \in 1..Len(z) : z[i] = y[j]
             \/ Len(z) = n /\ y[j].start < z[1].start
  <2>1. CASE j > m
    <3>1. j - m \in 1..Len(z) /\ m + (j - m) = j
      BY <1>1, <1>4, <2>1
    <3> QED BY <1>4, <3>1
  <2>2. CASE j <= m
    <3>1. Len(z) = n /\ 1 \in 1..Len(z)
      BY <1>1, <1>4, <2>2
    <3>2. z[1] = y[m + 1] /\ m + 1 \in 1..Len(y)
      BY <1>4, <3>1
    <3>3. j < m + 1
      BY <1>1, <2>2
    <3> QED BY <1>8, <3>1, <3>2, <3>3 DEF Ascends
  <2> QED BY <1>1, <2>1, <2>2
<1>9. Len(z) <= n
  BY <1>1, <1>4
<1> QED BY <1>3, <1>5, <1>6, <1>7, <1>8, <1>9 DEF z

(* Series that hold the same windows, but those dropped at the cap: a full one is     *)
(* followed by a full one, whose first window is not older.                           *)
Follows(z, old) ==
    \A i \in 1..Len(old) :
        \/ \E j \in 1..Len(z) : z[j].start = old[i].start /\ old[i].seen \subseteq z[j].seen
        \/ Len(z) = MaxClosed /\ old[i].start < z[1].start

LEMMA FullStays ==
  ASSUME NEW old \in Seq(Bar), NEW z \in Seq(Bar), Len(z) <= MaxClosed, Len(old) = MaxClosed,
         Ascends(old), Ascends(z), Follows(z, old)
  PROVE  Len(z) = MaxClosed /\ old[1].start <= z[1].start
<1> DEFINE m == MaxClosed
<1>1. m \in Nat /\ m > 0 /\ Len(z) \in Nat /\ Len(old) \in Nat
  BY TapeAssumption
<1>2. /\ \A i \in 1..m : old[i] \in Bar /\ old[i].start \in Nat
      /\ \A i \in 1..Len(z) : z[i] \in Bar /\ z[i].start \in Nat
  <2>1. /\ \A i \in 1..m : old[i] \in Bar
        /\ \A i \in 1..Len(z) : z[i] \in Bar
    OBVIOUS
  <2> QED BY <2>1 DEF Bar
(* Not all the windows are among fewer places.                                      *)
<1>3. ASSUME NEW a \in 1..(Len(z) + 1), Len(z) - a + 1 < m
      PROVE  ~(\A i \in 1..m : \E j \in a..Len(z) : z[j].start = old[i].start)
  <2> SUFFICES ASSUME \A i \in 1..m : \E j \in a..Len(z) : z[j].start = old[i].start
               PROVE  FALSE
    OBVIOUS
  <2> DEFINE at == [i \in 1..m |-> CHOOSE j \in a..Len(z) : z[j].start = old[i].start]
  <2>1. \A i \in 1..m : at[i] \in a..Len(z) /\ z[at[i]].start = old[i].start
    OBVIOUS
  <2>2. at \in [1..m -> a..Len(z)]
    BY <2>1
  <2>3. IsFiniteSet(1..m) /\ Cardinality(1..m) = m
    BY <1>1, FS_Interval
  <2>4. IsFiniteSet(a..Len(z)) /\ Cardinality(a..Len(z)) < m
    <3>1. a \in Int /\ Len(z) \in Int /\ a <= Len(z) + 1
      BY <1>1
    <3>2. /\ IsFiniteSet(a..Len(z))
          /\ Cardinality(a..Len(z)) = (IF a > Len(z) THEN 0 ELSE Len(z) - a + 1)
      BY <3>1, FS_Interval
    <3> QED BY <1>1, <1>3, <3>1, <3>2
  <2> HIDE DEF at, m
  <2>5. PICK x \in 1..m, y \in 1..m : x # y /\ at[x] = at[y]
    <3>1. ASSUME at \in Injection(1..m, a..Len(z))
          PROVE  FALSE
      <4>1. Cardinality(1..m) <= Cardinality(a..Len(z))
        BY <2>4, <3>1, FS_Injection
      <4>2. Cardinality(a..Len(z)) \in Nat
        BY <2>4, FS_CardinalityType
      <4> QED BY <1>1, <2>3, <2>4, <4>1, <4>2
    <3>2. \E x, y \in 1..m : x # y /\ at[x] = at[y]
      BY <2>2, <3>1 DEF Injection, IsInjective
    <3> QED BY <3>2
  <2>6. old[x].start = old[y].start
    BY <2>1, <2>5
  <2>7. x < y \/ y < x
    BY <2>5
  <2>8. x \in 1..Len(old) /\ y \in 1..Len(old)
    BY DEF m
  <2> QED BY <1>2, <2>6, <2>7, <2>8 DEF Ascends
<1>4. Len(z) = m
  <2> SUFFICES ASSUME Len(z) # m PROVE FALSE
    OBVIOUS
  <2>1. \A i \in 1..m : \E j \in 1..Len(z) : z[j].start = old[i].start
    BY DEF Follows
  <2>2. 1 \in 1..(Len(z) + 1) /\ Len(z) - 1 + 1 < m
    BY <1>1
  <2> QED BY <1>3, <2>1, <2>2
<1>5. ~(z[1].start < old[1].start)
  <2> SUFFICES ASSUME z[1].start < old[1].start PROVE FALSE
    OBVIOUS
  <2>1. ASSUME NEW i \in 1..m
        PROVE  \E j \in 2..Len(z) : z[j].start = old[i].start
    <3>1. 1 \in 1..m /\ 1 \in 1..Len(z)
      BY <1>1, <1>4
    <3>2. old[1].start <= old[i].start
      <4>1. 1 < i => old[1].start < old[i].start
        BY <3>1 DEF Ascends
      <4> QED BY <1>2, <3>1, <4>1
    <3>3. z[1].start < old[i].start
      BY <1>2, <3>1, <3>2
    <3>4. ~(old[i].start < z[1].start)
      BY <1>2, <3>1, <3>3
    <3>5. PICK j \in 1..Len(z) : z[j].start = old[i].start
      BY <3>4 DEF Follows
    <3>6. j # 1
      BY <1>2, <3>1, <3>3, <3>5
    <3>7. j \in 2..Len(z)
      BY <3>6
    <3> QED BY <3>5, <3>7
  <2>2. 2 \in 1..(Len(z) + 1) /\ Len(z) - 2 + 1 < m
    BY <1>1, <1>4
  <2> QED BY <1>3, <2>1, <2>2
<1>6. 1 \in 1..m /\ 1 \in 1..Len(z)
  BY <1>1, <1>4
<1> QED BY <1>2, <1>4, <1>5, <1>6

-----------------------------------------------------------------------------
(* The bars that are made of the stamps of their own window.                       *)
MadeOf(s) ==
    {b \in Bar : b.seen \subseteq 1..Len(s) /\ \A n \in b.seen : Floor(s[n], Width) = b.start}

(* The tick is in a bar that is closed, or older than all as its bar was dropped.   *)
InSeries(n, z, s) ==
    \/ \E i \in 1..Len(z) : n \in z[i].seen
    \/ Len(z) = MaxClosed /\ s[n] < z[1].start

TapesOf(s) == {z \in Seq(MadeOf(s)) : Len(z) <= MaxClosed}

LEMMA MadeIsBar ==
  ASSUME NEW s \in Seq(Nat), NEW b \in MadeOf(s)
  PROVE  /\ b \in Bar /\ b # NoBar /\ b.start \in Nat /\ b.seen \in SUBSET (1..Len(s))
         /\ \E n \in 1..Len(s) : n \in b.seen /\ Floor(s[n], Width) = b.start /\ s[n] \in Nat
<1>1. b \in Bar /\ b.seen \subseteq 1..Len(s) /\ \A n \in b.seen : Floor(s[n], Width) = b.start
  BY DEF MadeOf
<1>2. b.start \in Nat /\ b.seen # {}
  BY <1>1 DEF Bar
<1>3. b # NoBar
  BY <1>2 DEF NoBar
<1> QED BY <1>1, <1>2, <1>3

LEMMA SeriesOfBars ==
  ASSUME NEW s \in Seq(Nat), NEW z \in TapesOf(s)
  PROVE  /\ z \in Seq(MadeOf(s)) /\ z \in Seq(Bar) /\ Len(z) <= MaxClosed /\ Len(z) \in Nat
         /\ \A i \in 1..Len(z) : z[i] \in MadeOf(s)
<1>1. z \in Seq(MadeOf(s)) /\ Len(z) <= MaxClosed
  BY DEF TapesOf
<1>2. \A i \in 1..Len(z) : z[i] \in MadeOf(s)
  BY <1>1
<1>3. \A i \in 1..Len(z) : z[i] \in Bar
  BY <1>2 DEF MadeOf
<1>4. Len(z) \in Nat /\ z = [i \in 1..Len(z) |-> z[i]]
  BY <1>1
<1>5. z \in [1..Len(z) -> Bar]
  BY <1>3, <1>4
<1>6. z \in Seq(Bar)
  BY <1>4, <1>5
<1> QED BY <1>1, <1>2, <1>4, <1>6

LEMMA CoverStays ==
  ASSUME NEW s \in Seq(Nat), NEW old \in TapesOf(s), NEW z \in TapesOf(s),
         Ascends(old), Ascends(z), Follows(z, old),
         NEW n \in 1..Len(s), InSeries(n, old, s)
  PROVE  InSeries(n, z, s)
<1>1. s[n] \in Nat /\ Width \in Nat \ {0}
  BY TapeAssumption
<1>2. /\ old \in Seq(Bar) /\ z \in Seq(Bar) /\ Len(old) <= MaxClosed /\ Len(z) <= MaxClosed
      /\ \A i \in 1..Len(old) : old[i] \in MadeOf(s)
      /\ \A i \in 1..Len(z) : z[i] \in MadeOf(s)
  BY SeriesOfBars
<1>3. MaxClosed \in Nat \ {0}
  BY TapeAssumption
<1>4. CASE \E i \in 1..Len(old) : n \in old[i].seen
  <2>1. PICK i \in 1..Len(old) : n \in old[i].seen
    BY <1>4
  <2>2. CASE \E j \in 1..Len(z) : z[j].start = old[i].start /\ old[i].seen \subseteq z[j].seen
    BY <2>1, <2>2 DEF InSeries
  <2>3. CASE Len(z) = MaxClosed /\ old[i].start < z[1].start
    <3>1. Floor(s[n], Width) = old[i].start
      BY <1>2, <2>1 DEF MadeOf
    <3>2. z[1] \in MadeOf(s)
      <4>1. 1 \in 1..Len(z)
        BY <1>3, <2>3
      <4> QED BY <1>2, <4>1
    <3>3. PICK k \in 1..Len(s) : Floor(s[k], Width) = z[1].start /\ s[k] \in Nat
      BY <3>2, MadeIsBar
    <3>4. s[n] < z[1].start
      BY <1>1, <2>3, <3>1, <3>3, FloorParts
    <3> QED BY <2>3, <3>4 DEF InSeries
  <2> QED BY <2>2, <2>3 DEF Follows
<1>5. CASE Len(old) = MaxClosed /\ s[n] < old[1].start
  <2>1. Len(z) = MaxClosed /\ old[1].start <= z[1].start
    BY <1>2, <1>5, FullStays
  <2>2. old[1] \in MadeOf(s) /\ z[1] \in MadeOf(s)
    BY <1>2, <1>3, <1>5, <2>1
  <2>3. old[1].start \in Nat /\ z[1].start \in Nat
    BY <2>2, MadeIsBar
  <2>4. s[n] < z[1].start
    BY <1>1, <1>5, <2>1, <2>3
  <2> QED BY <2>1, <2>4 DEF InSeries
<1> QED BY <1>4, <1>5 DEF InSeries

(* A bar that takes more of its window.                                              *)
LEMMA ExtendedMade ==
  ASSUME NEW s \in Seq(Nat), NEW b \in MadeOf(s), NEW seen \in SUBSET (1..Len(s)),
         NEW last \in Ticks, Len(s) <= MaxTicks, \A n \in seen : Floor(s[n], Width) = b.start
  PROVE  LET e == Extended(b, seen, last)
         IN e \in MadeOf(s) /\ e.start = b.start /\ e.seen = b.seen \cup seen
<1> DEFINE e == Extended(b, seen, last)
<1>1. b \in Bar /\ b.start \in Nat /\ b.seen \in (SUBSET Ticks) \ {{}}
  BY DEF MadeOf, Bar
<1>2. seen \in SUBSET Ticks
  BY TapeAssumption DEF Ticks
<1>3. e.start = b.start /\ e.seen = b.seen \cup seen
  BY <1>1 DEF Extended, Bar
<1>4. e \in Bar
  <2>1. b.seen \cup seen \in (SUBSET Ticks) \ {{}}
    BY <1>1, <1>2
  <2> QED BY <1>1, <2>1 DEF Extended, Bar
<1> HIDE DEF e
<1>5. e.seen \subseteq 1..Len(s) /\ \A n \in e.seen : Floor(s[n], Width) = e.start
  BY <1>3 DEF MadeOf
<1>6. e \in MadeOf(s)
  BY <1>4, <1>5 DEF MadeOf
<1> QED BY <1>3, <1>6 DEF e

(* closeBucket: the bar is added, or extends the last one.                            *)
LEMMA ClosedMade ==
  ASSUME NEW s \in Seq(Nat), NEW b \in MadeOf(s), NEW z \in TapesOf(s), Len(s) <= MaxTicks
  PROVE  Closed(b, z) \in TapesOf(s)
<1>1. b \in Bar /\ b.seen \in SUBSET (1..Len(s)) /\ b.last \in Ticks
  BY DEF MadeOf, Bar
<1>2. z \in Seq(MadeOf(s)) /\ Len(z) <= MaxClosed /\ Len(z) \in Nat
  BY SeriesOfBars
<1>3. CASE z # <<>> /\ Last(z).start = b.start
  <2> DEFINE e == Extended(z[Len(z)], b.seen, b.last)
             y == [z EXCEPT ![Len(z)] = Extended(@, b.seen, b.last)]
  <2>1. Len(z) \in 1..Len(z) /\ z[Len(z)] \in MadeOf(s) /\ z[Len(z)].start = b.start
    BY <1>2, <1>3 DEF Last
  <2>2. e \in MadeOf(s)
    <3>1. \A n \in b.seen : Floor(s[n], Width) = z[Len(z)].start
      BY <2>1 DEF MadeOf
    <3> QED BY <1>1, <2>1, <3>1, ExtendedMade
  <2>3. y = [z EXCEPT ![Len(z)] = e]
    OBVIOUS
  <2> HIDE DEF e
  <2>4. y \in Seq(MadeOf(s)) /\ Len(y) = Len(z)
    BY <1>2, <2>1, <2>2, <2>3
  <2>5. Closed(b, z) = y
    BY <1>3 DEF Closed
  <2> QED BY <1>2, <2>4, <2>5 DEF TapesOf
<1>4. CASE ~(z # <<>> /\ Last(z).start = b.start)
  <2>1. Closed(b, z) = Latest(Append(z, b), MaxClosed)
    BY <1>4 DEF Closed
  <2>2. Append(z, b) \in Seq(MadeOf(s)) /\ MaxClosed \in Nat \ {0}
    BY <1>2, TapeAssumption
  <2> DEFINE y == Append(z, b)
  <2>3. Latest(y, MaxClosed) \in Seq(MadeOf(s)) /\ Len(Latest(y, MaxClosed)) <= MaxClosed
    <3> HIDE DEF y
    <3> QED BY <2>2, LatestKeeps DEF y
  <2> QED BY <2>1, <2>3 DEF TapesOf
<1> QED BY <1>3, <1>4

LEMMA ClosedInOrder ==
  ASSUME NEW s \in Seq(Nat), NEW b \in MadeOf(s), NEW z \in TapesOf(s), Len(s) <= MaxTicks,
         Ascends(z), z # <<>> => z[Len(z)].start <= b.start
  PROVE  /\ Ascends(Closed(b, z)) /\ Follows(Closed(b, z), z)
         /\ \E j \in 1..Len(Closed(b, z)) : b.seen \subseteq Closed(b, z)[j].seen
<1>1. b \in Bar /\ b.start \in Nat /\ b.seen \in SUBSET (1..Len(s)) /\ b.last \in Ticks
  BY DEF MadeOf, Bar
<1>2. /\ z \in Seq(MadeOf(s)) /\ Len(z) <= MaxClosed /\ Len(z) \in Nat
      /\ \A i \in 1..Len(z) : z[i] \in MadeOf(s) /\ z[i].start \in Nat
  BY SeriesOfBars, MadeIsBar
<1>3. CASE z # <<>> /\ Last(z).start = b.start
  <2> DEFINE f == z[Len(z)]
             e == Extended(f, b.seen, b.last)
             y == [z EXCEPT ![Len(z)] = Extended(@, b.seen, b.last)]
  <2>1. Len(z) \in 1..Len(z) /\ z[Len(z)] \in MadeOf(s) /\ z[Len(z)].start = b.start
    BY <1>2, <1>3 DEF Last
  <2>2. e \in MadeOf(s) /\ e.start = b.start /\ e.seen = z[Len(z)].seen \cup b.seen
    <3>1. \A n \in b.seen : Floor(s[n], Width) = z[Len(z)].start
      BY <2>1 DEF MadeOf
    <3>2. e \in MadeOf(s) /\ e.start = f.start /\ e.seen = f.seen \cup b.seen
      <4>1. f \in MadeOf(s) /\ \A n \in b.seen : Floor(s[n], Width) = f.start
        BY <2>1, <3>1
      <4>2. e \in MadeOf(s)
        BY <1>1, <4>1, ExtendedMade
      <4>3. e.start = f.start
        <5>1. f \in Bar
          BY <4>1 DEF MadeOf
        <5> HIDE DEF f
        <5> QED BY <5>1 DEF Extended, Bar
      <4>4. e.seen = f.seen \cup b.seen
        BY <1>1, <4>1, ExtendedMade
      <4> QED BY <4>2, <4>3, <4>4
    <3> HIDE DEF e
    <3> QED BY <2>1, <3>2
  <2>3. y = [z EXCEPT ![Len(z)] = e]
    OBVIOUS
  <2> HIDE DEF e
  <2>4. /\ Len(y) = Len(z)
        /\ \A i \in 1..Len(z) : y[i] = IF i = Len(z) THEN e ELSE z[i]
    BY <1>2, <2>1, <2>3
  <2> HIDE DEF y
  <2>5. \A i \in 1..Len(z) : y[i].start = z[i].start /\ z[i].seen \subseteq y[i].seen
    BY <2>1, <2>2, <2>4
  <2>6. Ascends(y)
    BY <2>4, <2>5 DEF Ascends
  <2>7. Follows(y, z)
    BY <2>4, <2>5 DEF Follows
  <2>8. b.seen \subseteq y[Len(z)].seen
    BY <2>1, <2>2, <2>4
  <2>9. Closed(b, z) = y
    BY <1>3 DEF Closed, y
  <2> QED BY <2>1, <2>4, <2>6, <2>7, <2>8, <2>9
<1>4. CASE ~(z # <<>> /\ Last(z).start = b.start)
  <2> DEFINE y == Append(z, b)
             r == Latest(y, MaxClosed)
  <2>1. Closed(b, z) = r
    BY <1>4 DEF Closed
  <2>2. /\ y \in Seq(MadeOf(s)) /\ MaxClosed \in Nat \ {0} /\ y # <<>>
        /\ Len(y) = Len(z) + 1 /\ y[Len(z) + 1] = b /\ \A i \in 1..Len(z) : y[i] = z[i]
    BY <1>2, TapeAssumption, AppendProperties
  <2> HIDE DEF y
  <2>3. \A i \in 1..Len(z) : z[i].start < b.start
    <3> TAKE i \in 1..Len(z)
    <3>1. Len(z) \in 1..Len(z) /\ z # <<>>
      BY <1>2
    <3>2. z[Len(z)].start < b.start
      BY <1>1, <1>2, <1>4, <3>1 DEF Last
    <3>3. i = Len(z) \/ z[i].start < z[Len(z)].start
      BY <3>1 DEF Ascends
    <3> QED BY <1>1, <1>2, <3>1, <3>2, <3>3
  <2>4. Ascends(y)
    <3> SUFFICES ASSUME NEW i \in 1..Len(y), NEW j \in 1..Len(y), i < j
                 PROVE  y[i].start < y[j].start
      BY DEF Ascends
    <3>0. Len(y) = Len(z) + 1 /\ Len(z) \in Nat
      BY <1>2, <2>2
    <3>1. i \in 1..Len(z) /\ (j \in 1..Len(z) \/ j = Len(z) + 1)
      BY <3>0
    <3> QED BY <2>2, <2>3, <3>1 DEF Ascends
  <2>5. /\ Ascends(r) /\ Len(r) \in 1..Len(y) /\ r[Len(r)] = y[Len(y)]
        /\ \A j \in 1..Len(y) : \/ \E i \in 1..Len(r) : r[i] = y[j]
                                \/ Len(r) = MaxClosed /\ y[j].start < r[1].start
    BY <2>2, <2>4, LatestKeeps
  <2> HIDE DEF r
  <2>6. Follows(r, z)
    <3> SUFFICES ASSUME NEW i \in 1..Len(z)
                 PROVE  \/ \E j \in 1..Len(r) : r[j].start = z[i].start /\ z[i].seen \subseteq r[j].seen
                        \/ Len(r) = MaxClosed /\ z[i].start < r[1].start
      BY DEF Follows
    <3>1. i \in 1..Len(y) /\ y[i] = z[i]
      BY <1>2, <2>2
    <3> QED BY <2>5, <3>1
  <2>7. Len(r) \in 1..Len(r) /\ r[Len(r)] = b
    BY <2>2, <2>5
  <2> QED BY <2>1, <2>5, <2>6, <2>7
<1> QED BY <1>3, <1>4

(* addTick: the tick opens a bar, extends the open one, closes it first, or is late.  *)
LEMMA AddTickIs ==
  ASSUME NEW n, NEW t, AddTick(n, t)
  PROVE  LET start == Floor(t, Width)
             opened == [start |-> start, seen |-> {n}, last |-> n]
         IN \/ open = NoBar /\ open' = opened /\ closed' = closed
            \/ open # NoBar /\ start = open.start /\ open' = Extended(open, {n}, n) /\ closed' = closed
            \/ open # NoBar /\ start > open.start /\ open' = opened /\ closed' = Closed(open, closed)
            \/ /\ open # NoBar /\ ~(start = open.start) /\ ~(start > open.start) /\ open' = open
               /\ \/ closed' = closed
                  \/ /\ closed # <<>> /\ Last(closed).start = start
                     /\ closed' = [closed EXCEPT ![Len(closed)] = Extended(@, {n}, n)]
BY DEF AddTick

LEMMA OpenedMade ==
  ASSUME NEW s \in Seq(Nat), Len(s) <= MaxTicks, NEW n \in 1..Len(s)
  PROVE  LET b == [start |-> Floor(s[n], Width), seen |-> {n}, last |-> n]
         IN b \in MadeOf(s) /\ n \in Ticks
<1>1. s[n] \in Nat /\ Width \in Nat \ {0} /\ MaxTicks \in Nat
  BY TapeAssumption
<1>2. Floor(s[n], Width) \in Nat
  BY <1>1, FloorBounds
<1>3. n \in Ticks
  BY <1>1 DEF Ticks
<1> DEFINE b == [start |-> Floor(s[n], Width), seen |-> {n}, last |-> n]
<1>4. b \in Bar
  BY <1>2, <1>3 DEF Bar
<1>5. b.seen \subseteq 1..Len(s) /\ \A k \in b.seen : Floor(s[k], Width) = b.start
  OBVIOUS
<1> HIDE DEF b
<1>6. b \in MadeOf(s)
  BY <1>4, <1>5 DEF MadeOf
<1> QED BY <1>3, <1>6 DEF b

LEMMA AddTickMade ==
  ASSUME NEW s \in Seq(Nat), Len(s) <= MaxTicks, NEW n \in 1..Len(s),
         open \in MadeOf(s) \cup {NoBar}, closed \in TapesOf(s), AddTick(n, s[n])
  PROVE  open' \in MadeOf(s) \cup {NoBar} /\ closed' \in TapesOf(s)
<1> DEFINE start == Floor(s[n], Width)
           opened == [start |-> start, seen |-> {n}, last |-> n]
<1>1. \/ open = NoBar /\ open' = opened /\ closed' = closed
      \/ open # NoBar /\ start = open.start /\ open' = Extended(open, {n}, n) /\ closed' = closed
      \/ open # NoBar /\ start > open.start /\ open' = opened /\ closed' = Closed(open, closed)
      \/ /\ open # NoBar /\ ~(start = open.start) /\ ~(start > open.start) /\ open' = open
         /\ \/ closed' = closed
            \/ /\ closed # <<>> /\ Last(closed).start = start
               /\ closed' = [closed EXCEPT ![Len(closed)] = Extended(@, {n}, n)]
  BY AddTickIs
<1>2. opened \in MadeOf(s) /\ n \in Ticks /\ {n} \in SUBSET (1..Len(s))
  BY OpenedMade
<1> HIDE DEF opened
<1>3. CASE open # NoBar /\ start = open.start /\ open' = Extended(open, {n}, n) /\ closed' = closed
  <2>1. open \in MadeOf(s) /\ \A k \in {n} : Floor(s[k], Width) = open.start
    BY <1>3
  <2>2. Extended(open, {n}, n) \in MadeOf(s)
    BY <1>2, <2>1, ExtendedMade
  <2> QED BY <1>3, <2>2
<1>4. CASE open # NoBar /\ start > open.start /\ open' = opened /\ closed' = Closed(open, closed)
  <2>1. Closed(open, closed) \in TapesOf(s)
    BY <1>4, ClosedMade
  <2> QED BY <1>2, <1>4, <2>1
<1>5. CASE /\ closed # <<>> /\ Last(closed).start = start /\ open' = open
           /\ closed' = [closed EXCEPT ![Len(closed)] = Extended(@, {n}, n)]
  <2> DEFINE z == closed
             b == z[Len(z)]
             e == Extended(b, {n}, n)
  <2>1. /\ z \in Seq(MadeOf(s)) /\ Len(z) <= MaxClosed /\ Len(z) \in Nat
        /\ \A i \in 1..Len(z) : z[i] \in MadeOf(s)
    BY SeriesOfBars
  <2>2. Len(z) \in 1..Len(z) /\ b \in MadeOf(s) /\ b.start = start
    BY <1>5, <2>1 DEF Last
  <2>3. \A k \in {n} : Floor(s[k], Width) = b.start
    BY <2>2
  <2>4. e \in MadeOf(s)
    BY <1>2, <2>2, <2>3, ExtendedMade
  <2>5. closed' = [z EXCEPT ![Len(z)] = e]
    BY <1>5
  <2> HIDE DEF e
  <2>6. closed' \in Seq(MadeOf(s)) /\ Len(closed') = Len(z)
    BY <2>1, <2>2, <2>4, <2>5
  <2> QED BY <1>5, <2>1, <2>6 DEF TapesOf
<1> QED BY <1>1, <1>2, <1>3, <1>4, <1>5

(* What the tape is, as long as its stamps do not go back.                            *)
Covers(bar, z, s, n) == (bar # NoBar /\ n \in bar.seen) \/ InSeries(n, z, s)
NewestOpen(bar, s) == bar # NoBar => \A k \in 1..Len(s) : Floor(s[k], Width) <= bar.start

(* An older tick is of an earlier window or the same.                                *)
LEMMA EarlierWindow ==
  ASSUME NEW s \in Seq(Nat), NEW n \in 1..Len(s), NEW k \in 1..Len(s), s[k] <= s[n]
  PROVE  Floor(s[k], Width) <= Floor(s[n], Width)
<1>1. s[k] \in Nat /\ s[n] \in Nat
  OBVIOUS
<1>2. Width \in Nat \ {0}
  BY TapeAssumption
<1> QED BY <1>1, <1>2, FloorGrows

LEMMA AddTickSound ==
  ASSUME NEW s \in Seq(Nat), Len(s) <= MaxTicks, NEW n \in 1..Len(s),
         \A k \in 1..Len(s) : s[k] <= s[n],
         open \in MadeOf(s) \cup {NoBar}, closed \in TapesOf(s), AddTick(n, s[n]),
         Ascends(closed), open # NoBar /\ closed # <<>> => closed[Len(closed)].start <= open.start
  PROVE  /\ Ascends(closed') /\ NewestOpen(open', s) /\ Covers(open', closed', s, n)
         /\ \A k \in 1..Len(s) : Covers(open, closed, s, k) => Covers(open', closed', s, k)
<1> DEFINE start == Floor(s[n], Width)
           opened == [start |-> start, seen |-> {n}, last |-> n]
<1>1. \/ open = NoBar /\ open' = opened /\ closed' = closed
      \/ open # NoBar /\ start = open.start /\ open' = Extended(open, {n}, n) /\ closed' = closed
      \/ open # NoBar /\ start > open.start /\ open' = opened /\ closed' = Closed(open, closed)
      \/ open # NoBar /\ ~(start = open.start) /\ ~(start > open.start)
  BY AddTickIs
<1>2. opened \in MadeOf(s) /\ n \in Ticks /\ {n} \in SUBSET (1..Len(s))
  BY OpenedMade
<1>3. opened.start = start /\ opened.seen = {n} /\ opened # NoBar
  BY <1>2, MadeIsBar
<1>4. \A k \in 1..Len(s) : Floor(s[k], Width) <= start
  BY EarlierWindow
<1> HIDE DEF opened
<1>5. CASE open = NoBar /\ open' = opened /\ closed' = closed
  BY <1>3, <1>4, <1>5 DEF NewestOpen, Covers
<1>6. CASE open # NoBar /\ start = open.start /\ open' = Extended(open, {n}, n) /\ closed' = closed
  <2>1. open \in MadeOf(s) /\ \A k \in {n} : Floor(s[k], Width) = open.start
    BY <1>6
  <2>2. open' \in MadeOf(s)
    BY <1>2, <1>6, <2>1, ExtendedMade
  <2>3. open'.start = open.start /\ open'.seen = open.seen \cup {n}
    BY <1>6, <2>1 DEF Extended, MadeOf, Bar
  <2>4. open' # NoBar
    BY <2>2, MadeIsBar
  <2> QED BY <1>4, <1>6, <2>3, <2>4 DEF NewestOpen, Covers
<1>7. CASE open # NoBar /\ start > open.start /\ open' = opened /\ closed' = Closed(open, closed)
  <2>1. open \in MadeOf(s) /\ open # NoBar
    BY <1>7
  <2>2. closed' \in TapesOf(s)
    BY <1>7, <2>1, ClosedMade
  <2>3. /\ Ascends(closed') /\ Follows(closed', closed)
        /\ \E j \in 1..Len(closed') : open.seen \subseteq closed'[j].seen
    BY <1>7, <2>1, ClosedInOrder
  <2>4. ASSUME NEW k \in 1..Len(s), Covers(open, closed, s, k)
        PROVE  InSeries(k, closed', s)
    <3>1. CASE k \in open.seen
      BY <2>3, <3>1 DEF InSeries
    <3>2. CASE InSeries(k, closed, s)
      BY <2>2, <2>3, <3>2, CoverStays
    <3> QED BY <2>4, <3>1, <3>2 DEF Covers
  <2> QED BY <1>3, <1>4, <1>7, <2>3, <2>4 DEF NewestOpen, Covers
<1>8. CASE open # NoBar /\ ~(start = open.start) /\ ~(start > open.start)
  <2>1. open \in MadeOf(s)
    BY <1>8
  <2>2. PICK k \in 1..Len(s) : k \in open.seen /\ Floor(s[k], Width) = open.start
    BY <2>1, MadeIsBar
  <2>3. open.start <= start
    BY <1>4, <2>2
  <2>4. open.start \in Nat /\ start \in Nat
    <3>1. s[n] \in Nat /\ Width \in Nat \ {0}
      BY TapeAssumption
    <3> QED BY <2>1, <3>1, MadeIsBar, FloorBounds
  <2> QED BY <1>8, <2>3, <2>4
<1> QED BY <1>1, <1>5, <1>6, <1>7, <1>8

-----------------------------------------------------------------------------
(* The bars that are stored: of one minute each, made of the ticks of that minute.    *)
MinuteBar(b, s) ==
    /\ b \in Bar /\ b.seen \subseteq 1..Len(s)
    /\ \A n \in b.seen : Floor(s[n], Minute) = b.start

LEMMA MinuteBarsMade ==
  ASSUME stamps \in Seq(Nat), Len(stamps) <= MaxTicks, NEW kept \in SUBSET (1..Len(stamps))
  PROVE  IsFiniteSet(MinuteBars(kept)) /\ \A b \in MinuteBars(kept) : MinuteBar(b, stamps)
<1> DEFINE minute(n) == Floor(stamps[n], Minute)
           of(w) == {n \in kept : minute(n) = w}
           bar(w) == [start |-> w, seen |-> of(w), last |-> Max(of(w))]
           made == [n \in kept |-> bar(minute(n))]
<1>1. MinuteBars(kept) = {bar(w) : w \in {minute(n) : n \in kept}}
  BY DEF MinuteBars
<1>2. ASSUME NEW n \in kept
      PROVE  MinuteBar(bar(minute(n)), stamps)
  <2> DEFINE w == minute(n)
             S == of(w)
  <2>1. w \in Nat
    <3>1. stamps[n] \in Nat /\ Minute \in Nat \ {0}
      BY TapeAssumption
    <3> QED BY <3>1, FloorBounds
  <2>2. S \in SUBSET (1..Len(stamps)) /\ n \in S /\ \A k \in S : Floor(stamps[k], Minute) = w
    OBVIOUS
  <2> HIDE DEF w, S
  <2>3. S \in SUBSET Nat /\ S # {} /\ Len(stamps) \in Nat /\ \A k \in S : k <= Len(stamps)
    BY <2>2
  <2>4. Max(S) \in S
    BY <2>3, GreatestNumber
  <2>5. S \in (SUBSET Ticks) \ {{}} /\ Max(S) \in Ticks
    <3>1. MaxTicks \in Nat
      BY TapeAssumption
    <3>2. \A k \in 1..Len(stamps) : k \in Ticks
      BY <2>3, <3>1 DEF Ticks
    <3> QED BY <2>2, <2>4, <3>2
  <2> DEFINE b == [start |-> w, seen |-> S, last |-> Max(S)]
  <2>6. b \in Bar /\ b.start = w /\ b.seen = S
    BY <2>1, <2>5 DEF Bar
  <2> HIDE DEF b
  <2>7. MinuteBar(b, stamps)
    BY <2>2, <2>6 DEF MinuteBar
  <2> QED BY <2>7 DEF b, w, S
<1> HIDE DEF bar
<1>3. \A b \in MinuteBars(kept) : MinuteBar(b, stamps)
  BY <1>1, <1>2
<1>4. made \in Surjection(kept, MinuteBars(kept))
  <2> DEFINE T == MinuteBars(kept)
  <2>1. \A n \in kept : made[n] = bar(minute(n))
    OBVIOUS
  <2>2. made \in [kept -> T]
    BY <1>1
  <2>3. \A b \in T : \E n \in kept : made[n] = b
    BY <1>1
  <2> HIDE DEF made, T
  <2>4. made \in Surjection(kept, T)
    BY <2>2, <2>3 DEF Surjection
  <2> QED BY <2>4 DEF T
<1>5. IsFiniteSet(kept)
  <2>1. Len(stamps) \in Nat
    OBVIOUS
  <2>2. IsFiniteSet(1..Len(stamps))
    BY <2>1, FS_Interval
  <2> QED BY <2>2, FS_Subset
<1> HIDE DEF made
<1>6. IsFiniteSet(MinuteBars(kept))
  BY <1>4, <1>5, FS_Surjection
<1> QED BY <1>3, <1>6

(* Rolled up, they are bars of the frame.                                             *)
LEMMA RolledUpMade ==
  ASSUME NEW s \in Seq(Nat), Len(s) <= MaxTicks,
         NEW bars, IsFiniteSet(bars), \A b \in bars : MinuteBar(b, s)
  PROVE  IsFiniteSet(RolledUp(bars)) /\ RolledUp(bars) \in SUBSET MadeOf(s)
<1> DEFINE within(w) == {b \in bars : Floor(b.start, Width) = w}
           latest(w) == CHOOSE b \in within(w) : \A c \in within(w) : c.start <= b.start
           bar(w) == [start |-> w, seen |-> UNION {b.seen : b \in within(w)}, last |-> latest(w).last]
           made == [b \in bars |-> bar(Floor(b.start, Width))]
<1>1. RolledUp(bars) = {bar(w) : w \in {Floor(b.start, Width) : b \in bars}}
  BY DEF RolledUp
<1>2. \A b \in bars : b \in Bar /\ b.start \in Nat /\ b.seen \in (SUBSET Ticks) \ {{}} /\ b.last \in Ticks
  BY DEF MinuteBar, Bar
<1>3. Width \in Nat \ {0} /\ Minute \in Nat \ {0} /\ Width % Minute = 0
  BY TapeAssumption
<1>4. ASSUME NEW a \in bars
      PROVE  bar(Floor(a.start, Width)) \in MadeOf(s)
  <2> DEFINE w == Floor(a.start, Width)
             W == within(w)
             starts == {b.start : b \in W}
             U == UNION {b.seen : b \in W}
             l == CHOOSE b \in W : \A c \in W : c.start <= b.start
  <2>1. w \in Nat
    BY <1>2, <1>3, FloorBounds
  <2>2. a \in W /\ W \in SUBSET bars /\ \A b \in W : Floor(b.start, Width) = w
    OBVIOUS
  <2> HIDE DEF w, W
  <2>3. starts \in SUBSET Nat /\ starts # {} /\ \A t \in starts : t <= w + Width
    <3>1. \A b \in W : b.start \in Nat /\ b.start < w + Width
      BY <1>2, <1>3, <2>2, FloorBounds
    <3>2. \A b \in W : b.start <= w + Width
      BY <1>3, <2>1, <3>1
    <3> QED BY <2>2, <3>1, <3>2
  <2> HIDE DEF starts
  <2>4. Max(starts) \in starts /\ \A t \in starts : t <= Max(starts)
    <3>1. w + Width \in Nat
      BY <1>3, <2>1
    <3> QED BY <2>3, <3>1, GreatestNumber
  <2>5. l \in W
    <3>1. PICK b \in W : b.start = Max(starts)
      BY <2>4 DEF starts
    <3>2. \A c \in W : c.start <= b.start
      BY <2>4, <3>1 DEF starts
    <3> QED BY <3>1, <3>2
  <2> HIDE DEF l
  <2>6. U \in (SUBSET Ticks) \ {{}} /\ l.last \in Ticks
    <3>1. a.seen # {} /\ a.seen \subseteq U
      BY <1>2, <2>2
    <3>2. U \in SUBSET Ticks
      BY <1>2, <2>2
    <3> QED BY <1>2, <2>2, <2>5, <3>1, <3>2
  <2>7. U \subseteq 1..Len(s) /\ \A n \in U : Floor(s[n], Width) = w
    <3>1. ASSUME NEW b \in W, NEW n \in b.seen
          PROVE  n \in 1..Len(s) /\ Floor(s[n], Width) = w
      <4>1. n \in 1..Len(s) /\ Floor(s[n], Minute) = b.start
        BY <2>2 DEF MinuteBar
      <4>2. Floor(b.start, Width) = w
        BY <2>2
      <4>3. s[n] \in Nat
        BY <4>1
      <4>4. Floor(Floor(s[n], Minute), Width) = Floor(s[n], Width)
        BY <1>3, <4>3, FloorNests
      <4> QED BY <4>1, <4>2, <4>4
    <3> QED BY <3>1
  <2> HIDE DEF U
  <2> DEFINE d == [start |-> w, seen |-> U, last |-> l.last]
  <2>8. d \in Bar /\ d.start = w /\ d.seen = U
    BY <2>1, <2>6 DEF Bar
  <2> HIDE DEF d
  <2>9. d \in MadeOf(s)
    BY <2>7, <2>8 DEF MadeOf
  <2> QED BY <2>9 DEF d, w, W, U, l
<1> HIDE DEF bar
<1>5. RolledUp(bars) \in SUBSET MadeOf(s)
  BY <1>1, <1>4
<1>6. made \in Surjection(bars, RolledUp(bars))
  <2> DEFINE T == RolledUp(bars)
  <2>1. made \in [bars -> T]
    BY <1>1
  <2>2. \A b \in T : \E c \in bars : made[c] = b
    BY <1>1
  <2> HIDE DEF made, T
  <2>3. made \in Surjection(bars, T)
    BY <2>1, <2>2 DEF Surjection
  <2> QED BY <2>3 DEF T
<1> HIDE DEF made
<1>7. IsFiniteSet(RolledUp(bars))
  BY <1>6, FS_Surjection
<1> QED BY <1>5, <1>7

(* mergeSealedHistory: every window once, with what either series has seen of it.     *)
LEMMA MergedMade ==
  ASSUME NEW s \in Seq(Nat), Len(s) <= MaxTicks, NEW z \in TapesOf(s),
         NEW R \in SUBSET MadeOf(s), IsFiniteSet(R)
  PROVE  /\ Merged(z, R) \in TapesOf(s)
         /\ Ascends(z) => Ascends(Merged(z, R)) /\ Follows(Merged(z, R), z)
<1> DEFINE mine == {z[i] : i \in DOMAIN z}
           all == mine \cup R
           of(w) == {b \in all : b.start = w}
           close(w) == IF \E r \in R : r.start = w
                       THEN (CHOOSE r \in R : r.start = w).last
                       ELSE (CHOOSE b \in mine : b.start = w).last
           bar(w) == [start |-> w, seen |-> UNION {b.seen : b \in of(w)}, last |-> close(w)]
           both == {bar(w) : w \in {b.start : b \in all}}
           made == [b \in all |-> bar(b.start)]
           y == InOrder(both)
           r == Latest(y, MaxClosed)
<1>1. /\ z \in Seq(MadeOf(s)) /\ Len(z) \in Nat /\ Len(z) <= MaxClosed
      /\ \A i \in 1..Len(z) : z[i] \in MadeOf(s)
  BY SeriesOfBars
<1>2. Merged(z, R) = IF R = {} THEN z ELSE r
  BY DEF Merged
<1>3. mine = {z[i] : i \in 1..Len(z)} /\ mine \in SUBSET MadeOf(s) /\ IsFiniteSet(mine)
  <2>1. mine = {z[i] : i \in 1..Len(z)}
    BY <1>1
  <2> DEFINE L == mine
             n == Len(z)
             f == [i \in 1..n |-> z[i]]
  <2>2. f \in Surjection(1..n, L)
    <3>1. f \in [1..n -> L] /\ \A b \in L : \E i \in 1..n : f[i] = b
      BY <2>1
    <3> HIDE DEF f, L, n
    <3> QED BY <3>1 DEF Surjection
  <2>3. IsFiniteSet(1..n)
    <3>1. n \in Int
      BY <1>1
    <3> QED BY <3>1, FS_Interval
  <2> HIDE DEF f, n
  <2>4. IsFiniteSet(L)
    <3> HIDE DEF L
    <3> QED BY <2>2, <2>3, FS_Surjection
  <2> QED BY <1>1, <2>1, <2>4
<1> HIDE DEF mine
<1>4. all \in SUBSET MadeOf(s) /\ IsFiniteSet(all)
  BY <1>3, FS_Union
<1>5. \A b \in all : b \in Bar /\ b.start \in Nat /\ b.seen \in (SUBSET Ticks) \ {{}} /\ b.last \in Ticks
  BY <1>4 DEF MadeOf, Bar
<1>6. ASSUME NEW a \in all
      PROVE  /\ bar(a.start) \in MadeOf(s) /\ bar(a.start).start = a.start
             /\ a.seen \subseteq bar(a.start).seen
  <2> DEFINE w == a.start
             W == of(w)
             U == UNION {b.seen : b \in W}
             l == close(w)
             d == [start |-> w, seen |-> U, last |-> l]
  <2>1. a \in W /\ W \in SUBSET all /\ \A b \in W : b.start = w
    OBVIOUS
  <2>2. l \in Ticks
    <3>1. CASE \E q \in R : q.start = w
      BY <1>5, <3>1
    <3>2. CASE ~(\E q \in R : q.start = w)
      <4>1. a \in mine
        BY <3>2
      <4>2. (CHOOSE b \in mine : b.start = w) \in mine
        BY <4>1
      <4> QED BY <1>5, <3>2, <4>2
    <3> QED BY <3>1, <3>2
  <2> HIDE DEF l, W, w
  <2>3. U \in (SUBSET Ticks) \ {{}} /\ a.seen \subseteq U
    <3>1. a.seen # {} /\ a.seen \subseteq U
      BY <1>5, <2>1
    <3>2. U \in SUBSET Ticks
      BY <1>5, <2>1
    <3> QED BY <3>1, <3>2
  <2>4. U \subseteq 1..Len(s) /\ \A n \in U : Floor(s[n], Width) = w
    <3>1. ASSUME NEW b \in W, NEW n \in b.seen
          PROVE  n \in 1..Len(s) /\ Floor(s[n], Width) = w
      <4>1. b \in MadeOf(s) /\ b.start = w
        BY <1>4, <2>1
      <4> QED BY <4>1 DEF MadeOf
    <3> QED BY <3>1
  <2>5. w \in Nat
    BY <1>5 DEF w
  <2> HIDE DEF U
  <2>6. d \in Bar /\ d.start = w /\ d.seen = U
    BY <2>2, <2>3, <2>5 DEF Bar
  <2> HIDE DEF d
  <2>7. d \in MadeOf(s)
    BY <2>4, <2>6 DEF MadeOf
  <2>8. bar(a.start) = d
    BY DEF d, w, W, U, l
  <2> HIDE DEF bar
  <2> QED BY <2>3, <2>6, <2>7, <2>8 DEF w
<1> HIDE DEF bar, all
<1>7. both \in SUBSET MadeOf(s) /\ \A b \in both : b.start \in Nat
  <2>1. both \in SUBSET MadeOf(s)
    BY <1>6
  <2>2. ASSUME NEW b \in both
        PROVE  b.start \in Nat
    <3>1. b \in MadeOf(s)
      BY <2>1
    <3> QED BY <3>1, MadeIsBar
  <2> QED BY <2>1, <2>2
<1>8. \A b, c \in both : b.start = c.start => b = c
  <2>1. \A b \in both : b = bar(b.start)
    BY <1>6
  <2> QED BY <2>1
<1>9. IsFiniteSet(both)
  <2> DEFINE T == both
  <2>1. made \in [all -> T] /\ \A b \in T : \E c \in all : made[c] = b
    OBVIOUS
  <2>2. made \in Surjection(all, T)
    <3> HIDE DEF made, T
    <3> QED BY <2>1 DEF Surjection
  <2> HIDE DEF made
  <2>3. IsFiniteSet(T)
    <3> HIDE DEF T
    <3> QED BY <1>4, <2>2, FS_Surjection
  <2> QED BY <2>3
<1>10. \A a \in all : \E b \in both : b.start = a.start /\ a.seen \subseteq b.seen
  BY <1>6
<1> HIDE DEF both, made
<1>11. /\ y \in Seq(both) /\ Ascends(y)
       /\ \A b \in both : \E i \in 1..Len(y) : y[i] = b
  BY <1>7, <1>8, <1>9, Ranked
<1>12. y \in Seq(MadeOf(s)) /\ Len(y) \in Nat
  <2> HIDE DEF y
  <2>1. Len(y) \in Nat /\ y \in [1..Len(y) -> both]
    BY <1>11
  <2>2. y \in [1..Len(y) -> MadeOf(s)]
    BY <1>7, <2>1
  <2> QED BY <2>1, <2>2
<1> HIDE DEF y
<1>13. /\ r \in Seq(MadeOf(s)) /\ Len(r) <= MaxClosed /\ Ascends(r)
       /\ \A j \in 1..Len(y) : \/ \E i \in 1..Len(r) : r[i] = y[j]
                               \/ Len(r) = MaxClosed /\ y[j].start < r[1].start
  <2>1. MaxClosed \in Nat \ {0}
    BY TapeAssumption
  <2> QED BY <1>11, <1>12, <2>1, LatestKeeps
<1> HIDE DEF r
<1>14. Follows(r, z)
  <2> SUFFICES ASSUME NEW i \in 1..Len(z)
               PROVE  \/ \E j \in 1..Len(r) : r[j].start = z[i].start /\ z[i].seen \subseteq r[j].seen
                      \/ Len(r) = MaxClosed /\ z[i].start < r[1].start
    BY DEF Follows
  <2>1. z[i] \in all
    BY <1>3 DEF all
  <2>2. PICK b \in both : b.start = z[i].start /\ z[i].seen \subseteq b.seen
    BY <1>10, <2>1
  <2>3. PICK j \in 1..Len(y) : y[j] = b
    BY <1>11
  <2> QED BY <1>13, <2>2, <2>3
<1>15. Follows(z, z)
  BY DEF Follows
<1>16. r \in TapesOf(s)
  BY <1>13 DEF TapesOf
<1> QED BY <1>2, <1>13, <1>14, <1>15, <1>16

-----------------------------------------------------------------------------
(* Steps.                                                                      *)

SteadyIn(s) == \A n \in 2..Len(s) : s[n - 1] <= s[n]

LEMMA SteadyOrders ==
  ASSUME NEW s \in Seq(Nat), SteadyIn(s), NEW i \in 1..Len(s), NEW j \in 1..Len(s), i <= j
  PROVE  s[i] <= s[j]
<1> SUFFICES ASSUME ~(s[i] <= s[j]) PROVE FALSE
  OBVIOUS
<1> DEFINE B == {k \in 1..Len(s) : i <= k /\ ~(s[i] <= s[k])}
<1>1. B \in SUBSET Nat /\ j \in B
  OBVIOUS
<1>2. PICK k \in B : \A l \in B : ~(<<l, k>> \in OpToRel(<, Nat))
  <2>1. IsWellFoundedOn(OpToRel(<, Nat), Nat)
    BY NatLessThanWellFounded
  <2> HIDE DEF B
  <2> QED BY <1>1, <2>1, WFMin
<1>3. k \in 1..Len(s) /\ i <= k /\ ~(s[i] <= s[k]) /\ Len(s) \in Nat
  OBVIOUS
<1>4. k # i
  <2>1. s[i] \in Nat
    OBVIOUS
  <2> QED BY <1>3, <2>1
<1>5. k - 1 \in 1..Len(s) /\ i <= k - 1 /\ k \in 2..Len(s)
  BY <1>3, <1>4
<1>6. k - 1 \notin B
  <2> HIDE DEF B
  <2>1. k \in Nat /\ k - 1 \in Nat /\ k - 1 < k
    BY <1>3, <1>5
  <2>2. <<k - 1, k>> \in OpToRel(<, Nat)
    BY <2>1 DEF OpToRel
  <2> QED BY <1>2, <2>2
<1>7. s[i] <= s[k - 1] /\ s[k - 1] <= s[k]
  BY <1>5, <1>6 DEF SteadyIn
<1>8. s[i] \in Nat /\ s[k - 1] \in Nat /\ s[k] \in Nat
  BY <1>3, <1>5
<1> QED BY <1>3, <1>7, <1>8

(* A tick more changes nothing of the bars that are made.                             *)
LEMMA MadeGrows ==
  ASSUME NEW s \in Seq(Nat), NEW x \in Nat
  PROVE  LET t == Append(s, x) IN
         /\ t \in Seq(Nat) /\ Len(t) = Len(s) + 1 /\ t[Len(t)] = x
         /\ MadeOf(s) \in SUBSET MadeOf(t) /\ TapesOf(s) \in SUBSET TapesOf(t)
         /\ \A n \in 1..Len(s) : t[n] = s[n]
         /\ \A n \in 1..Len(s) : \A z : InSeries(n, z, s) => InSeries(n, z, t)
<1> DEFINE t == Append(s, x)
<1>1. /\ t \in Seq(Nat) /\ Len(t) = Len(s) + 1 /\ t[Len(t)] = x /\ Len(s) \in Nat
      /\ \A n \in 1..Len(s) : t[n] = s[n]
  BY AppendProperties
<1> HIDE DEF t
<1>2. MadeOf(s) \in SUBSET MadeOf(t)
  <2> SUFFICES ASSUME NEW b \in MadeOf(s) PROVE b \in MadeOf(t)
    OBVIOUS
  <2>1. b \in Bar /\ b.seen \subseteq 1..Len(s) /\ \A n \in b.seen : Floor(s[n], Width) = b.start
    BY DEF MadeOf
  <2>2. 1..Len(s) \subseteq 1..Len(t)
    BY <1>1
  <2>3. b.seen \subseteq 1..Len(t) /\ \A n \in b.seen : Floor(t[n], Width) = b.start
    BY <1>1, <2>1, <2>2
  <2> QED BY <2>1, <2>3 DEF MadeOf
<1>3. TapesOf(s) \in SUBSET TapesOf(t)
  <2> SUFFICES ASSUME NEW z \in TapesOf(s) PROVE z \in TapesOf(t)
    OBVIOUS
  <2>1. z \in Seq(MadeOf(s)) /\ Len(z) <= MaxClosed /\ Len(z) \in Nat
    BY SeriesOfBars
  <2>2. z \in [1..Len(z) -> MadeOf(t)]
    BY <1>2, <2>1
  <2>3. z \in Seq(MadeOf(t))
    BY <2>1, <2>2
  <2> QED BY <2>1, <2>3 DEF TapesOf
<1>4. \A n \in 1..Len(s) : \A z : InSeries(n, z, s) => InSeries(n, z, t)
  BY <1>1 DEF InSeries
<1> QED BY <1>1, <1>2, <1>3, <1>4 DEF t

TapeTyped ==
    /\ clock \in 1..MaxClock
    /\ stamps \in Seq(Nat) /\ Len(stamps) <= MaxTicks
    /\ held \in 0..Len(stamps)
    /\ newest \in [stamp : Nat, ahead : Int]
    /\ due \in BOOLEAN
    /\ boots \in 1..MaxBoots
    /\ since \in 1..(Len(stamps) + 1)

BarsMade == open \in MadeOf(stamps) \cup {NoBar} /\ closed \in TapesOf(stamps)

TapeInv == TapeTyped /\ BarsMade

LEMMA TapeStarts ==
  ASSUME TapeInit
  PROVE  TapeInv
<1>1. stamps = <<>> /\ Len(stamps) = 0 /\ stamps \in Seq(Nat)
  BY DEF TapeInit
<1>2. TapeTyped
  BY <1>1, TapeAssumption DEF TapeInit, TapeTyped, Silent
<1>3. closed \in TapesOf(stamps)
  <2>1. <<>> \in Seq(MadeOf(stamps)) /\ Len(<<>>) = 0 /\ closed = <<>> /\ MaxClosed \in Nat \ {0}
    BY TapeAssumption DEF TapeInit
  <2> QED BY <2>1 DEF TapesOf
<1> QED BY <1>2, <1>3 DEF TapeInit, TapeInv, BarsMade

LEMMA TapeTypesOK ==
  ASSUME TapeInv
  PROVE  TapeTypeOK
<1>1. closed \in Seq(Bar) /\ Len(closed) <= MaxClosed
  BY SeriesOfBars DEF TapeInv, BarsMade, TapeTyped
<1>2. open \in Bar \cup {NoBar}
  BY DEF TapeInv, BarsMade, MadeOf
<1>3. clock \in 0..MaxClock
  BY TapeAssumption DEF TapeInv, TapeTyped
<1>4. since \in 1..(MaxTicks + 1)
  <2>1. Len(stamps) \in Nat /\ Len(stamps) <= MaxTicks /\ since \in 1..(Len(stamps) + 1) /\ MaxTicks \in Nat
    BY TapeAssumption DEF TapeInv, TapeTyped
  <2> QED BY <2>1
<1> QED BY <1>1, <1>2, <1>3, <1>4 DEF TapeInv, TapeTyped, TapeTypeOK

(* While stamps do not go back: the closed bars are in order, the open one is of the    *)
(* newest window, and no tick of this tape is lost.                                   *)
Sound ==
    /\ Ascends(closed) /\ NewestOpen(open, stamps)
    /\ \A n \in since..Len(stamps) : Covers(open, closed, stamps, n)

WholeInv == TapeInv /\ (SteadyIn(stamps) => Sound)

LEMMA LastIsOlder ==
  ASSUME TapeInv, NewestOpen(open, stamps), open # NoBar, closed # <<>>
  PROVE  closed[Len(closed)].start <= open.start
<1>1. closed \in TapesOf(stamps) /\ stamps \in Seq(Nat)
  BY DEF TapeInv, BarsMade, TapeTyped
<1>2. /\ Len(closed) \in Nat /\ closed \in Seq(Bar)
      /\ \A i \in 1..Len(closed) : closed[i] \in MadeOf(stamps)
  BY <1>1, SeriesOfBars
<1>3. closed[Len(closed)] \in MadeOf(stamps)
  BY <1>2
<1>4. PICK k \in 1..Len(stamps) : Floor(stamps[k], Width) = closed[Len(closed)].start
  BY <1>1, <1>3, MadeIsBar
<1> QED BY <1>4 DEF NewestOpen

LEMMA WholeIsWhole ==
  ASSUME WholeInv
  PROVE  TapeIsWhole
<1> SUFFICES ASSUME Steady
             PROVE  /\ WindowsInOrder
                    /\ open # NoBar /\ closed # <<>> => Last(closed).start <= open.start
                    /\ \A n \in since..Len(stamps) :
                        OnTape(n) \/ (Len(closed) = MaxClosed /\ stamps[n] < closed[1].start)
  BY DEF TapeIsWhole
<1>1. Sound /\ TapeInv
  BY DEF WholeInv, Steady, SteadyIn
<1>2. closed \in Seq(MadeOf(stamps)) /\ Len(closed) \in Nat
  BY <1>1, SeriesOfBars DEF TapeInv, BarsMade, TapeTyped
<1>3. WindowsInOrder
  <2> SUFFICES ASSUME NEW i \in 2..Len(closed) PROVE closed[i - 1].start < closed[i].start
    BY DEF WindowsInOrder
  <2>1. i - 1 \in 1..Len(closed) /\ i \in 1..Len(closed) /\ i - 1 < i
    BY <1>2
  <2> QED BY <1>1, <2>1 DEF Sound, Ascends
<1>4. open # NoBar /\ closed # <<>> => Last(closed).start <= open.start
  BY <1>1, LastIsOlder DEF Sound, Last
<1>5. ASSUME NEW n \in since..Len(stamps)
      PROVE  OnTape(n) \/ (Len(closed) = MaxClosed /\ stamps[n] < closed[1].start)
  <2>1. Covers(open, closed, stamps, n)
    BY <1>1 DEF Sound
  <2>2. DOMAIN closed = 1..Len(closed)
    BY <1>2
  <2> QED BY <2>1, <2>2 DEF Covers, InSeries, OnTape
<1> QED BY <1>3, <1>4, <1>5

(* A new tick.                                                                       *)
LEMMA ArrivesMade ==
  ASSUME TapeInv, NEW stamp \in Nat, Arrives(stamp), held' = held \/ held' = Len(stamps')
  PROVE  TapeInv'
<1> PICK s : s = Append(stamps, stamp)
  OBVIOUS
<1>1. /\ stamps \in Seq(Nat) /\ Len(stamps) < MaxTicks /\ MaxTicks \in Nat /\ clock \in Nat
      /\ held \in 0..Len(stamps) /\ since \in 1..(Len(stamps) + 1)
      /\ newest \in [stamp : Nat, ahead : Int]
      /\ open \in MadeOf(stamps) \cup {NoBar} /\ closed \in TapesOf(stamps)
  BY TapeAssumption DEF TapeInv, TapeTyped, BarsMade, Arrives
<1>2. /\ s \in Seq(Nat) /\ Len(s) = Len(stamps) + 1 /\ s[Len(s)] = stamp
      /\ MadeOf(stamps) \in SUBSET MadeOf(s) /\ TapesOf(stamps) \in SUBSET TapesOf(s)
  BY <1>1, MadeGrows
<1>3. stamps' = s /\ AddTick(Len(s), s[Len(s)]) /\ Seen(stamp) /\ UNCHANGED <<clock, due, boots, since>>
  BY <1>2 DEF Arrives
<1>4. Len(stamps) \in Nat /\ Len(s) \in 1..Len(s) /\ Len(s) <= MaxTicks
  BY <1>1, <1>2
<1>5. open' \in MadeOf(s) \cup {NoBar} /\ closed' \in TapesOf(s)
  BY <1>1, <1>2, <1>3, <1>4, AddTickMade
<1>6. newest' \in [stamp : Nat, ahead : Int]
  <2>1. newest' = newest \/ newest' = [stamp |-> stamp, ahead |-> stamp - clock]
    BY <1>3 DEF Seen
  <2>2. stamp - clock \in Int
    BY <1>1
  <2> QED BY <1>1, <2>1, <2>2
<1>7. held' \in 0..Len(s) /\ since' \in 1..(Len(s) + 1)
  BY <1>1, <1>2, <1>3, <1>4
<1>8. TapeTyped'
  BY <1>2, <1>3, <1>4, <1>6, <1>7 DEF TapeInv, TapeTyped
<1> QED BY <1>3, <1>5, <1>8 DEF TapeInv, BarsMade

LEMMA ArrivesSound ==
  ASSUME WholeInv, NEW stamp \in Nat, Arrives(stamp), SteadyIn(stamps')
  PROVE  Sound'
<1> PICK s : s = Append(stamps, stamp)
  OBVIOUS
<1>1. /\ stamps \in Seq(Nat) /\ Len(stamps) < MaxTicks /\ MaxTicks \in Nat
      /\ since \in 1..(Len(stamps) + 1)
      /\ open \in MadeOf(stamps) \cup {NoBar} /\ closed \in TapesOf(stamps)
  BY TapeAssumption DEF WholeInv, TapeInv, TapeTyped, BarsMade, Arrives
<1>2. /\ s \in Seq(Nat) /\ Len(s) = Len(stamps) + 1 /\ s[Len(s)] = stamp
      /\ MadeOf(stamps) \in SUBSET MadeOf(s) /\ TapesOf(stamps) \in SUBSET TapesOf(s)
      /\ \A n \in 1..Len(stamps) : s[n] = stamps[n]
      /\ \A n \in 1..Len(stamps) : \A z : InSeries(n, z, stamps) => InSeries(n, z, s)
  BY <1>1, MadeGrows
<1>3. stamps' = s /\ AddTick(Len(s), s[Len(s)]) /\ since' = since
  BY <1>2 DEF Arrives
<1>4. Len(stamps) \in Nat /\ Len(s) \in 1..Len(s) /\ Len(s) <= MaxTicks
  BY <1>1, <1>2
<1>5. SteadyIn(s)
  BY <1>3 DEF SteadyIn
<1>6. SteadyIn(stamps)
  <2> SUFFICES ASSUME NEW n \in 2..Len(stamps) PROVE stamps[n - 1] <= stamps[n]
    BY DEF SteadyIn
  <2>1. n \in 2..Len(s) /\ n \in 1..Len(stamps) /\ n - 1 \in 1..Len(stamps)
    BY <1>2, <1>4
  <2> QED BY <1>2, <1>5, <2>1 DEF SteadyIn
<1>7. Sound
  BY <1>6 DEF WholeInv
<1>8. \A k \in 1..Len(s) : s[k] <= s[Len(s)]
  <2> TAKE k \in 1..Len(s)
  <2>1. k <= Len(s)
    BY <1>4
  <2> QED BY <1>2, <1>4, <1>5, <2>1, SteadyOrders
<1>9. open # NoBar /\ closed # <<>> => closed[Len(closed)].start <= open.start
  BY <1>7, LastIsOlder DEF WholeInv, Sound
<1>10. /\ Ascends(closed') /\ NewestOpen(open', s) /\ Covers(open', closed', s, Len(s))
       /\ \A k \in 1..Len(s) : Covers(open, closed, s, k) => Covers(open', closed', s, k)
  <2>1. open \in MadeOf(s) \cup {NoBar} /\ closed \in TapesOf(s)
    BY <1>1, <1>2
  <2>2. Ascends(closed)
    BY <1>7 DEF Sound
  <2> QED BY <1>2, <1>3, <1>4, <1>8, <1>9, <2>1, <2>2, AddTickSound
<1>11. \A n \in since..Len(s) : Covers(open', closed', s, n)
  <2> TAKE n \in since..Len(s)
  <2>1. CASE n = Len(s)
    BY <1>10, <2>1
  <2>2. CASE n # Len(s)
    <3>1. n \in since..Len(stamps) /\ n \in 1..Len(stamps) /\ n \in 1..Len(s)
      BY <1>1, <1>2, <1>4, <2>2
    <3>2. Covers(open, closed, stamps, n)
      BY <1>7, <3>1 DEF Sound
    <3>3. Covers(open, closed, s, n)
      BY <1>2, <3>1, <3>2 DEF Covers
    <3> QED BY <1>10, <3>1, <3>3
  <2> QED BY <2>1, <2>2
<1> QED BY <1>3, <1>10, <1>11 DEF Sound

(* A tick that is repeated.                                                          *)
LEMMA HeldMade ==
  ASSUME TapeInv, HeldTick
  PROVE  TapeInv'
<1> PICK s : s = stamps
  OBVIOUS
<1> PICK n : n = held
  OBVIOUS
<1>1. /\ s \in Seq(Nat) /\ Len(s) <= MaxTicks /\ clock \in Nat
      /\ n \in 1..Len(s) /\ newest \in [stamp : Nat, ahead : Int]
      /\ open \in MadeOf(s) \cup {NoBar} /\ closed \in TapesOf(s)
  <2>1. /\ s \in Seq(Nat) /\ Len(s) <= MaxTicks /\ clock \in 1..MaxClock /\ n \in 0..Len(s) /\ n > 0
        /\ newest \in [stamp : Nat, ahead : Int]
        /\ open \in MadeOf(s) \cup {NoBar} /\ closed \in TapesOf(s)
    BY DEF TapeInv, TapeTyped, BarsMade, HeldTick
  <2>2. clock \in Nat /\ n \in 1..Len(s)
    BY <2>1
  <2> QED BY <2>1, <2>2
<1>2. /\ AddTick(n, s[n]) /\ Seen(s[n])
      /\ UNCHANGED <<clock, stamps, held, due, boots, since>>
  BY DEF HeldTick
<1>3. open' \in MadeOf(s) \cup {NoBar} /\ closed' \in TapesOf(s)
  BY <1>1, <1>2, AddTickMade
<1>4. newest' \in [stamp : Nat, ahead : Int]
  <2>1. newest' = newest \/ newest' = [stamp |-> s[n], ahead |-> s[n] - clock]
    BY <1>2 DEF Seen
  <2>2. s[n] \in Nat /\ s[n] - clock \in Int
    BY <1>1
  <2> QED BY <1>1, <2>1, <2>2
<1>5. TapeTyped'
  BY <1>2, <1>4 DEF TapeInv, TapeTyped
<1> QED BY <1>2, <1>3, <1>5 DEF TapeInv, BarsMade

(* What the bridge repeats is as new as any tick of the symbol.                       *)
RepeatsNewest == HeldTick /\ Steady => stamps[held] = stamps[Len(stamps)]

LEMMA HeldSound ==
  ASSUME WholeInv, HeldTick, RepeatsNewest, SteadyIn(stamps')
  PROVE  Sound'
<1> PICK s : s = stamps
  OBVIOUS
<1> PICK n : n = held
  OBVIOUS
<1>1. /\ s \in Seq(Nat) /\ Len(s) <= MaxTicks /\ n \in 1..Len(s) /\ since \in 1..(Len(s) + 1)
      /\ open \in MadeOf(s) \cup {NoBar} /\ closed \in TapesOf(s)
  BY DEF WholeInv, TapeInv, TapeTyped, BarsMade, HeldTick
<1>2. AddTick(n, s[n]) /\ stamps' = s /\ since' = since
  BY DEF HeldTick
<1>3. SteadyIn(s) /\ s[n] = s[Len(s)]
  BY <1>2 DEF SteadyIn, Steady, RepeatsNewest
<1>4. Sound
  BY <1>3 DEF WholeInv
<1>5. \A k \in 1..Len(s) : s[k] <= s[n]
  <2> TAKE k \in 1..Len(s)
  <2>1. k <= Len(s) /\ Len(s) \in 1..Len(s)
    BY <1>1
  <2> QED BY <1>1, <1>3, <2>1, SteadyOrders
<1>6. open # NoBar /\ closed # <<>> => closed[Len(closed)].start <= open.start
  BY <1>4, LastIsOlder DEF WholeInv, Sound
<1>7. /\ Ascends(closed') /\ NewestOpen(open', s)
      /\ \A k \in 1..Len(s) : Covers(open, closed, s, k) => Covers(open', closed', s, k)
  <2>1. Ascends(closed)
    BY <1>4 DEF Sound
  <2> QED BY <1>1, <1>2, <1>5, <1>6, <2>1, AddTickSound
<1>8. \A k \in since..Len(s) : Covers(open', closed', s, k)
  <2> TAKE k \in since..Len(s)
  <2>1. k \in 1..Len(s) /\ Covers(open, closed, s, k)
    BY <1>1, <1>4 DEF Sound
  <2> QED BY <1>7, <2>1
<1> QED BY <1>2, <1>7, <1>8 DEF Sound

(* The sweep closes the bar that is open.                                             *)
LEMMA SweepMade ==
  ASSUME TapeInv, Sweep
  PROVE  TapeInv'
<1>1. closed' \in TapesOf(stamps)
  <2>1. /\ stamps \in Seq(Nat) /\ Len(stamps) <= MaxTicks /\ open \in MadeOf(stamps)
        /\ closed \in TapesOf(stamps) /\ closed' = Closed(open, closed)
    BY DEF TapeInv, TapeTyped, BarsMade, Sweep
  <2> QED BY <2>1, ClosedMade
<1> QED BY <1>1 DEF TapeInv, TapeTyped, BarsMade, Sweep

LEMMA SweepSound ==
  ASSUME WholeInv, Sweep, SteadyIn(stamps')
  PROVE  Sound'
<1> PICK s : s = stamps
  OBVIOUS
<1>1. /\ s \in Seq(Nat) /\ Len(s) <= MaxTicks /\ since \in 1..(Len(s) + 1)
      /\ open \in MadeOf(s) /\ closed \in TapesOf(s) /\ open # NoBar
      /\ stamps' = s /\ since' = since /\ open' = NoBar /\ closed' = Closed(open, closed)
  BY DEF WholeInv, TapeInv, TapeTyped, BarsMade, Sweep
<1>2. Sound
  BY <1>1 DEF WholeInv, SteadyIn
<1>3. closed # <<>> => closed[Len(closed)].start <= open.start
  BY <1>1, <1>2, LastIsOlder DEF WholeInv, Sound
<1>4. closed' \in TapesOf(s)
  BY <1>1, ClosedMade
<1>5. /\ Ascends(closed) /\ Ascends(closed') /\ Follows(closed', closed)
      /\ \E j \in 1..Len(closed') : open.seen \subseteq closed'[j].seen
  BY <1>1, <1>2, <1>3, ClosedInOrder DEF Sound
<1>6. ASSUME NEW k \in since..Len(s)
      PROVE  Covers(open', closed', s, k)
  <2>1. k \in 1..Len(s) /\ Covers(open, closed, s, k)
    BY <1>1, <1>2 DEF Sound
  <2>2. CASE k \in open.seen
    BY <1>5, <2>2 DEF Covers, InSeries
  <2>3. CASE InSeries(k, closed, s)
    <3>1. InSeries(k, closed', s)
      BY <1>1, <1>4, <1>5, <2>1, <2>3, CoverStays
    <3> QED BY <3>1 DEF Covers
  <2> QED BY <2>1, <2>2, <2>3 DEF Covers
<1>7. NewestOpen(open', s)
  BY <1>1 DEF NewestOpen
<1> QED BY <1>1, <1>5, <1>6, <1>7 DEF Sound

(* The backfill, of any ticks.                                                        *)
LEMMA BackfillMerges ==
  ASSUME TapeInv, Backfill
  PROVE  /\ closed' \in TapesOf(stamps)
         /\ Ascends(closed) => Ascends(closed') /\ Follows(closed', closed)
<1>1. PICK kept \in SUBSET (1..Len(stamps)) : closed' = Merged(closed, RolledUp(MinuteBars(kept)))
  BY DEF Backfill
<1>2. stamps \in Seq(Nat) /\ Len(stamps) <= MaxTicks /\ closed \in TapesOf(stamps)
  BY DEF TapeInv, TapeTyped, BarsMade
<1> DEFINE bars == MinuteBars(kept)
           R == RolledUp(bars)
<1>3. IsFiniteSet(bars) /\ \A b \in bars : MinuteBar(b, stamps)
  BY <1>2, MinuteBarsMade
<1> HIDE DEF bars
<1>4. IsFiniteSet(R) /\ R \in SUBSET MadeOf(stamps)
  BY <1>2, <1>3, RolledUpMade
<1>5. closed' = Merged(closed, R)
  BY <1>1 DEF bars
<1> HIDE DEF R
<1>6. /\ Merged(closed, R) \in TapesOf(stamps)
      /\ Ascends(closed) => Ascends(Merged(closed, R)) /\ Follows(Merged(closed, R), closed)
  BY <1>2, <1>4, MergedMade
<1> QED BY <1>5, <1>6

LEMMA BackfillSound ==
  ASSUME WholeInv, Backfill, SteadyIn(stamps')
  PROVE  Sound'
<1> PICK s : s = stamps
  OBVIOUS
<1>1. /\ s \in Seq(Nat) /\ since \in 1..(Len(s) + 1) /\ closed \in TapesOf(s)
      /\ stamps' = s /\ since' = since /\ open' = open
  BY DEF WholeInv, TapeInv, TapeTyped, BarsMade, Backfill
<1>2. Sound
  BY <1>1 DEF WholeInv, SteadyIn
<1>3. closed' \in TapesOf(s) /\ Ascends(closed) /\ Ascends(closed') /\ Follows(closed', closed)
  BY <1>2, BackfillMerges DEF WholeInv, Sound
<1>4. ASSUME NEW k \in since..Len(s)
      PROVE  Covers(open', closed', s, k)
  <2>1. k \in 1..Len(s) /\ Covers(open, closed, s, k)
    BY <1>1, <1>2 DEF Sound
  <2>2. InSeries(k, closed, s) => InSeries(k, closed', s)
    BY <1>1, <1>3, <2>1, CoverStays
  <2> QED BY <1>1, <2>1, <2>2 DEF Covers
<1>5. NewestOpen(open', s)
  BY <1>1, <1>2 DEF NewestOpen, Sound
<1> QED BY <1>1, <1>3, <1>4, <1>5 DEF Sound

(* The tape that is dropped, or starts again.                                         *)
LEMMA EmptyTape ==
  \A s \in Seq(Nat) : <<>> \in TapesOf(s)
<1> SUFFICES ASSUME NEW s \in Seq(Nat) PROVE <<>> \in TapesOf(s)
  OBVIOUS
<1>1. <<>> \in Seq(MadeOf(s)) /\ Len(<<>>) = 0 /\ MaxClosed \in Nat \ {0}
  BY TapeAssumption
<1> QED BY <1>1 DEF TapesOf

LEMMA DroppedWhole ==
  ASSUME TapeInv, LastLeaves \/ Reboot
  PROVE  TapeInv' /\ Sound'
<1>1. stamps \in Seq(Nat) /\ Len(stamps) \in Nat
  BY DEF TapeInv, TapeTyped
<1>2. stamps' = stamps /\ open' = NoBar /\ closed' = <<>> /\ since' = Len(stamps) + 1
  BY DEF LastLeaves, Reboot
<1>3. BarsMade'
  BY <1>1, <1>2, EmptyTape DEF BarsMade
<1>4. boots' \in 1..MaxBoots
  BY TapeAssumption DEF LastLeaves, Reboot, TapeInv, TapeTyped
<1>5. newest' \in [stamp : Nat, ahead : Int] /\ due' \in BOOLEAN
  <2>1. CASE LastLeaves
    BY <2>1 DEF LastLeaves, TapeInv, TapeTyped
  <2>2. CASE Reboot
    <3>1. Silent \in [stamp : Nat, ahead : Int]
      BY DEF Silent
    <3> QED BY <2>2, <3>1 DEF Reboot
  <2> QED BY <2>1, <2>2
<1>6. since' \in 1..(Len(stamps) + 1) /\ clock' = clock /\ held' = held
  BY <1>1, <1>2 DEF LastLeaves, Reboot
<1>7. TapeTyped'
  BY <1>1, <1>2, <1>4, <1>5, <1>6 DEF TapeInv, TapeTyped
<1>8. since'..Len(stamps') = {}
  BY <1>1, <1>2
<1>9. Ascends(closed') /\ NewestOpen(open', stamps')
  BY <1>2 DEF Ascends, NewestOpen
<1> QED BY <1>3, <1>7, <1>8, <1>9 DEF TapeInv, Sound

(* What touches no bar.                                                              *)
LEMMA AsideWhole ==
  ASSUME TapeInv, OtherTick \/ ClockTicks \/ UNCHANGED tapeVars
  PROVE  TapeInv' /\ (WholeInv => WholeInv')
<1>1. UNCHANGED <<stamps, held, open, closed, due, boots, since>>
  BY DEF OtherTick, ClockTicks, tapeVars
<1>2. clock \in 1..MaxClock /\ newest \in [stamp : Nat, ahead : Int] /\ {Ahead, MaxClock} \subseteq Nat
  BY TapeAssumption DEF TapeInv, TapeTyped
<1>3. clock' \in 1..MaxClock /\ newest' \in [stamp : Nat, ahead : Int]
  <2>1. CASE OtherTick
    <3> PICK t : t = clock + Ahead
      OBVIOUS
    <3>1. clock' = clock /\ Seen(t)
      BY <2>1 DEF OtherTick
    <3>2. newest' = newest \/ newest' = [stamp |-> t, ahead |-> t - clock]
      BY <3>1 DEF Seen
    <3>3. t \in Nat /\ t - clock \in Int
      BY <1>2
    <3> QED BY <1>2, <3>1, <3>2, <3>3
  <2>2. CASE ClockTicks
    BY <1>2, <2>2 DEF ClockTicks
  <2>3. CASE UNCHANGED tapeVars
    BY <1>2, <2>3 DEF tapeVars
  <2> QED BY <2>1, <2>2, <2>3
<1>4. TapeInv'
  BY <1>1, <1>3 DEF TapeInv, TapeTyped, BarsMade
<1>5. Sound => Sound'
  BY <1>1 DEF Sound
<1>6. SteadyIn(stamps)' => SteadyIn(stamps)
  BY <1>1
<1> QED BY <1>4, <1>5, <1>6 DEF WholeInv

LEMMA TapeStepMade ==
  ASSUME TapeInv, [TapeNext]_tapeVars
  PROVE  TapeInv'
<1>1. clock \in Nat /\ Ahead \in Nat /\ clock + Ahead \in Nat
  BY TapeAssumption DEF TapeInv, TapeTyped
<1>2. CASE BrokerTick
  <2> PICK t : t = clock + Ahead
    OBVIOUS
  <2>1. Arrives(t) /\ held' = Len(stamps')
    BY <1>2 DEF BrokerTick
  <2> QED BY <1>1, <2>1, ArrivesMade
<1>3. CASE HttpTick
  <2> PICK t : t = clock
    OBVIOUS
  <2>1. Arrives(t) /\ held' = held
    BY <1>3 DEF HttpTick
  <2> QED BY <1>1, <2>1, ArrivesMade
<1>4. CASE HeldTick
  BY <1>4, HeldMade
<1>5. CASE Sweep
  BY <1>5, SweepMade
<1>6. CASE LastLeaves \/ Reboot
  BY <1>6, DroppedWhole
<1>7. CASE Backfill
  <2>1. closed' \in TapesOf(stamps)
    BY <1>7, BackfillMerges
  <2> QED BY <1>7, <2>1 DEF TapeInv, TapeTyped, BarsMade, Backfill
<1>8. CASE OtherTick \/ ClockTicks \/ UNCHANGED tapeVars
  BY <1>8, AsideWhole
<1> QED BY <1>2, <1>3, <1>4, <1>5, <1>6, <1>7, <1>8 DEF TapeNext

LEMMA TapeStepWhole ==
  ASSUME WholeInv, [TapeNext]_tapeVars, [RepeatsNewest]_tapeVars
  PROVE  WholeInv'
<1>1. TapeInv /\ TapeInv'
  BY TapeStepMade DEF WholeInv
<1>2. CASE OtherTick \/ ClockTicks \/ UNCHANGED tapeVars
  BY <1>1, <1>2, AsideWhole
<1>3. CASE TapeNext /\ RepeatsNewest
  <2> SUFFICES ASSUME SteadyIn(stamps)' PROVE Sound'
    BY <1>1 DEF WholeInv
  <2>1. SteadyIn(stamps')
    BY DEF SteadyIn
  <2>2. clock \in Nat /\ Ahead \in Nat /\ clock + Ahead \in Nat
    BY TapeAssumption DEF WholeInv, TapeInv, TapeTyped
  <2>3. CASE BrokerTick
    <3> PICK t : t = clock + Ahead
      OBVIOUS
    <3>1. Arrives(t)
      BY <2>3 DEF BrokerTick
    <3> QED BY <2>1, <2>2, <3>1, ArrivesSound
  <2>4. CASE HttpTick
    <3> PICK t : t = clock
      OBVIOUS
    <3>1. Arrives(t)
      BY <2>4 DEF HttpTick
    <3> QED BY <2>1, <2>2, <3>1, ArrivesSound
  <2>5. CASE HeldTick
    BY <1>3, <2>1, <2>5, HeldSound
  <2>6. CASE Sweep
    BY <2>1, <2>6, SweepSound
  <2>7. CASE LastLeaves \/ Reboot
    BY <1>1, <2>7, DroppedWhole
  <2>8. CASE Backfill
    BY <2>1, <2>8, BackfillSound
  <2>9. CASE OtherTick \/ ClockTicks
    BY <1>1, <2>9, AsideWhole DEF WholeInv
  <2> QED BY <1>3, <2>3, <2>4, <2>5, <2>6, <2>7, <2>8, <2>9 DEF TapeNext
<1> QED BY <1>2, <1>3

(* The tape of core-backend stays typed and within its cap (closeBucket,                 *)
(* mergeSealedHistory), for any frame, offset, cap and order of ticks and restarts.      *)
THEOREM TapeTypes ==
  TapeSpec => []TapeTypeOK
<1>1. TapeInv /\ [TapeNext]_tapeVars => TapeInv'
  BY TapeStepMade
<1> QED BY <1>1, TapeStarts, TapeTypesOK, PTL DEF TapeSpec

LEMMA WholeStarts ==
  ASSUME TapeInit
  PROVE  WholeInv
<1>1. TapeInv
  BY TapeStarts
<1>2. open = NoBar /\ closed = <<>> /\ stamps = <<>> /\ since = 1
  BY DEF TapeInit
<1>3. since..Len(stamps) = {}
  BY <1>2
<1> QED BY <1>1, <1>2, <1>3 DEF WholeInv, Sound, Ascends, NewestOpen

(* As long as stamps do not go back, those of repeated ticks included, the tape is      *)
(* whole: one bar a window, in order, and no tick lost but at the cap, through          *)
(* restarts, sweeps by other clocks, removals and backfills of any rows.                *)
THEOREM TapeAlwaysWhole ==
  TapeSpec /\ [][RepeatsNewest]_tapeVars => []TapeIsWhole
<1>1. WholeInv /\ [TapeNext]_tapeVars /\ [RepeatsNewest]_tapeVars => WholeInv'
  BY TapeStepWhole
<1>2. WholeInv => TapeIsWhole
  BY WholeIsWhole
<1> QED BY <1>1, <1>2, WholeStarts, PTL DEF TapeSpec

(* The clock of the broker is ahead by more than the time that passes: what comes after  *)
(* its last tick is older, and of the local clock.                                    *)
BrokerAhead ==
    /\ TapeInv
    /\ held # 0 => Ahead < stamps[held]
    /\ \A n \in 1..Len(stamps) : held < n => stamps[n] <= MaxClock

LEMMA AheadStep ==
  ASSUME BrokerAhead, [TapeNext]_tapeVars
  PROVE  BrokerAhead'
<1>1. TapeInv'
  BY TapeStepMade DEF BrokerAhead
<1>2. /\ stamps \in Seq(Nat) /\ Len(stamps) \in Nat /\ held \in 0..Len(stamps)
      /\ clock \in Nat /\ 1 <= clock /\ clock <= MaxClock
      /\ MaxClock \in Nat /\ Ahead \in Nat
  BY TapeAssumption DEF BrokerAhead, TapeInv, TapeTyped
<1>3. ASSUME NEW t \in Nat, Arrives(t), \/ held' = Len(stamps') /\ Ahead < t
                                        \/ held' = held /\ t <= MaxClock
      PROVE  BrokerAhead'
  <2> PICK s : s = Append(stamps, t)
    OBVIOUS
  <2>1. stamps' = s
    BY <1>3 DEF Arrives
  <2>2. /\ Len(s) = Len(stamps) + 1 /\ s[Len(s)] = t /\ \A n \in 1..Len(stamps) : s[n] = stamps[n]
    BY <1>2, AppendProperties
  <2>3. CASE held' = Len(stamps') /\ Ahead < t
    <3>1. held' = Len(s) /\ Ahead < s[held']
      BY <2>1, <2>2, <2>3
    <3>2. ~(\E n \in 1..Len(s) : held' < n)
      BY <1>2, <2>2, <3>1
    <3> QED BY <1>1, <2>1, <3>1, <3>2 DEF BrokerAhead
  <2>4. CASE held' = held /\ t <= MaxClock
    <3>1. held # 0 => Ahead < s[held]
      BY <1>2, <2>2 DEF BrokerAhead
    <3>2. ASSUME NEW n \in 1..Len(s), held < n
          PROVE  s[n] <= MaxClock
      <4>1. CASE n = Len(s)
        BY <2>2, <2>4, <4>1
      <4>2. CASE n # Len(s)
        <5>1. n \in 1..Len(stamps)
          BY <1>2, <2>2, <4>2
        <5> QED BY <2>2, <3>2, <5>1 DEF BrokerAhead
      <4> QED BY <4>1, <4>2
    <3> QED BY <1>1, <2>1, <2>4, <3>1, <3>2 DEF BrokerAhead
  <2> QED BY <1>3, <2>3, <2>4
<1>4. CASE BrokerTick
  <2> PICK t : t = clock + Ahead
    OBVIOUS
  <2>1. Arrives(t) /\ held' = Len(stamps')
    BY <1>4 DEF BrokerTick
  <2>2. t \in Nat /\ Ahead < t
    BY <1>2
  <2> QED BY <1>3, <2>1, <2>2
<1>5. CASE HttpTick
  <2> PICK t : t = clock
    OBVIOUS
  <2>1. Arrives(t) /\ held' = held
    BY <1>5 DEF HttpTick
  <2> QED BY <1>2, <1>3, <2>1
<1>6. CASE UNCHANGED <<stamps, held>>
  BY <1>1, <1>6 DEF BrokerAhead
<1>7. BrokerTick \/ HttpTick \/ UNCHANGED <<stamps, held>>
  BY DEF TapeNext, HeldTick, OtherTick, Sweep, LastLeaves, Backfill, Reboot, ClockTicks, tapeVars
<1> QED BY <1>4, <1>5, <1>6, <1>7

LEMMA AheadRepeats ==
  ASSUME BrokerAhead, MaxClock <= Ahead
  PROVE  RepeatsNewest
<1> SUFFICES ASSUME HeldTick, Steady PROVE stamps[held] = stamps[Len(stamps)]
  BY DEF RepeatsNewest
<1>1. /\ stamps \in Seq(Nat) /\ Len(stamps) \in Nat /\ held \in 1..Len(stamps)
      /\ MaxClock \in Nat /\ Ahead \in Nat
  <2>1. stamps \in Seq(Nat) /\ held \in 0..Len(stamps) /\ held > 0
    BY DEF BrokerAhead, TapeInv, TapeTyped, HeldTick
  <2>2. MaxClock \in Nat /\ Ahead \in Nat
    BY TapeAssumption
  <2> QED BY <2>1, <2>2
<1>2. CASE held # Len(stamps)
  <2> PICK n : n = held + 1
    OBVIOUS
  <2>1. n \in 2..Len(stamps) /\ n \in 1..Len(stamps) /\ held < n /\ n - 1 = held
    BY <1>1, <1>2
  <2>2. stamps[held] <= stamps[n] /\ stamps[n] <= MaxClock /\ Ahead < stamps[held]
    BY <1>1, <2>1 DEF Steady, BrokerAhead
  <2>3. stamps[held] \in Nat /\ stamps[n] \in Nat
    BY <1>1, <2>1
  <2> QED BY <1>1, <2>2, <2>3
<1> QED BY <1>2

(* In particular, for as long as no more time has passed than the broker's clock is       *)
(* ahead, two hours: then a tick of the local clock after one of the broker's goes back. *)
THEOREM TapeWholeWithinOffset ==
  ASSUME MaxClock <= Ahead
  PROVE  TapeSpec => []TapeIsWhole
<1>1. BrokerAhead /\ [TapeNext]_tapeVars => BrokerAhead'
  BY AheadStep
<1>2. TapeInit => BrokerAhead
  <2> SUFFICES ASSUME TapeInit PROVE BrokerAhead
    OBVIOUS
  <2>1. TapeInv /\ held = 0 /\ Len(stamps) = 0
    BY TapeStarts DEF TapeInit
  <2> QED BY <2>1 DEF BrokerAhead
<1>3. BrokerAhead => [RepeatsNewest]_tapeVars
  BY AheadRepeats
<1> QED BY <1>1, <1>2, <1>3, TapeAlwaysWhole, PTL DEF TapeSpec

-----------------------------------------------------------------------------
(* The candles of the chart.                                                   *)

(* While stamps do not go back: the ring ends with the newest, the live bar is not   *)
(* older than any tick retained, and what was told was told for a tick of a later     *)
(* window, in order.                                                             *)
RingEndsNewest == ring # <<>> => \A t \in ToSet(ring) \cup ticks : t <= Last(ring)
LiveIsNewest == live # Nobar => \A t \in ticks : Window(t, width) <= live
ToldWasLeft(w) == \A i \in 1..Len(told[w]) : \E t \in ticks : told[w][i] < Window(t, w)
ToldInOrder(w) == \A i \in 1..Len(told[w]) : \A j \in 1..Len(told[w]) :
                      i < j => told[w][i] < told[w][j]

ToldTypes ==
    /\ wall \in 1..MaxNow /\ ring \in Seq(Stamps) /\ ticks \in SUBSET Stamps /\ width \in Widths
    /\ history \in SUBSET Stamps
    /\ live \in Stamps \cup {Nobar} /\ ordered \in BOOLEAN
    /\ told \in [Widths -> Seq(Stamps)]

Told(w) == ToldWasLeft(w) /\ ToldInOrder(w)
ToldInv ==
    /\ ToldTypes
    /\ ordered => RingEndsNewest /\ LiveIsNewest /\ \A w \in Widths : Told(w)

-----------------------------------------------------------------------------
LEMMA WindowIsStart ==
  ASSUME NEW t \in Nat, NEW w \in Nat \ {0}
  PROVE  Window(t, w) \in Nat /\ Window(t, w) <= t
<1>1. Window(t, w) = Floor(t, w)
  BY DEF Window, Floor
<1> QED BY <1>1, FloorBounds

LEMMA WindowsGrow ==
  ASSUME NEW t \in Nat, NEW u \in Nat, NEW w \in Nat \ {0}, t <= u
  PROVE  Window(t, w) <= Window(u, w)
<1>1. Window(t, w) = Floor(t, w) /\ Window(u, w) = Floor(u, w)
  BY DEF Window, Floor
<1> QED BY <1>1, FloorGrows

LEMMA StampsAreNat ==
  /\ Stamps \in SUBSET Nat /\ \A t \in Stamps : t # Nobar
  /\ \A t \in Stamps : \A u \in Nat : u <= t => u \in Stamps
BY ChartAssumption DEF Stamps, Nobar

LEMMA WindowIsStamp ==
  ASSUME NEW t \in Stamps, NEW w \in Widths
  PROVE  Window(t, w) \in Stamps
BY ChartAssumption, StampsAreNat, WindowIsStart

LEMMA WindowsHaveGreatest ==
  ASSUME NEW S \in SUBSET Stamps, S # {}, NEW w \in Widths
  PROVE  LET known == Windows(S, w) IN
         Max(known) \in Stamps /\ \A t \in S : Window(t, w) <= Max(known)
<1> DEFINE known == Windows(S, w)
           top == MaxNow + Tolerance + 1
<1>1. known \in SUBSET Stamps /\ known # {} /\ \A t \in S : Window(t, w) \in known
  BY WindowIsStamp DEF Windows
<1>2. Stamps = 0..top /\ top \in Nat
  BY ChartAssumption DEF Stamps
<1> HIDE DEF known, top
<1>3. known \in SUBSET Nat /\ \A t \in known : t <= top
  BY <1>1, <1>2
<1>4. Max(known) \in known /\ \A t \in known : t <= Max(known)
  BY <1>1, <1>2, <1>3, GreatestNumber
<1> QED BY <1>1, <1>4 DEF known

(* What is kept of a sequence of which only so much is kept.                        *)
LEMMA NewestKeeps ==
  ASSUME NEW S, NEW s \in Seq(S), NEW n \in Nat \ {0}
  PROVE  /\ Newest(s, n) \in Seq(S) /\ Len(Newest(s, n)) <= n
         /\ ToSet(Newest(s, n)) \in SUBSET ToSet(s)
         /\ s # <<>> => Newest(s, n) # <<>> /\ Last(Newest(s, n)) = Last(s)
<1> DEFINE m == (IF Len(s) > n THEN Len(s) - n ELSE 0) + 1
           z == SubSeq(s, m, Len(s))
<1>1. m \in 1..Len(s)+1 /\ Len(s) \in Nat /\ Len(s) + 1 - m <= n /\ (Len(s) > 0 => m <= Len(s))
  OBVIOUS
<1> HIDE DEF m
<1>2. /\ z \in Seq(S) /\ Len(z) = Len(s) + 1 - m
      /\ \A i \in 1..(Len(s) + 1 - m) : z[i] = s[m + i - 1]
  <2>1. \A i \in m..Len(s) : s[i] \in S
    BY <1>1
  <2>2. m \in Int /\ Len(s) \in Int /\ Len(s) - m + 1 = Len(s) + 1 - m
        /\ (IF m <= Len(s) THEN Len(s) - m + 1 ELSE 0) = Len(s) + 1 - m
    BY <1>1
  <2> QED BY <2>1, <2>2, SubSeqProperties
<1> HIDE DEF z
<1>3. \A i \in DOMAIN z : \E j \in DOMAIN s : z[i] = s[j]
  <2> TAKE i \in DOMAIN z
  <2>1. i \in 1..(Len(s) + 1 - m)
    BY <1>2
  <2>2. m + i - 1 \in 1..Len(s)
    BY <1>1, <2>1
  <2> QED BY <1>2, <2>1, <2>2
<1>4. ToSet(z) \in SUBSET ToSet(s)
  BY <1>3 DEF ToSet
<1>5. s # <<>> => z # <<>> /\ Last(z) = Last(s)
  <2> SUFFICES ASSUME s # <<>> PROVE z # <<>> /\ Last(z) = Last(s)
    OBVIOUS
  <2>1. Len(s) > 0
    OBVIOUS
  <2>2. Len(z) > 0 /\ Len(z) \in 1..(Len(s) + 1 - m) /\ m + Len(z) - 1 = Len(s)
    BY <1>1, <1>2, <2>1
  <2>3. z[Len(z)] = s[Len(s)]
    BY <1>2, <2>2
  <2>4. z # <<>>
    BY <1>2, <2>2
  <2> QED BY <2>3, <2>4 DEF Last
<1>6. Newest(s, n) = z
  BY DEF Newest, z, m
<1> QED BY <1>1, <1>2, <1>4, <1>5, <1>6

LEMMA RingIsStamps ==
  ASSUME NEW s \in Seq(Stamps)
  PROVE  ToSet(s) \in SUBSET Stamps /\ (s # <<>> => ToSet(s) # {})
<1>1. \A i \in DOMAIN s : s[i] \in Stamps
  OBVIOUS
<1>2. s # <<>> => 1 \in DOMAIN s
  OBVIOUS
<1> QED BY <1>1, <1>2 DEF ToSet

(* What was told stays told for a later tick, as long as the ticks are kept.          *)
LEMMA ToldStays ==
  ASSUME NEW w, Told(w), told'[w] = told[w], ticks \in SUBSET ticks'
  PROVE  Told(w)'
<1>1. \A i \in 1..Len(told'[w]) : \E t \in ticks' : told'[w][i] < Window(t, w)
  BY DEF Told, ToldWasLeft
<1>2. \A i \in 1..Len(told'[w]) : \A j \in 1..Len(told'[w]) : i < j => told'[w][i] < told'[w][j]
  BY DEF Told, ToldInOrder
<1> QED BY <1>1, <1>2 DEF Told, ToldWasLeft, ToldInOrder

LEMMA IngestTypes ==
  ASSUME ToldTypes, NEW stamp \in Stamps, Ingest(stamp)
  PROVE  /\ ticks' \in SUBSET Stamps /\ live' \in Stamps \cup {Nobar} /\ UNCHANGED history
         /\ told' \in [Widths -> Seq(Stamps)]
<1> DEFINE start == Window(stamp, width)
<1>1. start \in Stamps
  BY WindowIsStamp DEF ToldTypes
<1>2. ticks' = ticks \cup {stamp} /\ UNCHANGED history
  BY DEF Ingest
<1>3. live' \in {Nobar, start, live}
  BY DEF Ingest
<1>4. told' = told \/ (live # Nobar /\ told' = [told EXCEPT ![width] = Append(@, live)])
  BY DEF Ingest, CloseIsTold
<1>5. told' \in [Widths -> Seq(Stamps)]
  <2>1. live # Nobar => live \in Stamps
    BY DEF ToldTypes
  <2>2. width \in Widths /\ told \in [Widths -> Seq(Stamps)] /\ told[width] \in Seq(Stamps)
    BY DEF ToldTypes
  <2>3. live # Nobar => Append(told[width], live) \in Seq(Stamps)
    BY <2>1, <2>2
  <2> QED BY <1>4, <2>2, <2>3
<1> QED BY <1>1, <1>2, <1>3, <1>5 DEF ToldTypes

(* A tick that is not older than another.                                          *)
LEMMA IngestKeeps ==
  ASSUME ToldTypes, LiveIsNewest, \A w \in Widths : Told(w), UNCHANGED width,
         NEW stamp \in Stamps, Ingest(stamp), \A t \in ticks : t <= stamp
  PROVE  LiveIsNewest' /\ \A w \in Widths : Told(w)'
<1> DEFINE start == Window(stamp, width)
<1>1. /\ width \in Widths /\ width \in Nat \ {0} /\ ticks \in SUBSET Nat /\ stamp \in Nat
      /\ start \in Nat /\ live \in Nat \cup {-1} /\ ticks \in SUBSET Stamps
  BY ChartAssumption, StampsAreNat, WindowIsStamp DEF ToldTypes, Nobar
<1>2. \A t \in ticks : Window(t, width) \in Nat /\ Window(t, width) <= start
  BY <1>1, WindowIsStart, WindowsGrow
<1> HIDE DEF start
<1>3. /\ ticks' = ticks \cup {stamp}
      /\ \/ live' = Nobar
         \/ start > live /\ live' = start
         \/ ~(start > live) /\ live' = live
  BY DEF Ingest, start
<1>4. LiveIsNewest'
  <2> SUFFICES ASSUME live' # Nobar, NEW t \in ticks' PROVE Window(t, width) <= live'
    BY DEF LiveIsNewest
  <2>1. Window(t, width) \in Nat /\ Window(t, width) <= start
    BY <1>1, <1>2, <1>3 DEF start
  <2> QED BY <1>1, <1>3, <2>1
<1>5. ASSUME NEW w \in Widths PROVE Told(w)'
  <2>1. CASE live # Nobar /\ start > live /\ w = width
    <3> DEFINE s == told[w]
    <3>1. told' = [told EXCEPT ![width] = Append(@, live)]
      BY <2>1 DEF Ingest, CloseIsTold, start
    <3>2. s \in Seq(Stamps) /\ live \in Stamps /\ told'[w] = Append(s, live)
      BY <2>1, <3>1 DEF ToldTypes
    <3> HIDE DEF s
    <3>3. /\ Len(Append(s, live)) = Len(s) + 1 /\ Len(s) \in Nat
          /\ Append(s, live)[Len(s) + 1] = live
          /\ \A i \in 1..Len(s) : Append(s, live)[i] = s[i] /\ s[i] \in Stamps
      BY <3>2
    <3>4. \A i \in 1..Len(s) : s[i] < live
      <4> TAKE i \in 1..Len(s)
      <4>1. PICK t \in ticks : s[i] < Window(t, w)
        BY DEF Told, ToldWasLeft, s
      <4>2. Window(t, w) <= live /\ Window(t, w) \in Nat
        BY <1>2, <2>1 DEF LiveIsNewest
      <4>3. s[i] \in Nat /\ live \in Nat
        BY <3>2, <3>3, StampsAreNat
      <4> QED BY <4>1, <4>2, <4>3
    <3>5. \A i \in 1..Len(s) : \A j \in 1..Len(s) : i < j => s[i] < s[j]
      BY DEF Told, ToldInOrder, s
    <3>6. \A i \in 1..Len(s) + 1 : i = Len(s) + 1 \/ i \in 1..Len(s)
      BY <3>3
    <3>7. \A i \in 1..Len(s) + 1 : \A j \in 1..Len(s) + 1 :
            i < j => Append(s, live)[i] < Append(s, live)[j]
      <4> TAKE i \in 1..Len(s) + 1
      <4> TAKE j \in 1..Len(s) + 1
      <4> HAVE i < j
      <4>1. i \in 1..Len(s)
        BY <3>3
      <4>2. CASE j = Len(s) + 1
        BY <3>3, <3>4, <4>1, <4>2
      <4>3. CASE j \in 1..Len(s)
        BY <3>3, <3>5, <4>1, <4>3
      <4> QED BY <3>6, <4>2, <4>3
    <3>8. \A i \in 1..Len(s) + 1 : \E t \in ticks' : Append(s, live)[i] < Window(t, w)
      <4> TAKE i \in 1..Len(s) + 1
      <4>1. CASE i = Len(s) + 1
        <5>1. live < Window(stamp, w) /\ stamp \in ticks'
          <6>1. start = Window(stamp, w)
            BY <2>1 DEF start
          <6> QED BY <1>1, <1>3, <2>1, <6>1
        <5> QED BY <3>3, <4>1, <5>1
      <4>2. CASE i \in 1..Len(s)
        <5>1. \E t \in ticks : s[i] < Window(t, w)
          BY <4>2 DEF Told, ToldWasLeft, s
        <5> QED BY <1>3, <3>3, <4>2, <5>1
      <4> QED BY <3>6, <4>1, <4>2
    <3> QED BY <3>2, <3>3, <3>7, <3>8 DEF Told, ToldWasLeft, ToldInOrder
  <2>2. CASE ~(live # Nobar /\ start > live /\ w = width)
    <3>1. told'[w] = told[w]
      <4>1. CASE live # Nobar /\ start > live
        <5>1. told' = [told EXCEPT ![width] = Append(@, live)]
          BY <4>1 DEF Ingest, CloseIsTold, start
        <5> QED BY <2>2, <4>1, <5>1 DEF ToldTypes
      <4>2. CASE ~(live # Nobar /\ start > live)
        BY <4>2 DEF Ingest, start
      <4> QED BY <4>1, <4>2
    <3> QED BY <1>3, <3>1, ToldStays
  <2> QED BY <2>1, <2>2
<1> QED BY <1>4, <1>5

LEMMA QuoteKeeps ==
  ASSUME ToldInv, NEW stamp \in Stamps, Quote(stamp)
  PROVE  ToldInv'
<1>1. /\ ring' = Newest(Append(ring, stamp), RingSize)
      /\ ordered' = (ordered /\ \A t \in ToSet(ring) \cup ticks : t <= stamp)
      /\ Ingest(stamp) \/ UNCHANGED <<chartSeries, told>>
      /\ UNCHANGED <<wall, attached, width, rewrites>>
  BY DEF Quote
<1>2. ToldTypes
  BY DEF ToldInv
<1> DEFINE s == Append(ring, stamp)
<1>3. s \in Seq(Stamps) /\ s # <<>> /\ Last(s) = stamp /\ ToSet(s) = ToSet(ring) \cup {stamp}
  <2>1. ring \in Seq(Stamps) /\ Len(ring) \in Nat
    BY DEF ToldInv, ToldTypes
  <2>2. /\ s \in Seq(Stamps) /\ Len(s) = Len(ring) + 1 /\ s[Len(s)] = stamp
        /\ \A i \in 1..Len(ring) : s[i] = ring[i]
    BY <2>1
  <2> HIDE DEF s
  <2>3. DOMAIN s = 1..Len(ring) + 1 /\ DOMAIN ring = 1..Len(ring)
    BY <2>1, <2>2
  <2>4. \A i \in 1..Len(ring) + 1 : i = Len(ring) + 1 \/ i \in 1..Len(ring)
    BY <2>1
  <2>5. ToSet(s) = ToSet(ring) \cup {stamp}
    BY <2>1, <2>2, <2>3, <2>4 DEF ToSet
  <2>6. s # <<>>
    BY <2>1, <2>2
  <2> QED BY <2>2, <2>5, <2>6 DEF Last
<1> HIDE DEF s
<1>4. RingSize \in Nat \ {0}
  BY ChartAssumption
<1>5. /\ ring' \in Seq(Stamps) /\ ring' # <<>> /\ Last(ring') = stamp
      /\ ToSet(ring') \in SUBSET (ToSet(ring) \cup {stamp})
  BY <1>1, <1>3, <1>4, NewestKeeps DEF s
<1>6. /\ ticks' \in SUBSET Stamps /\ live' \in Stamps \cup {Nobar} /\ UNCHANGED history
      /\ told' \in [Widths -> Seq(Stamps)]
  <2>1. CASE Ingest(stamp)
    BY <1>2, <2>1, IngestTypes
  <2>2. CASE UNCHANGED <<chartSeries, told>>
    BY <1>2, <2>2 DEF ToldTypes, chartSeries
  <2> QED BY <1>1, <2>1, <2>2
<1>7. ordered' \in BOOLEAN
  BY <1>1
<1>8. ToldTypes'
  BY <1>1, <1>2, <1>5, <1>6, <1>7 DEF ToldTypes
<1>9. ASSUME ordered' PROVE RingEndsNewest' /\ LiveIsNewest' /\ \A w \in Widths : Told(w)'
  <2>1. ordered /\ \A t \in ToSet(ring) \cup ticks : t <= stamp
    BY <1>1, <1>9
  <2>2. RingEndsNewest /\ LiveIsNewest /\ \A w \in Widths : Told(w)
    BY <2>1 DEF ToldInv
  <2>3. ticks' \in SUBSET (ticks \cup {stamp})
    BY <1>1 DEF Ingest, chartSeries
  <2>4. stamp <= stamp
    BY StampsAreNat
  <2>5. RingEndsNewest'
    BY <1>5, <2>1, <2>3, <2>4 DEF RingEndsNewest
  <2>6. CASE Ingest(stamp)
    BY <1>1, <1>2, <2>1, <2>2, <2>5, <2>6, IngestKeeps
  <2>7. CASE UNCHANGED <<chartSeries, told>>
    <3>1. LiveIsNewest'
      BY <1>1, <2>2, <2>7 DEF LiveIsNewest, chartSeries
    <3>2. \A w \in Widths : Told(w)'
      BY <2>2, <2>7, ToldStays DEF chartSeries
    <3> QED BY <2>5, <3>1, <3>2
  <2> QED BY <1>1, <2>6, <2>7
<1> QED BY <1>8, <1>9 DEF ToldInv

LEMMA QuotesKeep ==
  ASSUME ToldInv, Quotes
  PROVE  ToldInv'
<1>1. PICK stamp \in {wall - 1, wall, wall + Tolerance + 1} : Quote(stamp)
  BY DEF Quotes
<1>2. stamp \in Stamps
  BY ChartAssumption DEF ToldInv, ToldTypes, Stamps
<1> QED BY <1>1, <1>2, QuoteKeeps

(* The ring ends with a tick that no tick retained is newer than.                     *)
LEMMA SubscribeKeeps ==
  ASSUME ToldInv, Subscribe
  PROVE  ToldInv'
<1>1. UNCHANGED <<wall, ring, ordered, width>> /\ ToldTypes
  BY DEF Subscribe, ToldInv
<1>2. CASE ring = <<>>
  <2>1. UNCHANGED <<ticks, history, live, told>>
    BY <1>2 DEF Subscribe, chartSeries
  <2>2. ToldTypes'
    BY <1>1, <2>1 DEF ToldTypes
  <2>3. \A w \in Widths : Told(w) => Told(w)'
    BY <2>1, ToldStays
  <2> QED BY <1>1, <2>1, <2>2, <2>3 DEF ToldInv, RingEndsNewest, LiveIsNewest
<1>3. CASE ring # <<>>
  <2> DEFINE S == ToSet(ring)
  <2>1. ticks' = ticks \cup S /\ live' = Max(Windows(S, width)) /\ UNCHANGED <<history, told>>
    BY <1>3 DEF Subscribe, SeedBatch
  <2>2. S \in SUBSET Stamps /\ S # {} /\ width \in Widths /\ Last(ring) \in S
    <3>1. ring \in Seq(Stamps) /\ width \in Widths
      BY <1>1 DEF ToldTypes
    <3>2. Len(ring) \in DOMAIN ring
      BY <1>3, <3>1
    <3> QED BY <1>3, <3>1, <3>2, RingIsStamps DEF Last, ToSet
  <2> HIDE DEF S
  <2>3. live' \in Stamps /\ \A t \in S : Window(t, width) <= live'
    BY <2>1, <2>2, WindowsHaveGreatest
  <2>4. ToldTypes'
    BY <1>1, <2>1, <2>2, <2>3 DEF ToldTypes
  <2>5. ASSUME ordered' PROVE RingEndsNewest' /\ LiveIsNewest' /\ \A w \in Widths : Told(w)'
    <3>1. RingEndsNewest /\ \A w \in Widths : Told(w)
      BY <1>1, <2>5 DEF ToldInv
    <3>2. \A t \in S \cup ticks : t <= Last(ring)
      BY <1>3, <3>1 DEF RingEndsNewest, S
    <3>3. RingEndsNewest'
      BY <1>1, <2>1, <3>2 DEF RingEndsNewest, S
    <3>4. ASSUME NEW t \in ticks' PROVE Window(t, width) <= live'
      <4>1. t \in Stamps /\ t <= Last(ring) /\ Last(ring) \in Stamps /\ width \in Nat \ {0}
        BY <1>1, <2>1, <2>2, <3>2, <3>4, ChartAssumption DEF ToldTypes
      <4>2. Window(t, width) <= Window(Last(ring), width) /\ Window(t, width) \in Nat
            /\ Window(Last(ring), width) \in Nat
        BY <4>1, StampsAreNat, WindowsGrow, WindowIsStart
      <4>3. Window(Last(ring), width) <= live' /\ live' \in Nat
        BY <2>2, <2>3, StampsAreNat
      <4> QED BY <4>2, <4>3
    <3>5. LiveIsNewest'
      BY <1>1, <3>4 DEF LiveIsNewest
    <3>6. \A w \in Widths : Told(w)'
      BY <2>1, <3>1, ToldStays
    <3> QED BY <3>3, <3>5, <3>6
  <2> QED BY <2>4, <2>5 DEF ToldInv
<1> QED BY <1>2, <1>3

LEMMA SeededIsTyped ==
  ASSUME ToldInv, NEW w \in Widths, Seeded(w)
  PROVE  history' \in SUBSET Stamps /\ live' = Nobar
<1>1. \A t \in 0..wall : t \in Stamps
  BY ChartAssumption DEF ToldInv, ToldTypes, Stamps
<1>2. Windows(0..wall, w) \in SUBSET Stamps
  BY <1>1, WindowIsStamp DEF Windows
<1> QED BY <1>2 DEF Seeded

LEMMA SeedHistoryKeeps ==
  ASSUME ToldInv, SeedHistory
  PROVE  ToldInv'
<1>1. UNCHANGED <<wall, ring, ordered, width, ticks, told>> /\ Seeded(width) /\ ToldTypes
  BY DEF SeedHistory, ToldInv
<1>2. history' \in SUBSET Stamps /\ live' = Nobar
  BY <1>1, SeededIsTyped DEF ToldTypes
<1>3. ToldTypes'
  BY <1>1, <1>2 DEF ToldTypes
<1>4. \A w \in Widths : Told(w) => Told(w)'
  BY <1>1, ToldStays
<1> QED BY <1>1, <1>2, <1>3, <1>4 DEF ToldInv, RingEndsNewest, LiveIsNewest

(* The bar that a change of the frame leaves live is of the newest tick or a later     *)
(* window of what was seeded.                                                     *)
LEMMA SetTimeframeKeeps ==
  ASSUME ToldInv, NEW w \in Widths, SetTimeframe(w)
  PROVE  ToldInv'
<1>1. /\ UNCHANGED <<wall, ring, ordered, ticks, told>> /\ width' = w /\ ToldTypes
      /\ Rebuilt(w) \/ Seeded(w)
  BY DEF SetTimeframe, ToldInv
<1> DEFINE known == Windows(history \cup ticks, w)
<1>2. history \cup ticks \in SUBSET Stamps
  BY <1>1 DEF ToldTypes
<1>3. /\ history' \in SUBSET Stamps /\ live' \in Stamps \cup {Nobar}
      /\ live' # Nobar => \A t \in ticks : Window(t, w) <= live'
  <2>1. CASE Seeded(w)
    BY <2>1, SeededIsTyped
  <2>2. CASE Rebuilt(w) /\ history \cup ticks # {}
    <3>1. known # {}
      BY <2>2 DEF Windows
    <3>2. live' = Max(known) /\ UNCHANGED history
      BY <2>2, <3>1 DEF Rebuilt
    <3>3. Max(known) \in Stamps /\ \A t \in history \cup ticks : Window(t, w) <= Max(known)
      BY <1>2, <2>2, WindowsHaveGreatest
    <3> HIDE DEF known
    <3> QED BY <1>1, <3>2, <3>3 DEF ToldTypes
  <2>3. CASE Rebuilt(w) /\ history \cup ticks = {}
    <3>1. known = {} /\ ticks = {} /\ UNCHANGED history
      BY <2>3 DEF Windows, Rebuilt
    <3>2. CASE live = Nobar
      <4>1. live' = Nobar
        BY <2>3, <3>1, <3>2 DEF Rebuilt
      <4> QED BY <1>1, <3>1, <4>1 DEF ToldTypes
    <3>3. CASE live # Nobar
      <4>1. live' = Max({Window(live, w)})
        BY <2>3, <3>1, <3>3 DEF Rebuilt
      <4>2. live \in Stamps
        BY <1>1, <3>3 DEF ToldTypes
      <4>3. {live} \in SUBSET Stamps /\ {live} # {} /\ Windows({live}, w) = {Window(live, w)}
        BY <4>2 DEF Windows
      <4>4. Max(Windows({live}, w)) \in Stamps
        BY <4>3, WindowsHaveGreatest
      <4> QED BY <1>1, <3>1, <4>1, <4>3, <4>4 DEF ToldTypes
    <3> QED BY <3>2, <3>3
  <2> QED BY <1>1, <2>1, <2>2, <2>3
<1>4. ToldTypes'
  BY <1>1, <1>3 DEF ToldTypes
<1>5. LiveIsNewest'
  BY <1>1, <1>3 DEF LiveIsNewest
<1>6. \A v \in Widths : Told(v) => Told(v)'
  BY <1>1, ToldStays
<1> QED BY <1>1, <1>4, <1>5, <1>6 DEF ToldInv, RingEndsNewest

LEMMA HardResetKeeps ==
  ASSUME ToldInv, HardReset
  PROVE  ToldInv'
<1>1. /\ UNCHANGED <<wall, ring, ordered, width>> /\ ToldTypes
      /\ ticks' = {} /\ history' = {} /\ live' = Nobar /\ told' = Untold
  BY DEF HardReset, ToldInv
<1>2. told' \in [Widths -> Seq(Stamps)] /\ \A w \in Widths : Len(told'[w]) = 0
  BY <1>1 DEF Untold
<1>3. ToldTypes'
  BY <1>1, <1>2 DEF ToldTypes
<1>4. \A w \in Widths : Told(w)'
  BY <1>2 DEF Told, ToldWasLeft, ToldInOrder
<1> QED BY <1>1, <1>3, <1>4 DEF ToldInv, RingEndsNewest, LiveIsNewest

(* What leaves the series alone, and the ring or empties it.                          *)
LEMMA AsideKeeps ==
  ASSUME ToldInv, Detach \/ BackendRestarts \/ NowPasses \/ UNCHANGED chartVars
  PROVE  ToldInv'
<1>1. /\ UNCHANGED <<ordered, width, ticks, history, live, told>> /\ ToldTypes
      /\ ring' = ring \/ ring' = <<>>
      /\ wall' \in 1..MaxNow
  BY ChartAssumption
     DEF Detach, BackendRestarts, NowPasses, chartVars, chartSeries, ToldInv, ToldTypes
<1>2. ToldTypes'
  <2>1. ring \in Seq(Stamps) /\ <<>> \in Seq(Stamps)
    BY <1>1 DEF ToldTypes
  <2>2. ring' \in Seq(Stamps)
    BY <1>1, <2>1
  <2> QED BY <1>1, <2>2 DEF ToldTypes
<1>3. \A v \in Widths : Told(v) => Told(v)'
  BY <1>1, ToldStays
<1> QED BY <1>1, <1>2, <1>3 DEF ToldInv, RingEndsNewest, LiveIsNewest

LEMMA ToldStep ==
  ASSUME ToldInv, [ChartNext]_chartVars
  PROVE  ToldInv'
BY QuotesKeep, SubscribeKeeps, SeedHistoryKeeps, HardResetKeeps, SetTimeframeKeeps, AsideKeeps DEF ChartNext

LEMMA LeastWidth ==
  Min(Widths) \in Widths
<1>1. PICK k \in Widths : \A l \in Widths : ~(<<l, k>> \in OpToRel(<, Nat))
  <2>1. IsWellFoundedOn(OpToRel(<, Nat), Nat)
    BY NatLessThanWellFounded
  <2>2. Widths \in SUBSET Nat /\ Widths # {}
    BY ChartAssumption
  <2> QED BY <2>1, <2>2, WFMin
<1>2. \A l \in Widths : k <= l
  <2> TAKE l \in Widths
  <2>1. l \in Nat /\ k \in Nat
    BY ChartAssumption
  <2>2. ~(l < k)
    BY <1>1, <2>1 DEF OpToRel
  <2> QED BY <2>1, <2>2
<1> QED BY <1>2 DEF Min

LEMMA ToldInit ==
  ASSUME ChartInit
  PROVE  ToldInv
<1>1. ToldTypes
  <2>1. <<>> \in Seq(Stamps) /\ 1 \in 1..MaxNow /\ {} \in SUBSET Stamps
    BY ChartAssumption
  <2>2. told \in [Widths -> Seq(Stamps)]
    BY <2>1 DEF ChartInit, Untold
  <2> QED BY <2>1, <2>2, LeastWidth DEF ChartInit, ToldTypes
<1>2. \A w \in Widths : Len(told[w]) = 0
  BY DEF ChartInit, Untold
<1>3. \A w \in Widths : Told(w)
  BY <1>2 DEF Told, ToldWasLeft, ToldInOrder
<1> QED BY <1>1, <1>3 DEF ToldInv, RingEndsNewest, LiveIsNewest, ChartInit

LEMMA ToldIsOnce ==
  ASSUME ToldInv
  PROVE  CloseToldOnce
<1> SUFFICES ASSUME ordered, NEW w \in Widths, NEW i \in 2..Len(told[w])
             PROVE  told[w][i - 1] < told[w][i]
  BY DEF CloseToldOnce
<1>1. ToldInOrder(w)
  BY DEF ToldInv, Told
<1>2. told[w] \in Seq(Stamps) /\ Len(told[w]) \in Nat
  BY DEF ToldInv, ToldTypes
<1>3. i - 1 \in 1..Len(told[w]) /\ i \in 1..Len(told[w]) /\ i - 1 < i
  BY <1>2
<1> QED BY <1>1, <1>3 DEF ToldInOrder

(* As long as stamps do not go back, the close of a window is told once in a frame and  *)
(* in order, whatever seeds, replays, changes and losses of the socket come between.   *)
THEOREM CloseAlwaysToldOnce ==
  ChartSpec => []CloseToldOnce
<1> QED BY ToldInit, ToldStep, ToldIsOnce, PTL DEF ChartSpec

-----------------------------------------------------------------------------
(* The types of the chart.                                                     *)

Below(b, S) == {e \in S : e < b}

(* A finite set of starts is put in order by the number of those below each.         *)
LEMMA AscendingIsSeq ==
  ASSUME NEW S \in SUBSET Nat, IsFiniteSet(S)
  PROVE  Ascending(S) \in Seq(S)
<1> DEFINE N == Cardinality(S)
           place == [b \in S |-> Cardinality(Below(b, S)) + 1]
<1>1. N \in Nat
  BY FS_CardinalityType
<1>2. ASSUME NEW b \in S
      PROVE  Cardinality(Below(b, S)) \in 0..(N - 1)
  <2>1. Below(b, S) \in SUBSET S /\ b \notin Below(b, S)
    BY DEF Below
  <2>2. IsFiniteSet(Below(b, S)) /\ Cardinality(Below(b, S)) <= N /\ N # Cardinality(Below(b, S))
    BY <2>1, FS_Subset
  <2>3. Cardinality(Below(b, S)) \in Nat
    BY <2>2, FS_CardinalityType
  <2> QED BY <1>1, <2>2, <2>3
<1>3. ASSUME NEW b \in S, NEW c \in S, b < c
      PROVE  Cardinality(Below(b, S)) < Cardinality(Below(c, S))
  <2>1. Below(b, S) \in SUBSET Below(c, S)
    <3> SUFFICES ASSUME NEW e \in S, e < b PROVE e < c
      BY DEF Below
    <3>1. e \in Nat /\ b \in Nat /\ c \in Nat
      OBVIOUS
    <3> QED BY <1>3, <3>1
  <2>2. b \in Below(c, S) /\ b \notin Below(b, S) /\ Below(c, S) \in SUBSET S
    BY <1>3 DEF Below
  <2>3. IsFiniteSet(Below(c, S))
    BY <2>2, FS_Subset
  <2>4. /\ Cardinality(Below(b, S)) <= Cardinality(Below(c, S))
        /\ Cardinality(Below(b, S)) # Cardinality(Below(c, S))
    BY <2>1, <2>2, <2>3, FS_Subset
  <2> QED BY <1>2, <2>4
<1>4. \A b, c \in S : place[b] = place[c] => b = c
  <2> SUFFICES ASSUME NEW b \in S, NEW c \in S, place[b] = place[c], b # c
               PROVE  FALSE
    OBVIOUS
  <2>1. Cardinality(Below(b, S)) = Cardinality(Below(c, S))
    BY <1>2
  <2>2. b < c \/ c < b
    OBVIOUS
  <2> QED BY <1>2, <1>3, <2>1, <2>2
<1>5. place \in Surjection(S, 1..N)
  <2>1. place \in [S -> 1..N]
    BY <1>1, <1>2
  <2>2. place \in Injection(S, 1..N)
    <3> HIDE DEF place, N
    <3> QED BY <1>4, <2>1 DEF Injection, IsInjective
  <2>3. IsFiniteSet(1..N) /\ Cardinality(1..N) = N
    BY <1>1, FS_Interval
  <2> HIDE DEF place
  <2> QED BY <2>2, <2>3, FS_Injection
<1>6. \A i \in 1..N : (CHOOSE b \in S : Cardinality(Below(b, S)) = i - 1) \in S
  <2> TAKE i \in 1..N
  <2>1. PICK b \in S : place[b] = i
    BY <1>5 DEF Surjection
  <2>2. Cardinality(Below(b, S)) = i - 1
    BY <1>2, <2>1
  <2> QED BY <2>2
<1>7. Ascending(S) = [i \in 1..N |-> CHOOSE b \in S : Cardinality(Below(b, S)) = i - 1]
  BY DEF Ascending, Below
<1>8. Ascending(S) \in [1..N -> S]
  BY <1>6, <1>7
<1> QED BY <1>1, <1>8

(* A series of stamps is one, within the cap.                                      *)
LEMMA SeriesIsStamps ==
  ASSUME NEW S \in SUBSET Stamps
  PROVE  Series(S) \in Seq(Stamps) /\ Len(Series(S)) <= MaxCandles
<1>1. IsFiniteSet(S) /\ S \in SUBSET Nat
  <2>1. IsFiniteSet(Stamps)
    BY ChartAssumption, FS_Interval DEF Stamps
  <2> QED BY <2>1, StampsAreNat, FS_Subset
<1>2. Ascending(S) \in Seq(S)
  BY <1>1, AscendingIsSeq
<1>3. Ascending(S) \in Seq(Stamps)
  BY <1>2
<1> QED BY <1>3, ChartAssumption, NewestKeeps DEF Series

(* What ToldTypes leaves out.                                                      *)
SealedTyped == sealed \in Seq(Stamps) /\ Len(sealed) <= MaxCandles
RestTyped ==
    /\ quotes \in 0..MaxQuotes /\ rewrites \in 0..MaxRewrites
    /\ Len(ring) <= RingSize /\ attached \in BOOLEAN
ChartInv == ToldInv /\ SealedTyped /\ RestTyped

LEMMA ChartInvTypes == ChartInv => ChartTypeOK
  BY DEF ChartInv, ToldInv, ToldTypes, SealedTyped, RestTyped, ChartTypeOK

LEMMA ChartStarts == ChartInit => ChartInv
<1> SUFFICES ASSUME ChartInit PROVE ChartInv
  OBVIOUS
<1>1. <<>> \in Seq(Stamps) /\ Len(<<>>) = 0
  OBVIOUS
<1>2. SealedTyped
  BY <1>1, ChartAssumption DEF ChartInit, SealedTyped
<1>3. RestTyped
  <2>1. 0 \in 0..MaxQuotes /\ 0 \in 0..MaxRewrites /\ 0 <= RingSize
    BY ChartAssumption
  <2>2. quotes = 0 /\ rewrites = 0 /\ ring = <<>> /\ attached = FALSE
    BY DEF ChartInit
  <2> QED BY <1>1, <2>1, <2>2 DEF RestTyped
<1> QED BY <1>2, <1>3, ToldInit DEF ChartInv

(* The series is left alone, a bar is appended to it, or it is a series of starts.     *)
LEMMA SealedStep ==
  ASSUME ChartInv, [ChartNext]_chartVars
  PROVE  SealedTyped'
<1>0. /\ ToldTypes /\ SealedTyped
      /\ ring \in Seq(Stamps) /\ ticks \in SUBSET Stamps /\ history \in SUBSET Stamps
      /\ sealed \in Seq(Stamps) /\ width \in Widths /\ live \in Stamps \cup {Nobar}
  BY DEF ChartInv, ToldInv, ToldTypes, SealedTyped
<1>1. ASSUME NEW S \in SUBSET Stamps, sealed' = Series(S) PROVE SealedTyped'
  BY <1>1, SeriesIsStamps DEF SealedTyped
<1>2. ASSUME UNCHANGED sealed PROVE SealedTyped'
  BY <1>0, <1>2 DEF SealedTyped
<1>3. ASSUME NEW S \in SUBSET Stamps, NEW w \in Widths PROVE Windows(S, w) \in SUBSET Stamps
  BY WindowIsStamp DEF Windows
<1>4. ToSet(ring) \in SUBSET Stamps /\ ToSet(sealed) \in SUBSET Stamps
  BY <1>0, RingIsStamps
<1>5. ASSUME NEW w \in Widths, Seeded(w) PROVE SealedTyped'
  <2>1. PICK starts \in SUBSET Windows(0..wall, w) : sealed' = Series(starts)
    BY <1>5 DEF Seeded
  <2>2. 0..wall \in SUBSET Stamps
    BY <1>0, ChartAssumption DEF ToldTypes, Stamps
  <2>3. starts \in SUBSET Stamps
    BY <1>3, <2>1, <2>2
  <2> QED BY <1>1, <2>1, <2>3
<1>6. ASSUME NEW w \in Widths, Rebuilt(w) PROVE SealedTyped'
  <2>1. history \cup ticks \in SUBSET Stamps
    BY <1>0
  <2>2. Windows(history \cup ticks, w) \in SUBSET Stamps
    BY <1>3, <2>1
  <2>3. live # Nobar => Window(live, w) \in Stamps
    BY <1>0, WindowIsStamp
  <2>4. PICK S \in SUBSET Stamps : sealed' = Series(S \ {live'})
    <3>1. CASE Windows(history \cup ticks, w) = {} /\ live # Nobar
      <4>1. {Window(live, w)} \in SUBSET Stamps /\ sealed' = Series({Window(live, w)} \ {live'})
        BY <1>6, <2>3, <3>1 DEF Rebuilt
      <4> QED BY <4>1
    <3>2. CASE ~(Windows(history \cup ticks, w) = {} /\ live # Nobar)
      <4>1. sealed' = Series(Windows(history \cup ticks, w) \ {live'})
        BY <1>6, <3>2 DEF Rebuilt
      <4> QED BY <2>2, <4>1
    <3> QED BY <3>1, <3>2
  <2>5. S \ {live'} \in SUBSET Stamps
    OBVIOUS
  <2> QED BY <1>1, <2>4, <2>5
<1>7. CASE Quotes
  <2>1. PICK stamp \in {wall - 1, wall, wall + Tolerance + 1} : Quote(stamp)
    BY <1>7 DEF Quotes
  <2>2. \/ UNCHANGED sealed
        \/ live # Nobar /\ sealed' = Newest(Append(sealed, live), MaxCandles)
    BY <2>1 DEF Quote, Ingest, chartSeries
  <2>3. ASSUME live # Nobar, sealed' = Newest(Append(sealed, live), MaxCandles) PROVE SealedTyped'
    <3>1. Append(sealed, live) \in Seq(Stamps)
      BY <1>0, <2>3
    <3> QED BY <2>3, <3>1, ChartAssumption, NewestKeeps DEF SealedTyped
  <2> QED BY <1>2, <2>2, <2>3
<1>8. CASE Subscribe
  <2>1. CASE ring # <<>>
    <3> DEFINE S == ToSet(sealed) \cup (Windows(ToSet(ring), width) \ {live'})
    <3>1. sealed' = Series(S)
      BY <1>8, <2>1 DEF Subscribe, SeedBatch
    <3>2. S \in SUBSET Stamps
      BY <1>0, <1>3, <1>4
    <3> HIDE DEF S
    <3> QED BY <1>1, <3>1, <3>2
  <2> QED BY <1>2, <1>8, <2>1 DEF Subscribe, chartSeries
<1>9. CASE SeedHistory
  BY <1>0, <1>5, <1>9 DEF SeedHistory
<1>10. CASE \E w \in Widths : SetTimeframe(w)
  BY <1>5, <1>6, <1>10 DEF SetTimeframe
<1>11. CASE HardReset
  <2>1. <<>> \in Seq(Stamps) /\ Len(<<>>) <= MaxCandles
    BY ChartAssumption
  <2> QED BY <1>11, <2>1 DEF HardReset, SealedTyped
<1>12. CASE Detach \/ BackendRestarts \/ NowPasses \/ UNCHANGED chartVars
  BY <1>2, <1>12 DEF Detach, BackendRestarts, NowPasses, chartVars, chartSeries
<1> QED BY <1>7, <1>8, <1>9, <1>10, <1>11, <1>12 DEF ChartNext

LEMMA RestStep ==
  ASSUME ChartInv, [ChartNext]_chartVars
  PROVE  RestTyped'
<1>0. RestTyped /\ ring \in Seq(Stamps) /\ wall \in 1..MaxNow
  BY DEF ChartInv, ToldInv, ToldTypes
<1>1. CASE Quotes
  <2>1. PICK stamp \in {wall - 1, wall, wall + Tolerance + 1} : Quote(stamp)
    BY <1>1 DEF Quotes
  <2>2. stamp \in Stamps
    BY <1>0, ChartAssumption DEF Stamps
  <2>3. Append(ring, stamp) \in Seq(Stamps)
    BY <1>0, <2>2
  <2>4. Len(ring') <= RingSize
    BY <2>1, <2>3, ChartAssumption, NewestKeeps DEF Quote
  <2> QED BY <1>0, <2>1, <2>4, ChartAssumption DEF Quote, RestTyped
<1>2. CASE SeedHistory \/ HardReset \/ \E w \in Widths : SetTimeframe(w)
  <2>1. Rewrites /\ UNCHANGED <<ring, quotes, attached>>
    BY <1>2 DEF SeedHistory, HardReset, SetTimeframe
  <2> QED BY <1>0, <2>1, ChartAssumption DEF Rewrites, RestTyped
<1>3. CASE Subscribe \/ Detach \/ BackendRestarts \/ NowPasses \/ UNCHANGED chartVars
  <2>1. ring' = ring \/ ring' = <<>>
    BY <1>3 DEF Subscribe, Detach, BackendRestarts, NowPasses, chartVars
  <2>2. Len(ring') <= RingSize
    BY <1>0, <2>1, ChartAssumption DEF RestTyped
  <2>3. UNCHANGED <<quotes, rewrites>> /\ attached' \in {TRUE, FALSE, attached}
    BY <1>3 DEF Subscribe, Detach, BackendRestarts, NowPasses, chartVars
  <2> QED BY <1>0, <2>2, <2>3 DEF RestTyped
<1> QED BY <1>1, <1>2, <1>3 DEF ChartNext

LEMMA ChartKeeps == ChartInv /\ [ChartNext]_chartVars => ChartInv'
  BY ToldStep, SealedStep, RestStep DEF ChartInv

(* The chart keeps its types and its cap, for any frames, caps, ticks and rewrites.    *)
THEOREM ChartTypes == ChartSpec => []ChartTypeOK
<1> QED BY ChartStarts, ChartKeeps, ChartInvTypes, PTL DEF ChartSpec
=============================================================================

--------------------------- MODULE SymbolFeedProofs ---------------------------
(***************************************************************************)
(* Proofs about SymbolFeed: the bars and the outcomes are those of the     *)
(* accepted ticks, for every timeframe, queue, expiry and history.         *)
(***************************************************************************)
EXTENDS SymbolFeed, FiniteSetTheorems, TLAPS

-----------------------------------------------------------------------------
(* Buckets                                                                 *)

LEMMA BucketBounds ==
  ASSUME NEW e \in Nat
  PROVE  Bucket(e) \in Nat /\ Bucket(e) * Bar <= e /\ e < Bucket(e) * Bar + Bar
<1>1. Bar \in Nat \ {0}
  BY FeedAssumption
<1> QED
  BY <1>1 DEF Bucket

LEMMA NoRoom ==
  ASSUME NEW a \in Int, NEW b \in Int, NEW t \in Nat \ {0}, a + 1 <= b
  PROVE  a * t + t <= b * t
<1> DEFINE k == b - (a + 1)
<1>1. k \in Nat /\ b = a + 1 + k
  OBVIOUS
<1> HIDE DEF k
<1>2. (a + 1 + k) * t = a * t + t + k * t
  BY <1>1
<1>3. k * t \in Nat /\ a * t \in Int
  BY <1>1
<1> QED
  BY <1>1, <1>2, <1>3

LEMMA BucketIs ==
  ASSUME NEW e \in Nat, NEW b \in Nat, b * Bar <= e, e < b * Bar + Bar
  PROVE  Bucket(e) = b
<1>1. Bar \in Nat \ {0}
  BY FeedAssumption
<1>2. Bucket(e) \in Nat /\ Bucket(e) * Bar <= e /\ e < Bucket(e) * Bar + Bar
  BY BucketBounds
<1>3. b * Bar \in Int /\ Bucket(e) * Bar \in Int
  BY <1>1, <1>2
<1>4. ASSUME b + 1 <= Bucket(e) PROVE FALSE
  BY <1>1, <1>2, <1>3, <1>4, NoRoom
<1>5. ASSUME Bucket(e) + 1 <= b PROVE FALSE
  BY <1>1, <1>2, <1>3, <1>5, NoRoom
<1> QED
  BY <1>2, <1>4, <1>5

LEMMA BucketsGrow ==
  ASSUME NEW e \in Nat, NEW e2 \in Nat, e <= e2
  PROVE  Bucket(e) <= Bucket(e2)
<1>1. Bar \in Nat \ {0}
  BY FeedAssumption
<1>2. /\ Bucket(e) \in Nat /\ Bucket(e) * Bar <= e /\ Bucket(e) * Bar \in Int
      /\ Bucket(e2) \in Nat /\ e2 < Bucket(e2) * Bar + Bar /\ Bucket(e2) * Bar \in Int
  BY <1>1, BucketBounds
<1>3. ASSUME Bucket(e2) + 1 <= Bucket(e) PROVE FALSE
  BY <1>1, <1>2, <1>3, NoRoom
<1> QED
  BY <1>2, <1>3

-----------------------------------------------------------------------------
(* Finite sets of numbers                                                  *)

(* How many elements of S come up to x.                                    *)
Rank(S, x) == Cardinality({y \in S : y <= x})

LEMMA NotEmpty ==
  ASSUME NEW S, IsFiniteSet(S), NEW x \in S
  PROVE  Cardinality(S) # 0
<1>1. Cardinality(S) = 0 <=> S = {}
  BY FS_EmptySet
<1> QED
  BY <1>1

LEMMA RankGrows ==
  ASSUME NEW S \in SUBSET Nat, IsFiniteSet(S)
  PROVE  /\ \A x \in S : Rank(S, x) \in 1..Cardinality(S)
         /\ \A x, y \in S : x < y => Rank(S, x) < Rank(S, y)
<1> DEFINE upto(x) == {y \in S : y <= x}
<1>1. \A x \in S : IsFiniteSet(upto(x)) /\ Cardinality(upto(x)) <= Cardinality(S)
  BY FS_Subset
<1>2. \A x \in S : Cardinality(upto(x)) \in Nat /\ Cardinality(S) \in Nat
  BY <1>1, FS_CardinalityType
<1>3. \A x \in S : x \in upto(x)
  OBVIOUS
<1>4. ASSUME NEW x \in S PROVE Cardinality(upto(x)) # 0
  <2>1. IsFiniteSet(upto(x)) /\ x \in upto(x)
    BY <1>1, <1>3
  <2> HIDE DEF upto
  <2> QED
    BY <2>1, NotEmpty
<1>5. ASSUME NEW x \in S, NEW y \in S, x < y
      PROVE  Cardinality(upto(x)) < Cardinality(upto(y))
  <2>1. upto(x) \in SUBSET upto(y) /\ y \in upto(y) /\ y \notin upto(x)
    <3>1. x \in Nat /\ y \in Nat /\ \A z \in S : z \in Nat
      OBVIOUS
    <3>2. \A z \in S : z <= x => z <= y
      BY <1>5, <3>1
    <3>3. y <= y /\ ~ (y <= x)
      BY <1>5, <3>1
    <3> QED
      BY <3>2, <3>3
  <2> HIDE DEF upto
  <2>2. /\ Cardinality(upto(x)) <= Cardinality(upto(y))
        /\ Cardinality(upto(y)) # Cardinality(upto(x))
    BY <1>1, <2>1, FS_Subset
  <2> QED
    BY <1>2, <2>2
<1> QED
  BY <1>1, <1>2, <1>4, <1>5 DEF Rank

LEMMA RankIsReached ==
  ASSUME NEW S \in SUBSET Nat, IsFiniteSet(S), NEW i \in 1..Cardinality(S)
  PROVE  \E x \in S : Rank(S, x) = i
<1> DEFINE n == Cardinality(S)
           r == [x \in S |-> Rank(S, x)]
<1>1. n \in Nat
  BY FS_CardinalityType
<1>2. r \in [S -> 1..n] /\ \A x, y \in S : x < y => r[x] < r[y]
  BY RankGrows
<1>3. \A x \in S : r[x] = Rank(S, x)
  OBVIOUS
<1> HIDE DEF r
<1>4. \A x, y \in S : r[x] = r[y] => x = y
  <2>1. \A x, y \in S : x \in Nat /\ y \in Nat /\ r[x] \in Nat /\ r[y] \in Nat
    BY <1>1, <1>2
  <2> QED
    BY <1>2, <2>1
<1>5. r \in Injection(S, 1..n)
  BY <1>2, <1>4 DEF Injection, IsInjective
<1>6. IsFiniteSet(1..n) /\ Cardinality(1..n) = n
  BY <1>1, FS_Interval
<1>7. r \in Surjection(S, 1..n)
  BY <1>5, <1>6, FS_Injection
<1> QED
  BY <1>3, <1>7 DEF Surjection

LEMMA ImageIsSmaller ==
  ASSUME NEW S, IsFiniteSet(S), NEW f, DOMAIN f = S
  PROVE  LET T == {f[x] : x \in S}
         IN  IsFiniteSet(T) /\ Cardinality(T) <= Cardinality(S)
<1> DEFINE T == {f[x] : x \in S}
           g == [x \in S |-> f[x]]
<1>1. g \in [S -> T] /\ \A y \in T : \E x \in S : g[x] = y
  OBVIOUS
<1> HIDE DEF T, g
<1>2. g \in Surjection(S, T)
  BY <1>1, Zenon DEF Surjection
<1> QED
  BY <1>2, FS_Surjection DEF T

-----------------------------------------------------------------------------
(* Types                                                                   *)

(* A seeded bar fills its bucket, and the bars of a seed are numbered.     *)
LEMMA SeedType ==
  ASSUME NEW now \in Nat
  PROVE  LET n == Cardinality(Seed(now))
             bars == [i \in 1..n |-> SeedBar(CHOOSE b \in Seed(now) :
                                     Cardinality({a \in Seed(now) : a <= b}) = i)]
         IN  /\ n \in Nat /\ bars \in Seq(BarType) /\ Len(bars) = n /\ DOMAIN bars = 1..n
             /\ \A i \in 1..n : Bucket(bars[i].open) = Bucket(bars[i].close)
<1> DEFINE S == Seed(now)
           n == Cardinality(S)
           row(i) == CHOOSE b \in S : Cardinality({a \in S : a <= b}) = i
           bars == [i \in 1..n |-> SeedBar(row(i))]
<1>0. Bar \in Nat \ {0} /\ MaxEpoch \in Nat
  BY FeedAssumption
<1>1. S \in SUBSET (0..MaxEpoch)
  BY DEF Seed, ClosedAt
<1>2. IsFiniteSet(0..MaxEpoch)
  BY <1>0, FS_Interval
<1>3. IsFiniteSet(S) /\ n \in Nat /\ S \in SUBSET Nat
  BY <1>0, <1>1, <1>2, FS_Subset, FS_CardinalityType
<1>4. ASSUME NEW i \in 1..n PROVE row(i) \in Nat
  <2> HIDE DEF S
  <2>1. \E b \in S : Cardinality({a \in S : a <= b}) = i
    BY <1>3, RankIsReached DEF Rank
  <2> QED
    BY <1>3, <2>1
<1>5. ASSUME NEW b \in Nat
      PROVE  SeedBar(b) \in BarType /\ Bucket(SeedBar(b).open) = Bucket(SeedBar(b).close)
  <2>1. b * Bar \in Nat /\ b * Bar + Bar - 1 \in Nat
    BY <1>0
  <2>2. Bucket(b * Bar) = b /\ Bucket(b * Bar + Bar - 1) = b
    BY <1>0, <2>1, BucketIs
  <2> QED
    BY <2>1, <2>2 DEF SeedBar, BarType
<1> HIDE DEF row
<1>6. \A i \in 1..n : /\ bars[i] \in BarType
                      /\ Bucket(bars[i].open) = Bucket(bars[i].close)
  BY <1>4, <1>5
<1>7. bars \in Seq(BarType) /\ Len(bars) = n
  BY <1>3, <1>6
<1> QED
  BY <1>3, <1>6, <1>7 DEF row

(* What the actions lean on beside their types: the bar under construction *)
(* lies in one bucket, a setup that has been entered knows the tick before *)
(* the next, and a process that has not started yet has built nothing.     *)
TypeInv ==
  /\ TypeOK
  /\ busy => closed # <<>>
  /\ mode = "down" => ~ busy /\ fresh = 0
  /\ mode # "up" => builder.current = NoBar
  /\ builder.current # NoBar =>
       Bucket(builder.current.open) = Bucket(builder.current.close)
  /\ \A p \in pending : p.entry # None => p.last # None

LEMMA PushedType ==
  ASSUME NEW q \in Seq(Epoch), Len(q) <= QueueSize, NEW e \in Epoch
  PROVE  Pushed(q, e) \in Seq(Epoch) /\ Len(Pushed(q, e)) <= QueueSize
<1>1. QueueSize \in Nat \ {0}
  BY FeedAssumption
<1>2. CASE Len(q) < QueueSize
  <2>1. Append(q, e) \in Seq(Epoch) /\ Len(Append(q, e)) = Len(q) + 1
    OBVIOUS
  <2> QED
    BY <1>1, <1>2, <2>1 DEF Pushed
<1>3. CASE ~ (Len(q) < QueueSize)
  <2>1. q # <<>> /\ Len(q) = QueueSize
    BY <1>1, <1>3
  <2>2. Tail(q) \in Seq(Epoch) /\ Len(Tail(q)) = Len(q) - 1
    BY <2>1
  <2>3. Append(Tail(q), e) \in Seq(Epoch) /\ Len(Append(Tail(q), e)) = Len(q) - 1 + 1
    BY <2>2
  <2> QED
    BY <1>1, <1>3, <2>1, <2>3 DEF Pushed
<1> QED
  BY <1>2, <1>3

LEMMA DueType ==
  ASSUME NEW p, NEW e
  PROVE  Due(p, e) \in SUBSET Horizons
BY DEF Due, Horizons

LEMMA AdvancedType ==
  ASSUME NEW p \in Setup, NEW e \in Epoch
  PROVE  Advanced(p, e) \in Setup /\ Advanced(p, e).last = e
<1>1. Due(p, e) \in SUBSET Horizons
  BY DueType
<1> DEFINE due == Due(p, e)
<1>2. CASE p.entry = None
  BY <1>2 DEF Advanced, Setup
<1>3. CASE p.entry # None
  <2>1. Advanced(p, e) = [p EXCEPT !.count = @ + 1, !.last = e, !.done = @ \cup due]
    BY <1>3 DEF Advanced
  <2>2. p.done \cup due \in SUBSET Horizons
    BY <1>1 DEF Setup
  <2> HIDE DEF due
  <2>3. p.count + 1 \in Nat
    BY DEF Setup
  <2> QED
    BY <2>1, <2>2, <2>3 DEF Setup
<1> QED
  BY <1>2, <1>3

LEMMA EmittedType ==
  ASSUME NEW p \in Setup, NEW e \in Epoch, p.entry # None, p.last # None
  PROVE  Emitted(p, e) \in SUBSET Outcome
<1>1. Due(p, e) \in SUBSET Horizons
  BY DueType
<1> QED
  BY <1>1 DEF Emitted, Setup, Outcome, TimeExit

(* The tracker keeps its types, and at most as many setups as it had.      *)
LEMMA OnTickType ==
  ASSUME TypeInv, NEW e \in Epoch, OnTick(e)
  PROVE  /\ pending' \in SUBSET Setup /\ IsFiniteSet(pending')
         /\ Cardinality(pending') <= MaxSetups
         /\ outcomes' \in SUBSET Outcome
         /\ \A p \in pending' : p.last # None
<1> DEFINE f == [q \in pending |-> Advanced(q, e)]
           T == {f[q] : q \in pending}
<1>1. pending \in SUBSET Setup /\ IsFiniteSet(pending) /\ Cardinality(pending) <= MaxSetups
  BY DEF TypeInv, TypeOK
<1>2. IsFiniteSet(T) /\ Cardinality(T) <= Cardinality(pending)
  <2>1. DOMAIN f = pending
    OBVIOUS
  <2> HIDE DEF f
  <2> QED
    BY <1>1, <2>1, ImageIsSmaller
<1>3. pending' \in SUBSET T
  BY DEF OnTick
<1>4. MaxSetups \in Nat /\ Cardinality(pending) \in Nat /\ Cardinality(T) \in Nat
  BY <1>1, <1>2, FS_CardinalityType, FeedAssumption
<1>5. IsFiniteSet(pending') /\ Cardinality(pending') <= Cardinality(T)
  <2> HIDE DEF T
  <2> QED
    BY <1>2, <1>3, FS_Subset
<1>6. Cardinality(pending') \in Nat
  BY <1>5, FS_CardinalityType
<1>7. \A q \in pending : f[q] \in Setup /\ f[q].last # None
  <2>1. e # None
    BY FeedAssumption DEF Epoch, None
  <2> QED
    BY <1>1, <2>1, AdvancedType
<1>8. outcomes' \in SUBSET Outcome
  <2>1. \A p \in {q \in pending : q.entry # None} : Emitted(p, e) \in SUBSET Outcome
    BY <1>1, EmittedType DEF TypeInv
  <2>2. outcomes \in SUBSET Outcome
    BY DEF TypeInv, TypeOK
  <2> QED
    BY <2>1, <2>2 DEF OnTick
<1> HIDE DEF f
<1> QED
  BY <1>1, <1>2, <1>3, <1>4, <1>5, <1>6, <1>7, <1>8

(* What holds of a process that knows nothing.                             *)
LEMMA NothingHasItsType ==
  /\ {} \in SUBSET Setup /\ IsFiniteSet({}) /\ Cardinality({}) <= MaxSetups
  /\ {} \in SUBSET Outcome
  /\ <<>> \in Seq(Epoch) /\ Len(<<>>) <= QueueSize
  /\ <<>> \in Seq(BarType) /\ 0 \in 0..Len(<<>>) /\ DOMAIN <<>> = {}
  /\ [last |-> None, current |-> NoBar] \in
       [last: Nat \cup {None}, current: BarType \cup {NoBar}]
<1>1. IsFiniteSet({}) /\ Cardinality({}) = 0 /\ MaxSetups \in Nat /\ QueueSize \in Nat
  BY FS_EmptySet, FeedAssumption
<1>2. {} \in SUBSET Setup /\ {} \in SUBSET Outcome
  OBVIOUS
<1>3. /\ <<>> \in Seq(Epoch) /\ <<>> \in Seq(BarType) /\ Len(<<>>) = 0
      /\ DOMAIN <<>> = {}
  OBVIOUS
<1> QED
  BY <1>1, <1>2, <1>3

LEMMA ForgottenType ==
  ASSUME TypeInv, Forgotten
  PROVE  TypeInv'
<1>1. /\ pending' = {} /\ outcomes' = {} /\ queue' = <<>> /\ accepted' = <<>>
      /\ closed' = <<>> /\ fresh' = 0 /\ builder' = [last |-> None, current |-> NoBar]
      /\ mode' = "down" /\ busy' = FALSE /\ last_epoch' = None
      /\ UNCHANGED <<clock, stored>>
  BY DEF Forgotten
<1>2. TypeOK'
  <2>1. clock \in Epoch /\ stored \in SUBSET BarType
    BY DEF TypeInv, TypeOK
  <2>2. \A i \in DOMAIN closed' : Bucket(closed'[i].open) = Bucket(closed'[i].close)
    BY <1>1, NothingHasItsType
  <2> QED
    BY <1>1, <2>1, <2>2, NothingHasItsType DEF TypeOK
<1> QED
  BY <1>1, <1>2 DEF TypeInv

LEMMA TypeInitially ==
  ASSUME Init
  PROVE  TypeInv
<1>1. /\ pending = {} /\ outcomes = {} /\ queue = <<>> /\ accepted = <<>>
      /\ closed = <<>> /\ fresh = 0 /\ builder = [last |-> None, current |-> NoBar]
      /\ mode = "down" /\ busy = FALSE /\ last_epoch = None
      /\ clock = 0 /\ stored = {}
  BY DEF Init
<1>2. TypeOK
  <2>1. 0 \in Epoch /\ {} \in SUBSET BarType
    BY FeedAssumption DEF Epoch
  <2>2. \A i \in DOMAIN closed : Bucket(closed[i].open) = Bucket(closed[i].close)
    BY <1>1, NothingHasItsType
  <2> QED
    BY <1>1, <2>1, <2>2, NothingHasItsType DEF TypeOK
<1> QED
  BY <1>1, <1>2 DEF TypeInv

LEMMA TickKeepsTypes ==
  ASSUME TypeInv, NEW e \in Epoch, TickExtendsBar(e) \/ TickClosesBar(e)
  PROVE  TypeInv'
<1>0. /\ mode = "up" /\ mode' = mode /\ clock' = clock /\ queue # <<>> /\ queue' = Tail(queue)
      /\ last_epoch' = e /\ accepted' = Append(accepted, e) /\ OnTick(e)
      /\ builder'.last = e
  BY DEF TickExtendsBar, TickClosesBar, Accept, Take
<1>1. /\ pending' \in SUBSET Setup /\ IsFiniteSet(pending')
      /\ Cardinality(pending') <= MaxSetups
      /\ outcomes' \in SUBSET Outcome
      /\ \A p \in pending' : p.last # None
  BY <1>0, OnTickType
<1>2. queue' \in Seq(Epoch) /\ Len(queue') <= QueueSize
  <2>1. queue \in Seq(Epoch) /\ Len(queue) <= QueueSize /\ QueueSize \in Nat
    BY FeedAssumption DEF TypeInv, TypeOK
  <2>2. Tail(queue) \in Seq(Epoch) /\ Len(Tail(queue)) = Len(queue) - 1 /\ Len(queue) \in Nat
    BY <1>0, <2>1
  <2> QED
    BY <1>0, <2>1, <2>2
<1>3. accepted' \in Seq(Epoch)
  BY <1>0 DEF TypeInv, TypeOK
<1>4. e \in Nat /\ MaxEpoch \in Nat
  BY FeedAssumption DEF Epoch
<1>5. CASE TickExtendsBar(e)
  <2>1. /\ builder' \in [last: Nat \cup {None}, current: BarType \cup {NoBar}]
        /\ Bucket(builder'.current.open) = Bucket(builder'.current.close)
    BY <1>4, <1>5 DEF TypeInv, TypeOK, TickExtendsBar, BarType, SameBar
  <2>2. busy' = busy /\ closed' = closed /\ fresh' = fresh /\ stored' = stored
    BY <1>5 DEF TickExtendsBar
  <2> QED
    BY <1>0, <1>1, <1>2, <1>3, <2>1, <2>2 DEF TypeInv, TypeOK
<1>6. CASE TickClosesBar(e)
  <2>1. /\ builder' \in [last: Nat \cup {None}, current: BarType \cup {NoBar}]
        /\ Bucket(builder'.current.open) = Bucket(builder'.current.close)
    BY <1>4, <1>6 DEF TickClosesBar, BarType
  <2>2. /\ builder.current \in BarType
        /\ Bucket(builder.current.open) = Bucket(builder.current.close)
    BY <1>6 DEF TickClosesBar, TypeInv, TypeOK
  <2>3. /\ closed \in Seq(BarType) /\ fresh \in 0..Len(closed) /\ stored \in SUBSET BarType
        /\ \A i \in DOMAIN closed : Bucket(closed[i].open) = Bucket(closed[i].close)
    BY DEF TypeInv, TypeOK
  <2>4. /\ busy' = TRUE /\ closed' = Append(closed, builder.current) /\ fresh' = fresh + 1
        /\ stored' = RecordCandles(stored, {builder.current})
    BY <1>6 DEF TickClosesBar
  <2>5. /\ closed' \in Seq(BarType) /\ fresh' \in 0..Len(closed') /\ closed' # <<>>
        /\ \A i \in DOMAIN closed' : Bucket(closed'[i].open) = Bucket(closed'[i].close)
    BY <2>2, <2>3, <2>4
  <2>6. stored' \in SUBSET BarType
    BY <2>2, <2>3, <2>4 DEF RecordCandles
  <2> QED
    BY <1>0, <1>1, <1>2, <1>3, <2>1, <2>4, <2>5, <2>6 DEF TypeInv, TypeOK
<1> QED
  BY <1>5, <1>6

LEMMA SeedKeepsTypes ==
  ASSUME TypeInv, SeedCandles
  PROVE  TypeInv'
<1>0. /\ mode = "down" /\ mode' = "seeding" /\ ~ busy /\ fresh = 0
      /\ UNCHANGED <<clock, queue, busy, last_epoch, fresh, pending, outcomes, accepted>>
  BY DEF SeedCandles, TypeInv
<1>1. CASE UNCHANGED <<closed, builder, stored>>
  BY <1>0, <1>1 DEF TypeInv, TypeOK
<1>2. ASSUME NEW now \in clock..clock + MaxTickGap,
             LET bars == [i \in 1..Cardinality(Seed(now)) |->
                            SeedBar(CHOOSE b \in Seed(now) :
                                      Cardinality({a \in Seed(now) : a <= b}) = i)]
             IN  /\ closed' = bars
                 /\ builder' = [last |-> IF bars = <<>> THEN None ELSE bars[Len(bars)].close,
                                current |-> NoBar]
                 /\ \/ stored' = RecordCandles(stored, {bars[i] : i \in DOMAIN bars})
                    \/ UNCHANGED stored
      PROVE  TypeInv'
  <2>1. now \in Nat
    BY FeedAssumption DEF TypeInv, TypeOK, Epoch
  <2> DEFINE n == Cardinality(Seed(now))
             bars == [i \in 1..n |-> SeedBar(CHOOSE b \in Seed(now) :
                                     Cardinality({a \in Seed(now) : a <= b}) = i)]
  <2>2. /\ n \in Nat /\ bars \in Seq(BarType) /\ Len(bars) = n /\ DOMAIN bars = 1..n
        /\ \A i \in 1..n : Bucket(bars[i].open) = Bucket(bars[i].close)
    BY <2>1, SeedType
  <2>3. /\ closed' = bars
        /\ builder' = [last |-> IF bars = <<>> THEN None ELSE bars[Len(bars)].close,
                       current |-> NoBar]
        /\ \/ stored' = RecordCandles(stored, {bars[i] : i \in DOMAIN bars})
           \/ stored' = stored
    BY <1>2
  <2> HIDE DEF bars, n
  <2>4. stored' \in SUBSET BarType
    <3>1. {bars[i] : i \in DOMAIN bars} \in SUBSET BarType /\ stored \in SUBSET BarType
      BY <2>2 DEF TypeInv, TypeOK
    <3> QED
      BY <2>3, <3>1 DEF RecordCandles
  <2>5. builder' \in [last: Nat \cup {None}, current: BarType \cup {NoBar}]
    <3>1. ASSUME bars # <<>> PROVE bars[Len(bars)] \in BarType
      BY <2>2, <3>1
    <3> QED
      BY <2>3, <3>1 DEF BarType
  <2>6. builder'.current = NoBar /\ 0 \in 0..Len(closed')
    BY <2>2, <2>3
  <2> QED
    BY <1>0, <2>2, <2>3, <2>4, <2>5, <2>6 DEF TypeInv, TypeOK
<1> QED
  BY <1>1, <1>2 DEF SeedCandles

LEMMA TypeKept ==
  ASSUME TypeInv, [Next]_vars
  PROVE  TypeInv'
<1>0. MaxEpoch \in Nat /\ MaxTickGap \in Nat /\ clock \in Nat
  BY FeedAssumption DEF TypeInv, TypeOK, Epoch
<1>q. queue \in Seq(Epoch) /\ Len(queue) <= QueueSize /\ QueueSize \in Nat \ {0}
  BY FeedAssumption DEF TypeInv, TypeOK
<1>1. ASSUME DerivTicks PROVE TypeInv'
  <2>1. PICK e \in clock + 1..clock + MaxTickGap :
          /\ e <= MaxEpoch /\ clock' = e
          /\ queue' = Pushed(queue, e) \/ queue' = queue
    BY <1>1 DEF DerivTicks
  <2>2. e \in Epoch
    BY <1>0, <2>1 DEF Epoch
  <2>3. queue' \in Seq(Epoch) /\ Len(queue') <= QueueSize
    BY <1>q, <2>1, <2>2, PushedType
  <2> QED
    BY <1>1, <2>1, <2>2, <2>3 DEF DerivTicks, TypeInv, TypeOK
<1>2. ASSUME TickRepeated PROVE TypeInv'
  <2>1. clock \in Epoch /\ queue' = Pushed(queue, clock)
    BY <1>2 DEF TickRepeated, TypeInv, TypeOK
  <2>2. queue' \in Seq(Epoch) /\ Len(queue') <= QueueSize
    BY <1>q, <2>1, PushedType
  <2> QED
    BY <1>2, <2>2 DEF TickRepeated, TypeInv, TypeOK
<1>3. ASSUME SeedCandles PROVE TypeInv'
  BY <1>3, SeedKeepsTypes
<1>4. ASSUME Subscribe PROVE TypeInv'
  <2>1. clock \in Epoch /\ queue' = <<clock>>
    BY <1>4 DEF Subscribe, TypeInv, TypeOK
  <2>2. queue' \in Seq(Epoch) /\ Len(queue') <= QueueSize
    BY <1>q, <2>1
  <2> QED
    BY <1>4, <2>2 DEF Subscribe, TypeInv, TypeOK
<1>5. ASSUME Restart PROVE TypeInv'
  BY <1>5, ForgottenType DEF Restart
<1>6. ASSUME RejectTick PROVE TypeInv'
  <2>1. queue # <<>> /\ queue' = Tail(queue)
    BY <1>6 DEF RejectTick, Take
  <2>2. queue' \in Seq(Epoch) /\ Len(queue') <= QueueSize
    BY <1>q, <2>1
  <2> QED
    BY <1>6, <2>2 DEF RejectTick, TypeInv, TypeOK
<1>7. ASSUME EvaluationEnds PROVE TypeInv'
  <2>1. CASE UNCHANGED pending
    BY <1>7, <2>1 DEF EvaluationEnds, TypeInv, TypeOK
  <2>2. CASE ~ UNCHANGED pending
    <3> DEFINE new == [setup |-> closed[Len(closed)].close, entry |-> None, count |-> 0,
                       last |-> None, done |-> {}]
    <3>1. Cardinality(pending) < MaxSetups /\ pending' = pending \cup {new} /\ busy
      BY <1>7, <2>2 DEF EvaluationEnds
    <3>2. /\ pending \in SUBSET Setup /\ IsFiniteSet(pending) /\ Cardinality(pending) \in Nat
          /\ closed \in Seq(BarType) /\ closed # <<>> /\ MaxSetups \in Nat
      BY <3>1, FS_CardinalityType, FeedAssumption DEF TypeInv, TypeOK
    <3>3. closed[Len(closed)] \in BarType
      BY <3>2
    <3>4. new \in Setup /\ new.entry = None
      BY <3>3 DEF Setup, BarType
    <3> HIDE DEF new
    <3>5. /\ IsFiniteSet(pending')
          /\ \/ Cardinality(pending') = Cardinality(pending)
             \/ Cardinality(pending') = Cardinality(pending) + 1
      BY <3>1, <3>2, FS_AddElement
    <3>6. Cardinality(pending') <= MaxSetups /\ pending' \in SUBSET Setup
      BY <3>1, <3>2, <3>4, <3>5
    <3>7. \A p \in pending' : p.entry # None => p.last # None
      BY <3>1, <3>4 DEF TypeInv
    <3> QED
      BY <1>7, <3>5, <3>6, <3>7 DEF EvaluationEnds, TypeInv, TypeOK
  <2> QED
    BY <2>1, <2>2
<1>8. ASSUME NEW e \in Epoch, BuilderRaises(e) PROVE TypeInv'
  BY <1>8, ForgottenType DEF BuilderRaises
<1>9. ASSUME NEW e \in Epoch, TickExtendsBar(e) \/ TickClosesBar(e) PROVE TypeInv'
  BY <1>9, TickKeepsTypes
<1>10. ASSUME UNCHANGED vars PROVE TypeInv'
  BY <1>10 DEF vars, memory, TypeInv, TypeOK
<1> QED
  BY <1>1, <1>2, <1>3, <1>4, <1>5, <1>6, <1>7, <1>8, <1>9, <1>10 DEF Next

(* Whatever ticks are lost, repeated or thrown away and whenever the       *)
(* process restarts: the queue stays within its bound, the tracker within  *)
(* its own, every bar lies in one bucket, and nothing is measured before   *)
(* the setup has been entered.                                             *)
THEOREM TypeCorrect ==
  Spec => []TypeOK
<1>1. Init => TypeInv
  BY TypeInitially
<1>2. TypeInv /\ [Next]_vars => TypeInv'
  BY TypeKept
<1>3. TypeInv => TypeOK
  BY DEF TypeInv
<1> QED
  BY <1>1, <1>2, <1>3, PTL DEF Spec

-----------------------------------------------------------------------------
(* The accepted ticks                                                      *)

Newest == accepted[Len(accepted)]

(* The tick that closed the bar a setup was found on.                      *)
Closes(ticks, i, s) ==
  /\ i \in DOMAIN ticks /\ ticks[i] > s
  /\ \A j \in 1..i - 1 : ticks[j] <= s

InOrder == \A i, j \in DOMAIN accepted : i < j => accepted[i] < accepted[j]

(* Validator, builder and tracker have all seen the newest accepted tick,  *)
(* and an evaluation under way is that of the bar this tick has closed.    *)
AtNewest ==
  /\ mode # "up" => accepted = <<>> /\ queue = <<>>
  /\ accepted = <<>> =>
       /\ last_epoch = None /\ ~ busy /\ builder.current = NoBar /\ fresh = 0
       /\ pending = {} /\ outcomes = {}
  /\ accepted # <<>> =>
       /\ last_epoch = Newest /\ builder.last = Newest
       /\ builder.current # NoBar /\ builder.current.close = Newest
       /\ Bucket(builder.current.open) = Bucket(Newest)
  /\ busy => closed # <<>> /\ Closes(accepted, Len(accepted), closed[Len(closed)].close)

TickInv == TypeInv /\ InOrder /\ AtNewest

LEMMA AcceptedType ==
  ASSUME TickInv
  PROVE  /\ accepted \in Seq(Nat) /\ Len(accepted) \in Nat
         /\ DOMAIN accepted = 1..Len(accepted)
<1>1. accepted \in Seq(Epoch)
  BY DEF TickInv, TypeInv, TypeOK
<1>2. \A x \in Epoch : x \in Nat
  BY FeedAssumption DEF Epoch
<1>3. Len(accepted) \in Nat /\ DOMAIN accepted = 1..Len(accepted)
  BY <1>1
<1>4. \A i \in 1..Len(accepted) : accepted[i] \in Nat
  BY <1>1, <1>2
<1>5. accepted = [i \in 1..Len(accepted) |-> accepted[i]]
  BY <1>1
<1>6. accepted \in Seq(Nat)
  BY <1>3, <1>4, <1>5
<1> QED
  BY <1>3, <1>6

(* What is known when a tick is accepted.                                  *)
LEMMA OneMoreTick ==
  ASSUME TickInv, NEW e \in Epoch, TickExtendsBar(e) \/ TickClosesBar(e)
  PROVE  /\ accepted \in Seq(Nat) /\ accepted' \in Seq(Nat) /\ e \in Nat
         /\ Len(accepted) \in Nat /\ Len(accepted') = Len(accepted) + 1
         /\ DOMAIN accepted = 1..Len(accepted) /\ DOMAIN accepted' = 1..Len(accepted) + 1
         /\ \A i \in DOMAIN accepted : accepted[i] \in Nat
         /\ \A i \in DOMAIN accepted : accepted'[i] = accepted[i]
         /\ accepted'[Len(accepted) + 1] = e /\ accepted' # <<>> /\ Newest' = e
         /\ \A i \in DOMAIN accepted : accepted[i] < e
         /\ mode = "up" /\ mode' = "up" /\ ~ busy /\ last_epoch' = e /\ builder'.last = e
         /\ OnTick(e)
<1>1. /\ accepted' = Append(accepted, e) /\ e > last_epoch /\ last_epoch' = e
      /\ mode = "up" /\ mode' = "up" /\ ~ busy /\ builder'.last = e /\ OnTick(e)
  BY DEF TickExtendsBar, TickClosesBar, Accept, Take, Valid
<1>2. accepted \in Seq(Nat) /\ e \in Nat
  BY AcceptedType, FeedAssumption DEF Epoch
<1>3. /\ accepted' \in Seq(Nat) /\ Len(accepted) \in Nat /\ Len(accepted') = Len(accepted) + 1
      /\ DOMAIN accepted = 1..Len(accepted) /\ DOMAIN accepted' = 1..Len(accepted) + 1
      /\ \A i \in DOMAIN accepted : accepted[i] \in Nat
      /\ \A i \in DOMAIN accepted : accepted'[i] = accepted[i]
      /\ accepted'[Len(accepted) + 1] = e /\ accepted' # <<>>
  BY <1>1, <1>2
<1>4. Newest' = e
  BY <1>3 DEF Newest
<1>5. ASSUME NEW i \in DOMAIN accepted PROVE accepted[i] < e
  <2>1. accepted # <<>> /\ Len(accepted) \in DOMAIN accepted
    BY <1>3, <1>5
  <2>2. last_epoch = accepted[Len(accepted)]
    BY <2>1 DEF TickInv, AtNewest, Newest
  <2>3. accepted[i] <= accepted[Len(accepted)]
    BY <1>3, <1>5, <2>1 DEF TickInv, InOrder
  <2> QED
    BY <1>1, <1>2, <1>3, <2>1, <2>2, <2>3
<1> QED
  BY <1>1, <1>2, <1>3, <1>4, <1>5

LEMMA ClosesKept ==
  ASSUME TickInv, NEW e \in Epoch, TickExtendsBar(e) \/ TickClosesBar(e), NEW c, NEW s,
         Closes(accepted, c, s)
  PROVE  Closes(accepted', c, s)
<1>1. c \in DOMAIN accepted /\ accepted[c] > s /\ \A j \in 1..c - 1 : accepted[j] <= s
  BY DEF Closes
<1>2. \A j \in 1..c - 1 : j \in DOMAIN accepted
  BY <1>1, OneMoreTick
<1>3. c \in DOMAIN accepted' /\ accepted'[c] = accepted[c]
  <2>1. c \in 1..Len(accepted) /\ Len(accepted) \in Nat
    BY <1>1, OneMoreTick
  <2> QED
    BY <1>1, <2>1, OneMoreTick
<1>4. \A j \in 1..c - 1 : accepted'[j] = accepted[j]
  BY <1>2, OneMoreTick
<1> QED
  BY <1>1, <1>3, <1>4 DEF Closes

LEMMA ClosesOnce ==
  ASSUME TickInv, NEW c, NEW d, NEW s \in Int, Closes(accepted, c, s), Closes(accepted, d, s)
  PROVE  c = d
<1>1. accepted \in Seq(Nat)
  BY AcceptedType
<1>2. c \in 1..Len(accepted) /\ d \in 1..Len(accepted) /\ Len(accepted) \in Nat
  BY <1>1 DEF Closes
<1>3. accepted[c] \in Nat /\ accepted[d] \in Nat
  BY <1>1, <1>2
<1>4. ~ (c < d) /\ ~ (d < c)
  BY <1>2, <1>3 DEF Closes
<1> QED
  BY <1>2, <1>4

LEMMA TickKeepsOrder ==
  ASSUME TickInv, NEW e \in Epoch, TickExtendsBar(e) \/ TickClosesBar(e)
  PROVE  InOrder' /\ AtNewest'
<1> DEFINE n == Len(accepted)
<1>0. /\ accepted' # <<>> /\ Newest' = e /\ Len(accepted') = n + 1
      /\ mode' = "up" /\ last_epoch' = e /\ builder'.last = e
  BY OneMoreTick
<1>1. InOrder'
  <2> SUFFICES ASSUME NEW i \in 1..n + 1, NEW j \in 1..n + 1, i < j
               PROVE  accepted'[i] < accepted'[j]
    BY OneMoreTick DEF InOrder
  <2>1. n \in Nat /\ i \in DOMAIN accepted
    BY OneMoreTick
  <2>2. CASE j = n + 1
    BY <2>1, <2>2, OneMoreTick
  <2>3. CASE j # n + 1
    <3>1. j \in DOMAIN accepted
      BY <2>1, <2>3, OneMoreTick
    <3> QED
      BY <2>1, <3>1, OneMoreTick DEF TickInv, InOrder
  <2> QED
    BY <2>2, <2>3
<1>2. CASE TickExtendsBar(e)
  <2>1. builder'.current # NoBar /\ builder'.current.close = e
    BY <1>2, OneMoreTick DEF TickExtendsBar, NoBar, None, TickInv, TypeInv, TypeOK, BarType
  <2>2. Bucket(builder'.current.open) = Bucket(e)
    BY <1>2 DEF TickExtendsBar, SameBar, TickInv, TypeInv, TypeOK, BarType
  <2>3. ~ busy'
    BY <1>2, OneMoreTick DEF TickExtendsBar
  <2> QED
    BY <1>0, <1>1, <2>1, <2>2, <2>3 DEF AtNewest
<1>3. CASE TickClosesBar(e)
  <2>1. builder'.current # NoBar /\ builder'.current.close = e /\ builder'.current.open = e
    BY <1>3, OneMoreTick DEF TickClosesBar, NoBar, None
  <2>2. closed' = Append(closed, builder.current) /\ builder.current # NoBar
    BY <1>3 DEF TickClosesBar
  <2>3. closed' # <<>> /\ closed'[Len(closed')] = builder.current
    <3>1. closed \in Seq(BarType)
      BY DEF TickInv, TypeInv, TypeOK
    <3> QED
      BY <2>2, <3>1
  <2>4. accepted # <<>> /\ builder.current.close = accepted[n]
    BY <2>2 DEF TickInv, AtNewest, Newest
  <2>5. n \in DOMAIN accepted /\ n \in Nat
    BY <2>4, OneMoreTick
  <2>6. \A j \in 1..n : accepted[j] <= accepted[n]
    BY <2>5, OneMoreTick DEF TickInv, InOrder
  <2>7. Closes(accepted', n + 1, accepted[n])
    <3>1. accepted[n] \in Nat /\ accepted[n] < e /\ e \in Nat
      BY <2>5, OneMoreTick
    <3>2. \A j \in 1..n + 1 - 1 : j \in DOMAIN accepted /\ accepted'[j] <= accepted[n]
      BY <2>5, <2>6, OneMoreTick
    <3> QED
      BY <2>5, <3>1, <3>2, OneMoreTick DEF Closes
  <2> QED
    BY <1>0, <1>1, <2>1, <2>3, <2>4, <2>7 DEF AtNewest
<1> QED
  BY <1>1, <1>2, <1>3

(* The steps that leave validator, builder and tracker alone.              *)
Quiet ==
  UNCHANGED <<busy, last_epoch, builder, closed, fresh, pending, outcomes, accepted>>

LEMMA QuietSteps ==
  ASSUME DerivTicks \/ TickRepeated \/ Subscribe \/ RejectTick \/ UNCHANGED vars
  PROVE  Quiet
BY DEF Quiet, DerivTicks, TickRepeated, Subscribe, RejectTick, vars, memory

LEMMA OrderKept ==
  ASSUME TickInv, [Next]_vars
  PROVE  TickInv'
<1>0. TypeInv'
  BY TypeKept DEF TickInv
<1>1. ASSUME accepted' = <<>> PROVE InOrder'
  BY <1>1 DEF InOrder
<1>2. ASSUME Quiet PROVE InOrder'
  BY <1>2 DEF TickInv, InOrder, Quiet
<1>3. ASSUME DerivTicks \/ TickRepeated \/ Subscribe \/ RejectTick \/ UNCHANGED vars
      PROVE  AtNewest'
  <2>1. Quiet
    BY <1>3, QuietSteps
  <2>2. mode' # "up" => accepted = <<>> /\ queue' = <<>>
    BY <1>3 DEF TickInv, AtNewest, DerivTicks, TickRepeated, Subscribe, RejectTick, Take,
                vars, memory
  <2>3. /\ accepted' = accepted /\ last_epoch' = last_epoch /\ busy' = busy
        /\ builder' = builder /\ fresh' = fresh /\ pending' = pending
        /\ outcomes' = outcomes /\ closed' = closed
    BY <2>1 DEF Quiet
  <2>4. Newest' = Newest
    BY <2>3 DEF Newest
  <2> QED
    BY <2>2, <2>3, <2>4 DEF TickInv, AtNewest
<1>4. ASSUME Forgotten PROVE accepted' = <<>> /\ AtNewest'
  BY <1>4 DEF Forgotten, AtNewest
<1>5. ASSUME SeedCandles PROVE accepted' = <<>> /\ AtNewest'
  <2>1. /\ accepted = <<>> /\ queue = <<>> /\ ~ busy /\ builder.current = NoBar
        /\ last_epoch = None /\ fresh = 0 /\ pending = {} /\ outcomes = {}
    BY <1>5 DEF SeedCandles, TickInv, AtNewest
  <2>2. builder'.current = NoBar
    BY <1>0, <1>5 DEF SeedCandles, TypeInv
  <2>3. UNCHANGED <<accepted, queue, busy, last_epoch, fresh, pending, outcomes>>
    BY <1>5 DEF SeedCandles
  <2> QED
    BY <2>1, <2>2, <2>3 DEF AtNewest
<1>6. ASSUME EvaluationEnds PROVE AtNewest' /\ accepted' = accepted
  <2>1. /\ busy /\ ~ busy'
        /\ UNCHANGED <<mode, queue, last_epoch, builder, fresh, accepted, closed>>
    BY <1>6 DEF EvaluationEnds
  <2>2. accepted # <<>> /\ mode = "up"
    BY <2>1 DEF TickInv, AtNewest
  <2>3. Newest' = Newest
    BY <2>1 DEF Newest
  <2> QED
    BY <2>1, <2>2, <2>3 DEF TickInv, AtNewest
<1>7. ASSUME NEW e \in Epoch, TickExtendsBar(e) \/ TickClosesBar(e)
      PROVE  InOrder' /\ AtNewest'
  BY <1>7, TickKeepsOrder
<1>8. CASE \/ DerivTicks \/ TickRepeated \/ Subscribe \/ RejectTick \/ UNCHANGED vars
  BY <1>0, <1>2, <1>3, <1>8, QuietSteps DEF TickInv
<1>9. CASE Restart \/ \E e \in Epoch : BuilderRaises(e)
  BY <1>0, <1>1, <1>4, <1>9 DEF Restart, BuilderRaises, TickInv
<1>10. CASE SeedCandles
  BY <1>0, <1>1, <1>5, <1>10 DEF TickInv
<1>11. CASE EvaluationEnds
  <2>1. InOrder'
    BY <1>6, <1>11 DEF TickInv, InOrder
  <2> QED
    BY <1>0, <1>6, <1>11, <2>1 DEF TickInv
<1>12. CASE \E e \in Epoch : TickExtendsBar(e) \/ TickClosesBar(e)
  BY <1>0, <1>7, <1>12 DEF TickInv
<1> QED
  BY <1>8, <1>9, <1>10, <1>11, <1>12 DEF Next

LEMMA OrderInitially ==
  ASSUME Init
  PROVE  TickInv
<1>1. InOrder /\ AtNewest
  BY DEF Init, InOrder, AtNewest
<1> QED
  BY <1>1, TypeInitially DEF TickInv

-----------------------------------------------------------------------------
(* Bars                                                                    *)

(* The buckets the accepted ticks fall into, and the bars built from them: *)
(* those closed since the start, then the one under construction.          *)
Buckets == {Bucket(accepted[i]) : i \in DOMAIN accepted}

BarAt(i) == IF i <= fresh THEN closed[Len(closed) - fresh + i] ELSE builder.current

(* The bar runs from the first to the last tick of its bucket, which are   *)
(* without a gap among the accepted ticks.                                 *)
Spans(ticks, bar, b) ==
  \E f, l \in DOMAIN ticks :
    /\ {i \in DOMAIN ticks : Bucket(ticks[i]) = b} = f..l /\ f <= l
    /\ bar.open = ticks[f] /\ bar.close = ticks[l]

BarsInv ==
  accepted # <<>> =>
    /\ Cardinality(Buckets) = fresh + 1
    /\ \A i \in 1..fresh + 1 :
         /\ Rank(Buckets, Bucket(BarAt(i).open)) = i
         /\ Spans(accepted, BarAt(i), Bucket(BarAt(i).open))

LEMMA BucketsAreNumbers ==
  ASSUME TickInv
  PROVE  /\ Buckets \in SUBSET Nat /\ IsFiniteSet(Buckets)
         /\ accepted # <<>> =>
              /\ Bucket(Newest) \in Buckets
              /\ \A b \in Buckets : b <= Bucket(Newest)
<1>1. accepted \in Seq(Nat) /\ Len(accepted) \in Nat /\ DOMAIN accepted = 1..Len(accepted)
  BY AcceptedType
<1>2. ASSUME NEW i \in DOMAIN accepted
      PROVE  accepted[i] \in Nat /\ Bucket(accepted[i]) \in Nat
  <2>1. accepted[i] \in Nat
    BY <1>1, <1>2
  <2> QED
    BY <2>1, BucketBounds
<1>3. IsFiniteSet(Buckets)
  <2> DEFINE f == [i \in 1..Len(accepted) |-> Bucket(accepted[i])]
             T == {f[x] : x \in 1..Len(accepted)}
  <2>1. DOMAIN f = 1..Len(accepted) /\ IsFiniteSet(1..Len(accepted))
    BY <1>1, FS_Interval
  <2>2. Buckets = T
    BY <1>1 DEF Buckets
  <2> HIDE DEF f
  <2>3. IsFiniteSet(T)
    BY <2>1, ImageIsSmaller
  <2> QED
    BY <2>2, <2>3
<1>4. ASSUME accepted # <<>>
      PROVE  Bucket(Newest) \in Buckets /\ \A b \in Buckets : b <= Bucket(Newest)
  <2>1. Len(accepted) \in DOMAIN accepted
    BY <1>1, <1>4
  <2>2. ASSUME NEW i \in DOMAIN accepted PROVE Bucket(accepted[i]) <= Bucket(Newest)
    <3>1. accepted[i] <= Newest
      BY <1>1, <1>2, <2>1, <2>2 DEF TickInv, InOrder, Newest
    <3>2. Newest \in Nat
      BY <1>2, <2>1 DEF Newest
    <3> QED
      BY <1>2, <3>1, <3>2, BucketsGrow
  <2>3. Bucket(Newest) \in Buckets
    BY <2>1 DEF Buckets, Newest
  <2> QED
    BY <2>2, <2>3 DEF Buckets
<1> QED
  BY <1>2, <1>3, <1>4 DEF Buckets

(* A bar whose bucket gets no more ticks stays as it is.                   *)
LEMMA SpansKept ==
  ASSUME NEW ticks \in Seq(Nat), NEW e \in Nat, NEW bar, NEW b, Spans(ticks, bar, b),
         Bucket(e) # b
  PROVE  Spans(Append(ticks, e), bar, b)
<1> DEFINE n == Len(ticks)
           more == Append(ticks, e)
<1>1. /\ n \in Nat /\ DOMAIN ticks = 1..n /\ DOMAIN more = 1..n + 1
      /\ \A i \in 1..n : more[i] = ticks[i]
      /\ more[n + 1] = e
  OBVIOUS
<1> HIDE DEF more
<1>2. \A i \in DOMAIN ticks : i \in DOMAIN more
  BY <1>1
<1>3. {i \in DOMAIN more : Bucket(more[i]) = b} = {i \in DOMAIN ticks : Bucket(ticks[i]) = b}
  <2>1. \A i \in DOMAIN more : i = n + 1 \/ i \in 1..n
    BY <1>1
  <2>2. \A i \in DOMAIN more : Bucket(more[i]) = b <=> i \in 1..n /\ Bucket(ticks[i]) = b
    <3> SUFFICES ASSUME NEW i \in DOMAIN more
                 PROVE  Bucket(more[i]) = b <=> i \in 1..n /\ Bucket(ticks[i]) = b
      OBVIOUS
    <3>1. CASE i = n + 1
      BY <1>1, <3>1
    <3>2. CASE i \in 1..n
      BY <1>1, <3>2
    <3> QED
      BY <2>1, <3>1, <3>2
  <2> QED
    BY <1>1, <1>2, <2>2
<1>4. PICK f \in DOMAIN ticks, l \in DOMAIN ticks :
        /\ {i \in DOMAIN ticks : Bucket(ticks[i]) = b} = f..l /\ f <= l
        /\ bar.open = ticks[f] /\ bar.close = ticks[l]
  BY DEF Spans
<1>5. f \in DOMAIN more /\ l \in DOMAIN more /\ more[f] = ticks[f] /\ more[l] = ticks[l]
  BY <1>1, <1>2, <1>4
<1>6. Spans(more, bar, b)
  BY <1>3, <1>4, <1>5 DEF Spans
<1> QED
  BY <1>6 DEF more

(* The bar under construction follows the newest tick.                     *)
LEMMA SpansExtended ==
  ASSUME NEW ticks \in Seq(Nat), ticks # <<>>, NEW e \in Nat, NEW bar, NEW bar2, NEW b,
         Spans(ticks, bar, b), Bucket(ticks[Len(ticks)]) = b, Bucket(e) = b,
         bar2.open = bar.open, bar2.close = e
  PROVE  Spans(Append(ticks, e), bar2, b)
<1> DEFINE n == Len(ticks)
           more == Append(ticks, e)
           those == {i \in DOMAIN ticks : Bucket(ticks[i]) = b}
<1>1. /\ n \in Nat /\ n \in 1..n /\ DOMAIN ticks = 1..n /\ DOMAIN more = 1..n + 1
      /\ \A i \in 1..n : more[i] = ticks[i]
      /\ more[n + 1] = e
  OBVIOUS
<1> HIDE DEF more
<1>2. PICK f \in DOMAIN ticks, l \in DOMAIN ticks :
        those = f..l /\ f <= l /\ bar.open = ticks[f] /\ bar.close = ticks[l]
  BY DEF Spans
<1>3. l = n
  <2>1. n \in those
    BY <1>1
  <2> QED
    BY <1>1, <1>2, <2>1
<1>4. {i \in DOMAIN more : Bucket(more[i]) = b} = those \cup {n + 1}
  <2>1. \A i \in DOMAIN more : i = n + 1 \/ i \in 1..n
    BY <1>1
  <2>2. ASSUME NEW i \in DOMAIN more, Bucket(more[i]) = b PROVE i \in those \cup {n + 1}
    BY <1>1, <2>1, <2>2
  <2>3. ASSUME NEW i \in those \cup {n + 1} PROVE i \in DOMAIN more /\ Bucket(more[i]) = b
    <3>1. CASE i = n + 1
      BY <1>1, <3>1
    <3>2. CASE i \in those
      <4>1. i \in 1..n /\ Bucket(ticks[i]) = b /\ i \in 1..n + 1
        BY <1>1, <3>2
      <4> QED
        BY <1>1, <4>1
    <3> QED
      BY <2>3, <3>1, <3>2
  <2> QED
    BY <2>2, <2>3
<1>5. those \cup {n + 1} = f..n + 1
  BY <1>1, <1>2, <1>3
<1>6. /\ f \in DOMAIN more /\ n + 1 \in DOMAIN more /\ f <= n + 1
      /\ bar2.open = more[f] /\ bar2.close = more[n + 1]
  BY <1>1, <1>2
<1>7. Spans(more, bar2, b)
  BY <1>4, <1>5, <1>6 DEF Spans
<1> QED
  BY <1>7 DEF more

(* The tick after all others opens a bar.                                  *)
LEMMA SpansOpened ==
  ASSUME NEW ticks \in Seq(Nat), NEW e \in Nat,
         \A i \in DOMAIN ticks : Bucket(ticks[i]) # Bucket(e)
  PROVE  Spans(Append(ticks, e), [open |-> e, close |-> e], Bucket(e))
<1> DEFINE n == Len(ticks)
           more == Append(ticks, e)
<1>1. /\ n \in Nat /\ DOMAIN ticks = 1..n /\ DOMAIN more = 1..n + 1
      /\ \A i \in 1..n : more[i] = ticks[i]
      /\ more[n + 1] = e /\ n + 1 \in 1..n + 1
  OBVIOUS
<1> HIDE DEF more
<1>2. \A i \in DOMAIN more : i = n + 1 \/ i \in 1..n
  BY <1>1
<1>3. {i \in DOMAIN more : Bucket(more[i]) = Bucket(e)} = {n + 1}
  BY <1>1, <1>2
<1>4. {n + 1} = n + 1..n + 1 /\ n + 1 <= n + 1
  BY <1>1
<1>5. Spans(more, [open |-> e, close |-> e], Bucket(e))
  BY <1>1, <1>3, <1>4 DEF Spans
<1> QED
  BY <1>5 DEF more

LEMMA RankOfMore ==
  ASSUME NEW S \in SUBSET Nat, IsFiniteSet(S), NEW x \in Nat, \A y \in S : y < x
  PROVE  /\ Cardinality(S \cup {x}) = Cardinality(S) + 1
         /\ Rank(S \cup {x}, x) = Cardinality(S) + 1
         /\ \A y \in S : Rank(S \cup {x}, y) = Rank(S, y)
<1>1. x \notin S
  OBVIOUS
<1>2. Cardinality(S \cup {x}) = Cardinality(S) + 1
  BY <1>1, FS_AddElement
<1>3. {y \in S \cup {x} : y <= x} = S \cup {x}
  <2>1. \A y \in S \cup {x} : y <= x
    OBVIOUS
  <2> QED
    BY <2>1
<1>4. ASSUME NEW y \in S PROVE {z \in S \cup {x} : z <= y} = {z \in S : z <= y}
  <2>1. y \in Nat /\ ~ (x <= y)
    OBVIOUS
  <2> QED
    BY <2>1
<1> QED
  BY <1>2, <1>3, <1>4 DEF Rank

LEMMA BarTypes ==
  ASSUME TickInv, accepted # <<>>, NEW i \in 1..fresh + 1
  PROVE  /\ BarAt(i) \in BarType /\ Bucket(BarAt(i).open) \in Nat
         /\ i <= fresh => Len(closed) - fresh + i \in DOMAIN closed
<1>1. /\ closed \in Seq(BarType) /\ Len(closed) \in Nat /\ fresh \in 0..Len(closed)
      /\ DOMAIN closed = 1..Len(closed)
  BY DEF TickInv, TypeInv, TypeOK
<1>2. builder.current \in BarType
  BY DEF TickInv, AtNewest, TypeInv, TypeOK
<1>3. i <= fresh => Len(closed) - fresh + i \in 1..Len(closed)
  BY <1>1
<1>4. BarAt(i) \in BarType
  BY <1>1, <1>2, <1>3 DEF BarAt
<1>5. BarAt(i).open \in Nat
  BY <1>4 DEF BarType
<1> QED
  BY <1>1, <1>3, <1>4, <1>5, BucketBounds

LEMMA MoreBuckets ==
  ASSUME TickInv, NEW e \in Epoch, TickExtendsBar(e) \/ TickClosesBar(e)
  PROVE  Buckets' = Buckets \cup {Bucket(e)}
<1> DEFINE n == Len(accepted)
<1>1. /\ n \in Nat /\ DOMAIN accepted = 1..n /\ DOMAIN accepted' = 1..n + 1
      /\ \A i \in DOMAIN accepted : accepted'[i] = accepted[i]
      /\ accepted'[n + 1] = e
  BY OneMoreTick
<1>2. Buckets' = {Bucket(accepted'[i]) : i \in DOMAIN accepted'}
  BY DEF Buckets, Bucket
<1>3. \A i \in 1..n + 1 : i = n + 1 \/ i \in 1..n
  BY <1>1
<1>4. ASSUME NEW b \in Buckets' PROVE b \in Buckets \cup {Bucket(e)}
  <2>1. PICK i \in 1..n + 1 : b = Bucket(accepted'[i])
    BY <1>1, <1>2, <1>4
  <2> QED
    BY <1>1, <1>3, <2>1 DEF Buckets
<1>5. ASSUME NEW b \in Buckets \cup {Bucket(e)} PROVE b \in Buckets'
  <2>1. CASE b = Bucket(e)
    <3>1. n + 1 \in DOMAIN accepted'
      BY <1>1
    <3> QED
      BY <1>1, <1>2, <2>1, <3>1
  <2>2. CASE b \in Buckets
    <3>1. PICK i \in DOMAIN accepted : b = Bucket(accepted[i])
      BY <2>2 DEF Buckets
    <3>2. i \in DOMAIN accepted'
      BY <1>1, <3>1
    <3> QED
      BY <1>1, <1>2, <3>1, <3>2
  <2> QED
    BY <1>5, <2>1, <2>2
<1> QED
  BY <1>4, <1>5

(* The first tick of a start opens the first bar.                          *)
LEMMA FirstBar ==
  ASSUME TickInv, BarsInv, NEW e \in Epoch, TickExtendsBar(e), accepted = <<>>
  PROVE  BarsInv'
<1>1. /\ fresh' = 0 /\ e \in Nat /\ builder'.current = [open |-> e, close |-> e]
      /\ accepted' = Append(<<>>, e) /\ DOMAIN accepted = {}
  BY OneMoreTick DEF TickInv, AtNewest, TickExtendsBar
<1>2. Buckets' = {Bucket(e)} /\ Bucket(e) \in Nat
  BY <1>1, MoreBuckets, BucketBounds DEF Buckets
<1>3. Cardinality({Bucket(e)}) = 1
  BY FS_Singleton
<1>4. {y \in {Bucket(e)} : y <= Bucket(e)} = {Bucket(e)}
  BY <1>2
<1>5. Spans(accepted', [open |-> e, close |-> e], Bucket(e))
  <2>1. <<>> \in Seq(Nat) /\ \A i \in DOMAIN <<>> : FALSE
    OBVIOUS
  <2>2. Spans(Append(<<>>, e), [open |-> e, close |-> e], Bucket(e))
    BY <1>1, <2>1, SpansOpened
  <2> QED
    BY <1>1, <2>2
<1>6. ASSUME NEW i \in 1..0 + 1
      PROVE  i = 1 /\ BarAt(i)' = [open |-> e, close |-> e]
  BY <1>1 DEF BarAt
<1>7. Cardinality(Buckets') = fresh' + 1
  BY <1>1, <1>2, <1>3
<1>8. ASSUME NEW i \in 1..fresh' + 1
      PROVE  /\ Rank(Buckets', Bucket(BarAt(i)'.open)) = i
             /\ Spans(accepted', BarAt(i)', Bucket(BarAt(i)'.open))
  <2>1. i \in 1..0 + 1
    BY <1>1
  <2>2. i = 1 /\ BarAt(i)' = [open |-> e, close |-> e]
    BY <1>6, <2>1
  <2>3. BarAt(i)'.open = e
    BY <2>2
  <2>4. Rank(Buckets', Bucket(e)) = 1
    BY <1>2, <1>3, <1>4 DEF Rank
  <2> QED
    BY <1>5, <2>2, <2>3, <2>4
<1> QED
  BY <1>7, <1>8 DEF BarsInv

(* A tick of the bucket at hand: the bars before it keep their ticks.      *)
LEMMA BarGrows ==
  ASSUME TickInv, BarsInv, NEW e \in Epoch, TickExtendsBar(e), accepted # <<>>
  PROVE  BarsInv'
<1> DEFINE cur == builder.current
           b0 == Bucket(cur.open)
<1>1. /\ accepted \in Seq(Nat) /\ e \in Nat /\ accepted' = Append(accepted, e)
      /\ cur # NoBar /\ Bucket(Newest) = b0 /\ Newest = accepted[Len(accepted)]
  BY OneMoreTick DEF TickInv, AtNewest, TickExtendsBar, Newest
<1>2. /\ Bucket(e) = b0 /\ fresh' = fresh /\ closed' = closed
      /\ builder'.current = [cur EXCEPT !.close = e]
  BY <1>1 DEF TickExtendsBar, SameBar
<1>3. Buckets' = Buckets
  BY <1>1, <1>2, MoreBuckets, BucketsAreNumbers
<1>4. cur \in BarType /\ fresh \in Nat
  BY <1>1 DEF TickInv, TypeInv, TypeOK
<1>5. builder'.current.open = cur.open /\ builder'.current.close = e
  BY <1>2, <1>4 DEF BarType
<1>6. BarAt(fresh + 1) = cur /\ BarAt(fresh + 1)' = builder'.current
  BY <1>2, <1>4 DEF BarAt
<1>7. fresh + 1 \in 1..fresh + 1
  BY <1>4
<1>8. Rank(Buckets, b0) = fresh + 1 /\ Spans(accepted, cur, b0)
  BY <1>1, <1>6, <1>7 DEF BarsInv
<1>9. ASSUME NEW i \in 1..fresh' + 1
      PROVE  /\ Rank(Buckets', Bucket(BarAt(i)'.open)) = i
             /\ Spans(accepted', BarAt(i)', Bucket(BarAt(i)'.open))
  <2>0. i \in 1..fresh + 1
    BY <1>2
  <2>1. CASE i = fresh + 1
    <3>1. BarAt(i)' = builder'.current
      BY <1>2, <1>4, <2>1 DEF BarAt
    <3>2. Spans(Append(accepted, e), builder'.current, b0)
      BY <1>1, <1>2, <1>5, <1>8, SpansExtended
    <3>3. Rank(Buckets', b0) = i
      BY <1>3, <1>8, <2>1
    <3> QED
      BY <1>1, <1>5, <3>1, <3>2, <3>3
  <2>2. CASE i # fresh + 1
    <3>1. i <= fresh
      BY <1>4, <2>0, <2>2
    <3>2. BarAt(i)' = BarAt(i)
      BY <1>2, <3>1 DEF BarAt
    <3>3. /\ Rank(Buckets, Bucket(BarAt(i).open)) = i
          /\ Spans(accepted, BarAt(i), Bucket(BarAt(i).open))
      BY <1>1, <2>0 DEF BarsInv
    <3>4. Bucket(BarAt(i).open) # Bucket(e)
      BY <1>2, <1>8, <2>2, <3>3
    <3>5. Spans(Append(accepted, e), BarAt(i), Bucket(BarAt(i).open))
      BY <1>1, <3>3, <3>4, SpansKept
    <3> QED
      BY <1>1, <1>3, <3>2, <3>3, <3>5
  <2> QED
    BY <2>1, <2>2
<1>10. Cardinality(Buckets') = fresh' + 1
  BY <1>1, <1>2, <1>3 DEF BarsInv
<1> QED
  BY <1>9, <1>10 DEF BarsInv

(* A tick of a later bucket: the current bar becomes the last closed one.  *)
LEMMA BarCloses ==
  ASSUME TickInv, BarsInv, NEW e \in Epoch, TickClosesBar(e)
  PROVE  BarsInv'
<1> DEFINE cur == builder.current
           len == Len(closed)
<1>1. /\ accepted \in Seq(Nat) /\ e \in Nat /\ accepted' = Append(accepted, e)
      /\ cur # NoBar /\ accepted # <<>> /\ Bucket(Newest) = Bucket(cur.open)
      /\ Bucket(e) # Bucket(cur.open)
  BY OneMoreTick DEF TickInv, AtNewest, TickClosesBar, SameBar
<1>2. /\ closed' = Append(closed, cur) /\ fresh' = fresh + 1
      /\ builder'.current = [open |-> e, close |-> e]
  BY DEF TickClosesBar
<1>3. /\ closed \in Seq(BarType) /\ len \in Nat /\ fresh \in 0..len /\ DOMAIN closed = 1..len
      /\ cur \in BarType
  BY <1>1 DEF TickInv, TypeInv, TypeOK
<1>4. /\ Len(closed') = len + 1 /\ closed'[len + 1] = cur
      /\ \A j \in 1..len : closed'[j] = closed[j]
  BY <1>2, <1>3
<1>5. Bucket(Newest) \in Nat /\ Bucket(e) \in Nat /\ Bucket(Newest) < Bucket(e)
  <2>1. Newest \in Nat /\ Newest < e
    <3>1. Len(accepted) \in DOMAIN accepted
      BY <1>1
    <3> QED
      BY <3>1, OneMoreTick DEF Newest
  <2>2. Bucket(Newest) <= Bucket(e)
    BY <1>1, <2>1, BucketsGrow
  <2>3. Bucket(Newest) \in Nat /\ Bucket(e) \in Nat
    BY <1>1, <2>1, BucketBounds
  <2> QED
    BY <1>1, <2>2, <2>3
<1>6. \A b \in Buckets : b \in Nat /\ b < Bucket(e)
  BY <1>1, <1>5, BucketsAreNumbers
<1>7. /\ Cardinality(Buckets') = Cardinality(Buckets) + 1
      /\ Rank(Buckets', Bucket(e)) = Cardinality(Buckets) + 1
      /\ \A b \in Buckets : Rank(Buckets', b) = Rank(Buckets, b)
  <2>1. Buckets' = Buckets \cup {Bucket(e)}
    BY MoreBuckets
  <2> QED
    BY <1>5, <1>6, <2>1, BucketsAreNumbers, RankOfMore
<1>8. Cardinality(Buckets) = fresh + 1
  BY <1>1 DEF BarsInv
<1>9. ASSUME NEW i \in 1..fresh' + 1
      PROVE  /\ Rank(Buckets', Bucket(BarAt(i)'.open)) = i
             /\ Spans(accepted', BarAt(i)', Bucket(BarAt(i)'.open))
  <2>1. CASE i = fresh + 2
    <3>1. BarAt(i)' = [open |-> e, close |-> e]
      BY <1>2, <1>3, <2>1 DEF BarAt
    <3>2. BarAt(i)'.open = e
      BY <3>1
    <3>3. \A j \in DOMAIN accepted : Bucket(accepted[j]) # Bucket(e)
      BY <1>5, <1>6 DEF Buckets
    <3>4. Spans(Append(accepted, e), [open |-> e, close |-> e], Bucket(e))
      BY <1>1, <3>3, SpansOpened
    <3>5. Rank(Buckets', Bucket(e)) = i
      BY <1>3, <1>7, <1>8, <2>1
    <3> QED
      BY <1>1, <3>1, <3>2, <3>4, <3>5
  <2>2. CASE i # fresh + 2
    <3>1. i \in 1..fresh + 1 /\ i <= fresh + 1
      BY <1>2, <1>3, <2>2
    <3>2. BarAt(i)' = closed'[len + 1 - (fresh + 1) + i]
      <4>1. i <= fresh' /\ Len(closed') - fresh' = len + 1 - (fresh + 1)
        BY <1>2, <1>3, <1>4, <3>1
      <4> QED
        BY <4>1 DEF BarAt
    <3>3. BarAt(i)' = BarAt(i)
      <4>1. CASE i = fresh + 1
        <5>1. len + 1 - (fresh + 1) + i = len + 1 /\ ~ (i <= fresh)
          BY <1>3, <4>1
        <5> QED
          BY <1>4, <3>2, <5>1 DEF BarAt
      <4>2. CASE i # fresh + 1
        <5>1. i <= fresh /\ len + 1 - (fresh + 1) + i = len - fresh + i
          BY <1>3, <3>1, <4>2
        <5>2. len - fresh + i \in 1..len
          BY <1>3, <3>1, <5>1
        <5> QED
          BY <1>4, <3>2, <5>1, <5>2 DEF BarAt
      <4> QED
        BY <4>1, <4>2
    <3>4. /\ Rank(Buckets, Bucket(BarAt(i).open)) = i
          /\ Spans(accepted, BarAt(i), Bucket(BarAt(i).open))
      BY <1>1, <3>1 DEF BarsInv
    <3>5. Bucket(BarAt(i).open) \in Buckets
      <4>1. PICK f \in DOMAIN accepted : BarAt(i).open = accepted[f]
        BY <3>4 DEF Spans
      <4> QED
        BY <4>1 DEF Buckets
    <3>6. Bucket(BarAt(i).open) # Bucket(e)
      BY <1>5, <1>6, <3>5
    <3>7. Spans(Append(accepted, e), BarAt(i), Bucket(BarAt(i).open))
      BY <1>1, <3>4, <3>6, SpansKept
    <3> QED
      BY <1>1, <1>7, <3>3, <3>4, <3>5, <3>7
  <2> QED
    BY <2>1, <2>2
<1>10. Cardinality(Buckets') = fresh' + 1
  BY <1>2, <1>7, <1>8
<1> QED
  BY <1>9, <1>10 DEF BarsInv

LEMMA BarsKept ==
  ASSUME TickInv, BarsInv, [Next]_vars
  PROVE  BarsInv'
<1>1. ASSUME UNCHANGED <<accepted, closed, fresh, builder>> PROVE BarsInv'
  <2>1. Buckets' = Buckets /\ \A i : BarAt(i)' = BarAt(i)
    BY <1>1 DEF Buckets, BarAt
  <2> QED
    BY <1>1, <2>1 DEF BarsInv
<1>2. ASSUME accepted' = <<>> PROVE BarsInv'
  BY <1>2 DEF BarsInv
<1>3. CASE DerivTicks \/ TickRepeated \/ Subscribe \/ RejectTick \/ UNCHANGED vars
  <2>1. Quiet
    BY <1>3, QuietSteps
  <2> QED
    BY <1>1, <2>1 DEF Quiet
<1>4. CASE EvaluationEnds
  BY <1>1, <1>4 DEF EvaluationEnds
<1>5. CASE Restart \/ \E e \in Epoch : BuilderRaises(e)
  BY <1>2, <1>5 DEF Restart, BuilderRaises, Forgotten
<1>6. CASE SeedCandles
  <2>1. accepted = <<>> /\ accepted' = accepted
    BY <1>6 DEF SeedCandles, TickInv, AtNewest
  <2> QED
    BY <1>2, <2>1
<1>7. ASSUME NEW e \in Epoch, TickExtendsBar(e) PROVE BarsInv'
  BY <1>7, FirstBar, BarGrows
<1>8. ASSUME NEW e \in Epoch, TickClosesBar(e) PROVE BarsInv'
  BY <1>8, BarCloses
<1> QED
  BY <1>3, <1>4, <1>5, <1>6, <1>7, <1>8 DEF Next

LEMMA IntervalEnds ==
  ASSUME NEW f \in Nat, NEW l \in Nat, f <= l
  PROVE  /\ (CHOOSE j \in f..l : \A k \in f..l : j <= k) = f
         /\ (CHOOSE j \in f..l : \A k \in f..l : k <= j) = l
<1>1. \A j \in f..l : (\A k \in f..l : j <= k) <=> j = f
  <2>1. f \in f..l /\ \A k \in f..l : f <= k
    OBVIOUS
  <2>2. ASSUME NEW j \in f..l, \A k \in f..l : j <= k PROVE j = f
    BY <2>1, <2>2
  <2> QED
    BY <2>1, <2>2
<1>2. \A j \in f..l : (\A k \in f..l : k <= j) <=> j = l
  <2>1. l \in f..l /\ \A k \in f..l : k <= l
    OBVIOUS
  <2>2. ASSUME NEW j \in f..l, \A k \in f..l : k <= j PROVE j = l
    BY <2>1, <2>2
  <2> QED
    BY <2>1, <2>2
<1>3. f \in f..l /\ l \in f..l
  OBVIOUS
<1>4. (CHOOSE j \in f..l : \A k \in f..l : j <= k) = f
  BY <1>1, <1>3
<1>5. (CHOOSE j \in f..l : \A k \in f..l : k <= j) = l
  BY <1>2, <1>3
<1> QED
  BY <1>4, <1>5

LEMMA BarsAreIt ==
  ASSUME TickInv, BarsInv
  PROVE  BarsAreTheTicks
<1> DEFINE len == Len(closed)
           built == SubSeq(closed, len - fresh + 1, len)
           all == IF builder.current = NoBar THEN built ELSE Append(built, builder.current)
<1>1. /\ closed \in Seq(BarType) /\ len \in Nat /\ fresh \in 0..len /\ DOMAIN closed = 1..len
      /\ accepted \in Seq(Nat) /\ Len(accepted) \in Nat
      /\ DOMAIN accepted = 1..Len(accepted)
  BY AcceptedType DEF TickInv, TypeInv, TypeOK
<1>2. /\ built \in Seq(BarType) /\ Len(built) = fresh
      /\ \A i \in 1..fresh : built[i] = closed[len - fresh + i]
  <2>1. /\ len - fresh + 1 \in 1..len + 1 /\ len \in (len - fresh + 1) - 1..len
        /\ len - (len - fresh + 1) + 1 = fresh
        /\ \A i \in 1..fresh : len - fresh + 1 + i - 1 = len - fresh + i
    BY <1>1
  <2>2. \A i \in (len - fresh + 1)..len : i \in 1..len
    BY <1>1
  <2>3. built = [i \in 1..fresh |-> closed[len - fresh + i]]
    BY <1>1, <2>1 DEF SubSeq
  <2>4. \A i \in 1..fresh : closed[len - fresh + i] \in BarType
    <3>1. \A i \in 1..fresh : len - fresh + i \in 1..len
      BY <1>1
    <3> QED
      BY <1>1, <3>1
  <2>5. fresh \in Nat
    BY <1>1
  <2> HIDE DEF built
  <2> QED
    BY <2>3, <2>4, <2>5
<1>3. CASE accepted = <<>>
  <2>1. builder.current = NoBar /\ fresh = 0
    BY <1>3 DEF TickInv, AtNewest
  <2>2. {Bucket(accepted[i]) : i \in DOMAIN accepted} = {}
    BY <1>3
  <2>3. all = built /\ Len(all) = 0 /\ DOMAIN all = {}
    <3>1. all = built
      BY <2>1
    <3> HIDE DEF built
    <3> QED
      BY <1>2, <2>1, <3>1
  <2>4. Cardinality({}) = 0
    BY FS_EmptySet
  <2> HIDE DEF all
  <2>5. /\ Len(all) = Cardinality({})
        /\ \A i \in DOMAIN all : FALSE
    BY <2>3, <2>4
  <2> QED
    BY <2>2, <2>5 DEF BarsAreTheTicks, all
<1>4. CASE accepted # <<>>
  <2>1. builder.current # NoBar /\ builder.current \in BarType /\ fresh \in Nat
    BY <1>1, <1>4 DEF TickInv, AtNewest, TypeInv, TypeOK
  <2>2. /\ Len(all) = fresh + 1 /\ DOMAIN all = 1..fresh + 1
        /\ \A i \in 1..fresh + 1 : all[i] = BarAt(i)
    <3>1. all = Append(built, builder.current)
      BY <2>1
    <3> HIDE DEF built, all
    <3>2. Len(all) = fresh + 1 /\ DOMAIN all = 1..fresh + 1
      BY <1>2, <2>1, <3>1
    <3>3. ASSUME NEW i \in 1..fresh + 1 PROVE all[i] = BarAt(i)
      <4>1. CASE i = fresh + 1
        BY <1>2, <2>1, <3>1, <4>1 DEF BarAt
      <4>2. CASE i # fresh + 1
        <5>1. i \in 1..fresh
          BY <2>1, <4>2
        <5> QED
          BY <1>2, <2>1, <3>1, <5>1 DEF BarAt
      <4> QED
        BY <4>1, <4>2
    <3> QED
      BY <3>2, <3>3
  <2> HIDE DEF all
  <2>3. Len(all) = Cardinality(Buckets)
    BY <1>4, <2>2 DEF BarsInv
  <2>4. ASSUME NEW i \in 1..fresh + 1
        PROVE  \E b \in Buckets :
                 /\ Cardinality({a \in Buckets : a <= b}) = i
                 /\ all[i].open = accepted[CHOOSE j \in InBucket(b) :
                                             \A k \in InBucket(b) : j <= k]
                 /\ all[i].close = accepted[CHOOSE j \in InBucket(b) :
                                              \A k \in InBucket(b) : k <= j]
    <3> DEFINE b == Bucket(BarAt(i).open)
    <3>1. Rank(Buckets, b) = i /\ Spans(accepted, BarAt(i), b)
      BY <1>4 DEF BarsInv
    <3>2. PICK f \in DOMAIN accepted, l \in DOMAIN accepted :
            /\ InBucket(b) = f..l /\ f <= l
            /\ BarAt(i).open = accepted[f] /\ BarAt(i).close = accepted[l]
      BY <3>1 DEF Spans, InBucket
    <3>3. b \in Buckets
      BY <3>2 DEF Buckets
    <3>4. f \in Nat /\ l \in Nat
      BY <1>1
    <3> HIDE DEF b
    <3>5. /\ (CHOOSE j \in InBucket(b) : \A k \in InBucket(b) : j <= k) = f
          /\ (CHOOSE j \in InBucket(b) : \A k \in InBucket(b) : k <= j) = l
      BY <3>2, <3>4, IntervalEnds
    <3>6. /\ Cardinality({a \in Buckets : a <= b}) = i
          /\ all[i].open = accepted[CHOOSE j \in InBucket(b) :
                                      \A k \in InBucket(b) : j <= k]
          /\ all[i].close = accepted[CHOOSE j \in InBucket(b) :
                                       \A k \in InBucket(b) : k <= j]
      BY <2>2, <3>1, <3>2, <3>5 DEF Rank
    <3> QED
      BY <3>3, <3>6
  <2> QED
    BY <2>2, <2>3, <2>4 DEF BarsAreTheTicks, Buckets, all
<1> QED
  BY <1>3, <1>4

(* Every bar the decisions are made on is that of its ticks: bounded by    *)
(* the first and the last accepted tick of its bucket, no bucket twice and *)
(* none left out, for every timeframe and whatever was dropped, repeated,  *)
(* thrown away or forgotten in a restart.                                  *)
THEOREM BarsAreRight ==
  Spec => []BarsAreTheTicks
<1>1. Init => TickInv /\ BarsInv
  <2>1. Init => BarsInv
    BY DEF Init, BarsInv
  <2> QED
    BY <2>1, OrderInitially
<1>2. TickInv /\ BarsInv /\ [Next]_vars => (TickInv /\ BarsInv)'
  BY OrderKept, BarsKept
<1>3. TickInv /\ BarsInv => BarsAreTheTicks
  BY BarsAreIt
<1> QED
  BY <1>1, <1>2, <1>3, PTL DEF Spec

-----------------------------------------------------------------------------
(* Outcomes                                                                *)

(* The expiries over for a setup whose bar tick c has closed.              *)
DoneAfter(ticks, c) ==
  {h \in Horizons : IF h[1] = "t" THEN c + 1 + h[2] <= Len(ticks)
                    ELSE ticks[Len(ticks)] > ticks[c + 1] + h[2]}

(* What the tracker keeps of a setup, by the accepted ticks.               *)
FollowsAt(ticks, p, c) ==
  /\ Closes(ticks, c, p.setup)
  /\ p.entry = None => c = Len(ticks) /\ p.count = 0 /\ p.last = None /\ p.done = {}
  /\ p.entry # None =>
       /\ c + 1 \in DOMAIN ticks /\ p.entry = ticks[c + 1]
       /\ p.count = Len(ticks) - (c + 1) /\ p.last = ticks[Len(ticks)]
       /\ p.done = DoneAfter(ticks, c)

Follows(ticks, p) == \E c \in DOMAIN ticks : FollowsAt(ticks, p, c)

(* Tick x ends the expiry h of a setup whose bar tick c has closed.        *)
Ends(ticks, x, c, h) ==
  IF h[1] = "t" THEN x = c + 1 + h[2]
  ELSE /\ c + 1 <= x /\ x + 1 \in DOMAIN ticks
       /\ ticks[x] <= ticks[c + 1] + h[2]
       /\ ticks[x + 1] > ticks[c + 1] + h[2]

MeasuresAt(ticks, o, c, x) ==
  /\ Closes(ticks, c, o.setup) /\ c + 1 \in DOMAIN ticks /\ o.entry = ticks[c + 1]
  /\ Ends(ticks, x, c, o.horizon) /\ o.exit = ticks[x]
  /\ o.at = IF o.horizon[1] = "t" THEN ticks[x] ELSE ticks[x + 1]

Measures(ticks, o) == \E c, x \in DOMAIN ticks : MeasuresAt(ticks, o, c, x)

MeasuredFor(s) == {o.horizon : o \in {o \in outcomes : o.setup = s}}

Followed == {p.setup : p \in pending}

TrackerInv ==
  /\ \A p \in pending : Follows(accepted, p) /\ MeasuredFor(p.setup) = p.done
  /\ \A o \in outcomes :
       /\ Measures(accepted, o)
       /\ o.setup \notin Followed => MeasuredFor(o.setup) = Horizons

LEMMA HorizonKinds ==
  ASSUME NEW h \in Horizons
  PROVE  /\ h[2] \in Nat \ {0}
         /\ \/ h[1] = "t" /\ h[2] \in TickHorizons /\ h = <<"t", h[2]>>
            \/ h[1] = "s" /\ h[2] \in TimeHorizons /\ h = <<"s", h[2]>>
<1>1. TickHorizons \in SUBSET (Nat \ {0}) /\ TimeHorizons \in SUBSET (Nat \ {0})
  BY FeedAssumption
<1>2. CASE h \in {"t"} \X TickHorizons
  <2>1. PICK k \in TickHorizons : h = <<"t", k>>
    BY <1>2
  <2> QED
    BY <1>1, <2>1
<1>3. CASE h \in {"s"} \X TimeHorizons
  <2>1. PICK d \in TimeHorizons : h = <<"s", d>>
    BY <1>3
  <2> QED
    BY <1>1, <2>1
<1> QED
  BY <1>2, <1>3 DEF Horizons

(* Membership in Due, by kind.                                             *)
LEMMA DueIs ==
  ASSUME NEW p, NEW e, NEW h
  PROVE  /\ h[1] = "t" /\ h[2] \in TickHorizons /\ h = <<"t", h[2]>> =>
              (h \in Due(p, e) <=> p.count + 1 = h[2])
         /\ h[1] = "s" /\ h[2] \in TimeHorizons /\ h = <<"s", h[2]>> =>
              (h \in Due(p, e) <=> e > p.entry + h[2])
<1> DEFINE Ticks == {<<"t", k>> : k \in {k \in TickHorizons : TickDue(p, k)}}
           Times == {<<"s", d>> : d \in {d \in TimeHorizons : e > p.entry + d}}
<1>1. Due(p, e) = Ticks \cup Times
  BY DEF Due
<1>2. \A x \in Ticks : x[1] = "t" /\ TickDue(p, x[2])
  OBVIOUS
<1>3. \A x \in Times : x[1] = "s" /\ e > p.entry + x[2]
  OBVIOUS
<1>4. \A k \in TickHorizons : TickDue(p, k) => <<"t", k>> \in Ticks
  OBVIOUS
<1>5. \A d \in TimeHorizons : e > p.entry + d => <<"s", d>> \in Times
  OBVIOUS
<1>6. "s" # "t"
  OBVIOUS
<1> HIDE DEF Ticks, Times
<1>7. ASSUME h[1] = "t", h[2] \in TickHorizons, h = <<"t", h[2]>>
      PROVE  h \in Due(p, e) <=> TickDue(p, h[2])
  BY <1>1, <1>2, <1>3, <1>4, <1>6, <1>7, Zenon
<1>8. ASSUME h[1] = "s", h[2] \in TimeHorizons, h = <<"s", h[2]>>
      PROVE  h \in Due(p, e) <=> e > p.entry + h[2]
  BY <1>1, <1>2, <1>3, <1>5, <1>6, <1>8, Zenon
<1> QED
  BY <1>7, <1>8 DEF TickDue

(* A setup is followed from one tick: two states of it are the same.       *)
LEMMA FollowedOnce ==
  ASSUME TickInv, TrackerInv, NEW p \in pending, NEW q \in pending, p.setup = q.setup
  PROVE  p = q
<1>1. p \in Setup /\ q \in Setup
  BY DEF TickInv, TypeInv, TypeOK
<1>2. PICK c \in DOMAIN accepted : FollowsAt(accepted, p, c)
  BY DEF TrackerInv, Follows
<1>3. PICK d \in DOMAIN accepted : FollowsAt(accepted, q, d)
  BY DEF TrackerInv, Follows
<1>4. p.setup \in Int
  BY <1>1 DEF Setup
<1>5. c = d
  BY <1>2, <1>3, <1>4, ClosesOnce DEF FollowsAt
<1>6. Len(accepted) + 1 \notin DOMAIN accepted
  <2>1. accepted \in Seq(Epoch)
    BY DEF TickInv, TypeInv, TypeOK
  <2> QED
    BY <2>1
<1>7. /\ p.entry = q.entry /\ p.count = q.count /\ p.last = q.last /\ p.done = q.done
  BY <1>2, <1>3, <1>5, <1>6 DEF FollowsAt
<1> QED
  BY <1>1, <1>7 DEF Setup

LEMMA MeasuresKept ==
  ASSUME TickInv, NEW e \in Epoch, TickExtendsBar(e) \/ TickClosesBar(e), NEW o \in Outcome,
         Measures(accepted, o)
  PROVE  Measures(accepted', o)
<1>1. PICK c \in DOMAIN accepted, x \in DOMAIN accepted : MeasuresAt(accepted, o, c, x)
  BY DEF Measures
<1>2. Closes(accepted', c, o.setup)
  BY <1>1, ClosesKept DEF MeasuresAt
<1>3. /\ \A i \in DOMAIN accepted : i \in DOMAIN accepted' /\ accepted'[i] = accepted[i]
  BY OneMoreTick
<1>4. o.horizon \in Horizons /\ (o.horizon[1] = "t" \/ o.horizon[1] # "t")
  BY DEF Outcome
<1>5. CASE o.horizon[1] = "t"
  <2>1. MeasuresAt(accepted', o, c, x)
    BY <1>1, <1>2, <1>3, <1>5 DEF MeasuresAt, Ends
  <2> QED
    BY <1>3, <2>1 DEF Measures
<1>6. CASE o.horizon[1] # "t"
  <2>1. MeasuresAt(accepted', o, c, x)
    BY <1>1, <1>2, <1>3, <1>6 DEF MeasuresAt, Ends
  <2> QED
    BY <1>3, <2>1 DEF Measures
<1> QED
  BY <1>5, <1>6

(* A tick after its entry moves a setup on by one.                         *)
LEMMA DoneGrows ==
  ASSUME TickInv, NEW e \in Epoch, TickExtendsBar(e) \/ TickClosesBar(e),
         NEW p \in pending, p.entry # None, NEW c \in DOMAIN accepted,
         FollowsAt(accepted, p, c)
  PROVE  DoneAfter(accepted', c) = p.done \cup Due(p, e)
<1> DEFINE n == Len(accepted)
<1>1. /\ accepted \in Seq(Nat) /\ n \in Nat /\ DOMAIN accepted = 1..n /\ Len(accepted') = n + 1
      /\ \A i \in DOMAIN accepted : accepted'[i] = accepted[i] /\ accepted[i] \in Nat
      /\ accepted'[n + 1] = e /\ e \in Nat
      /\ \A i \in DOMAIN accepted : accepted[i] < e
  BY OneMoreTick
<1>2. /\ c + 1 \in DOMAIN accepted /\ p.entry = accepted[c + 1] /\ p.count = n - (c + 1)
      /\ p.last = accepted[n] /\ p.done = DoneAfter(accepted, c) /\ c \in Nat
  BY <1>1 DEF FollowsAt
<1>3. n \in DOMAIN accepted /\ accepted[n] \in Nat /\ accepted[n] < e /\ p.entry \in Nat
  BY <1>1, <1>2
<1>4. ASSUME NEW h \in Horizons
      PROVE  h \in DoneAfter(accepted', c) <=> h \in p.done \cup Due(p, e)
  <2>1. CASE h[1] = "t" /\ h[2] \in TickHorizons /\ h = <<"t", h[2]>>
    <3>1. h \in DoneAfter(accepted', c) <=> c + 1 + h[2] <= n + 1
      BY <1>1, <2>1 DEF DoneAfter
    <3>2. h \in p.done <=> c + 1 + h[2] <= n
      BY <1>2, <2>1 DEF DoneAfter
    <3>3. h \in Due(p, e) <=> p.count + 1 = h[2]
      BY <2>1, DueIs
    <3>4. h[2] \in Nat
      BY HorizonKinds
    <3>5. c + 1 + h[2] <= n + 1 <=> c + 1 + h[2] <= n \/ n - (c + 1) + 1 = h[2]
      <4>1. \A a, b, k \in Nat : b + 1 + k <= a + 1 <=> b + 1 + k <= a \/ a - (b + 1) + 1 = k
        OBVIOUS
      <4>2. n \in Nat /\ c \in Nat
        BY <1>1, <1>2
      <4> QED
        BY <3>4, <4>1, <4>2
    <3> QED
      BY <1>2, <3>1, <3>2, <3>3, <3>5
  <2>2. CASE h[1] = "s" /\ h[2] \in TimeHorizons /\ h = <<"s", h[2]>>
    <3>1. h \in DoneAfter(accepted', c) <=> e > p.entry + h[2]
      BY <1>1, <1>2, <2>2 DEF DoneAfter
    <3>2. h \in p.done <=> accepted[n] > p.entry + h[2]
      BY <1>2, <2>2 DEF DoneAfter
    <3>3. h \in Due(p, e) <=> e > p.entry + h[2]
      BY <2>2, DueIs
    <3>4. h[2] \in Nat
      BY HorizonKinds
    <3>5. accepted[n] > p.entry + h[2] => e > p.entry + h[2]
      BY <1>1, <1>3, <3>4
    <3> QED
      BY <3>1, <3>2, <3>3, <3>5
  <2> QED
    BY <2>1, <2>2, HorizonKinds
<1>5. DoneAfter(accepted', c) \in SUBSET Horizons
  BY DEF DoneAfter
<1>6. p.done \cup Due(p, e) \in SUBSET Horizons
  BY <1>2, DueType DEF DoneAfter
<1> QED
  BY <1>4, <1>5, <1>6

LEMMA FollowsKept ==
  ASSUME TickInv, NEW e \in Epoch, TickExtendsBar(e) \/ TickClosesBar(e),
         NEW p \in pending, Follows(accepted, p)
  PROVE  Follows(accepted', Advanced(p, e))
<1> DEFINE n == Len(accepted)
           q == Advanced(p, e)
<1>1. /\ accepted \in Seq(Nat) /\ n \in Nat /\ DOMAIN accepted = 1..n /\ Len(accepted') = n + 1
      /\ DOMAIN accepted' = 1..n + 1
      /\ \A i \in DOMAIN accepted : accepted'[i] = accepted[i] /\ accepted[i] \in Nat
      /\ accepted'[n + 1] = e /\ e \in Nat
  BY OneMoreTick
<1>2. p \in Setup /\ e # None
  BY <1>1 DEF TickInv, TypeInv, TypeOK, None
<1>3. PICK c \in DOMAIN accepted : FollowsAt(accepted, p, c)
  BY DEF Follows
<1>4. c \in DOMAIN accepted' /\ Closes(accepted', c, p.setup) /\ c \in Nat
  BY <1>1, <1>3, ClosesKept DEF FollowsAt
<1>5. CASE p.entry = None
  <2>1. q = [p EXCEPT !.entry = e, !.last = e]
    BY <1>5 DEF Advanced
  <2>2. /\ q.setup = p.setup /\ q.entry = e /\ q.last = e /\ q.count = p.count
        /\ q.done = p.done
    BY <1>2, <2>1 DEF Setup
  <2>3. c = n /\ p.count = 0 /\ p.done = {}
    BY <1>3, <1>5 DEF FollowsAt
  <2>4. DoneAfter(accepted', n) = {}
    <3>1. ASSUME NEW h \in Horizons
          PROVE  ~ (n + 1 + h[2] <= n + 1) /\ ~ (e > e + h[2])
      <4>1. h[2] \in Nat \ {0}
        BY HorizonKinds
      <4>2. \A a \in Nat, k \in Nat \ {0} : ~ (a + 1 + k <= a + 1) /\ ~ (a > a + k)
        OBVIOUS
      <4> QED
        BY <1>1, <4>1, <4>2
    <3>2. ASSUME NEW h \in DoneAfter(accepted', n) PROVE FALSE
      BY <1>1, <3>1, <3>2 DEF DoneAfter
    <3> QED
      BY <3>2
  <2> HIDE DEF q
  <2>5. n + 1 \in DOMAIN accepted' /\ (n + 1) - (n + 1) = 0
    BY <1>1
  <2>6. /\ q.entry # None /\ q.entry = accepted'[n + 1] /\ q.last = accepted'[Len(accepted')]
        /\ q.count = Len(accepted') - (n + 1) /\ q.done = DoneAfter(accepted', n)
        /\ Closes(accepted', n, q.setup)
    BY <1>1, <1>2, <1>4, <2>2, <2>3, <2>4, <2>5
  <2>7. FollowsAt(accepted', q, c)
    BY <2>3, <2>5, <2>6 DEF FollowsAt
  <2> QED
    BY <1>4, <2>7 DEF Follows, q
<1>6. CASE p.entry # None
  <2>1. q = [p EXCEPT !.count = @ + 1, !.last = e, !.done = @ \cup Due(p, e)]
    BY <1>6 DEF Advanced
  <2>2. /\ q.setup = p.setup /\ q.entry = p.entry /\ q.last = e /\ q.count = p.count + 1
        /\ q.done = p.done \cup Due(p, e)
    BY <1>2, <2>1 DEF Setup
  <2>3. /\ c + 1 \in DOMAIN accepted /\ p.entry = accepted[c + 1] /\ p.count = n - (c + 1)
    BY <1>3, <1>6 DEF FollowsAt
  <2>4. DoneAfter(accepted', c) = p.done \cup Due(p, e)
    BY <1>3, <1>6, DoneGrows
  <2>5. c + 1 \in DOMAIN accepted' /\ accepted'[c + 1] = p.entry
        /\ p.count + 1 = n + 1 - (c + 1)
    BY <1>1, <1>4, <2>3
  <2> HIDE DEF q
  <2>6. FollowsAt(accepted', q, c)
    BY <1>1, <1>4, <1>6, <2>2, <2>4, <2>5 DEF FollowsAt
  <2> QED
    BY <1>4, <2>6 DEF Follows, q
<1> QED
  BY <1>5, <1>6

(* An outcome the tracker emits measures the setup it follows.             *)
LEMMA EmittedMeasures ==
  ASSUME TickInv, NEW e \in Epoch, TickExtendsBar(e) \/ TickClosesBar(e),
         NEW p \in pending, p.entry # None, Follows(accepted, p), NEW o \in Emitted(p, e)
  PROVE  Measures(accepted', o)
<1> DEFINE n == Len(accepted)
           h == o.horizon
<1>1. /\ accepted \in Seq(Nat) /\ n \in Nat /\ DOMAIN accepted = 1..n /\ Len(accepted') = n + 1
      /\ DOMAIN accepted' = 1..n + 1
      /\ \A i \in DOMAIN accepted : accepted'[i] = accepted[i] /\ accepted[i] \in Nat
      /\ accepted'[n + 1] = e /\ e \in Nat
  BY OneMoreTick
<1>2. PICK c \in DOMAIN accepted : FollowsAt(accepted, p, c)
  BY DEF Follows
<1>3. /\ c + 1 \in DOMAIN accepted /\ p.entry = accepted[c + 1] /\ p.count = n - (c + 1)
      /\ p.last = accepted[n] /\ p.done = DoneAfter(accepted, c) /\ c \in Nat
  BY <1>1, <1>2 DEF FollowsAt
<1>4. /\ o.setup = p.setup /\ h \in Due(p, e) /\ h \notin p.done /\ o.entry = p.entry
      /\ o.exit = (IF h[1] = "t" THEN e ELSE p.last) /\ o.at = e
  BY DEF Emitted, TimeExit
<1>5. Closes(accepted', c, o.setup)
  BY <1>2, <1>4, ClosesKept DEF FollowsAt
<1>6. /\ c \in DOMAIN accepted' /\ c + 1 \in DOMAIN accepted' /\ o.entry = accepted'[c + 1]
      /\ n \in DOMAIN accepted /\ n \in DOMAIN accepted' /\ n + 1 \in DOMAIN accepted'
      /\ accepted'[n] = accepted[n] /\ accepted'[c + 1] = p.entry
  BY <1>1, <1>3, <1>4
<1>7. h \in Horizons
  BY <1>4, DueType
<1>8. CASE h[1] = "t" /\ h[2] \in TickHorizons /\ h = <<"t", h[2]>>
  <2>1. p.count + 1 = h[2]
    BY <1>4, <1>8, DueIs
  <2>2. n + 1 = c + 1 + h[2]
    BY <1>1, <1>3, <2>1
  <2>3. Ends(accepted', n + 1, c, h)
    BY <1>8, <2>2 DEF Ends
  <2>4. MeasuresAt(accepted', o, c, n + 1)
    BY <1>1, <1>4, <1>5, <1>6, <1>8, <2>3 DEF MeasuresAt
  <2> QED
    BY <1>6, <2>4 DEF Measures
<1>9. CASE h[1] = "s" /\ h[2] \in TimeHorizons /\ h = <<"s", h[2]>>
  <2>1. e > p.entry + h[2]
    BY <1>4, <1>9, DueIs
  <2>2. ~ (accepted[n] > accepted[c + 1] + h[2])
    BY <1>3, <1>4, <1>7, <1>9 DEF DoneAfter
  <2>3. accepted[n] <= p.entry + h[2]
    <3>1. accepted[n] \in Nat /\ p.entry \in Nat /\ h[2] \in Nat
      BY <1>1, <1>3, <1>6, <1>7, HorizonKinds
    <3> QED
      BY <1>3, <2>2, <3>1
  <2>4. Ends(accepted', n, c, h)
    <3>1. c + 1 <= n
      BY <1>1, <1>3
    <3> QED
      BY <1>1, <1>6, <1>9, <2>1, <2>3, <3>1 DEF Ends
  <2>5. MeasuresAt(accepted', o, c, n)
    BY <1>1, <1>3, <1>4, <1>5, <1>6, <1>9, <2>4 DEF MeasuresAt
  <2> QED
    BY <1>6, <2>5 DEF Measures
<1> QED
  BY <1>7, <1>8, <1>9, HorizonKinds

(* A tick gives a setup the outcomes that were missing of those now due.   *)
LEMMA MeasuredMore ==
  ASSUME TickInv, TrackerInv, NEW e \in Epoch, TickExtendsBar(e) \/ TickClosesBar(e),
         NEW p \in pending
  PROVE  MeasuredFor(p.setup)' = Advanced(p, e).done
<1> DEFINE s == p.setup
           new == UNION {Emitted(q, e) : q \in {q \in pending : q.entry # None}}
<1>1. outcomes' = outcomes \cup new
  BY OneMoreTick DEF OnTick
<1>2. MeasuredFor(s) = p.done /\ p \in Setup
  BY DEF TrackerInv, TickInv, TypeInv, TypeOK
<1>3. ASSUME NEW q \in pending, NEW o \in Emitted(q, e), o.setup = s PROVE q = p
  <2>1. o.setup = q.setup
    BY <1>3 DEF Emitted
  <2> QED
    BY <1>3, <2>1, FollowedOnce
<1>4. MeasuredFor(s)' = {o.horizon : o \in {o \in outcomes' : o.setup = s}}
  BY DEF MeasuredFor
<1>5. CASE p.entry = None
  <2>1. Advanced(p, e).done = p.done
    BY <1>2, <1>5 DEF Advanced, Setup
  <2>2. ASSUME NEW o \in new PROVE o.setup # s
    <3>1. PICK q \in pending : q.entry # None /\ o \in Emitted(q, e)
      OBVIOUS
    <3> QED
      BY <1>3, <1>5, <3>1
  <2> HIDE DEF new
  <2>3. {o \in outcomes' : o.setup = s} = {o \in outcomes : o.setup = s}
    BY <1>1, <2>2
  <2> QED
    BY <1>2, <1>4, <2>1, <2>3 DEF MeasuredFor
<1>6. CASE p.entry # None
  <2>1. Advanced(p, e).done = p.done \cup Due(p, e)
    BY <1>2, <1>6 DEF Advanced, Setup
  <2>2. ASSUME NEW o \in new, o.setup = s PROVE o \in Emitted(p, e)
    <3>1. PICK q \in pending : q.entry # None /\ o \in Emitted(q, e)
      OBVIOUS
    <3> QED
      BY <1>3, <2>2, <3>1
  <2>3. \A o \in Emitted(p, e) : o \in new /\ o.setup = s /\ o.horizon \in Due(p, e)
    BY <1>6 DEF Emitted
  <2>4. \A h \in Due(p, e) \ p.done : \E o \in Emitted(p, e) : o.horizon = h
    <3> SUFFICES ASSUME NEW h \in Due(p, e) \ p.done
                 PROVE  \E o \in Emitted(p, e) : o.horizon = h
      OBVIOUS
    <3> DEFINE o == [setup |-> p.setup, horizon |-> h, entry |-> p.entry,
                     exit |-> IF h[1] = "t" THEN e ELSE TimeExit(p, e), at |-> e]
    <3>1. o \in Emitted(p, e)
      BY DEF Emitted
    <3>2. o.horizon = h
      OBVIOUS
    <3> HIDE DEF o
    <3> QED
      BY <3>1, <3>2
  <2> HIDE DEF new
  <2>5. ASSUME NEW h \in MeasuredFor(s)' PROVE h \in p.done \cup Due(p, e)
    <3>1. PICK o \in outcomes' : o.setup = s /\ o.horizon = h
      BY <1>4, <2>5
    <3>2. CASE o \in outcomes
      BY <1>2, <3>1, <3>2 DEF MeasuredFor
    <3>3. CASE o \in new
      BY <2>2, <2>3, <3>1, <3>3
    <3> QED
      BY <1>1, <3>1, <3>2, <3>3
  <2>6. ASSUME NEW h \in p.done \cup Due(p, e) PROVE h \in MeasuredFor(s)'
    <3>1. CASE h \in p.done
      <4>1. PICK o \in outcomes : o.setup = s /\ o.horizon = h
        BY <1>2, <3>1 DEF MeasuredFor
      <4> QED
        BY <1>1, <1>4, <4>1
    <3>2. CASE h \notin p.done
      <4>1. PICK o \in Emitted(p, e) : o.horizon = h
        BY <2>4, <2>6, <3>2
      <4>2. o \in outcomes' /\ o.setup = s
        BY <1>1, <2>3, <4>1
      <4> QED
        BY <1>4, <4>1, <4>2
    <3> QED
      BY <3>1, <3>2
  <2> QED
    BY <2>1, <2>5, <2>6
<1> QED
  BY <1>5, <1>6

LEMMA TickKeepsTracker ==
  ASSUME TickInv, TypeInv', TrackerInv, NEW e \in Epoch, TickExtendsBar(e) \/ TickClosesBar(e)
  PROVE  TrackerInv'
<1> DEFINE new == UNION {Emitted(q, e) : q \in {q \in pending : q.entry # None}}
<1>1. /\ outcomes' = outcomes \cup new
      /\ pending' = {p \in {Advanced(q, e) : q \in pending} : p.done # Horizons}
  BY OneMoreTick DEF OnTick
<1>2. pending \in SUBSET Setup /\ outcomes \in SUBSET Outcome /\ outcomes' \in SUBSET Outcome
  BY DEF TickInv, TypeInv, TypeOK
<1>3. \A q \in pending : Advanced(q, e).setup = q.setup
  BY <1>2 DEF Advanced, Setup
<1>4. ASSUME NEW p \in pending'
      PROVE  Follows(accepted', p) /\ MeasuredFor(p.setup)' = p.done
  <2>1. PICK q \in pending : p = Advanced(q, e)
    BY <1>1
  <2>2. Follows(accepted', p)
    BY <2>1, FollowsKept DEF TrackerInv
  <2>3. MeasuredFor(q.setup)' = p.done
    BY <2>1, MeasuredMore
  <2> QED
    BY <1>3, <2>1, <2>2, <2>3
<1>5. ASSUME NEW q \in pending, q.setup \notin Followed'
      PROVE  MeasuredFor(q.setup)' = Horizons
  <2>1. Advanced(q, e) \notin pending'
    <3>1. Followed' = {p.setup : p \in pending'}
      BY DEF Followed
    <3> QED
      BY <1>3, <1>5, <3>1
  <2>2. Advanced(q, e).done = Horizons
    BY <1>1, <2>1
  <2> QED
    BY <2>2, MeasuredMore
<1>6. ASSUME NEW o \in outcomes'
      PROVE  /\ Measures(accepted', o)
             /\ o.setup \notin Followed' => MeasuredFor(o.setup)' = Horizons
  <2>1. CASE o \in outcomes
    <3>1. Measures(accepted', o)
      BY <1>2, <2>1, MeasuresKept DEF TrackerInv
    <3>2. ASSUME o.setup \notin Followed' PROVE MeasuredFor(o.setup)' = Horizons
      <4>1. CASE o.setup \in Followed
        <5>1. PICK q \in pending : q.setup = o.setup
          BY <4>1 DEF Followed
        <5> QED
          BY <1>5, <3>2, <5>1
      <4>2. CASE o.setup \notin Followed
        <5>1. MeasuredFor(o.setup) = Horizons
          BY <2>1, <4>2 DEF TrackerInv
        <5>2. MeasuredFor(o.setup)' = {u.horizon : u \in {u \in outcomes' : u.setup = o.setup}}
          BY DEF MeasuredFor
        <5>3. \A u \in outcomes' : u.horizon \in Horizons
          BY <1>2 DEF Outcome
        <5>4. outcomes \in SUBSET outcomes'
          BY <1>1
        <5> QED
          BY <5>1, <5>2, <5>3, <5>4 DEF MeasuredFor
      <4> QED
        BY <4>1, <4>2
    <3> QED
      BY <3>1, <3>2
  <2>2. CASE o \in new
    <3>1. PICK q \in pending : q.entry # None /\ o \in Emitted(q, e)
      BY <2>2
    <3>2. Measures(accepted', o)
      BY <3>1, EmittedMeasures DEF TrackerInv
    <3>3. o.setup = q.setup
      BY <3>1 DEF Emitted
    <3> QED
      BY <1>5, <3>2, <3>3
  <2> QED
    BY <1>1, <2>1, <2>2
<1> QED
  BY <1>4, <1>6 DEF TrackerInv

(* The setup an evaluation starts is new to the tracker.                   *)
LEMMA EvaluationKeepsTracker ==
  ASSUME TickInv, TrackerInv, EvaluationEnds
  PROVE  TrackerInv'
<1>1. /\ busy /\ accepted' = accepted /\ outcomes' = outcomes
  BY DEF EvaluationEnds
<1>2. \A s : MeasuredFor(s)' = MeasuredFor(s)
  BY <1>1 DEF MeasuredFor
<1>3. CASE pending' = pending
  BY <1>1, <1>2, <1>3 DEF TrackerInv, Followed
<1>4. CASE pending' # pending
  <2> DEFINE s == closed[Len(closed)].close
             p == [setup |-> s, entry |-> None, count |-> 0, last |-> None, done |-> {}]
  <2>1. pending' = pending \cup {p}
    BY <1>4 DEF EvaluationEnds
  <2>2. /\ closed \in Seq(BarType) /\ closed # <<>> /\ Closes(accepted, Len(accepted), s)
        /\ accepted \in Seq(Epoch)
    BY <1>1 DEF TickInv, AtNewest, TypeInv, TypeOK
  <2>3. s \in Int
    <3>1. closed[Len(closed)] \in BarType
      BY <2>2
    <3> QED
      BY <3>1 DEF BarType
  <2> HIDE DEF s
  <2>4. FollowsAt(accepted, p, Len(accepted)) /\ Len(accepted) \in DOMAIN accepted
    BY <2>2 DEF FollowsAt, Closes
  <2>5. Follows(accepted, p)
    BY <2>4 DEF Follows
  <2>6. ASSUME NEW o \in outcomes PROVE o.setup # s
    <3>1. PICK c \in DOMAIN accepted, x \in DOMAIN accepted : MeasuresAt(accepted, o, c, x)
      BY DEF TrackerInv, Measures
    <3>2. Closes(accepted, c, o.setup) /\ c + 1 \in DOMAIN accepted
      BY <3>1 DEF MeasuresAt
    <3>3. Len(accepted) + 1 \notin DOMAIN accepted
      BY <2>2
    <3> QED
      BY <2>2, <2>3, <3>2, <3>3, ClosesOnce
  <2>7. MeasuredFor(p.setup) = p.done
    BY <2>6 DEF MeasuredFor
  <2>8. \A q \in pending' : Follows(accepted', q) /\ MeasuredFor(q.setup)' = q.done
    BY <1>1, <1>2, <2>1, <2>5, <2>7 DEF TrackerInv
  <2>9. \A o \in outcomes' : /\ Measures(accepted', o)
                             /\ o.setup \notin Followed' => MeasuredFor(o.setup)' = Horizons
    <3>1. Followed \in SUBSET Followed'
      BY <2>1 DEF Followed
    <3> QED
      BY <1>1, <1>2, <3>1 DEF TrackerInv
  <2> QED
    BY <2>8, <2>9 DEF TrackerInv
<1> QED
  BY <1>3, <1>4

LEMMA TrackerKept ==
  ASSUME TickInv, TrackerInv, [Next]_vars
  PROVE  TrackerInv'
<1>1. ASSUME UNCHANGED <<accepted, pending, outcomes>> PROVE TrackerInv'
  <2>1. Followed' = Followed /\ \A s : MeasuredFor(s)' = MeasuredFor(s)
    BY <1>1 DEF Followed, MeasuredFor
  <2> QED
    BY <1>1, <2>1 DEF TrackerInv
<1>2. CASE DerivTicks \/ TickRepeated \/ Subscribe \/ RejectTick \/ UNCHANGED vars
  <2>1. Quiet
    BY <1>2, QuietSteps
  <2> QED
    BY <1>1, <2>1 DEF Quiet
<1>3. CASE SeedCandles
  BY <1>1, <1>3 DEF SeedCandles
<1>4. CASE Restart \/ \E e \in Epoch : BuilderRaises(e)
  <2>1. pending' = {} /\ outcomes' = {}
    BY <1>4 DEF Restart, BuilderRaises, Forgotten
  <2> QED
    BY <2>1 DEF TrackerInv
<1>5. CASE EvaluationEnds
  BY <1>5, EvaluationKeepsTracker
<1>6. ASSUME NEW e \in Epoch, TickExtendsBar(e) \/ TickClosesBar(e) PROVE TrackerInv'
  BY <1>6, TickKeepsTracker, TypeKept DEF TickInv
<1> QED
  BY <1>2, <1>3, <1>4, <1>5, <1>6 DEF Next

(* The definitions by CHOOSE name the ticks of the invariant.              *)
LEMMA EntryIs ==
  ASSUME TickInv, NEW c, NEW s \in Int, Closes(accepted, c, s)
  PROVE  EntryIndex(s) = c + 1
<1>1. /\ accepted \in Seq(Nat) /\ Len(accepted) \in Nat /\ DOMAIN accepted = 1..Len(accepted)
  BY AcceptedType
<1>2. c \in DOMAIN accepted /\ accepted[c] > s /\ \A j \in 1..c - 1 : accepted[j] <= s
  BY DEF Closes
<1> DEFINE First(i) == accepted[i] > s /\ \A j \in DOMAIN accepted : accepted[j] > s => i <= j
<1>3. First(c)
  <2> SUFFICES ASSUME NEW j \in DOMAIN accepted, accepted[j] > s PROVE c <= j
    BY <1>2
  <2>1. accepted[j] \in Nat /\ j \in Nat /\ c \in Nat /\ 1 <= j
    BY <1>1, <1>2
  <2>2. ASSUME j < c PROVE FALSE
    <3>1. j \in 1..c - 1
      BY <2>1, <2>2
    <3> QED
      BY <1>2, <2>1, <3>1
  <2> QED
    BY <2>1, <2>2
<1>4. ASSUME NEW i \in DOMAIN accepted, First(i) PROVE i = c
  <2>1. i <= c /\ c <= i
    BY <1>2, <1>3, <1>4
  <2> QED
    BY <1>1, <1>2, <2>1
<1> HIDE DEF First
<1>5. (CHOOSE i \in DOMAIN accepted : First(i)) = c
  BY <1>2, <1>3, <1>4
<1>6. EntryIndex(s) = 1 + (CHOOSE i \in DOMAIN accepted : First(i))
  BY DEF EntryIndex, First
<1>7. EntryIndex(s) = 1 + c
  BY <1>5, <1>6, Zenon
<1>8. c \in Nat
  BY <1>1, <1>2
<1> QED
  BY <1>7, <1>8

LEMMA EndsOnce ==
  ASSUME TickInv, NEW h \in Horizons, NEW c \in DOMAIN accepted, NEW x \in DOMAIN accepted,
         c + 1 \in DOMAIN accepted, Ends(accepted, x, c, h), h[1] # "t"
  PROVE  /\ x \in c + 1..Len(accepted) /\ accepted[x] <= accepted[c + 1] + h[2]
         /\ \A j \in x + 1..Len(accepted) : accepted[j] > accepted[c + 1] + h[2]
<1>1. /\ accepted \in Seq(Nat) /\ Len(accepted) \in Nat /\ DOMAIN accepted = 1..Len(accepted)
  BY AcceptedType
<1>2. /\ c + 1 <= x /\ x + 1 \in DOMAIN accepted
      /\ accepted[x] <= accepted[c + 1] + h[2] /\ accepted[x + 1] > accepted[c + 1] + h[2]
  BY DEF Ends
<1>3. h[2] \in Nat /\ \A i \in DOMAIN accepted : accepted[i] \in Nat
  BY <1>1, HorizonKinds
<1>4. ASSUME NEW j \in x + 1..Len(accepted) PROVE accepted[j] > accepted[c + 1] + h[2]
  <2>1. j \in DOMAIN accepted /\ (j = x + 1 \/ x + 1 < j)
    BY <1>1
  <2>2. accepted[x + 1] <= accepted[j]
    BY <1>2, <1>3, <2>1 DEF TickInv, InOrder
  <2>3. \A a, b, m \in Int : a > m /\ a <= b => b > m
    OBVIOUS
  <2>4. accepted[c + 1] + h[2] \in Int
    BY <1>3
  <2> QED
    BY <1>2, <1>3, <2>1, <2>2, <2>3, <2>4
<1> QED
  BY <1>1, <1>2, <1>4

LEMMA LastOnce ==
  ASSUME NEW ticks \in Seq(Nat), NEW m \in Int,
         NEW i \in 1..Len(ticks), ticks[i] <= m,
         \A j \in i + 1..Len(ticks) : ticks[j] > m,
         NEW x \in 1..Len(ticks), ticks[x] <= m,
         \A j \in x + 1..Len(ticks) : ticks[j] > m
  PROVE  i = x
<1>1. ticks[i] \in Nat /\ ticks[x] \in Nat
  OBVIOUS
<1>2. x \notin i + 1..Len(ticks) /\ i \notin x + 1..Len(ticks)
  BY <1>1
<1>3. Len(ticks) \in Nat
  OBVIOUS
<1> QED
  BY <1>2, <1>3

LEMMA ExitIs ==
  ASSUME TickInv, NEW h \in Horizons, NEW s \in Int, NEW c \in DOMAIN accepted,
         NEW x \in DOMAIN accepted, Closes(accepted, c, s), c + 1 \in DOMAIN accepted,
         Ends(accepted, x, c, h)
  PROVE  ExitIndex(s, h) = x
<1>1. EntryIndex(s) = c + 1
  BY EntryIs
<1>2. CASE h[1] = "t"
  BY <1>1, <1>2 DEF ExitIndex, Ends
<1>3. CASE h[1] # "t"
  <2> DEFINE Last(i) == /\ accepted[i] <= accepted[c + 1] + h[2]
                        /\ \A j \in i + 1..Len(accepted) : accepted[j] > accepted[c + 1] + h[2]
  <2>1. x \in c + 1..Len(accepted) /\ Last(x)
    BY <1>3, EndsOnce
  <2>2. /\ accepted \in Seq(Nat) /\ Len(accepted) \in Nat
        /\ DOMAIN accepted = 1..Len(accepted) /\ h[2] \in Nat /\ c \in Nat /\ x \in Nat
    BY AcceptedType, HorizonKinds
  <2>3. ASSUME NEW i \in c + 1..Len(accepted), Last(i) PROVE i = x
    <3> DEFINE m == accepted[c + 1] + h[2]
    <3>1. m \in Int
      BY <2>2
    <3>2. /\ i \in 1..Len(accepted) /\ accepted[i] <= m
          /\ \A j \in i + 1..Len(accepted) : accepted[j] > m
      BY <2>2, <2>3
    <3>3. /\ x \in 1..Len(accepted) /\ accepted[x] <= m
          /\ \A j \in x + 1..Len(accepted) : accepted[j] > m
      BY <2>1, <2>2
    <3> HIDE DEF m, Last
    <3> QED
      BY <2>2, <3>1, <3>2, <3>3, LastOnce
  <2> HIDE DEF Last
  <2>4. (CHOOSE i \in c + 1..Len(accepted) : Last(i)) = x
    BY <2>1, <2>3
  <2> QED
    BY <1>1, <1>3, <2>4 DEF ExitIndex, Last
<1> QED
  BY <1>2, <1>3

LEMMA OutcomesAreThose ==
  ASSUME TickInv, TrackerInv
  PROVE  OutcomesAreReal
<1> SUFFICES ASSUME NEW o \in outcomes
             PROVE  /\ o.entry = accepted[EntryIndex(o.setup)]
                    /\ o.exit = accepted[ExitIndex(o.setup, o.horizon)]
  BY DEF OutcomesAreReal
<1>1. o \in Outcome
  BY DEF TickInv, TypeInv, TypeOK
<1>2. o.setup \in Int /\ o.horizon \in Horizons
  BY <1>1 DEF Outcome
<1>3. PICK c \in DOMAIN accepted, x \in DOMAIN accepted : MeasuresAt(accepted, o, c, x)
  BY DEF TrackerInv, Measures
<1>4. EntryIndex(o.setup) = c + 1 /\ ExitIndex(o.setup, o.horizon) = x
  BY <1>2, <1>3, EntryIs, ExitIs DEF MeasuresAt
<1> QED
  BY <1>3, <1>4 DEF MeasuresAt

LEMMA MeasuredJustOnce ==
  ASSUME TickInv, TrackerInv
  PROVE  EverySetupIsMeasuredOnce
<1>1. ASSUME NEW o \in outcomes, NEW o2 \in outcomes, o2.setup = o.setup,
             o2.horizon = o.horizon
      PROVE  o2 = o
  <2>1. o \in Outcome /\ o2 \in Outcome
    BY DEF TickInv, TypeInv, TypeOK
  <2>2. o.setup \in Int /\ o.horizon \in Horizons
    BY <2>1 DEF Outcome
  <2>3. PICK c \in DOMAIN accepted, x \in DOMAIN accepted : MeasuresAt(accepted, o, c, x)
    BY DEF TrackerInv, Measures
  <2>4. PICK c2 \in DOMAIN accepted, x2 \in DOMAIN accepted : MeasuresAt(accepted, o2, c2, x2)
    BY DEF TrackerInv, Measures
  <2>5. c2 = c
    BY <1>1, <2>2, <2>3, <2>4, ClosesOnce DEF MeasuresAt
  <2>6. x2 = x
    <3>1. ExitIndex(o.setup, o.horizon) = x
      BY <2>2, <2>3, ExitIs DEF MeasuresAt
    <3>2. ExitIndex(o2.setup, o2.horizon) = x2
      BY <1>1, <2>2, <2>4, ExitIs DEF MeasuresAt
    <3> QED
      BY <1>1, <3>1, <3>2
  <2>7. o2.entry = o.entry /\ o2.exit = o.exit /\ o2.at = o.at
    BY <1>1, <2>3, <2>4, <2>5, <2>6 DEF MeasuresAt
  <2> QED
    BY <1>1, <2>1, <2>7 DEF Outcome
<1>2. ASSUME NEW o \in outcomes, o.setup \notin {p.setup : p \in pending}
      PROVE  {o2.horizon : o2 \in {o2 \in outcomes : o2.setup = o.setup}} = Horizons
  BY <1>2 DEF TrackerInv, Followed, MeasuredFor
<1> QED
  BY <1>1, <1>2 DEF EverySetupIsMeasuredOnce

LEMMA TrackerAlways ==
  Spec => [](TickInv /\ TrackerInv)
<1>1. Init => TickInv /\ TrackerInv
  <2>1. Init => TrackerInv
    BY DEF Init, TrackerInv
  <2> QED
    BY <2>1, OrderInitially
<1>2. TickInv /\ TrackerInv /\ [Next]_vars => (TickInv /\ TrackerInv)'
  BY OrderKept, TrackerKept
<1> QED
  BY <1>1, <1>2, PTL DEF Spec

(* An outcome is what the accepted ticks say it is: its entry the first    *)
(* tick after the one that closed the setup's bar, its exit the tick its   *)
(* expiry falls on, for every set of expiries and whatever was dropped,    *)
(* repeated or thrown away.                                                *)
THEOREM OutcomesAreRight ==
  Spec => []OutcomesAreReal
<1>1. TickInv /\ TrackerInv => OutcomesAreReal
  BY OutcomesAreThose
<1> QED
  BY <1>1, TrackerAlways, PTL

(* No expiry of a setup is measured twice, and a setup is let go only      *)
(* when each of them has been measured.                                    *)
THEOREM SetupsAreMeasuredOnce ==
  Spec => []EverySetupIsMeasuredOnce
<1>1. TickInv /\ TrackerInv => EverySetupIsMeasuredOnce
  BY MeasuredJustOnce
<1> QED
  BY <1>1, TrackerAlways, PTL

=============================================================================

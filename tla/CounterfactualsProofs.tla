------------------------ MODULE CounterfactualsProofs -------------------------
(***************************************************************************)
(* Proofs about Counterfactuals: the rows reconcile_rejected_signals       *)
(* selects, and what it writes into them, for every history.               *)
(***************************************************************************)
EXTENDS Counterfactuals, FiniteSetTheorems, SequenceTheorems, WellFoundedInduction, TLAPS

RejectedRow == [symbol: Symbols, bar: Nat, current: Nat, outcome: Verdicts]

-----------------------------------------------------------------------------
(* ORDER BY: the i-th of a finite set of numbers is the one of rank i      *)

(* How many elements of S come up to x.                                    *)
Rank(S, x) == Cardinality({y \in S : y <= x})

LEMMA NotEmpty ==
  ASSUME NEW S, IsFiniteSet(S), NEW x \in S
  PROVE  Cardinality(S) # 0
<1>1. Cardinality(S) = 0 <=> S = {}
  BY FS_EmptySet
<1> QED
  BY <1>1

LEMMA RankGrows ==
  ASSUME NEW S \in SUBSET Nat, IsFiniteSet(S)
  PROVE  /\ \A x \in S : Rank(S, x) \in 1..Cardinality(S)
         /\ \A x, y \in S : x < y => Rank(S, x) < Rank(S, y)
<1> DEFINE upto(x) == {y \in S : y <= x}
<1>1. \A x \in S : IsFiniteSet(upto(x)) /\ Cardinality(upto(x)) <= Cardinality(S)
  BY FS_Subset
<1>2. \A x \in S : Cardinality(upto(x)) \in Nat /\ Cardinality(S) \in Nat
  BY <1>1, FS_CardinalityType
<1>3. \A x \in S : x \in upto(x)
  OBVIOUS
<1>4. ASSUME NEW x \in S PROVE Cardinality(upto(x)) # 0
  <2>1. IsFiniteSet(upto(x)) /\ x \in upto(x)
    BY <1>1, <1>3
  <2> HIDE DEF upto
  <2> QED
    BY <2>1, NotEmpty
<1>5. ASSUME NEW x \in S, NEW y \in S, x < y
      PROVE  Cardinality(upto(x)) < Cardinality(upto(y))
  <2>1. upto(x) \in SUBSET upto(y) /\ y \in upto(y) /\ y \notin upto(x)
    <3>1. x \in Nat /\ y \in Nat /\ \A z \in S : z \in Nat
      OBVIOUS
    <3>2. \A z \in S : z <= x => z <= y
      BY <1>5, <3>1
    <3>3. y <= y /\ ~ (y <= x)
      BY <1>5, <3>1
    <3> QED
      BY <3>2, <3>3
  <2> HIDE DEF upto
  <2>2. /\ Cardinality(upto(x)) <= Cardinality(upto(y))
        /\ Cardinality(upto(y)) # Cardinality(upto(x))
    BY <1>1, <2>1, FS_Subset
  <2> QED
    BY <1>2, <2>2
<1> QED
  BY <1>1, <1>2, <1>4, <1>5 DEF Rank

LEMMA RankIsReached ==
  ASSUME NEW S \in SUBSET Nat, IsFiniteSet(S), NEW i \in 1..Cardinality(S)
  PROVE  \E x \in S : Rank(S, x) = i
<1> DEFINE n == Cardinality(S)
           r == [x \in S |-> Rank(S, x)]
<1>1. n \in Nat
  BY FS_CardinalityType
<1>2. r \in [S -> 1..n] /\ \A x, y \in S : x < y => r[x] < r[y]
  BY RankGrows
<1>3. \A x \in S : r[x] = Rank(S, x)
  OBVIOUS
<1> HIDE DEF r
<1>4. \A x, y \in S : r[x] = r[y] => x = y
  <2>1. \A x, y \in S : x \in Nat /\ y \in Nat /\ r[x] \in Nat /\ r[y] \in Nat
    BY <1>1, <1>2
  <2> QED
    BY <1>2, <2>1
<1>5. r \in Injection(S, 1..n)
  BY <1>2, <1>4 DEF Injection, IsInjective
<1>6. IsFiniteSet(1..n) /\ Cardinality(1..n) = n
  BY <1>1, FS_Interval
<1>7. r \in Surjection(S, 1..n)
  BY <1>5, <1>6, FS_Injection
<1> QED
  BY <1>3, <1>7 DEF Surjection

-----------------------------------------------------------------------------
(* One pass: ORDER BY ts LIMIT BatchSize                                   *)

LEMMA RowNumbers ==
  ASSUME rejected \in Seq(RejectedRow)
  PROVE  /\ DOMAIN rejected = 1..Len(rejected) /\ Len(rejected) \in Nat
         /\ Unevaluated \in SUBSET Nat /\ IsFiniteSet(Unevaluated)
         /\ Unevaluated \subseteq DOMAIN rejected
<1>1. DOMAIN rejected = 1..Len(rejected) /\ Len(rejected) \in Nat
  BY LenProperties
<1>2. IsFiniteSet(1..Len(rejected))
  BY <1>1, FS_Interval
<1>3. Unevaluated \in SUBSET (1..Len(rejected))
  BY <1>1 DEF Unevaluated
<1>4. IsFiniteSet(Unevaluated)
  BY <1>2, <1>3, FS_Subset
<1> QED
  BY <1>1, <1>3, <1>4

(* A pass selects the oldest rows that have no verdict, each once and in   *)
(* the order they were entered, and as many as the batch holds.            *)
LEMMA SelectionIsTheOldest ==
  ASSUME rejected \in Seq(RejectedRow)
  PROVE  /\ Selected \in Seq(Unevaluated) /\ Len(Selected) <= BatchSize
         /\ \A i, j \in 1..Len(Selected) : i < j => Selected[i] < Selected[j]
         /\ \A r \in Unevaluated : \/ \E i \in 1..Len(Selected) : Selected[i] = r
                                   \/ /\ Len(Selected) = BatchSize
                                      /\ \A i \in 1..Len(Selected) : Selected[i] < r
<1> DEFINE U == Unevaluated
           n == Cardinality(U)
           k == IF n <= BatchSize THEN n ELSE BatchSize
<1>1. U \in SUBSET Nat /\ IsFiniteSet(U)
  BY RowNumbers
<1>2. n \in Nat /\ BatchSize \in Nat
  BY <1>1, FS_CardinalityType, HistoryAssumption
<1>3. \A i \in 1..n : \E r \in U : Rank(U, r) = i
  BY <1>1, RankIsReached
<1>4. /\ \A r \in U : Rank(U, r) \in 1..n
      /\ \A r, q \in U : r < q => Rank(U, r) < Rank(U, q)
  BY <1>1, RankGrows
<1>5. Selected = [i \in {i \in 1..n : i <= BatchSize} |-> CHOOSE r \in U : Rank(U, r) = i]
  BY DEF Selected, Rank
<1> HIDE DEF U, n
<1>6. {i \in 1..n : i <= BatchSize} = 1..k /\ k \in Nat /\ k <= n /\ k <= BatchSize
  BY <1>2
<1>7. k = BatchSize \/ k = n
  OBVIOUS
<1> HIDE DEF k
<1>8. Selected = [i \in 1..k |-> CHOOSE r \in U : Rank(U, r) = i]
  BY <1>5, <1>6
<1>9. \A i \in 1..k : i \in 1..n
  BY <1>2, <1>6
<1>10. \A i \in 1..k : Selected[i] \in U /\ Rank(U, Selected[i]) = i
  BY <1>3, <1>8, <1>9
<1>11. Selected \in [1..k -> U]
  BY <1>8, <1>10
<1>12. Selected \in Seq(U) /\ Len(Selected) = k
  BY <1>6, <1>11, SeqDef, LenProperties
<1>13. ASSUME NEW r \in U, NEW q \in U, Rank(U, r) < Rank(U, q) PROVE r < q
  BY <1>1, <1>2, <1>4, <1>13
<1>14. ASSUME NEW i \in 1..k, NEW j \in 1..k, i < j PROVE Selected[i] < Selected[j]
  BY <1>10, <1>13, <1>14
<1>15. ASSUME NEW r \in U
       PROVE  \/ \E i \in 1..k : Selected[i] = r
              \/ k = BatchSize /\ \A i \in 1..k : Selected[i] < r
  <2>1. Rank(U, r) \in 1..n
    BY <1>4
  <2>2. CASE Rank(U, r) <= k
    <3>1. Rank(U, r) \in 1..k
      BY <1>2, <1>6, <2>1, <2>2
    <3>2. /\ Selected[Rank(U, r)] \in U
          /\ Rank(U, Selected[Rank(U, r)]) = Rank(U, r)
      BY <1>10, <3>1
    <3>3. Selected[Rank(U, r)] \in Nat /\ r \in Nat
      BY <1>1, <3>2
    <3>4. Selected[Rank(U, r)] = r
      BY <1>2, <1>4, <2>1, <3>2, <3>3
    <3> QED
      BY <3>1, <3>4
  <2>3. CASE ~ Rank(U, r) <= k
    <3>1. k = BatchSize
      BY <1>2, <1>6, <1>7, <2>1, <2>3
    <3>2. \A i \in 1..k : Rank(U, Selected[i]) < Rank(U, r)
      BY <1>2, <1>6, <1>10, <2>1, <2>3
    <3>3. \A i \in 1..k : Selected[i] < r
      BY <1>10, <1>13, <3>2
    <3> QED
      BY <3>1, <3>3
  <2> QED
    BY <2>2, <2>3
<1> QED
  BY <1>6, <1>12, <1>14, <1>15 DEF U

-----------------------------------------------------------------------------
(* Types                                                                   *)

LEMMA MoreRows ==
  ASSUME NEW S, NEW s \in Seq(S), NEW x \in S
  PROVE  /\ Append(s, x) \in Seq(S) /\ Len(s) \in Nat
         /\ DOMAIN s = 1..Len(s) /\ DOMAIN Append(s, x) = 1..(Len(s) + 1)
         /\ \A i \in 1..Len(s) : Append(s, x)[i] = s[i]
         /\ Append(s, x)[Len(s) + 1] = x
<1>1. /\ Append(s, x) \in Seq(S) /\ Len(Append(s, x)) = Len(s) + 1
      /\ \A i \in 1..Len(s) : Append(s, x)[i] = s[i] /\ Append(s, x)[Len(s) + 1] = x
  BY AppendProperties
<1>2. Len(s) \in Nat /\ DOMAIN s = 1..Len(s)
  BY LenProperties
<1>3. DOMAIN Append(s, x) = 1..(Len(s) + 1) /\ Append(s, x)[Len(s) + 1] = x
  BY <1>1, LenProperties, AppendProperties
<1> QED
  BY <1>1, <1>2, <1>3

(* A row's bar is in the table; the bar that was current when it was       *)
(* stamped is over, and no earlier one.                                    *)
RowFits(row, bars, over) ==
  row.bar \in DOMAIN bars /\ row.bar <= row.current /\ row.current <= over

(* The part of the types the verdicts rest on.                             *)
HistoryType ==
  /\ ended \in [Symbols -> Nat]
  /\ candles \in [Symbols -> Seq(Bar)]
  /\ \A s \in Symbols : Len(candles[s]) <= ended[s]
  /\ rejected \in Seq(RejectedRow)
  /\ \A r \in DOMAIN rejected :
       RowFits(rejected[r], candles[rejected[r].symbol], ended[rejected[r].symbol])

LEMMA BarFacts ==
  ASSUME HistoryType, NEW s \in Symbols, NEW bar \in Kinds, BarCloses(s, bar)
  PROVE  /\ candles' \in [Symbols -> Seq(Bar)] /\ rejected' \in Seq(RejectedRow)
         /\ ended' = ended /\ \A t \in Symbols : Len(candles'[t]) <= ended[t]
         /\ \A t \in Symbols : \A i \in DOMAIN candles[t] :
              i \in DOMAIN candles'[t] /\ candles'[t][i] = candles[t][i]
         /\ DOMAIN rejected \subseteq DOMAIN rejected'
         /\ \A r \in DOMAIN rejected : rejected'[r] = rejected[r]
         /\ \A r \in DOMAIN rejected' \ DOMAIN rejected :
              /\ rejected'[r].outcome = "unknown"
              /\ RowFits(rejected'[r], candles'[rejected'[r].symbol],
                         ended[rejected'[r].symbol])
<1>1. bar \in Bar /\ candles[s] \in Seq(Bar)
  BY KindsAssumption DEF HistoryType
<1>2. /\ candles'[s] = Append(candles[s], bar)
      /\ \A t \in Symbols \ {s} : candles'[t] = candles[t]
      /\ candles' = [candles EXCEPT ![s] = Append(candles[s], bar)]
  BY DEF BarCloses, HistoryType
<1>3. /\ Append(candles[s], bar) \in Seq(Bar) /\ Len(candles[s]) \in Nat
      /\ DOMAIN candles[s] = 1..Len(candles[s])
      /\ DOMAIN Append(candles[s], bar) = 1..(Len(candles[s]) + 1)
      /\ \A i \in 1..Len(candles[s]) : Append(candles[s], bar)[i] = candles[s][i]
  BY <1>1, MoreRows
<1>4. /\ candles' \in [Symbols -> Seq(Bar)]
      /\ ended' = ended /\ \A t \in Symbols : Len(candles'[t]) <= ended[t]
  <2>1. ended' = ended /\ Len(candles[s]) < ended[s] /\ ended[s] \in Nat
    BY DEF BarCloses, HistoryType
  <2>2. Len(Append(candles[s], bar)) = Len(candles[s]) + 1
    BY <1>1, AppendProperties
  <2>3. Len(candles'[s]) <= ended[s]
    BY <1>2, <1>3, <2>1, <2>2
  <2> QED
    BY <1>2, <1>3, <2>1, <2>3 DEF HistoryType
<1>5. \A t \in Symbols : \A i \in DOMAIN candles[t] :
        i \in DOMAIN candles'[t] /\ candles'[t][i] = candles[t][i]
  BY <1>2, <1>3
<1> DEFINE row == [symbol |-> s, bar |-> Len(candles[s]) + 1, current |-> ended[s],
                  outcome |-> "unknown"]
<1>6. /\ row \in RejectedRow /\ row.outcome = "unknown"
      /\ RowFits(row, candles'[row.symbol], ended[row.symbol])
  <2>1. Len(candles[s]) < ended[s] /\ ended[s] \in Nat
    BY DEF BarCloses, HistoryType
  <2> QED
    BY <1>2, <1>3, <2>1 DEF RejectedRow, Verdicts, RowFits
<1>7. rejected \in Seq(RejectedRow)
  BY DEF HistoryType
<1> HIDE DEF row
<1>8. CASE bar.decision = "TRADE"
  <2>1. rejected' = rejected
    BY <1>7, <1>8, ConcatEmptySeq DEF BarCloses, Refusal
  <2> QED
    BY <1>4, <1>5, <1>7, <2>1
<1>9. CASE bar.decision # "TRADE"
  <2>1. rejected' = Append(rejected, row)
    BY <1>6, <1>7, <1>9, AppendIsConcat DEF BarCloses, Refusal, row
  <2>2. /\ rejected' \in Seq(RejectedRow) /\ Len(rejected) \in Nat
        /\ DOMAIN rejected = 1..Len(rejected) /\ DOMAIN rejected' = 1..(Len(rejected) + 1)
        /\ \A i \in 1..Len(rejected) : rejected'[i] = rejected[i]
        /\ rejected'[Len(rejected) + 1] = row
    BY <1>6, <1>7, <2>1, MoreRows
  <2>3. \A r \in DOMAIN rejected' \ DOMAIN rejected : rejected'[r] = row
    BY <2>2
  <2> QED
    BY <1>4, <1>5, <1>6, <2>2, <2>3
<1> QED
  BY <1>8, <1>9

SameSignal(row, other) ==
  row.symbol = other.symbol /\ row.bar = other.bar /\ row.current = other.current

(* Judging and losing a verdict change the outcome of rows, nothing else.  *)
LEMMA VerdictFacts ==
  ASSUME rejected \in Seq(RejectedRow), JudgeRow \/ Crash
  PROVE  /\ UNCHANGED <<ended, candles>> /\ rejected' \in Seq(RejectedRow)
         /\ DOMAIN rejected' = DOMAIN rejected
         /\ \A r \in DOMAIN rejected : SameSignal(rejected'[r], rejected[r])
<1>1. DOMAIN rejected = 1..Len(rejected) /\ Len(rejected) \in Nat
      /\ \A r \in DOMAIN rejected : rejected[r] \in RejectedRow
  BY LenProperties, ElementOfSeq
<1>2. ASSUME NEW f, DOMAIN f = DOMAIN rejected, f = [r \in DOMAIN rejected |-> f[r]],
             \A r \in DOMAIN rejected :
               \/ f[r] = rejected[r]
               \/ \E v \in Verdicts : f[r] = [rejected[r] EXCEPT !.outcome = v]
      PROVE  /\ f \in Seq(RejectedRow)
             /\ \A r \in DOMAIN rejected : SameSignal(f[r], rejected[r])
  <2>1. ASSUME NEW r \in DOMAIN rejected
        PROVE  f[r] \in RejectedRow /\ SameSignal(f[r], rejected[r])
    BY <1>1, <1>2 DEF RejectedRow, SameSignal
  <2>2. f \in [1..Len(rejected) -> RejectedRow]
    BY <1>1, <1>2, <2>1
  <2> QED
    BY <1>1, <2>1, <2>2, SeqDef
<1>3. CASE JudgeRow
  <2>1. UNCHANGED <<ended, candles>>
    BY <1>3 DEF JudgeRow
  <2>2. CASE rejected' = rejected
    BY <2>1, <2>2 DEF SameSignal
  <2>3. ASSUME NEW v \in Verdicts, rejected' = [rejected EXCEPT ![Head(batch)].outcome = v]
        PROVE  /\ rejected' \in Seq(RejectedRow) /\ DOMAIN rejected' = DOMAIN rejected
               /\ \A r \in DOMAIN rejected : SameSignal(rejected'[r], rejected[r])
    <3>1. /\ DOMAIN rejected' = DOMAIN rejected
          /\ rejected' = [r \in DOMAIN rejected |-> rejected'[r]]
          /\ \A r \in DOMAIN rejected :
               rejected'[r] \in {rejected[r], [rejected[r] EXCEPT !.outcome = v]}
      BY <2>3
    <3> QED
      BY <1>2, <3>1
  <2>4. \/ rejected' = rejected
        \/ \E v \in Verdicts : rejected' = [rejected EXCEPT ![Head(batch)].outcome = v]
    <3>1. \A d, entry, exit : Verdict(d, entry, exit) \in Verdicts
      BY DEF Verdict, Verdicts
    <3> QED
      BY <1>3, <3>1 DEF JudgeRow
  <2> QED
    BY <2>1, <2>2, <2>3, <2>4
<1>4. CASE Crash
  <2>1. rejected' = [r \in DOMAIN rejected |->
                       IF r \in uncommitted THEN [rejected[r] EXCEPT !.outcome = "unknown"]
                       ELSE rejected[r]]
        /\ UNCHANGED <<ended, candles>>
    BY <1>4 DEF Crash
  <2> QED
    BY <1>2, <2>1 DEF Verdicts
<1> QED
  BY <1>3, <1>4

(* The verdicts of the reconciliation, and of build_training_examples.     *)
LEMMA HorizonIsTheSame == \A bar \in Nat : SettlementBar(bar) = bar + DurationBars
BY HistoryAssumption DEF SettlementBar

LEMMA TypeStep ==
  ASSUME TypeOK, [Next]_vars
  PROVE  TypeOK'
<1>0. HistoryType /\ rejected \in Seq(RejectedRow) /\ MaxCrashes \in Nat
      /\ BatchSize \in Nat /\ crashes \in Nat
  BY HistoryAssumption DEF TypeOK, HistoryType, RejectedRow, RowFits
<1>1. ASSUME NEW s \in Symbols, NEW bar \in Kinds, BarCloses(s, bar) PROVE TypeOK'
  <2>1. /\ candles' \in [Symbols -> Seq(Bar)] /\ rejected' \in Seq(RejectedRow)
        /\ ended' = ended /\ \A t \in Symbols : Len(candles'[t]) <= ended[t]
        /\ \A t \in Symbols : \A i \in DOMAIN candles[t] : i \in DOMAIN candles'[t]
        /\ DOMAIN rejected \subseteq DOMAIN rejected'
        /\ \A r \in DOMAIN rejected : rejected'[r] = rejected[r]
        /\ \A r \in DOMAIN rejected' \ DOMAIN rejected :
             RowFits(rejected'[r], candles'[rejected'[r].symbol], ended[rejected'[r].symbol])
    BY <1>0, <1>1, BarFacts
  <2>2. ASSUME NEW r \in DOMAIN rejected PROVE rejected[r].symbol \in Symbols
    <3>1. r \in 1..Len(rejected)
      BY <1>0, LenProperties
    <3>2. rejected[r] \in RejectedRow
      BY <1>0, <3>1, ElementOfSeq
    <3> QED
      BY <3>2 DEF RejectedRow
  <2>3. \A r \in DOMAIN rejected' :
          RowFits(rejected'[r], candles'[rejected'[r].symbol], ended'[rejected'[r].symbol])
    BY <1>0, <2>1, <2>2 DEF HistoryType, RowFits
  <2>4. UNCHANGED <<batch, crashes>> /\ uncommitted' = {}
    BY <1>1 DEF BarCloses
  <2>5. batch \in Seq(DOMAIN rejected')
    BY <2>1, SeqMonotonic DEF TypeOK
  <2> QED
    BY <2>1, <2>3, <2>4, <2>5 DEF TypeOK, RejectedRow, RowFits
<1>2. CASE SelectBatch
  <2>1. UNCHANGED <<ended, candles, rejected, uncommitted, crashes>> /\ batch' = Selected
    BY <1>2 DEF SelectBatch
  <2>2. Selected \in Seq(Unevaluated) /\ Len(Selected) <= BatchSize
    BY <1>0, SelectionIsTheOldest
  <2>3. Selected \in Seq(DOMAIN rejected)
    BY <1>0, <2>2, RowNumbers, SeqMonotonic
  <2> QED
    BY <2>1, <2>2, <2>3 DEF TypeOK
<1>3. CASE JudgeRow \/ Crash
  <2>1. /\ UNCHANGED <<ended, candles>> /\ rejected' \in Seq(RejectedRow)
        /\ DOMAIN rejected' = DOMAIN rejected
        /\ \A r \in DOMAIN rejected : SameSignal(rejected'[r], rejected[r])
    BY <1>0, <1>3, VerdictFacts
  <2>2. /\ batch' \in Seq(DOMAIN rejected) /\ Len(batch') <= BatchSize
        /\ uncommitted' \subseteq DOMAIN rejected /\ crashes' \in 0..MaxCrashes
    <3>1. CASE JudgeRow
      <4>1. /\ batch \in Seq(DOMAIN rejected) /\ batch # <<>> /\ batch' = Tail(batch)
            /\ Len(batch) \in Nat /\ Len(batch) <= BatchSize
        BY <3>1, LenProperties DEF JudgeRow, TypeOK
      <4>2. Head(batch) \in DOMAIN rejected /\ batch' \in Seq(DOMAIN rejected)
        BY <4>1, HeadTailProperties
      <4>3. Len(batch') = Len(batch) - 1
        BY <4>1, HeadTailProperties
      <4>4. uncommitted' \subseteq uncommitted \cup {Head(batch)} /\ crashes' = crashes
        BY <3>1 DEF JudgeRow
      <4>5. uncommitted \subseteq DOMAIN rejected /\ crashes \in 0..MaxCrashes
        BY DEF TypeOK
      <4>6. Len(batch') <= BatchSize
        BY <1>0, <4>1, <4>3
      <4> QED
        BY <4>2, <4>4, <4>5, <4>6
    <3>2. CASE Crash
      <4>1. /\ batch' = <<>> /\ uncommitted' = {} /\ crashes < MaxCrashes
            /\ crashes' = crashes + 1
        BY <3>2 DEF Crash
      <4>2. <<>> \in Seq(DOMAIN rejected) /\ Len(<<>>) = 0
        BY EmptySeq
      <4> QED
        BY <1>0, <4>1, <4>2
    <3> QED
      BY <1>3, <3>1, <3>2
  <2> QED
    BY <2>1, <2>2 DEF TypeOK, RejectedRow, SameSignal
<1>4. CASE UNCHANGED vars
  BY <1>4 DEF vars, TypeOK
<1>5. ASSUME NEW s \in Symbols, BarEnds(s) PROVE TypeOK'
  <2>1. /\ ended' \in [Symbols -> Nat] /\ \A t \in Symbols : ended[t] <= ended'[t]
        /\ UNCHANGED <<candles, rejected, batch, uncommitted, crashes>>
    BY <1>5 DEF BarEnds, TypeOK
  <2>2. \A t \in Symbols : ended[t] \in Nat /\ ended'[t] \in Nat /\ Len(candles[t]) \in Nat
    BY <2>1, LenProperties DEF TypeOK
  <2>3. \A t \in Symbols : Len(candles[t]) <= ended'[t]
    BY <2>1, <2>2 DEF TypeOK
  <2>4. ASSUME NEW r \in DOMAIN rejected PROVE rejected[r].current <= ended'[rejected[r].symbol]
    <3>1. rejected[r] \in RejectedRow
      BY <1>0, LenProperties, ElementOfSeq
    <3>2. /\ rejected[r].symbol \in Symbols /\ rejected[r].current \in Nat
          /\ rejected[r].current <= ended[rejected[r].symbol]
      BY <3>1 DEF RejectedRow, TypeOK
    <3> QED
      BY <2>1, <2>2, <3>2
  <2> QED
    BY <2>1, <2>3, <2>4 DEF TypeOK
<1> QED
  BY <1>1, <1>2, <1>3, <1>4, <1>5 DEF Next

(* The candles, the rows, the batch of a pass and what it has written      *)
(* always fit each other: a row's bar is stored and the one current at its *)
(* time is over, a batch names rows that exist and no more of them than    *)
(* its limit.                                                              *)
THEOREM TypeCorrect == Spec => []TypeOK
<1>1. Init => TypeOK
  <2>1. \A S : <<>> \in Seq(S) /\ Len(<<>>) = 0 /\ DOMAIN <<>> = {}
    OBVIOUS
  <2> QED
    BY <2>1, HistoryAssumption DEF Init, TypeOK
<1>2. TypeOK /\ [Next]_vars => TypeOK'
  BY TypeStep
<1> QED
  BY <1>1, <1>2, PTL DEF Spec

-----------------------------------------------------------------------------
(* The verdicts                                                            *)

LEMMA Judged ==
  ASSUME NEW rows, NEW h \in DOMAIN rows, rows[h] \in RejectedRow, NEW v
  PROVE  LET after == [rows EXCEPT ![h].outcome = v]
         IN  /\ after[h].outcome = v
             /\ SameSignal(after[h], rows[h])
             /\ DOMAIN after = DOMAIN rows
             /\ \A r \in DOMAIN rows \ {h} : after[r] = rows[r]
BY DEF RejectedRow, SameSignal

(* The verdict of a row over the whole of a history.                       *)
Settles(row, bars, v) ==
  /\ row.current + DurationBars \in DOMAIN bars
  /\ v = Verdict(bars[row.bar].direction, bars[row.current].close,
                 bars[row.current + DurationBars].close)

(* With a settlement candle in the table the entry candle is in it too, so *)
(* it is the one that was current, and not merely the last one stored.     *)
LEMMA SettledMeansStored ==
  ASSUME NEW bars \in Seq(Bar), NEW current \in Nat,
         SettlementBar(EntryBar(bars, current)) \in DOMAIN bars
  PROVE  /\ EntryBar(bars, current) = current
         /\ SettlementBar(EntryBar(bars, current)) = current + DurationBars
<1>1. Len(bars) \in Nat /\ DOMAIN bars = 1..Len(bars) /\ DurationBars \in Nat \ {0}
  BY LenProperties, HistoryAssumption
<1>2. EntryBar(bars, current) \in Nat
  BY <1>1 DEF EntryBar
<1>3. SettlementBar(EntryBar(bars, current)) = EntryBar(bars, current) + DurationBars
  BY <1>2, HorizonIsTheSame
<1>4. EntryBar(bars, current) < Len(bars)
  BY <1>1, <1>2, <1>3
<1>5. EntryBar(bars, current) = current
  <2>1. EntryBar(bars, current) # Len(bars)
    BY <1>1, <1>2, <1>4
  <2> QED
    BY <2>1 DEF EntryBar
<1> QED
  BY <1>3, <1>5

LEMMA VerdictsStep ==
  ASSUME TypeOK, VerdictsAreFinal, [Next]_vars
  PROVE  VerdictsAreFinal'
<1>0. /\ HistoryType /\ DurationBars \in Nat \ {0}
      /\ DOMAIN rejected = 1..Len(rejected) /\ rejected \in Seq(RejectedRow)
      /\ \A r \in DOMAIN rejected : rejected[r] \in RejectedRow
  BY HistoryAssumption, LenProperties, ElementOfSeq DEF TypeOK, HistoryType, RejectedRow, RowFits
<1>1. ASSUME NEW s \in Symbols, NEW bar \in Kinds, BarCloses(s, bar) PROVE VerdictsAreFinal'
  <2>1. /\ \A t \in Symbols : \A i \in DOMAIN candles[t] :
             i \in DOMAIN candles'[t] /\ candles'[t][i] = candles[t][i]
        /\ \A r \in DOMAIN rejected : rejected'[r] = rejected[r]
        /\ \A r \in DOMAIN rejected' \ DOMAIN rejected : rejected'[r].outcome = "unknown"
    BY <1>0, <1>1, BarFacts
  <2> SUFFICES ASSUME NEW r \in DOMAIN rejected', rejected'[r].outcome # "unknown"
               PROVE  Settles(rejected'[r], candles'[rejected'[r].symbol], rejected'[r].outcome)
    BY DEF VerdictsAreFinal, Settles
  <2>2. r \in DOMAIN rejected /\ rejected'[r] = rejected[r]
    BY <2>1
  <2> DEFINE t == rejected[r].symbol
             i == rejected[r].bar
             c == rejected[r].current
  <2>3. /\ t \in Symbols /\ i \in DOMAIN candles[t] /\ i \in Nat /\ c \in Nat /\ i <= c
        /\ Settles(rejected[r], candles[t], rejected[r].outcome)
    BY <1>0, <2>2 DEF VerdictsAreFinal, TypeOK, RejectedRow, Settles
  <2>4. c + DurationBars \in DOMAIN candles[t]
    BY <2>3 DEF Settles
  <2>5. c \in DOMAIN candles[t]
    <3>1. /\ DOMAIN candles[t] = 1..Len(candles[t]) /\ Len(candles[t]) \in Nat
      BY <1>0, <2>3, LenProperties DEF HistoryType
    <3> QED
      BY <1>0, <2>3, <2>4, <3>1
  <2> QED
    BY <2>1, <2>2, <2>3, <2>4, <2>5 DEF Settles
<1>2. ASSUME \/ SelectBatch \/ UNCHANGED vars \/ \E s \in Symbols : BarEnds(s)
      PROVE  VerdictsAreFinal'
  <2>1. UNCHANGED <<candles, rejected>>
    BY <1>2 DEF SelectBatch, BarEnds, vars
  <2> QED
    BY <2>1 DEF VerdictsAreFinal
<1>3. CASE JudgeRow
  <2> DEFINE h == Head(batch)
             row == rejected[h]
             bars == candles[row.symbol]
             entry == EntryBar(bars, row.current)
             v == Verdict(bars[row.bar].direction, bars[entry].close,
                          bars[SettlementBar(entry)].close)
  <2>1. candles' = candles
    BY <1>3 DEF JudgeRow
  <2>2. CASE SettlementBar(entry) \in DOMAIN bars
    <3>1. rejected' = [rejected EXCEPT ![h].outcome = v]
      BY <1>3, <2>2 DEF JudgeRow
    <3>2. h \in DOMAIN rejected
      BY <1>3, HeadTailProperties DEF JudgeRow, TypeOK
    <3>3. Settles(row, bars, v)
      <4>1. bars \in Seq(Bar) /\ row.current \in Nat
        BY <1>0, <3>2 DEF RejectedRow, HistoryType
      <4>2. entry = row.current /\ SettlementBar(entry) = row.current + DurationBars
        BY <2>2, <4>1, SettledMeansStored
      <4> QED
        BY <2>2, <4>2 DEF Settles
    <3>4. /\ rejected'[h].outcome = v /\ SameSignal(rejected'[h], row)
          /\ DOMAIN rejected' = DOMAIN rejected
          /\ \A r \in DOMAIN rejected \ {h} : rejected'[r] = rejected[r]
      <4>1. row \in RejectedRow
        BY <1>0, <3>2
      <4> HIDE DEF v, h
      <4> QED
        BY <3>1, <3>2, <4>1, Judged
    <3>5. Settles(rejected'[h], candles'[rejected'[h].symbol], rejected'[h].outcome)
      BY <2>1, <3>3, <3>4 DEF Settles, SameSignal
    <3> QED
      BY <2>1, <3>4, <3>5 DEF VerdictsAreFinal, Settles
  <2>3. CASE SettlementBar(entry) \notin DOMAIN bars
    <3>1. rejected' = rejected
      BY <1>3, <2>3 DEF JudgeRow
    <3> QED
      BY <2>1, <3>1 DEF VerdictsAreFinal
  <2> QED
    BY <2>2, <2>3
<1>4. CASE Crash
  <2>1. /\ candles' = candles /\ DOMAIN rejected' = DOMAIN rejected
        /\ \A r \in DOMAIN rejected :
             \/ rejected'[r] = rejected[r]
             \/ rejected'[r] = [rejected[r] EXCEPT !.outcome = "unknown"]
    BY <1>4 DEF Crash
  <2>2. \A r \in DOMAIN rejected :
          rejected'[r] = rejected[r] \/ rejected'[r].outcome = "unknown"
    BY <1>0, <2>1 DEF RejectedRow
  <2> QED
    BY <2>1, <2>2 DEF VerdictsAreFinal
<1> QED
  BY <1>1, <1>2, <1>3, <1>4 DEF Next

(* The verdict reconcile_rejected_signals writes is the one the complete   *)
(* history gives the moment of the signal: however late the candles come   *)
(* into the table, whatever a crash takes back, no row is judged from the  *)
(* wrong entry candle and none changes with a longer history.              *)
THEOREM VerdictsHold == Spec => []VerdictsAreFinal
<1>1. Init => VerdictsAreFinal
  BY DEF Init, VerdictsAreFinal
<1>2. TypeOK /\ VerdictsAreFinal /\ [Next]_vars => VerdictsAreFinal'
  BY VerdictsStep
<1> QED
  BY <1>1, <1>2, TypeCorrect, PTL DEF Spec

-----------------------------------------------------------------------------
(* Recursion and induction over the bars of a history                      *)

LEMMA LeastNumber ==
  ASSUME NEW T, T \subseteq Nat, T # {}
  PROVE  \E n \in T : \A m \in T : n <= m
<1>1. \E x \in T : \A y \in T : ~ (<<y, x>> \in OpToRel(<, Nat))
  BY NatLessThanWellFounded, WFMin
<1>2. OpToRel(<, Nat) = {ss \in Nat \X Nat : ss[1] < ss[2]}
  BY DEF OpToRel
<1>3. \A x, y \in T : ~ (<<y, x>> \in {ss \in Nat \X Nat : ss[1] < ss[2]}) => x <= y
  OBVIOUS
<1> QED
  BY <1>1, <1>2, <1>3

(* What a loop computes: there is a row of the results behind each round.  *)
IsLoop(f, n, start, step) ==
  f[0] = start /\ \A i \in 1..n : f[i] = step[<<i, f[i - 1]>>]

LEMMA LoopExists ==
  ASSUME NEW n \in Nat, NEW S, NEW start \in S, NEW step \in [(1..n) \X S -> S]
  PROVE  \E f \in [0..n -> S] : IsLoop(f, n, start, step)
<1> DEFINE Without == {k \in 0..n : ~ \E f \in [0..k -> S] : IsLoop(f, k, start, step)}
<1>1. ASSUME Without # {} PROVE FALSE
  <2>1. Without \subseteq Nat
    OBVIOUS
  <2>2. PICK k \in Without : \A m \in Without : k <= m
    <3> HIDE DEF Without
    <3> QED
      BY <1>1, <2>1, LeastNumber
  <2>3. k \in 0..n /\ ~ \E f \in [0..k -> S] : IsLoop(f, k, start, step)
    OBVIOUS
  <2>4. k # 0
    <3>1. ASSUME k = 0 PROVE FALSE
      <4> DEFINE f == [i \in 0..0 |-> start]
      <4>1. f \in [0..k -> S] /\ f[0] = start /\ 1..k = {}
        BY <3>1
      <4> QED
        BY <2>3, <4>1 DEF IsLoop
    <3> QED
      BY <3>1
  <2>5. k \in Nat /\ k - 1 \in 0..n /\ ~ (k <= k - 1)
    BY <2>3, <2>4
  <2>6. k - 1 \notin Without
    BY <2>2, <2>5
  <2>7. PICK g \in [0..k - 1 -> S] : IsLoop(g, k - 1, start, step)
    BY <2>5, <2>6
  <2> HIDE DEF Without
  <2> DEFINE f == [i \in 0..k |-> IF i = k THEN step[<<k, g[k - 1]>>] ELSE g[i]]
  <2>8. /\ k \in 1..n /\ k - 1 \in 0..k - 1 /\ 0 \in 0..k - 1
        /\ \A i \in 0..k : i = k \/ i \in 0..k - 1
        /\ \A i \in 1..k : i = k \/ i \in 1..k - 1
    BY <2>3, <2>4, <2>5
  <2>9. f \in [0..k -> S]
    <3>1. <<k, g[k - 1]>> \in (1..n) \X S
      BY <2>8
    <3> QED
      BY <2>8, <3>1
  <2>10. \A i \in 0..k - 1 : i \in 0..k /\ i # k
    BY <2>5
  <2>11. f[k] = step[<<k, f[k - 1]>>] /\ \A i \in 0..k - 1 : f[i] = g[i]
    BY <2>5, <2>8, <2>10
  <2>12. \A i \in 1..k - 1 : i \in 0..k - 1 /\ i - 1 \in 0..k - 1
    BY <2>5
  <2> HIDE DEF f
  <2>13. IsLoop(f, k, start, step)
    BY <2>7, <2>8, <2>11, <2>12 DEF IsLoop
  <2> QED
    BY <2>3, <2>9, <2>13
<1>2. Without = {}
  BY <1>1
<1>3. n \in 0..n
  OBVIOUS
<1> QED
  BY <1>2, <1>3

Result == [wins: Nat, losses: Nat, pnl: Int, peak: Int, max_dd: Int,
           streak: Nat, max_streak: Nat]

VerdictAt(bars, i) ==
  Verdict(bars[i].direction, bars[i].close, bars[i + DurationBars].close)

LEMMA CountedType ==
  ASSUME NEW r \in Result, NEW outcome
  PROVE  Counted(r, outcome) \in Result
<1>1. WinProfit \in Int /\ Stake \in Int
  BY HistoryAssumption
<1> QED
  BY <1>1, SMT DEF Counted, Result, Greater

(* The loop of run_backtest, bar by bar.                                   *)
LEMMA BacktestSteps ==
  ASSUME NEW bars \in Seq(Bar)
  PROVE  LET b == Backtest(bars)
         IN  /\ b[0] = Fresh
             /\ \A i \in 1..Len(bars) :
                  b[i] = IF i \in Settled(bars) THEN Counted(b[i - 1], VerdictAt(bars, i))
                         ELSE b[i - 1]
<1> DEFINE n == Len(bars)
           Next1(i, r) == IF i \in Settled(bars) THEN Counted(r, VerdictAt(bars, i)) ELSE r
           step == [x \in (1..n) \X Result |-> Next1(x[1], x[2])]
           IsIt(f) == f = [i \in 0..n |-> IF i = 0 THEN Fresh ELSE Next1(i, f[i - 1])]
<1>1. n \in Nat
  BY LenProperties
<1>2. Fresh \in Result
  BY DEF Fresh, Result
<1>3. step \in [(1..n) \X Result -> Result]
  BY CountedType
<1>4. \A i \in 1..n, r \in Result : step[<<i, r>>] = Next1(i, r)
  OBVIOUS
<1> HIDE DEF step
<1>5. PICK f \in [0..n -> Result] : IsLoop(f, n, Fresh, step)
  BY <1>1, <1>2, <1>3, LoopExists
<1>6. \A i \in 1..n : i - 1 \in 0..n /\ i # 0
  BY <1>1
<1>7. \A i \in 1..n : f[i] = Next1(i, f[i - 1])
  BY <1>4, <1>5, <1>6 DEF IsLoop
<1>8. \A i \in 0..n : i = 0 \/ i \in 1..n
  BY <1>1
<1>9. IsIt(f)
  BY <1>5, <1>7, <1>8 DEF IsLoop
<1>10. Backtest(bars) = CHOOSE g : IsIt(g)
  BY DEF Backtest, VerdictAt
<1>11. IsIt(Backtest(bars))
  BY <1>9, <1>10
<1>12. 0 \in 0..n /\ \A i \in 1..n : i \in 0..n
  BY <1>1
<1> QED
  BY <1>6, <1>11, <1>12

-----------------------------------------------------------------------------
(* The trades of a history, one bar after the other                        *)

LEMMA TradeFacts ==
  ASSUME NEW bars \in Seq(Bar)
  PROVE  /\ Len(bars) \in Nat /\ DOMAIN bars = 1..Len(bars)
         /\ \A i \in Settled(bars) :
              /\ i \in 1..Len(bars) /\ Label(bars, i) = VerdictAt(bars, i)
              /\ Label(bars, i) \in {"won", "lost"}
         /\ \A outcome, j, k : /\ IsFiniteSet(TradesOf(bars, outcome, j, k))
                               /\ Cardinality(TradesOf(bars, outcome, j, k)) \in Nat
<1>1. Len(bars) \in Nat /\ DOMAIN bars = 1..Len(bars)
  BY LenProperties
<1>2. ASSUME NEW i \in Settled(bars)
      PROVE  /\ i \in 1..Len(bars) /\ Label(bars, i) = VerdictAt(bars, i)
             /\ Label(bars, i) \in {"won", "lost"}
  <2>1. i \in 1..Len(bars) /\ i + DurationBars <= Len(bars)
    BY <1>1 DEF Settled
  <2>2. DurationBars \in Nat
    BY HistoryAssumption
  <2>3. i + DurationBars \in DOMAIN bars
    BY <1>1, <2>1, <2>2
  <2> QED
    BY <2>1, <2>3 DEF Label, VerdictAt, Verdict
<1>3. ASSUME NEW outcome, NEW j, NEW k
      PROVE  /\ IsFiniteSet(TradesOf(bars, outcome, j, k))
             /\ Cardinality(TradesOf(bars, outcome, j, k)) \in Nat
  <2>1. TradesOf(bars, outcome, j, k) \subseteq 1..Len(bars)
    BY <1>2 DEF TradesOf
  <2>2. IsFiniteSet(1..Len(bars))
    BY <1>1, FS_Interval
  <2> QED
    BY <2>1, <2>2, FS_Subset, FS_CardinalityType
<1> QED
  BY <1>1, <1>2, <1>3

(* From a bar on there is no trade before it.                              *)
LEMMA NoTrades ==
  ASSUME NEW bars \in Seq(Bar), NEW outcome, NEW j \in Int, NEW k \in Int, k < j
  PROVE  /\ TradesOf(bars, outcome, j, k) = {}
         /\ Cardinality(TradesOf(bars, outcome, j, k)) = 0
<1>1. \A i \in Settled(bars) : i \in Int
  BY TradeFacts
<1>2. TradesOf(bars, outcome, j, k) = {}
  BY <1>1 DEF TradesOf
<1> QED
  BY <1>2, FS_EmptySet

(* Bar k + 1 adds itself to the trades of its result, if it is a trade.    *)
LEMMA OneMoreBar ==
  ASSUME NEW bars \in Seq(Bar), NEW outcome, NEW k \in 0..Len(bars), NEW j \in 1..k + 1
  PROVE  LET old == TradesOf(bars, outcome, j, k)
             new == TradesOf(bars, outcome, j, k + 1)
         IN  IF k + 1 \in Settled(bars) /\ Label(bars, k + 1) = outcome
             THEN Cardinality(new) = Cardinality(old) + 1 /\ new # {}
             ELSE new = old
<1> DEFINE old == TradesOf(bars, outcome, j, k)
           new == TradesOf(bars, outcome, j, k + 1)
<1>1. k \in Nat /\ j \in Nat /\ j <= k + 1 /\ \A i \in Settled(bars) : i \in Nat
  BY TradeFacts
<1>2. \A i \in Nat : i <= k + 1 <=> i <= k \/ i = k + 1
  BY <1>1
<1>3. CASE k + 1 \in Settled(bars) /\ Label(bars, k + 1) = outcome
  <2>1. new = old \cup {k + 1} /\ k + 1 \notin old
    BY <1>1, <1>2, <1>3 DEF TradesOf
  <2>2. IsFiniteSet(old)
    BY TradeFacts
  <2> HIDE DEF old, new
  <2>3. Cardinality(new) = Cardinality(old) + 1
    BY <2>1, <2>2, FS_AddElement
  <2> QED
    BY <1>3, <2>1, <2>3 DEF old, new
<1>4. CASE ~ (k + 1 \in Settled(bars) /\ Label(bars, k + 1) = outcome)
  <2>1. new = old
    BY <1>1, <1>2, <1>4 DEF TradesOf
  <2> QED
    BY <1>4, <2>1
<1> QED
  BY <1>3, <1>4

-----------------------------------------------------------------------------
(* Heights and falls of a curve                                            *)

IsPeak(curve, k, p) ==
  (\A j \in 0..k : curve[j] <= p) /\ \E j \in 0..k : curve[j] = p

IsFall(curve, k, d) ==
  /\ \A j \in 0..k : \A m \in j..k : curve[j] - curve[m] <= d
  /\ \E j \in 0..k : \E m \in j..k : curve[j] - curve[m] = d

LEMMA PeakMoves ==
  ASSUME NEW n \in Nat, NEW k \in 0..n - 1, NEW curve \in [0..n -> Int], NEW p \in Int,
         IsPeak(curve, k, p)
  PROVE  IsPeak(curve, k + 1, Greater(p, curve[k + 1]))
<1>1. /\ \A j \in 0..k : j \in 0..k + 1
      /\ \A j \in 0..k + 1 : j \in 0..k \/ j = k + 1
      /\ \A j \in 0..k + 1 : curve[j] \in Int
      /\ k + 1 \in 0..k + 1
  OBVIOUS
<1> QED
  BY <1>1 DEF IsPeak, Greater

LEMMA FallMoves ==
  ASSUME NEW n \in Nat, NEW k \in 0..n - 1, NEW curve \in [0..n -> Int],
         NEW p \in Int, NEW d \in Int,
         IsPeak(curve, k, p), IsFall(curve, k, d)
  PROVE  IsFall(curve, k + 1, Greater(d, Greater(p, curve[k + 1]) - curve[k + 1]))
<1> DEFINE e == curve[k + 1]
           q == Greater(p, e)
           f == Greater(d, q - e)
<1>1. /\ \A j \in 0..k : j \in 0..k + 1
      /\ \A j \in 0..k + 1 : j \in 0..k \/ j = k + 1
      /\ \A j \in 0..k + 1 : curve[j] \in Int
      /\ k + 1 \in 0..k + 1
      /\ \A j \in 0..k + 1 : \A m \in j..k + 1 : m = k + 1 \/ (j \in 0..k /\ m \in j..k)
      /\ \A j \in 0..k + 1 : k + 1 \in j..k + 1
      /\ \A j \in 0..k : \A m \in j..k : m \in j..k + 1
  OBVIOUS
<1>2. IsPeak(curve, k + 1, q)
  BY PeakMoves
<1>3. e \in Int /\ q \in Int /\ f \in Int /\ d <= f /\ q - e <= f /\ (f = d \/ f = q - e)
  BY <1>1 DEF Greater
<1> HIDE DEF e, q, f
<1>4. ASSUME NEW j \in 0..k + 1, NEW m \in j..k + 1 PROVE curve[j] - curve[m] <= f
  <2>1. CASE m = k + 1
    <3>1. curve[j] <= q /\ curve[j] \in Int /\ curve[m] = e
      BY <1>1, <1>2, <2>1 DEF IsPeak, e
    <3> QED
      BY <1>3, <3>1
  <2>2. CASE j \in 0..k /\ m \in j..k
    <3>1. m \in 0..k
      BY <2>2
    <3>2. curve[j] - curve[m] <= d
      BY <2>2, Zenon DEF IsFall
    <3>3. curve[j] \in Int /\ curve[m] \in Int
      BY <1>1, <2>2, <3>1
    <3> QED
      BY <1>3, <3>2, <3>3
  <2> QED
    BY <1>1, <2>1, <2>2
<1>5. \E j \in 0..k + 1 : \E m \in j..k + 1 : curve[j] - curve[m] = f
  <2>1. CASE f = d
    BY <1>1, <2>1 DEF IsFall
  <2>2. CASE f = q - e
    <3>1. PICK j \in 0..k + 1 : curve[j] = q
      BY <1>2 DEF IsPeak
    <3> QED
      BY <1>1, <2>2, <3>1 DEF e
  <2> QED
    BY <1>3, <2>1, <2>2
<1> QED
  BY <1>4, <1>5 DEF IsFall, f, q, e

(* A bar without a trade moves neither.                                    *)
LEMMA LevelCurve ==
  ASSUME NEW n \in Nat, NEW k \in 0..n - 1, NEW curve \in [0..n -> Int],
         NEW p \in Int, NEW d \in Int,
         IsPeak(curve, k, p), IsFall(curve, k, d), curve[k + 1] = curve[k]
  PROVE  IsPeak(curve, k + 1, p) /\ IsFall(curve, k + 1, d)
<1>1. k \in 0..k /\ k \in 0..k + 1 /\ curve[k] \in Int /\ \A j \in 0..k : k \in j..k
  OBVIOUS
<1>2. curve[k] <= p /\ p - curve[k] <= d
  <2>1. PICK j \in 0..k : curve[j] = p
    BY DEF IsPeak
  <2> QED
    BY <1>1, <2>1 DEF IsPeak, IsFall
<1>3. Greater(p, curve[k + 1]) = p /\ Greater(d, p - curve[k + 1]) = d
  BY <1>1, <1>2 DEF Greater
<1> QED
  BY <1>3, PeakMoves, FallMoves

-----------------------------------------------------------------------------
(* Losing runs                                                             *)

(* The most losses without a win that end with bar k, or with none.        *)
IsStreak(bars, k, s) ==
  /\ \A j \in 1..k + 1 : TradesOf(bars, "won", j, k) = {} => LossesIn(bars, <<j, k>>) <= s
  /\ \E j \in 1..k + 1 : TradesOf(bars, "won", j, k) = {} /\ LossesIn(bars, <<j, k>>) = s

IsMost(bars, k, s) ==
  /\ \A run \in LosingRuns(bars, k) : LossesIn(bars, run) <= s
  /\ \E run \in LosingRuns(bars, k) : LossesIn(bars, run) = s

LEMMA StreakMoves ==
  ASSUME NEW bars \in Seq(Bar), NEW k \in 0..Len(bars), NEW s \in Nat, IsStreak(bars, k, s)
  PROVE  IsStreak(bars, k + 1,
           IF k + 1 \notin Settled(bars) THEN s
           ELSE IF Label(bars, k + 1) = "won" THEN 0 ELSE s + 1)
<1> DEFINE won(j) == TradesOf(bars, "won", j, k)
           won2(j) == TradesOf(bars, "won", j, k + 1)
           losses(j) == LossesIn(bars, <<j, k>>)
           losses2(j) == LossesIn(bars, <<j, k + 1>>)
<1>1. /\ Len(bars) \in Nat /\ k \in Nat
      /\ \A j \in 1..k + 2 : j \in 1..k + 1 \/ j = k + 2
      /\ \A j \in 1..k + 1 : j \in 1..k + 2
      /\ k + 2 \in 1..k + 2 /\ (k + 1) + 1 = k + 2
  BY TradeFacts
<1>2. won2(k + 2) = {} /\ losses2(k + 2) = 0
  BY <1>1, NoTrades DEF LossesIn
<1>3. \A j : losses(j) \in Nat
  BY TradeFacts DEF LossesIn
<1>4. CASE k + 1 \notin Settled(bars)
  <2>1. \A j \in 1..k + 1 : won2(j) = won(j) /\ losses2(j) = losses(j)
    BY <1>4, OneMoreBar DEF LossesIn
  <2> HIDE DEF won, won2, losses, losses2
  <2>2. /\ \A j \in 1..k + 1 : won(j) = {} => losses(j) <= s
        /\ \E j \in 1..k + 1 : won(j) = {} /\ losses(j) = s
    BY DEF IsStreak, won, losses
  <2>3. /\ \A j \in 1..k + 2 : won2(j) = {} => losses2(j) <= s
        /\ \E j \in 1..k + 2 : won2(j) = {} /\ losses2(j) = s
    BY <1>1, <1>2, <2>1, <2>2
  <2> QED
    BY <1>1, <1>4, <2>3 DEF IsStreak, won2, losses2
<1>5. CASE k + 1 \in Settled(bars) /\ Label(bars, k + 1) = "won"
  <2>1. \A j \in 1..k + 1 : won2(j) # {}
    BY <1>5, OneMoreBar
  <2> HIDE DEF won, won2, losses, losses2
  <2>2. /\ \A j \in 1..k + 2 : won2(j) = {} => losses2(j) <= 0
        /\ \E j \in 1..k + 2 : won2(j) = {} /\ losses2(j) = 0
    BY <1>1, <1>2, <2>1
  <2> QED
    BY <1>1, <1>5, <2>2 DEF IsStreak, won2, losses2
<1>6. CASE k + 1 \in Settled(bars) /\ Label(bars, k + 1) = "lost"
  <2>1. \A j \in 1..k + 1 : won2(j) = won(j) /\ losses2(j) = losses(j) + 1
    BY <1>6, OneMoreBar DEF LossesIn
  <2> HIDE DEF won, won2, losses, losses2
  <2>2. /\ \A j \in 1..k + 1 : won(j) = {} => losses(j) <= s
        /\ \E j \in 1..k + 1 : won(j) = {} /\ losses(j) = s
    BY DEF IsStreak, won, losses
  <2>3. /\ \A j \in 1..k + 2 : won2(j) = {} => losses2(j) <= s + 1
        /\ \E j \in 1..k + 2 : won2(j) = {} /\ losses2(j) = s + 1
    BY <1>1, <1>2, <1>3, <2>1, <2>2
  <2> QED
    BY <1>1, <1>6, <2>3 DEF IsStreak, won2, losses2
<1> QED
  BY <1>4, <1>5, <1>6, TradeFacts

(* A run of losses ended before bar k + 1, or ends with it.                *)
LEMMA MostMoves ==
  ASSUME NEW bars \in Seq(Bar), NEW k \in 0..Len(bars), NEW m \in Nat, NEW s \in Nat,
         IsMost(bars, k, m), IsStreak(bars, k + 1, s)
  PROVE  IsMost(bars, k + 1, Greater(m, s))
<1> DEFINE g == Greater(m, s)
<1>1. g \in Nat /\ m <= g /\ s <= g /\ (g = m \/ g = s)
  BY DEF Greater
<1>2. k \in Nat
  BY TradeFacts
<1> HIDE DEF g
<1>3. ASSUME NEW run \in LosingRuns(bars, k + 1) PROVE LossesIn(bars, run) <= g
  <2>1. /\ run = <<run[1], run[2]>> /\ run[1] \in 1..(k + 1) + 1 /\ run[2] \in 0..k + 1
        /\ TradesOf(bars, "won", run[1], run[2]) = {}
    BY DEF LosingRuns
  <2>2. LossesIn(bars, run) \in Nat
    BY TradeFacts DEF LossesIn
  <2>3. CASE run[2] = k + 1
    <3>1. LossesIn(bars, <<run[1], k + 1>>) <= s
      BY <2>1, <2>3 DEF IsStreak
    <3> QED
      BY <1>1, <2>1, <2>2, <2>3, <3>1
  <2>4. CASE run[2] \in 0..k /\ run[1] \in 1..k + 1
    <3>1. run \in LosingRuns(bars, k)
      BY <2>1, <2>4 DEF LosingRuns
    <3> QED
      BY <1>1, <2>2, <3>1 DEF IsMost
  <2>5. CASE run[2] < run[1]
    <3>1. run[1] \in Int /\ run[2] \in Int
      BY <1>2, <2>1
    <3>2. LossesIn(bars, run) = 0
      BY <2>5, <3>1, NoTrades, Zenon DEF LossesIn
    <3> QED
      BY <1>1, <3>2
  <2>6. \/ run[2] = k + 1
        \/ run[2] \in 0..k /\ run[1] \in 1..k + 1
        \/ run[2] < run[1]
    BY <1>2, <2>1
  <2> QED
    BY <2>3, <2>4, <2>5, <2>6
<1>4. \E run \in LosingRuns(bars, k + 1) : LossesIn(bars, run) = g
  <2>1. CASE g = m
    <3>1. PICK run \in LosingRuns(bars, k) : LossesIn(bars, run) = m
      BY DEF IsMost
    <3>2. run \in LosingRuns(bars, k + 1)
      BY <1>2 DEF LosingRuns
    <3> QED
      BY <2>1, <3>1, <3>2
  <2>2. CASE g = s
    <3>1. PICK j \in 1..(k + 1) + 1 : /\ TradesOf(bars, "won", j, k + 1) = {}
                                      /\ LossesIn(bars, <<j, k + 1>>) = s
      BY DEF IsStreak
    <3>2. <<j, k + 1>> \in LosingRuns(bars, k + 1)
      BY <1>2, <3>1 DEF LosingRuns
    <3> QED
      BY <2>2, <3>1, <3>2
  <2> QED
    BY <1>1, <2>1, <2>2
<1> QED
  BY <1>3, <1>4 DEF IsMost, g

LEMMA StreakIsNoMore ==
  ASSUME NEW bars \in Seq(Bar), NEW k \in 0..Len(bars), NEW m \in Nat, NEW s \in Nat,
         IsMost(bars, k, m), IsStreak(bars, k, s)
  PROVE  s <= m
<1>1. k \in Nat
  BY TradeFacts
<1>2. PICK j \in 1..k + 1 : /\ TradesOf(bars, "won", j, k) = {}
                            /\ LossesIn(bars, <<j, k>>) = s
  BY DEF IsStreak
<1>3. <<j, k>> \in LosingRuns(bars, k)
  BY <1>1, <1>2 DEF LosingRuns
<1> QED
  BY <1>2, <1>3 DEF IsMost

-----------------------------------------------------------------------------
(* The loop of run_backtest keeps the numbers of the curve                 *)

CurveOf(bars, k) == [j \in 0..k |-> Equity(bars, j)]

TotalsInv(bars, k, r) ==
  /\ r.wins = Cardinality(TradesOf(bars, "won", 1, k))
  /\ r.losses = Cardinality(TradesOf(bars, "lost", 1, k))
  /\ r.pnl = Equity(bars, k)

CurveInv(bars, k, r) ==
  /\ r \in Result /\ TotalsInv(bars, k, r)
  /\ IsPeak(CurveOf(bars, Len(bars)), k, r.peak) /\ IsFall(CurveOf(bars, Len(bars)), k, r.max_dd)
  /\ IsStreak(bars, k, r.streak) /\ IsMost(bars, k, r.max_streak)

LEMMA EquityType ==
  ASSUME NEW bars \in Seq(Bar), NEW k
  PROVE  Equity(bars, k) \in Int
<1>1. WinProfit \in Int /\ Stake \in Int
  BY HistoryAssumption
<1>2. \A outcome : Cardinality(TradesOf(bars, outcome, 1, k)) \in Int
  BY TradeFacts
<1>3. \A c, d \in Int : WinProfit * c - Stake * d \in Int
  BY <1>1
<1> QED
  BY <1>2, <1>3 DEF Equity

LEMMA TotalsMove ==
  ASSUME NEW bars \in Seq(Bar), NEW k \in 0..Len(bars), NEW r \in Result, TotalsInv(bars, k, r)
  PROVE  IF k + 1 \in Settled(bars) THEN TotalsInv(bars, k + 1, Counted(r, Label(bars, k + 1)))
         ELSE TotalsInv(bars, k + 1, r)
<1> DEFINE won(i) == Cardinality(TradesOf(bars, "won", 1, i))
           lost(i) == Cardinality(TradesOf(bars, "lost", 1, i))
<1>1. /\ WinProfit \in Int /\ Stake \in Int
      /\ \A a, c \in Int : a * (c + 1) = a * c + a /\ a * c \in Int
  BY HistoryAssumption
<1>2. \A i : won(i) \in Nat /\ lost(i) \in Nat
  BY TradeFacts
<1>3. 1 \in 1..k + 1
  BY TradeFacts
<1>4. /\ \A i : Equity(bars, i) = WinProfit * won(i) - Stake * lost(i)
      /\ r.wins = won(k) /\ r.losses = lost(k) /\ r.pnl = Equity(bars, k)
  BY DEF Equity, TotalsInv
<1>5. CASE k + 1 \notin Settled(bars)
  <2>1. won(k + 1) = won(k) /\ lost(k + 1) = lost(k)
    BY <1>3, <1>5, OneMoreBar
  <2> QED
    BY <1>4, <1>5, <2>1 DEF TotalsInv
<1>6. CASE k + 1 \in Settled(bars) /\ Label(bars, k + 1) = "won"
  <2>1. won(k + 1) = won(k) + 1 /\ lost(k + 1) = lost(k)
    BY <1>3, <1>6, OneMoreBar
  <2> HIDE DEF won, lost
  <2>2. Equity(bars, k + 1) = Equity(bars, k) + WinProfit
    BY <1>1, <1>2, <1>4, <2>1
  <2> QED
    BY <1>2, <1>4, <1>6, <2>1, <2>2 DEF TotalsInv, Counted, won, lost
<1>7. CASE k + 1 \in Settled(bars) /\ Label(bars, k + 1) = "lost"
  <2>1. won(k + 1) = won(k) /\ lost(k + 1) = lost(k) + 1
    BY <1>3, <1>7, OneMoreBar
  <2> HIDE DEF won, lost
  <2>2. Equity(bars, k + 1) = Equity(bars, k) - Stake
    BY <1>1, <1>2, <1>4, <2>1
  <2> QED
    BY <1>2, <1>4, <1>7, <2>1, <2>2 DEF TotalsInv, Counted, won, lost
<1> QED
  BY <1>5, <1>6, <1>7, TradeFacts

LEMMA CurveInitially ==
  ASSUME NEW bars \in Seq(Bar)
  PROVE  CurveInv(bars, 0, Fresh)
<1>1. /\ Len(bars) \in Nat /\ WinProfit \in Int /\ Stake \in Int
      /\ \A a \in Int : a * 0 = 0
  BY TradeFacts, HistoryAssumption
<1>2. \A outcome : /\ TradesOf(bars, outcome, 1, 0) = {}
                   /\ Cardinality(TradesOf(bars, outcome, 1, 0)) = 0
  BY NoTrades
<1>3. Equity(bars, 0) = 0
  BY <1>1, <1>2 DEF Equity
<1>4. CurveOf(bars, Len(bars))[0] = 0
  BY <1>1, <1>3 DEF CurveOf
<1>5. 0..0 = {0} /\ 1..0 + 1 = {1}
  OBVIOUS
<1>6. Fresh \in Result
  BY DEF Fresh, Result
<1>7. TotalsInv(bars, 0, Fresh)
  BY <1>2, <1>3 DEF TotalsInv, Fresh
<1>8. IsPeak(CurveOf(bars, Len(bars)), 0, 0) /\ IsFall(CurveOf(bars, Len(bars)), 0, 0)
  BY <1>4, <1>5 DEF IsPeak, IsFall
<1>9. IsStreak(bars, 0, 0)
  BY <1>2, <1>5 DEF IsStreak, LossesIn
<1>10. IsMost(bars, 0, 0)
  <2>1. \A run \in (1..0 + 1) \X (0..0) : run = <<1, 0>> /\ run[1] = 1 /\ run[2] = 0
    BY <1>5
  <2>2. <<1, 0>> \in (1..0 + 1) \X (0..0)
    BY <1>5
  <2> QED
    BY <1>2, <2>1, <2>2 DEF IsMost, LosingRuns, LossesIn
<1> QED
  BY <1>6, <1>7, <1>8, <1>9, <1>10 DEF CurveInv, Fresh

LEMMA CurveMoves ==
  ASSUME NEW bars \in Seq(Bar), NEW k \in 0..Len(bars) - 1, NEW r, CurveInv(bars, k, r)
  PROVE  CurveInv(bars, k + 1,
           IF k + 1 \in Settled(bars) THEN Counted(r, VerdictAt(bars, k + 1)) ELSE r)
<1> DEFINE n == Len(bars)
           curve == CurveOf(bars, n)
           label == Label(bars, k + 1)
<1>1. n \in Nat /\ k \in Nat /\ k \in 0..n /\ k + 1 \in 0..n
  BY TradeFacts
<1>2. /\ curve \in [0..n -> Int] /\ curve[k] = Equity(bars, k)
      /\ curve[k + 1] = Equity(bars, k + 1)
  BY <1>1, EquityType DEF CurveOf
<1>3. /\ r \in Result /\ TotalsInv(bars, k, r)
      /\ IsPeak(curve, k, r.peak) /\ IsFall(curve, k, r.max_dd)
      /\ IsStreak(bars, k, r.streak) /\ IsMost(bars, k, r.max_streak)
  BY DEF CurveInv
<1>4. r.pnl = Equity(bars, k) /\ r.peak \in Int /\ r.max_dd \in Int
      /\ r.streak \in Nat /\ r.max_streak \in Nat
  BY <1>3 DEF TotalsInv, Result
<1>5. CASE k + 1 \notin Settled(bars)
  <2>1. TotalsInv(bars, k + 1, r)
    BY <1>1, <1>3, <1>5, TotalsMove
  <2>2. curve[k + 1] = curve[k]
    BY <1>2, <1>4, <2>1 DEF TotalsInv
  <2>3. IsPeak(curve, k + 1, r.peak) /\ IsFall(curve, k + 1, r.max_dd)
    <3> HIDE DEF curve
    <3> QED
      BY <1>1, <1>2, <1>3, <1>4, <2>2, LevelCurve
  <2>4. IsStreak(bars, k + 1, r.streak)
    BY <1>1, <1>3, <1>4, <1>5, StreakMoves
  <2>5. IsMost(bars, k + 1, Greater(r.max_streak, r.streak)) /\ r.streak <= r.max_streak
    BY <1>1, <1>3, <1>4, <2>4, MostMoves, StreakIsNoMore
  <2>6. IsMost(bars, k + 1, r.max_streak)
    BY <1>4, <2>5 DEF Greater
  <2> QED
    BY <1>3, <1>5, <2>1, <2>3, <2>4, <2>6 DEF CurveInv
<1>6. CASE k + 1 \in Settled(bars)
  <2> DEFINE t == Counted(r, label)
  <2>1. label = VerdictAt(bars, k + 1) /\ label \in {"won", "lost"}
    BY <1>6, TradeFacts
  <2>2. t \in Result /\ TotalsInv(bars, k + 1, t)
    BY <1>1, <1>3, <1>6, CountedType, TotalsMove
  <2>3. t.pnl = curve[k + 1]
    BY <1>2, <2>2 DEF TotalsInv
  <2>4. /\ t.peak = Greater(r.peak, t.pnl) /\ t.max_dd = Greater(r.max_dd, t.peak - t.pnl)
        /\ t.streak = IF label = "won" THEN 0 ELSE r.streak + 1
        /\ t.max_streak = Greater(r.max_streak, t.streak)
    BY DEF Counted
  <2> HIDE DEF t, label, curve
  <2>5. IsPeak(curve, k + 1, t.peak) /\ IsFall(curve, k + 1, t.max_dd)
    BY <1>1, <1>2, <1>3, <1>4, <2>3, <2>4, PeakMoves, FallMoves
  <2>6. IsStreak(bars, k + 1, t.streak)
    BY <1>1, <1>3, <1>4, <1>6, <2>4, StreakMoves DEF label
  <2>7. t.streak \in Nat
    BY <2>2 DEF Result
  <2>8. IsMost(bars, k + 1, t.max_streak)
    BY <1>1, <1>3, <1>4, <2>4, <2>6, <2>7, MostMoves
  <2> QED
    BY <1>6, <2>1, <2>2, <2>5, <2>6, <2>8 DEF CurveInv, t, curve
<1> QED
  BY <1>5, <1>6

(* By the least bar behind which the loop would not have them.             *)
LEMMA BacktestCounts ==
  ASSUME NEW bars \in Seq(Bar)
  PROVE  CurveInv(bars, Len(bars), RunBacktest(bars))
<1> DEFINE n == Len(bars)
           b == Backtest(bars)
           Wrong == {k \in 0..n : ~ CurveInv(bars, k, b[k])}
<1>1. n \in Nat
  BY TradeFacts
<1>2. b[0] = Fresh /\ \A i \in 1..n : b[i] = IF i \in Settled(bars)
                                             THEN Counted(b[i - 1], VerdictAt(bars, i))
                                             ELSE b[i - 1]
  BY BacktestSteps
<1>3. ASSUME Wrong # {} PROVE FALSE
  <2>1. PICK k \in Wrong : \A m \in Wrong : k <= m
    <3>1. Wrong \subseteq Nat
      BY <1>1
    <3> HIDE DEF Wrong
    <3> QED
      BY <1>3, <3>1, LeastNumber
  <2>2. k \in 0..n /\ ~ CurveInv(bars, k, b[k])
    OBVIOUS
  <2>3. k # 0
    BY <1>2, <2>2, CurveInitially
  <2> DEFINE m == k - 1
  <2>4. m \in 0..n - 1 /\ m \in 0..n /\ m + 1 = k /\ k \in 1..n /\ ~ (k <= m)
    BY <1>1, <2>2, <2>3
  <2>5. CurveInv(bars, m, b[m])
    BY <2>1, <2>4
  <2> HIDE DEF m, b, Wrong
  <2>6. CurveInv(bars, m + 1, IF m + 1 \in Settled(bars)
                              THEN Counted(b[m], VerdictAt(bars, m + 1)) ELSE b[m])
    BY <2>4, <2>5, CurveMoves
  <2>7. b[k] = IF k \in Settled(bars) THEN Counted(b[m], VerdictAt(bars, k)) ELSE b[m]
    BY <1>2, <2>4 DEF m
  <2> QED
    BY <2>2, <2>4, <2>6, <2>7
<1>4. n \in 0..n
  BY <1>1
<1>5. CurveInv(bars, n, b[n])
  BY <1>3, <1>4
<1> QED
  BY <1>5 DEF RunBacktest

(* Whatever bars the bot has stored, the profit, the deepest fall and the  *)
(* longest run of losses run_backtest keeps in passing are those of the    *)
(* equity curve of its trades, judged as the training labels judge them.   *)
THEOREM BacktestIsRight == Spec => []BacktestIsTheEquityCurve
<1>1. TypeOK => BacktestIsTheEquityCurve
  <2> SUFFICES ASSUME TypeOK, NEW s \in Symbols
               PROVE  IsTheEquityCurve(candles[s], Len(candles[s]), RunBacktest(candles[s]))
    BY DEF BacktestIsTheEquityCurve
  <2> DEFINE bars == candles[s]
             n == Len(bars)
             r == RunBacktest(bars)
  <2>1. bars \in Seq(Bar)
    BY DEF TypeOK
  <2> HIDE DEF bars, r
  <2>2. CurveInv(bars, n, r)
    BY <2>1, BacktestCounts DEF r
  <2>3. n \in Nat
    BY <2>1, TradeFacts
  <2> DEFINE curve == CurveOf(bars, n)
  <2>4. \A j \in 0..n : \A k \in j..n :
          k \in 0..n /\ Fall(bars, j, k) = curve[j] - curve[k]
    BY <2>3 DEF Fall, CurveOf
  <2>5. IsFall(curve, n, r.max_dd)
    BY <2>2 DEF CurveInv
  <2> HIDE DEF n, curve
  <2>6. /\ \A j \in 0..n : \A k \in j..n : Fall(bars, j, k) <= r.max_dd
        /\ \E j \in 0..n : \E k \in j..n : Fall(bars, j, k) = r.max_dd
    BY <2>4, <2>5 DEF IsFall
  <2> QED
    BY <2>2, <2>6 DEF CurveInv, TotalsInv, IsMost, IsTheEquityCurve, bars, n, r
<1> QED
  BY <1>1, TypeCorrect, PTL
=============================================================================

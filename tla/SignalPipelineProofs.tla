------------------------ MODULE SignalPipelineProofs -------------------------
(***************************************************************************)
(* Proofs about SignalPipeline for every confirmation window, timeframe,   *)
(* number of bars, lateness of a bar's last tick below one timeframe and   *)
(* number of clock buckets without a bar.                                  *)
(***************************************************************************)
EXTENDS SignalPipeline, FiniteSetTheorems, SequenceTheorems, TLAPS

-----------------------------------------------------------------------------
(* Rows and their decision                                                 *)

Row == [reason : Reasons, direction : Directions \cup {"none"}]

(* A row added at the end of a table.                                      *)
LEMMA RowAdded ==
  ASSUME NEW S, NEW s \in Seq(S), NEW x \in S
  PROVE  /\ Append(s, x) \in Seq(S)
         /\ Len(s) \in Nat /\ DOMAIN s = 1..Len(s)
         /\ Len(Append(s, x)) = Len(s) + 1
         /\ DOMAIN Append(s, x) = 1..Len(s) + 1
         /\ \A i \in 1..Len(s) : Append(s, x)[i] = s[i]
         /\ Append(s, x)[Len(s) + 1] = x
<1>1. /\ Append(s, x) \in Seq(S) /\ Len(Append(s, x)) = Len(s) + 1
      /\ \A i \in 1..Len(s) : Append(s, x)[i] = s[i]
      /\ Append(s, x)[Len(s) + 1] = x
  BY AppendProperties
<1>2. Len(s) \in Nat /\ DOMAIN s = 1..Len(s)
  BY LenProperties
<1>3. DOMAIN Append(s, x) = 1..Len(s) + 1
  BY <1>1, LenProperties
<1> QED
  BY <1>1, <1>2, <1>3

(* The same row appended as a sequence of one.                             *)
LEMMA OneMore ==
  ASSUME NEW S, NEW s \in Seq(S), NEW x \in S
  PROVE  s \o <<x>> = Append(s, x) /\ s \o <<>> = s
<1>1. s \o <<x>> = Append(s, x)
  BY AppendIsConcat
<1>2. s \o <<>> = s
  BY ConcatEmptySeq
<1> QED
  BY <1>1, <1>2

LEMMA SoleOf ==
  ASSUME NEW q \in SUBSET Directions
  PROVE  /\ Sole(q) \in Directions \cup {"none"}
         /\ q \notin {{}, Directions} => Sole(q) \in Directions
         /\ Sole(q) \in Directions => q = {Sole(q)}
<1>1. CASE \E d \in Directions : q = {d}
  BY <1>1 DEF Sole
<1>2. CASE ~ \E d \in Directions : q = {d}
  <2>1. q \in {{}, Directions}
    BY <1>2 DEF Directions
  <2>2. Sole(q) = "none"
    BY <1>2 DEF Sole
  <2> QED
    BY <2>1, <2>2 DEF Directions
<1> QED
  BY <1>1, <1>2

(* evaluate_signal always finds a reason; a trade needs a direction that   *)
(* qualifies alone and is the confirmed one, and neither of the reasons    *)
(* the deduper looks at comes without a direction.                         *)
LEMMA Decision ==
  ASSUME NEW q \in SUBSET Directions, NEW g \in Gates, NEW c \in Directions \cup {"none"}
  PROVE  /\ Decide(q, g, c) \in Reasons \ {"MINIMUM_DATA", "EXECUTION"}
         /\ Decide(q, g, c) \in {"TRADE", "UNCONFIRMED"} => Sole(q) \in Directions
         /\ Decide(q, g, c) = "TRADE" => c = Sole(q)
<1>1. CASE g # "clear"
  BY <1>1 DEF Decide, Gates, Reasons
<1>2. CASE g = "clear" /\ q = Directions
  <2>1. Decide(q, g, c) = "CONFLICTING_SIGNALS"
    BY <1>2 DEF Decide, Directions
  <2> QED
    BY <2>1 DEF Reasons
<1>3. CASE g = "clear" /\ q = {}
  <2>1. Decide(q, g, c) = "NO_SETUP"
    BY <1>3 DEF Decide, Directions
  <2> QED
    BY <2>1 DEF Reasons
<1>4. CASE g = "clear" /\ q \notin {{}, Directions}
  <2>1. Decide(q, g, c) = IF c = Sole(q) THEN "TRADE" ELSE "UNCONFIRMED"
    BY <1>4 DEF Decide
  <2>2. Sole(q) \in Directions
    BY <1>4, SoleOf
  <2> QED
    BY <2>1, <2>2 DEF Reasons
<1> QED
  BY <1>1, <1>2, <1>3, <1>4

(* The setup of a bar, after Tracked.                                      *)
SetupOf(q) == Tracked(pending, q)

ConfirmedBy(q, t) == IF Confirms(SetupOf(q), t) THEN SetupOf(q).direction ELSE "none"

RowOf(q, g, t) == [reason |-> Decide(q, g, ConfirmedBy(q, t)), direction |-> Sole(q)]

Setup == [direction : Directions \cup {"none"}, bars_waited : Nat]

YoungSetups == [direction : Directions \cup {"none"}, bars_waited : 0..Window]

LEMMA YoungSetup ==
  ASSUME NEW s \in Setup, s.bars_waited \in 0..Window
  PROVE  s \in YoungSetups
<1>1. s = [direction |-> s.direction, bars_waited |-> s.bars_waited]
  BY DEF Setup
<1> QED
  BY <1>1 DEF Setup, YoungSetups

LEMMA Tracking ==
  ASSUME TypeOK, NEW q \in SUBSET Directions
  PROVE  /\ SetupOf(q) \in Setup
         /\ pending = NoSetup => SetupOf(q) = [direction |-> Sole(q), bars_waited |-> 0]
         /\ pending # NoSetup => /\ SetupOf(q).direction = pending.direction
                                 /\ SetupOf(q).bars_waited = pending.bars_waited + 1
                                 /\ SetupOf(q) # NoSetup
<1>1. Window \in Nat /\ pending \in [direction : Directions \cup {"none"}, bars_waited : 0..Window]
  BY PipelineAssumption DEF TypeOK
<1>2. CASE pending = NoSetup
  <2>1. SetupOf(q) = [direction |-> Sole(q), bars_waited |-> 0]
    BY <1>2 DEF SetupOf, Tracked
  <2> QED
    BY <1>2, <2>1, SoleOf DEF Setup
<1>3. CASE pending # NoSetup
  <2>1. SetupOf(q) = [pending EXCEPT !.bars_waited = pending.bars_waited + 1]
    BY <1>3 DEF SetupOf, Tracked
  <2>2. pending.bars_waited \in Nat /\ pending.bars_waited + 1 # 0
    BY <1>1
  <2>3. /\ SetupOf(q) \in Setup
        /\ SetupOf(q).direction = pending.direction
        /\ SetupOf(q).bars_waited = pending.bars_waited + 1
    BY <1>1, <2>1, <2>2 DEF Setup
  <2> QED
    BY <1>3, <2>2, <2>3 DEF NoSetup
<1> QED
  BY <1>2, <1>3

LEMMA RowType ==
  ASSUME TypeOK, NEW q \in SUBSET Directions, NEW g \in Gates, NEW t \in BOOLEAN
  PROVE  /\ RowOf(q, g, t) \in Row
         /\ ConfirmedBy(q, t) \in Directions \cup {"none"}
         /\ RowOf(q, g, t).reason \notin {"MINIMUM_DATA", "EXECUTION"}
         /\ RowOf(q, g, t).direction = Sole(q)
         /\ RowOf(q, g, t).reason \in {"TRADE", "UNCONFIRMED"} => Sole(q) \in Directions
         /\ RowOf(q, g, t).reason = "TRADE" =>
              Confirms(SetupOf(q), t) /\ SetupOf(q).direction = Sole(q)
<1>1. SetupOf(q).direction \in Directions \cup {"none"}
  BY Tracking DEF Setup
<1>2. ConfirmedBy(q, t) \in Directions \cup {"none"}
  BY <1>1 DEF ConfirmedBy
<1> DEFINE why == Decide(q, g, ConfirmedBy(q, t))
<1>3. /\ why \in Reasons \ {"MINIMUM_DATA", "EXECUTION"}
      /\ why \in {"TRADE", "UNCONFIRMED"} => Sole(q) \in Directions
      /\ why = "TRADE" => ConfirmedBy(q, t) = Sole(q)
  BY <1>2, Decision
<1>4. RowOf(q, g, t) = [reason |-> why, direction |-> Sole(q)]
  BY DEF RowOf
<1> HIDE DEF why
<1>5. /\ RowOf(q, g, t) \in Row /\ RowOf(q, g, t).reason = why
      /\ RowOf(q, g, t).direction = Sole(q)
  BY <1>3, <1>4, SoleOf DEF Row
<1>6. ASSUME why = "TRADE" PROVE Confirms(SetupOf(q), t) /\ SetupOf(q).direction = Sole(q)
  <2>1. ConfirmedBy(q, t) = Sole(q) /\ Sole(q) \in Directions /\ "none" \notin Directions
    BY <1>3, <1>6 DEF Directions
  <2> QED
    BY <2>1 DEF ConfirmedBy
<1> QED
  BY <1>2, <1>3, <1>5, <1>6

(* What BarCloses does, in the terms above.                                *)
LEMMA BarClosesDoes ==
  ASSUME NEW q \in SUBSET Directions, NEW g \in Gates, NEW t \in BOOLEAN,
         NEW e \in 0..MaxEarly, NEW gap \in 0..MaxGap, BarCloses(q, g, t, e, gap)
  PROVE  /\ ClockAdvances(gap)
         /\ confirmations' = confirmations \cup {i \in {NextBar} : Confirms(SetupOf(q), t)}
         /\ ~ executing /\ NextBar <= MaxBars /\ NextBar >= MinBars
         /\ pending' = Kept(SetupOf(q), t)
         /\ signals' = Append(signals, RowOf(q, g, t))
         /\ rejected' = rejected \o Recorded(NextBar, RowOf(q, g, t))
         /\ sole' = Append(sole, Sole(q))
         /\ Follow(NextBar, RowOf(q, g, t), bucket', bucket' * Timeframe - e)
         /\ \/ executing' = TRUE /\ open' = TRUE /\ RowOf(q, g, t).reason = "TRADE"
            \/ UNCHANGED <<executing, open>>
  BY DEF BarCloses, Closes, SetupOf, ConfirmedBy, RowOf

-----------------------------------------------------------------------------
(* Types                                                                   *)

LEMMA RecordedType ==
  ASSUME NEW id \in Bars, NEW row, rejected \in Seq(Bars)
  PROVE  /\ rejected \o Recorded(id, row)
              = IF row.reason = "TRADE" THEN rejected ELSE Append(rejected, id)
         /\ rejected \o Recorded(id, row) \in Seq(Bars)
<1>1. rejected \o Recorded(id, row)
        = IF row.reason = "TRADE" THEN rejected ELSE Append(rejected, id)
  BY OneMore DEF Recorded
<1>2. Append(rejected, id) \in Seq(Bars)
  BY RowAdded
<1> QED
  BY <1>1, <1>2

LEMMA NextBarType ==
  ASSUME TypeOK
  PROVE  /\ Len(signals) \in Nat /\ Len(signals) <= MaxBars /\ NextBar \in Nat \ {0}
         /\ NextBar <= MaxBars => NextBar \in Bars
         /\ DOMAIN signals = 1..Len(signals) /\ DOMAIN sole = 1..Len(signals)
         /\ Len(sole) = Len(signals) /\ NextBar = Len(signals) + 1
<1> DEFINE Choice == Directions \cup {"none"}
<1>1. signals \in Seq(Row) /\ sole \in Seq(Choice)
  BY DEF TypeOK, Row
<1> HIDE DEF Choice
<1>2. Len(sole) = Len(signals) /\ Len(signals) <= MaxBars /\ MaxBars \in Nat
  BY PipelineAssumption DEF TypeOK
<1>3. Len(signals) \in Nat /\ DOMAIN signals = 1..Len(signals)
  BY <1>1, LenProperties
<1>4. DOMAIN sole = 1..Len(sole)
  BY <1>1, LenProperties
<1> QED
  BY <1>2, <1>3, <1>4 DEF NextBar, Bars

(* The correction of the newest row.                                       *)
LEMMA Correction ==
  ASSUME NEW rows \in Seq(Row), rows # <<>>
  PROVE  /\ Corrected(rows) \in Seq(Row) /\ Len(Corrected(rows)) = Len(rows)
         /\ Len(rows) \in 1..Len(rows) /\ DOMAIN Corrected(rows) = 1..Len(rows)
         /\ DOMAIN rows = 1..Len(rows)
         /\ \A i \in 1..Len(rows) : /\ Corrected(rows)[i].direction = rows[i].direction
                                    /\ i # Len(rows) => Corrected(rows)[i] = rows[i]
         /\ Corrected(rows)[Len(rows)].reason = "EXECUTION"
<1>0. PICK n : n = Len(rows)
  OBVIOUS
<1>1. n \in Nat /\ n # 0 /\ DOMAIN rows = 1..n /\ rows \in [1..n -> Row]
  BY <1>0, LenProperties, EmptySeq
<1>2. Corrected(rows) = [rows EXCEPT ![n] = [rows[n] EXCEPT !.reason = "EXECUTION"]]
  BY <1>0 DEF Corrected
<1>3. n \in 1..n /\ rows[n] \in Row
  BY <1>1
<1>4. [rows[n] EXCEPT !.reason = "EXECUTION"] \in Row
  BY <1>3 DEF Row, Reasons
<1>5. Corrected(rows) \in [1..n -> Row]
  BY <1>1, <1>2, <1>4
<1>6. Corrected(rows) \in Seq(Row) /\ Len(Corrected(rows)) = n /\ DOMAIN Corrected(rows) = 1..n
  BY <1>1, <1>5, SeqDef, LenProperties
<1>7. ASSUME NEW i \in 1..n
      PROVE  /\ Corrected(rows)[i].direction = rows[i].direction
             /\ i # n => Corrected(rows)[i] = rows[i]
  BY <1>1, <1>2, <1>3 DEF Row
<1>8. Corrected(rows)[n].reason = "EXECUTION"
  BY <1>1, <1>2, <1>3 DEF Row
<1> QED
  BY <1>0, <1>1, <1>3, <1>6, <1>7, <1>8

(* execute_trade runs for the newest row, which still reads as a trade.    *)
ExecutesTheNewest ==
  executing => signals # <<>> /\ signals[Len(signals)].reason = "TRADE"

(* The clock moves on with every bar.                                      *)
LEMMA ClockMovesOn ==
  ASSUME TypeOK, NEW gap \in 0..MaxGap, ClockAdvances(gap)
  PROVE  bucket \in Nat /\ bucket' \in Nat \ {0} /\ bucket < bucket'
  BY PipelineAssumption DEF TypeOK, ClockAdvances

LEMMA FollowType ==
  ASSUME TypeOK, NEW bar \in Bars, NEW row \in Row, NEW clock \in Nat \ {0},
         NEW epoch \in Int, Follow(bar, row, clock, epoch),
         row.reason \in {"TRADE", "UNCONFIRMED"} => row.direction \in Directions
  PROVE  last' \in [Directions -> Int] /\ samples' \subseteq Sample
<1> DEFINE confirmed == row.reason = "TRADE"
<1>1. confirmed \in BOOLEAN
  OBVIOUS
<1> HIDE DEF confirmed
<1>2. CASE UNCHANGED <<last, samples>>
  BY <1>2 DEF TypeOK
<1>3. CASE ~ UNCHANGED <<last, samples>>
  <2>1. /\ row.direction \in Directions
        /\ last' = [last EXCEPT ![row.direction] = epoch]
        /\ samples' = samples \cup
             {[bar |-> bar, bucket |-> clock, direction |-> row.direction,
               confirmed |-> confirmed]}
    BY <1>3 DEF Follow, confirmed
  <2> QED
    BY <1>1, <2>1 DEF TypeOK, Sample
<1> QED
  BY <1>2, <1>3

(* Every variable of the pipeline keeps its type and execute_trade runs for*)
(* the newest row, which still reads as a trade.                           *)
LEMMA TypesInductive == Spec => [](TypeOK /\ ExecutesTheNewest)
<1>1. ASSUME Init PROVE TypeOK /\ ExecutesTheNewest
  <2>1. Window \in Nat /\ MaxBars \in Nat
    BY PipelineAssumption
  <2>2. NoSetup \in [direction : Directions \cup {"none"}, bars_waited : 0..Window]
    BY <2>1 DEF NoSetup
  <2>3. last \in [Directions -> Int]
    BY <1>1 DEF Init, Never
  <2>4. /\ signals \in Seq(Row) /\ rejected \in Seq(Bars)
        /\ sole \in Seq(Directions \cup {"none"})
        /\ Len(sole) = Len(signals) /\ Len(signals) <= MaxBars
    <3>1. signals = <<>> /\ rejected = <<>> /\ sole = <<>>
      BY <1>1 DEF Init
    <3> QED
      BY <2>1, <3>1, EmptySeq
  <2>5. pending = NoSetup /\ executing = FALSE /\ open = FALSE /\ samples = {}
    BY <1>1 DEF Init
  <2>6. bucket \in Nat /\ confirmations \subseteq 1..Len(signals)
    BY <1>1 DEF Init
  <2> QED
    BY <2>2, <2>3, <2>4, <2>5, <2>6 DEF TypeOK, ExecutesTheNewest, Row
<1>2. ASSUME TypeOK, ExecutesTheNewest, [Next]_vars PROVE TypeOK' /\ ExecutesTheNewest'
  <2>0. /\ signals \in Seq(Row) /\ sole \in Seq(Directions \cup {"none"})
        /\ rejected \in Seq(Bars) /\ Window \in Nat /\ MaxBars \in Nat
    BY <1>2, PipelineAssumption DEF TypeOK, Row
  <2>1. ASSUME NEW gap \in 0..MaxGap, BarTooEarly(gap) PROVE TypeOK' /\ ExecutesTheNewest'
    <3> DEFINE row == [reason |-> "MINIMUM_DATA", direction |-> "none"]
    <3>1. row \in Row /\ row.reason # "TRADE" /\ "none" \in Directions \cup {"none"}
      BY DEF Row, Reasons
    <3>2. /\ signals' = Append(signals, row) /\ sole' = Append(sole, "none")
          /\ rejected' = rejected \o Recorded(NextBar, row) /\ NextBar <= MaxBars
          /\ UNCHANGED <<pending, executing, open, last, samples, confirmations>>
          /\ ~ executing /\ ClockAdvances(gap)
      BY <2>1 DEF BarTooEarly, Closes
    <3> HIDE DEF row
    <3>3. /\ signals' \in Seq(Row) /\ Len(signals') = Len(signals) + 1
          /\ sole' \in Seq(Directions \cup {"none"}) /\ Len(sole') = Len(sole) + 1
      BY <2>0, <3>1, <3>2, RowAdded
    <3>4. rejected' \in Seq(Bars)
      BY <1>2, <2>0, <3>2, NextBarType, RecordedType
    <3>5. Len(sole') = Len(signals') /\ Len(signals') <= MaxBars
      BY <1>2, <3>2, <3>3, NextBarType
    <3>6. bucket' \in Nat /\ confirmations' \subseteq 1..Len(signals')
      <4>1. bucket' \in Nat
        BY <1>2, <3>2, ClockMovesOn
      <4>2. /\ confirmations' = confirmations /\ confirmations \subseteq 1..Len(signals)
            /\ Len(signals) \in Nat
        BY <1>2, <3>2, NextBarType DEF TypeOK
      <4> QED
        BY <3>3, <4>1, <4>2
    <3> QED
      BY <1>2, <3>2, <3>3, <3>4, <3>5, <3>6 DEF TypeOK, ExecutesTheNewest, Row
  <2>2. ASSUME NEW q \in SUBSET Directions, NEW g \in Gates, NEW t \in BOOLEAN,
               NEW e \in 0..MaxEarly, NEW gap \in 0..MaxGap, BarCloses(q, g, t, e, gap)
        PROVE  TypeOK' /\ ExecutesTheNewest'
    <3> DEFINE row == RowOf(q, g, t)
    <3>1. /\ row \in Row /\ row.direction = Sole(q) /\ Sole(q) \in Directions \cup {"none"}
          /\ row.reason \in {"TRADE", "UNCONFIRMED"} => row.direction \in Directions
      BY <1>2, RowType, SoleOf
    <3>2. /\ ~ executing /\ NextBar <= MaxBars /\ pending' = Kept(SetupOf(q), t)
          /\ signals' = Append(signals, row) /\ sole' = Append(sole, Sole(q))
          /\ rejected' = rejected \o Recorded(NextBar, row)
          /\ Follow(NextBar, row, bucket', bucket' * Timeframe - e)
          /\ \/ executing' = TRUE /\ open' = TRUE /\ row.reason = "TRADE"
             \/ UNCHANGED <<executing, open>>
      BY <2>2, BarClosesDoes
    <3> HIDE DEF row
    <3>3. /\ signals' \in Seq(Row) /\ Len(signals') = Len(signals) + 1
          /\ signals'[Len(signals')] = row
          /\ sole' \in Seq(Directions \cup {"none"}) /\ Len(sole') = Len(sole) + 1
      BY <2>0, <3>1, <3>2, RowAdded
    <3>4. rejected' \in Seq(Bars)
      BY <1>2, <2>0, <3>2, NextBarType, RecordedType
    <3>5. Len(sole') = Len(signals') /\ Len(signals') <= MaxBars
      BY <1>2, <3>2, <3>3, NextBarType
    <3>6. /\ bucket' * Timeframe - e \in Int /\ NextBar \in Bars
          /\ bucket' \in Nat \ {0}
      <4>1. bucket' \in Nat \ {0}
        BY <1>2, <2>2, BarClosesDoes, ClockMovesOn
      <4> QED
        BY <1>2, <3>2, <4>1, NextBarType, PipelineAssumption
    <3>7. last' \in [Directions -> Int] /\ samples' \subseteq Sample
      BY <1>2, <3>1, <3>2, <3>6, FollowType
    <3>10. confirmations' \subseteq 1..Len(signals')
      <4>1. confirmations' \subseteq confirmations \cup {NextBar}
        <5>1. confirmations' = confirmations \cup {i \in {NextBar} : Confirms(SetupOf(q), t)}
          BY <2>2, BarClosesDoes
        <5> QED
          BY <5>1
      <4>2. /\ confirmations \subseteq 1..Len(signals)
            /\ Len(signals) \in Nat /\ NextBar = Len(signals) + 1
        BY <1>2, NextBarType DEF TypeOK
      <4> QED
        BY <3>3, <4>1, <4>2
    <3>8. pending' \in YoungSetups
      <4>1. SetupOf(q) \in Setup
        BY <1>2, Tracking
      <4>2. CASE pending' = NoSetup
        BY <2>0, <4>2 DEF NoSetup, YoungSetups
      <4>3. CASE pending' = SetupOf(q) /\ ~ Expired(SetupOf(q))
        <5>1. SetupOf(q).bars_waited \in 0..Window
          BY <2>0, <4>1, <4>3 DEF Setup, Expired
        <5> QED
          BY <4>1, <4>3, <5>1, YoungSetup
      <4> QED
        BY <3>2, <4>2, <4>3 DEF Kept
    <3>9. executing' \in BOOLEAN /\ open' \in BOOLEAN /\ ExecutesTheNewest'
      <4>1. signals' # <<>>
        BY <1>2, <3>3, NextBarType
      <4>2. CASE executing' = TRUE /\ open' = TRUE /\ row.reason = "TRADE"
        BY <3>3, <4>1, <4>2 DEF ExecutesTheNewest
      <4>3. CASE UNCHANGED <<executing, open>>
        <5>1. executing \in BOOLEAN /\ open \in BOOLEAN /\ executing' = FALSE
          BY <1>2, <3>2, <4>3 DEF TypeOK
        <5> QED
          BY <4>3, <5>1 DEF ExecutesTheNewest
      <4> QED
        BY <3>2, <4>2, <4>3
    <3> QED
      BY <3>3, <3>4, <3>5, <3>6, <3>7, <3>8, <3>9, <3>10 DEF TypeOK, Row, YoungSetups
  <2>3. CASE ExecutionBuys
    <3>1. /\ UNCHANGED <<pending, signals, open, last, bucket, samples, sole, confirmations>>
          /\ executing' = FALSE
          /\ rejected' = rejected \o Recorded(Len(signals), signals[Len(signals)])
          /\ executing
      BY <2>3 DEF ExecutionBuys
    <3>2. Len(signals) \in Bars
      BY <1>2, <2>0, <3>1, NextBarType, EmptySeq DEF ExecutesTheNewest, Bars
    <3>3. rejected' \in Seq(Bars)
      BY <2>0, <3>1, <3>2, RecordedType
    <3> QED
      BY <1>2, <3>1, <3>3 DEF TypeOK, ExecutesTheNewest
  <2>4. CASE ExecutionRefuses
    <3>1. /\ UNCHANGED <<pending, last, bucket, samples, sole, confirmations>>
          /\ executing' = FALSE /\ open' = FALSE
          /\ signals' = Corrected(signals) /\ executing
          /\ rejected' = rejected \o Recorded(Len(signals), signals'[Len(signals)])
      BY <2>4 DEF ExecutionRefuses
    <3>2. Len(signals) \in Bars /\ signals # <<>>
      BY <1>2, <2>0, <3>1, NextBarType, EmptySeq DEF ExecutesTheNewest, Bars
    <3>3. rejected' \in Seq(Bars)
      BY <2>0, <3>1, <3>2, RecordedType
    <3>4. signals' \in Seq(Row) /\ Len(signals') = Len(signals)
      BY <2>0, <3>1, <3>2, Correction
    <3> QED
      BY <1>2, <3>1, <3>3, <3>4 DEF TypeOK, ExecutesTheNewest, Row
  <2>5. CASE Settles
    BY <1>2, <2>5 DEF Settles, TypeOK, ExecutesTheNewest
  <2>6. CASE UNCHANGED vars
    BY <1>2, <2>6 DEF vars, TypeOK, ExecutesTheNewest
  <2> QED
    BY <1>2, <2>1, <2>2, <2>3, <2>4, <2>5, <2>6 DEF Next
<1> QED
  BY <1>1, <1>2, PTL DEF Spec

(* Every variable of the pipeline keeps its type: a pending setup is never *)
(* older than the window, and every row has one of the reasons.            *)
THEOREM TypeCorrect == Spec => []TypeOK
  BY TypesInductive, PTL

-----------------------------------------------------------------------------
(* Every trade signal confirms a young setup of its own                    *)

(* A bar adds one row; the trade signals of the rows before stay what they *)
(* were, and so do the setups they confirm.                                *)
LEMMA RowsExtend ==
  ASSUME TypeOK, NEW row \in Row, NEW d \in Directions \cup {"none"},
         signals' = Append(signals, row), sole' = Append(sole, d),
         confirmations' \subseteq confirmations \cup {NextBar}
  PROVE  /\ DOMAIN signals' = 1..NextBar /\ DOMAIN sole' = 1..NextBar
         /\ Len(signals') = NextBar
         /\ \A i \in 1..Len(signals) : signals'[i] = signals[i] /\ sole'[i] = sole[i]
         /\ signals'[NextBar] = row /\ sole'[NextBar] = d
         /\ Signalled \subseteq 1..Len(signals)
         /\ Signalled' = Signalled \cup {i \in {NextBar} : row.reason \in {"TRADE", "EXECUTION"}}
         /\ \A i \in Signalled : ConfirmsItsOwnSetup(i) => ConfirmsItsOwnSetup(i)'
<1>1. /\ signals \in Seq(Row) /\ sole \in Seq(Directions \cup {"none"})
      /\ Len(signals) \in Nat /\ Len(sole) = Len(signals) /\ NextBar = Len(signals) + 1
      /\ DOMAIN signals = 1..Len(signals) /\ DOMAIN sole = 1..Len(signals)
  BY NextBarType DEF TypeOK, Row
<1>2. /\ DOMAIN signals' = 1..NextBar /\ DOMAIN sole' = 1..NextBar
      /\ Len(signals') = NextBar
      /\ \A i \in 1..Len(signals) : signals'[i] = signals[i] /\ sole'[i] = sole[i]
      /\ signals'[NextBar] = row /\ sole'[NextBar] = d
  BY <1>1, RowAdded
<1>3. Signalled \subseteq 1..Len(signals)
  BY <1>1 DEF Signalled
<1>4. Signalled' = Signalled \cup {i \in {NextBar} : row.reason \in {"TRADE", "EXECUTION"}}
  <2>1. 1..NextBar = 1..Len(signals) \cup {NextBar} /\ NextBar \notin 1..Len(signals)
    BY <1>1
  <2> QED
    BY <1>1, <1>2, <2>1 DEF Signalled
<1>5. ASSUME NEW i \in Signalled, ConfirmsItsOwnSetup(i) PROVE ConfirmsItsOwnSetup(i)'
  <2>1. PICK k \in 1..Window : /\ i - k \in DOMAIN sole /\ sole[i - k] = sole[i]
                               /\ \A j \in confirmations : j < i => j < i - k
    BY <1>5 DEF ConfirmsItsOwnSetup
  <2>2. i \in 1..Len(signals) /\ i - k \in 1..Len(signals)
    BY <1>1, <1>3, <2>1
  <2>3. i - k \in DOMAIN sole' /\ sole'[i - k] = sole'[i]
    BY <1>1, <1>2, <2>1, <2>2
  <2>4. \A j \in confirmations' : j < i => j < i - k
    <3>1. ASSUME NEW j \in confirmations', j < i PROVE j \in confirmations
      BY <1>1, <2>2, <3>1
    <3> QED
      BY <2>1, <3>1
  <2>5. sole'[i] = signals'[i].direction
    BY <1>2, <1>5, <2>2 DEF ConfirmsItsOwnSetup
  <2> QED
    BY <2>3, <2>4, <2>5 DEF ConfirmsItsOwnSetup
<1> QED
  BY <1>2, <1>3, <1>4, <1>5

(* Setups form on evaluated bars only.                                     *)
SetupsAreEvaluated == pending # NoSetup => Len(signals) >= MinBars

SetupsInv == TradesFollowSetups /\ SetupsAreEvaluated

(* A bar that is evaluated: the crucial case, where a setup forms, ages,   *)
(* is dropped or is traded.                                                *)
LEMMA EvaluatedBar ==
  ASSUME TypeOK, SetupsInv, NEW q \in SUBSET Directions, NEW g \in Gates,
         NEW t \in BOOLEAN, NEW e \in 0..MaxEarly, NEW gap \in 0..MaxGap, BarCloses(q, g, t, e, gap)
  PROVE  SetupsInv'
<1> DEFINE row == RowOf(q, g, t)
           setup == SetupOf(q)
           n == Len(signals)
<1>1. /\ row \in Row /\ row.reason \notin {"MINIMUM_DATA", "EXECUTION"}
      /\ row.direction = Sole(q)
      /\ row.reason = "TRADE" => /\ Confirms(setup, t) /\ setup.direction = Sole(q)
                                 /\ Sole(q) \in Directions
      /\ Sole(q) \in Directions \cup {"none"}
  BY RowType, SoleOf
<1>2. /\ pending' = Kept(setup, t) /\ signals' = Append(signals, row)
      /\ sole' = Append(sole, Sole(q)) /\ NextBar >= MinBars
      /\ confirmations' = confirmations \cup {i \in {NextBar} : Confirms(setup, t)}
  BY BarClosesDoes
<1>3. /\ setup \in Setup
      /\ pending = NoSetup => setup = [direction |-> Sole(q), bars_waited |-> 0]
      /\ pending # NoSetup => /\ setup.direction = pending.direction
                              /\ setup.bars_waited = pending.bars_waited + 1
  BY Tracking
<1> HIDE DEF row, setup
<1>4. /\ DOMAIN signals' = 1..NextBar /\ DOMAIN sole' = 1..NextBar /\ Len(signals') = NextBar
      /\ \A i \in 1..n : signals'[i] = signals[i] /\ sole'[i] = sole[i]
      /\ signals'[NextBar] = row /\ sole'[NextBar] = Sole(q)
      /\ Signalled \subseteq 1..n
      /\ Signalled' = Signalled \cup {i \in {NextBar} : row.reason \in {"TRADE", "EXECUTION"}}
      /\ \A i \in Signalled : ConfirmsItsOwnSetup(i) => ConfirmsItsOwnSetup(i)'
  BY <1>1, <1>2, RowsExtend
<1>5. /\ n \in Nat /\ NextBar = n + 1 /\ DOMAIN sole = 1..n /\ Window \in Nat /\ MinBars \in Nat
      /\ confirmations \subseteq 1..n
  BY NextBarType, PipelineAssumption DEF TypeOK
<1> HIDE DEF n
<1>6. \A i \in Signalled : ConfirmsItsOwnSetup(i)'
  BY <1>4 DEF SetupsInv, TradesFollowSetups
(* The bar the setup is from, if it is not this one.                       *)
<1>7. ASSUME pending # NoSetup
      PROVE  /\ setup.bars_waited \in Nat \ {0}
             /\ NextBar - setup.bars_waited \in 1..n
             /\ sole[NextBar - setup.bars_waited] = setup.direction
             /\ \A i \in confirmations : i < NextBar - setup.bars_waited
  <2>1. /\ n - pending.bars_waited \in DOMAIN sole
        /\ sole[n - pending.bars_waited] = pending.direction
        /\ \A i \in confirmations : i < n - pending.bars_waited
    BY <1>7 DEF SetupsInv, TradesFollowSetups, PendingIsYoung, n
  <2>2. pending.bars_waited \in Nat
    BY <1>5 DEF TypeOK
  <2>3. NextBar - setup.bars_waited = n - pending.bars_waited
    BY <1>3, <1>5, <1>7, <2>2
  <2>4. setup.bars_waited \in Nat \ {0}
    BY <1>3, <1>7, <2>2
  <2> QED
    BY <1>3, <1>5, <1>7, <2>1, <2>3, <2>4
<1>8. CASE row.reason = "TRADE"
  <2>1. /\ setup.bars_waited > 0 /\ setup.bars_waited <= Window
        /\ pending' = NoSetup /\ setup.bars_waited \in Nat
    BY <1>1, <1>2, <1>3, <1>5, <1>8 DEF Confirms, Expired, Kept, Setup
  <2>2. pending # NoSetup
    BY <1>3, <2>1
  <2> DEFINE k == setup.bars_waited
  <2>3. k \in 1..Window /\ NextBar - k \in 1..n
    BY <1>5, <1>7, <2>1, <2>2
  <2>4. /\ NextBar - k \in DOMAIN sole' /\ sole'[NextBar - k] = sole'[NextBar]
    <3>1. sole[NextBar - k] = Sole(q)
      BY <1>1, <1>7, <1>8, <2>2
    <3> QED
      BY <1>4, <1>5, <2>3, <3>1
  <2>5. \A j \in confirmations' : j < NextBar => j < NextBar - k
    <3>1. ASSUME NEW j \in confirmations', j < NextBar PROVE j \in confirmations
      BY <1>2, <1>5, <3>1
    <3> QED
      BY <1>7, <2>2, <3>1
  <2> HIDE DEF k
  <2>6. signals'[NextBar].direction = sole'[NextBar]
    BY <1>1, <1>4
  <2>7. ASSUME NEW i \in {NextBar} PROVE ConfirmsItsOwnSetup(i)'
    BY <2>3, <2>4, <2>5, <2>6 DEF ConfirmsItsOwnSetup
  <2>8. \A i \in Signalled' : ConfirmsItsOwnSetup(i)'
    <3>1. Signalled' \subseteq Signalled \cup {NextBar}
      BY <1>4
    <3> QED
      BY <1>6, <2>7, <3>1
  <2> QED
    BY <2>1, <2>8 DEF SetupsInv, TradesFollowSetups, PendingIsYoung, SetupsAreEvaluated
<1>9. CASE row.reason # "TRADE"
  <2>1. Signalled' = Signalled
    BY <1>1, <1>4, <1>9
  <2>2. \/ pending' = NoSetup
        \/ pending' = setup /\ ~ Expired(setup) /\ confirmations' = confirmations
    BY <1>2 DEF Kept
  <2>3. ASSUME pending' # NoSetup
        PROVE  /\ setup.bars_waited <= Window
               /\ NextBar - setup.bars_waited \in 1..NextBar
               /\ sole'[NextBar - setup.bars_waited] = setup.direction
               /\ \A i \in confirmations : i < NextBar - setup.bars_waited
    <3>1. setup.bars_waited <= Window /\ setup.bars_waited \in Nat
      BY <1>3, <1>5, <2>2, <2>3 DEF Expired, Setup
    <3>2. CASE pending = NoSetup
      <4>1. setup.bars_waited = 0 /\ setup.direction = Sole(q)
        BY <1>3, <3>2
      <4>2. NextBar - setup.bars_waited = NextBar /\ NextBar \in 1..NextBar
        BY <1>5, <4>1
      <4>3. \A i \in confirmations : i < NextBar
        BY <1>5
      <4> QED
        BY <1>4, <3>1, <4>1, <4>2, <4>3
    <3>3. CASE pending # NoSetup
      <4>1. NextBar - setup.bars_waited \in 1..n /\ 1..n \subseteq 1..NextBar
        BY <1>5, <1>7, <3>3
      <4> QED
        BY <1>4, <1>7, <3>1, <3>3, <4>1
    <3> QED
      BY <3>2, <3>3
  <2>4. PendingIsYoung'
    <3>1. ASSUME pending' # NoSetup PROVE pending' = setup /\ confirmations' = confirmations
      BY <2>2, <3>1
    <3> QED
      BY <1>4, <2>3, <3>1 DEF PendingIsYoung
  <2>5. SetupsAreEvaluated'
    BY <1>2, <1>4 DEF SetupsAreEvaluated
  <2> QED
    BY <1>6, <2>1, <2>4, <2>5 DEF SetupsInv, TradesFollowSetups
<1> QED
  BY <1>8, <1>9

(* A bar before the features have enough history leaves no setup to age.   *)
LEMMA EarlyBar ==
  ASSUME TypeOK, SetupsInv, NEW gap \in 0..MaxGap, BarTooEarly(gap)
  PROVE  SetupsInv'
<1> DEFINE row == [reason |-> "MINIMUM_DATA", direction |-> "none"]
<1>1. /\ row \in Row /\ row.reason \notin {"TRADE", "EXECUTION"}
      /\ signals' = Append(signals, row) /\ sole' = Append(sole, "none")
      /\ pending' = pending /\ confirmations' = confirmations /\ NextBar < MinBars
  BY DEF BarTooEarly, Row, Reasons
<1> HIDE DEF row
<1>2. /\ Signalled' = Signalled \cup {i \in {NextBar} : row.reason \in {"TRADE", "EXECUTION"}}
      /\ \A i \in Signalled : ConfirmsItsOwnSetup(i) => ConfirmsItsOwnSetup(i)'
  BY <1>1, RowsExtend
<1>3. Signalled' = Signalled
  BY <1>1, <1>2
<1>4. pending' = NoSetup
  <2>1. Len(signals) \in Nat /\ NextBar = Len(signals) + 1
    BY NextBarType
  <2>2. MinBars \in Nat
    BY PipelineAssumption
  <2> QED
    BY <1>1, <2>1, <2>2 DEF SetupsInv, SetupsAreEvaluated
<1> QED
  BY <1>2, <1>3, <1>4 DEF SetupsInv, TradesFollowSetups, PendingIsYoung, SetupsAreEvaluated

(* execute_trade turns a trade signal into one refused by execution: it is *)
(* a trade signal still, of the same direction.                            *)
LEMMA RefusalKeepsRows ==
  ASSUME TypeOK, ExecutesTheNewest, ExecutionRefuses
  PROVE  /\ signals # <<>> /\ signals \in Seq(Row)
         /\ Len(signals') = Len(signals) /\ DOMAIN signals' = DOMAIN signals
         /\ \A i \in DOMAIN signals : signals'[i].direction = signals[i].direction
         /\ \A i \in DOMAIN signals : i # Len(signals) => signals'[i] = signals[i]
         /\ signals[Len(signals)].reason = "TRADE"
         /\ signals'[Len(signals)].reason = "EXECUTION"
         /\ Signalled' = Signalled
<1>0. PICK n : n = Len(signals)
  OBVIOUS
<1>1. /\ signals \in Seq(Row) /\ signals # <<>> /\ signals' = Corrected(signals)
      /\ signals[n].reason = "TRADE"
  BY <1>0 DEF TypeOK, ExecutesTheNewest, ExecutionRefuses, Row
<1>2. /\ Len(signals') = n /\ n \in 1..n
      /\ DOMAIN signals = 1..n /\ DOMAIN signals' = 1..n
      /\ \A i \in 1..n : /\ signals'[i].direction = signals[i].direction
                         /\ i # n => signals'[i] = signals[i]
      /\ signals'[n].reason = "EXECUTION"
  <2>1. /\ Len(Corrected(signals)) = n /\ n \in 1..n
        /\ DOMAIN signals = 1..n /\ DOMAIN Corrected(signals) = 1..n
    BY <1>0, <1>1, Correction
  <2>2. /\ \A i \in 1..n : /\ Corrected(signals)[i].direction = signals[i].direction
                           /\ i # n => Corrected(signals)[i] = signals[i]
        /\ Corrected(signals)[n].reason = "EXECUTION"
    BY <1>0, <1>1, Correction
  <2> QED
    BY <1>1, <2>1, <2>2
<1>3. Signalled' = Signalled
  <2>1. ASSUME NEW i \in 1..n
        PROVE  signals'[i].reason \in {"TRADE", "EXECUTION"}
                 <=> signals[i].reason \in {"TRADE", "EXECUTION"}
    <3>1. CASE i = n
      BY <1>1, <1>2, <3>1
    <3>2. CASE i # n
      BY <1>2, <3>2
    <3> QED
      BY <3>1, <3>2
  <2> QED
    BY <1>2, <2>1 DEF Signalled
<1> QED
  BY <1>0, <1>1, <1>2, <1>3

LEMMA StepKeepsSetupsInv ==
  ASSUME TypeOK, ExecutesTheNewest, SetupsInv, [Next]_vars
  PROVE  SetupsInv'
<1> USE DEF SetupsInv, TradesFollowSetups, PendingIsYoung, SetupsAreEvaluated
<1>1. CASE ExecutionRefuses
  <2>1. /\ UNCHANGED <<pending, sole, confirmations>> /\ Len(signals') = Len(signals)
        /\ \A i \in DOMAIN signals : signals'[i].direction = signals[i].direction
        /\ Signalled' = Signalled /\ Signalled \subseteq DOMAIN signals
    BY <1>1, RefusalKeepsRows DEF ExecutionRefuses, Signalled
  <2>2. \A i \in Signalled : ConfirmsItsOwnSetup(i)'
    BY <2>1 DEF ConfirmsItsOwnSetup
  <2> QED
    BY <2>1, <2>2
<1>2. ASSUME UNCHANGED <<pending, signals, sole, confirmations>> PROVE SetupsInv'
  <2>1. Signalled' = Signalled
    BY <1>2 DEF Signalled
  <2>2. \A i \in Signalled : ConfirmsItsOwnSetup(i)'
    BY <1>2, <2>1 DEF ConfirmsItsOwnSetup
  <2> QED
    BY <1>2, <2>1, <2>2
<1>3. CASE ExecutionBuys \/ Settles \/ UNCHANGED vars
  BY <1>2, <1>3 DEF ExecutionBuys, Settles, vars
<1> QED
  BY <1>1, <1>3, EvaluatedBar, EarlyBar DEF Next

(* Every trade signal confirms a setup of its own, formed at most "window" *)
(* closed bars before and after the last confirmation, vetoed or not; the  *)
(* pending setup is as old, in bars, as it claims, so the next signal will *)
(* do so too.                                                              *)
THEOREM TradesFollow == Spec => []TradesFollowSetups
<1>1. ASSUME Init PROVE SetupsInv
  BY <1>1 DEF Init, SetupsInv, TradesFollowSetups, PendingIsYoung, SetupsAreEvaluated, Signalled
<1>2. TypeOK /\ ExecutesTheNewest /\ SetupsInv /\ [Next]_vars => SetupsInv'
  BY StepKeepsSetupsInv
<1>3. SetupsInv => TradesFollowSetups
  BY DEF SetupsInv
<1> QED
  BY <1>1, <1>2, <1>3, TypesInductive, PTL DEF Spec

-----------------------------------------------------------------------------
(* Every refusal is recorded once                                          *)

(* The rows of rejected_signals for signal i: none, or exactly one.        *)
NoRow(i) == \A n \in DOMAIN rejected : rejected[n] # i
OneRow(i) ==
  \E n \in DOMAIN rejected :
    rejected[n] = i /\ \A m \in DOMAIN rejected : rejected[m] = i => m = n

RejectedInv ==
  /\ \A n \in DOMAIN rejected : rejected[n] <= Len(signals)
  /\ \A i \in DOMAIN signals : IF signals[i].reason = "TRADE" THEN NoRow(i) ELSE OneRow(i)

(* A row for signal "id", which has none, leaves the rows of the others.   *)
LEMMA OneRejectedMore ==
  ASSUME NEW id \in Bars, rejected \in Seq(Bars), NoRow(id), rejected' = Append(rejected, id)
  PROVE  /\ OneRow(id)'
         /\ \A i : i # id => (NoRow(i) => NoRow(i)') /\ (OneRow(i) => OneRow(i)')
         /\ \A b : id <= b /\ (\A n \in DOMAIN rejected : rejected[n] <= b) =>
                     \A n \in DOMAIN rejected' : rejected'[n] <= b
<1> DEFINE l == Len(rejected)
<1>1. /\ l \in Nat /\ DOMAIN rejected = 1..l /\ DOMAIN rejected' = 1..l + 1
      /\ \A n \in 1..l : rejected'[n] = rejected[n]
      /\ rejected'[l + 1] = id
  BY RowAdded
<1> HIDE DEF l
<1>2. 1..l + 1 = 1..l \cup {l + 1} /\ l + 1 \notin 1..l
  BY <1>1
<1>3. \A n \in 1..l : rejected[n] # id
  BY <1>1 DEF NoRow
<1>4. OneRow(id)'
  <2>1. /\ l + 1 \in DOMAIN rejected' /\ rejected'[l + 1] = id
        /\ \A m \in DOMAIN rejected' : rejected'[m] = id => m = l + 1
    BY <1>1, <1>2, <1>3
  <2> QED
    BY <2>1 DEF OneRow
<1>5. ASSUME NEW i, i # id, NoRow(i) PROVE NoRow(i)'
  BY <1>1, <1>2, <1>5 DEF NoRow
<1>6. ASSUME NEW i, i # id, OneRow(i) PROVE OneRow(i)'
  <2>1. PICK n \in 1..l : rejected[n] = i /\ \A m \in 1..l : rejected[m] = i => m = n
    BY <1>1, <1>6 DEF OneRow
  <2>2. /\ n \in DOMAIN rejected' /\ rejected'[n] = i
        /\ \A m \in DOMAIN rejected' : rejected'[m] = i => m = n
    BY <1>1, <1>2, <1>6, <2>1
  <2> QED
    BY <2>2 DEF OneRow
<1>7. ASSUME NEW b, id <= b, \A n \in DOMAIN rejected : rejected[n] <= b,
             NEW n \in DOMAIN rejected'
      PROVE  rejected'[n] <= b
  BY <1>1, <1>2, <1>7
<1> QED
  BY <1>4, <1>5, <1>6, <1>7

(* A bar's row, with its rejected row unless it is a trade.                *)
LEMMA RowRecorded ==
  ASSUME TypeOK, RejectedInv, NEW row \in Row, NextBar <= MaxBars,
         signals' = Append(signals, row),
         rejected' = rejected \o Recorded(NextBar, row)
  PROVE  RejectedInv'
<1>0. PICK id \in Bars : id = NextBar
  BY NextBarType
<1> DEFINE n == Len(signals)
<1>1. /\ n \in Nat /\ NextBar = id /\ id = n + 1 /\ DOMAIN signals = 1..n
  BY <1>0, NextBarType
<1>2. /\ DOMAIN signals' = 1..id /\ Len(signals') = id /\ signals'[id] = row
      /\ \A i \in 1..n : signals'[i] = signals[i]
  BY <1>1, RowAdded DEF TypeOK, Row
<1>3. /\ rejected \in Seq(Bars)
      /\ rejected' = IF row.reason = "TRADE" THEN rejected ELSE Append(rejected, id)
  BY <1>1, RecordedType DEF TypeOK
<1>4. \A m \in DOMAIN rejected : rejected[m] \in Nat /\ rejected[m] <= n
  <2>1. \A m \in DOMAIN rejected : rejected[m] \in Nat
    <3>1. rejected \in [1..Len(rejected) -> Bars] /\ DOMAIN rejected = 1..Len(rejected)
      BY <1>3, LenProperties
    <3> QED
      BY <3>1 DEF Bars
  <2> QED
    BY <2>1 DEF RejectedInv
<1>5. \A i \in 1..n : IF signals[i].reason = "TRADE" THEN NoRow(i) ELSE OneRow(i)
  BY <1>1 DEF RejectedInv
<1> HIDE DEF n
<1>6. n \in Int /\ id = n + 1 /\ n <= id /\ id \notin 1..n /\ 1..id = 1..n \cup {id} /\ id <= id
  BY <1>1
<1>7. NoRow(id) /\ \A m \in DOMAIN rejected : rejected[m] <= id
  BY <1>4, <1>6 DEF NoRow
<1>8. CASE row.reason = "TRADE"
  <2>1. rejected' = rejected
    BY <1>3, <1>8
  <2>2. \A i : (NoRow(i) => NoRow(i)') /\ (OneRow(i) => OneRow(i)')
    BY <2>1 DEF NoRow, OneRow
  <2>3. \A i \in 1..id : IF signals'[i].reason = "TRADE" THEN NoRow(i)' ELSE OneRow(i)'
    BY <1>2, <1>5, <1>6, <1>7, <1>8, <2>2
  <2>4. \A m \in DOMAIN rejected' : rejected'[m] <= id
    BY <1>7, <2>1
  <2> QED
    BY <1>2, <2>3, <2>4 DEF RejectedInv
<1>9. CASE row.reason # "TRADE"
  <2>1. rejected' = Append(rejected, id)
    BY <1>3, <1>9
  <2>2. /\ OneRow(id)'
        /\ \A i : i # id => (NoRow(i) => NoRow(i)') /\ (OneRow(i) => OneRow(i)')
        /\ \A m \in DOMAIN rejected' : rejected'[m] <= id
    BY <1>1, <1>3, <1>6, <1>7, <2>1, OneRejectedMore
  <2>3. ASSUME NEW i \in 1..id
        PROVE  IF signals'[i].reason = "TRADE" THEN NoRow(i)' ELSE OneRow(i)'
    <3>1. CASE i = id
      <4>1. signals'[i].reason # "TRADE"
        BY <1>2, <1>9, <3>1
      <4> QED
        BY <2>2, <3>1, <4>1
    <3>2. CASE i \in 1..n /\ i # id
      BY <1>2, <1>5, <2>2, <3>2
    <3> QED
      BY <1>6, <3>1, <3>2
  <2> QED
    BY <1>2, <2>2, <2>3 DEF RejectedInv
<1> QED
  BY <1>8, <1>9

LEMMA StepKeepsRejectedInv ==
  ASSUME TypeOK, ExecutesTheNewest, RejectedInv, [Next]_vars
  PROVE  RejectedInv'
<1>1. ASSUME NEW gap \in 0..MaxGap, BarTooEarly(gap) PROVE RejectedInv'
  <2> DEFINE row == [reason |-> "MINIMUM_DATA", direction |-> "none"]
  <2>1. /\ row \in Row /\ NextBar <= MaxBars /\ signals' = Append(signals, row)
        /\ rejected' = rejected \o Recorded(NextBar, row)
    BY <1>1 DEF BarTooEarly, Closes, Row, Reasons
  <2> HIDE DEF row
  <2> QED
    BY <2>1, RowRecorded
<1>2. ASSUME NEW q \in SUBSET Directions, NEW g \in Gates, NEW t \in BOOLEAN,
             NEW e \in 0..MaxEarly, NEW gap \in 0..MaxGap, BarCloses(q, g, t, e, gap)
      PROVE  RejectedInv'
  BY <1>2, BarClosesDoes, RowType, RowRecorded
<1>3. CASE ExecutionBuys
  <2>1. /\ UNCHANGED signals /\ executing
        /\ rejected' = rejected \o Recorded(Len(signals), signals[Len(signals)])
    BY <1>3 DEF ExecutionBuys
  <2>2. signals[Len(signals)].reason = "TRADE" /\ rejected \in Seq(Bars)
    BY <2>1 DEF ExecutesTheNewest, TypeOK
  <2>3. rejected' = rejected
    BY <2>1, <2>2, OneMore DEF Recorded
  <2> QED
    BY <2>1, <2>3 DEF RejectedInv, NoRow, OneRow
<1>4. CASE ExecutionRefuses
  <2>0. PICK n : n = Len(signals)
    OBVIOUS
  <2>1. /\ signals # <<>> /\ Len(signals') = n /\ DOMAIN signals' = DOMAIN signals
        /\ \A i \in DOMAIN signals : i # n => signals'[i] = signals[i]
        /\ signals[n].reason = "TRADE" /\ signals'[n].reason = "EXECUTION"
    BY <1>4, <2>0, RefusalKeepsRows
  <2>2. n \in Bars /\ n \in DOMAIN signals /\ n <= n
    BY <2>0, <2>1, NextBarType, EmptySeq DEF TypeOK, Bars
  <2>3. rejected \in Seq(Bars) /\ rejected' = Append(rejected, n)
    <3>1. rejected \in Seq(Bars) /\ rejected' = rejected \o Recorded(n, signals'[n])
      BY <1>4, <2>0 DEF ExecutionRefuses, TypeOK
    <3> QED
      BY <2>1, <2>2, <3>1, RecordedType
  <2>4. NoRow(n) /\ \A m \in DOMAIN rejected : rejected[m] <= n
    BY <2>0, <2>1, <2>2 DEF RejectedInv
  <2>5. /\ OneRow(n)'
        /\ \A i : i # n => (NoRow(i) => NoRow(i)') /\ (OneRow(i) => OneRow(i)')
        /\ \A m \in DOMAIN rejected' : rejected'[m] <= n
    BY <2>2, <2>3, <2>4, OneRejectedMore
  <2>6. ASSUME NEW i \in DOMAIN signals
        PROVE  IF signals'[i].reason = "TRADE" THEN NoRow(i)' ELSE OneRow(i)'
    <3>1. CASE i = n
      BY <2>1, <2>5, <3>1
    <3>2. CASE i # n
      BY <2>1, <2>5, <3>2 DEF RejectedInv
    <3> QED
      BY <3>1, <3>2
  <2> QED
    BY <2>1, <2>5, <2>6 DEF RejectedInv
<1>5. CASE Settles \/ UNCHANGED vars
  BY <1>5 DEF Settles, vars, RejectedInv, NoRow, OneRow
<1> QED
  BY <1>1, <1>2, <1>3, <1>4, <1>5 DEF Next

(* Every refusal, by the signal or later by execution, has exactly one row *)
(* in rejected_signals, and nothing that still reads as a trade has one:   *)
(* record_signal and update_signal_outcome never both write it.            *)
THEOREM RejectionsRecordedOnce == Spec => []RejectedOnce
<1>1. ASSUME Init PROVE RejectedInv
  BY <1>1 DEF Init, RejectedInv
<1>2. TypeOK /\ ExecutesTheNewest /\ RejectedInv /\ [Next]_vars => RejectedInv'
  BY StepKeepsRejectedInv
<1>3. ASSUME RejectedInv PROVE RejectedOnce
  <2>1. ASSUME NEW i \in DOMAIN signals
        PROVE  Cardinality({n \in DOMAIN rejected : rejected[n] = i})
                 = IF signals[i].reason = "TRADE" THEN 0 ELSE 1
    <3>1. CASE signals[i].reason = "TRADE"
      <4>1. {n \in DOMAIN rejected : rejected[n] = i} = {}
        BY <1>3, <3>1 DEF RejectedInv, NoRow
      <4> QED
        BY <3>1, <4>1, FS_EmptySet
    <3>2. CASE signals[i].reason # "TRADE"
      <4>1. PICK n \in DOMAIN rejected :
              rejected[n] = i /\ \A m \in DOMAIN rejected : rejected[m] = i => m = n
        BY <1>3, <3>2 DEF RejectedInv, OneRow
      <4>2. {m \in DOMAIN rejected : rejected[m] = i} = {n}
        BY <4>1
      <4> QED
        BY <3>2, <4>2, FS_Singleton
    <3> QED
      BY <3>1, <3>2
  <2> QED
    BY <2>1 DEF RejectedOnce
<1>4. RejectedInv => RejectedOnce
  BY <1>3
<1> QED
  BY <1>1, <1>2, <1>4, TypesInductive, PTL DEF Spec

-----------------------------------------------------------------------------
(* Unconfirmed samples are far apart                                       *)

(* The deduper's memory of a direction is the newest sample's: the epoch   *)
(* of its last tick, less than a timeframe before the end of its bucket.   *)
Remembers(d) ==
  \/ last[d] = Never /\ \A s \in samples : s.direction # d
  \/ \E s \in samples :
       /\ s.direction = d
       /\ last[d] <= s.bucket * Timeframe /\ s.bucket * Timeframe - MaxEarly <= last[d]
       /\ \A s2 \in samples : s2.direction = d => s2.bucket <= s.bucket

SamplesInv ==
  /\ SamplesApart
  /\ \A s \in samples : s.bucket <= bucket
  /\ \A d \in Directions : Remembers(d)

(* Two epochs more than w timeframes apart are of buckets w apart.         *)
LEMMA BucketsApart ==
  ASSUME NEW a \in Nat, NEW b \in Nat, NEW w \in Nat, NEW t \in Nat, NEW x \in Nat, x < t,
         NEW first \in Int, NEW second \in Int,
         a * t - x <= first, second <= b * t, second - first > w * t
  PROVE  b - a >= w
<1>1. SUFFICES ASSUME b + 1 <= a + w PROVE FALSE
  OBVIOUS
<1> DEFINE k == a + w - (b + 1)
<1>2. k \in Nat /\ a + w = b + 1 + k
  BY <1>1
<1> HIDE DEF k
<1>3. (a + w) * t = a * t + w * t
  OBVIOUS
<1>4. (b + 1 + k) * t = b * t + t + k * t
  BY <1>2
<1>5. /\ a * t \in Int /\ b * t \in Int /\ w * t \in Int /\ k * t \in Nat
  BY <1>2
<1>6. a * t + w * t = b * t + t + k * t
  BY <1>2, <1>3, <1>4
<1> QED
  BY <1>5, <1>6

(* The last tick of a bar has an epoch after 0, so never the one that      *)
(* stands for "no sample".                                                 *)
LEMMA EpochOf ==
  ASSUME NEW b \in Nat \ {0}, NEW e \in 0..MaxEarly
  PROVE  /\ b * Timeframe - e \in Int /\ b * Timeframe - e > 0
         /\ b * Timeframe - e <= b * Timeframe
         /\ b * Timeframe - MaxEarly <= b * Timeframe - e
<1>1. Timeframe \in Nat /\ MaxEarly \in Nat /\ MaxEarly < Timeframe /\ e \in Nat /\ e <= MaxEarly
  BY PipelineAssumption
<1> DEFINE k == b - 1
<1>2. k \in Nat /\ b = k + 1
  OBVIOUS
<1> HIDE DEF k
<1>3. b * Timeframe = k * Timeframe + Timeframe /\ k * Timeframe \in Nat
  BY <1>1, <1>2
<1> QED
  BY <1>1, <1>3

LEMMA FollowKeeps ==
  ASSUME TypeOK, SamplesInv, NEW row \in Row, NEW e \in 0..MaxEarly, NEW gap \in 0..MaxGap,
         row.reason \in {"TRADE", "UNCONFIRMED"} => row.direction \in Directions,
         ClockAdvances(gap), Follow(NextBar, row, bucket', bucket' * Timeframe - e)
  PROVE  SamplesInv'
<1> DEFINE clock == bucket'
           epoch == clock * Timeframe - e
           confirmed == row.reason = "TRADE"
           d == row.direction
<1>1. bucket \in Nat /\ clock \in Nat \ {0} /\ bucket < clock
  BY ClockMovesOn
<1>2. /\ Timeframe \in Nat /\ MaxEarly \in Nat /\ MaxEarly < Timeframe /\ Window \in Nat
      /\ Window * Timeframe \in Int
  BY PipelineAssumption
<1>3. /\ epoch \in Int /\ epoch > 0 /\ epoch <= clock * Timeframe
      /\ clock * Timeframe - MaxEarly <= epoch
  BY <1>1, EpochOf
<1>4. \A s \in samples : /\ s.bucket \in Nat \ {0} /\ s.bucket <= bucket
                         /\ s.direction \in Directions /\ s.bucket < clock
  BY <1>1 DEF TypeOK, SamplesInv, Sample
<1>5. bucket' = clock /\ \A s \in samples : s.bucket <= bucket'
  BY <1>1, <1>4
<1> HIDE DEF clock, epoch
<1>6. CASE UNCHANGED <<last, samples>>
  BY <1>5, <1>6 DEF SamplesInv, SamplesApart, Remembers
<1>7. CASE ~ UNCHANGED <<last, samples>>
  <2> DEFINE new == [bar |-> NextBar, bucket |-> clock, direction |-> d,
                     confirmed |-> confirmed]
  <2>1. /\ d \in Directions /\ Accepts(d, confirmed, epoch)
        /\ last' = [last EXCEPT ![d] = epoch] /\ samples' = samples \cup {new}
    BY <1>7 DEF Follow, clock, epoch
  <2>2. new.bucket = clock /\ new.direction = d /\ new.confirmed = confirmed
    OBVIOUS
  <2> HIDE DEF new, confirmed, d
  <2>3. ASSUME NEW s \in samples, s.direction = d, ~ confirmed PROVE clock - s.bucket >= Window
    <3>1. last[d] \in Int /\ Remembers(d)
      BY <2>1 DEF TypeOK, SamplesInv
    <3>2. PICK s2 \in samples : /\ s2.direction = d /\ last[d] <= s2.bucket * Timeframe
                                /\ s2.bucket * Timeframe - MaxEarly <= last[d]
                                /\ \A s3 \in samples : s3.direction = d => s3.bucket <= s2.bucket
      BY <2>3, <3>1 DEF Remembers
    <3>3. s2.bucket \in Nat \ {0} /\ s.bucket \in Nat /\ s.bucket <= s2.bucket
      BY <1>4, <2>3, <3>2
    <3>4. last[d] # Never
      <4>1. s2.bucket * Timeframe - MaxEarly > 0
        <5>1. MaxEarly \in 0..MaxEarly
          BY <1>2
        <5> QED
          BY <3>3, <5>1, EpochOf
      <4>2. s2.bucket * Timeframe \in Int
        BY <1>2, <3>3
      <4> QED
        BY <1>2, <3>1, <3>2, <4>1, <4>2 DEF Never
    <3>5. epoch - last[d] > Window * Timeframe
      BY <2>1, <2>3, <3>4 DEF Accepts
    <3>6. clock - s2.bucket >= Window
      BY <1>1, <1>2, <1>3, <3>1, <3>2, <3>3, <3>5, BucketsApart
    <3> QED
      BY <1>1, <1>2, <3>3, <3>6
  <2>4. SamplesApart'
    <3>1. ASSUME NEW s \in samples', NEW s2 \in samples', s.direction = s2.direction,
                 s.bucket < s2.bucket, ~ s2.confirmed
          PROVE  s2.bucket - s.bucket >= Window
      <4>1. CASE s2 = new
        <5>1. s # new
          BY <1>1, <2>2, <3>1, <4>1
        <5>2. s \in samples
          BY <2>1, <5>1
        <5> QED
          BY <2>2, <2>3, <3>1, <4>1, <5>2
      <4>2. CASE s2 # new
        <5>1. s2 \in samples
          BY <2>1, <4>2
        <5>2. s # new
          BY <1>1, <1>4, <2>2, <3>1, <5>1
        <5>3. s \in samples
          BY <2>1, <5>2
        <5> QED
          BY <3>1, <5>1, <5>3 DEF SamplesInv, SamplesApart
      <4> QED
        BY <4>1, <4>2
    <3> QED
      BY <3>1 DEF SamplesApart
  <2>5. \A s \in samples' : s.bucket <= bucket'
    <3>1. clock <= bucket'
      BY <1>1, <1>5
    <3> QED
      BY <1>5, <2>1, <2>2, <3>1
  <2>6. ASSUME NEW c \in Directions PROVE Remembers(c)'
    <3>1. CASE c = d
      <4>1. last'[c] = epoch
        BY <2>1, <3>1 DEF TypeOK
      <4>2. new \in samples' /\ \A s2 \in samples' : s2.bucket <= new.bucket
        BY <1>1, <1>4, <2>1, <2>2
      <4> QED
        BY <1>3, <2>2, <3>1, <4>1, <4>2 DEF Remembers
    <3>2. CASE c # d
      <4>1. last'[c] = last[c] /\ \A s \in samples' : s.direction = c => s \in samples
        BY <2>1, <2>2, <3>2 DEF TypeOK
      <4>2. Remembers(c)
        BY DEF SamplesInv
      <4>3. CASE last[c] = Never /\ \A s \in samples : s.direction # c
        BY <4>1, <4>3 DEF Remembers
      <4>4. CASE \E s \in samples :
                    /\ s.direction = c
                    /\ last[c] <= s.bucket * Timeframe /\ s.bucket * Timeframe - MaxEarly <= last[c]
                    /\ \A s2 \in samples : s2.direction = c => s2.bucket <= s.bucket
        BY <2>1, <4>1, <4>4 DEF Remembers
      <4> QED
        BY <4>2, <4>3, <4>4 DEF Remembers
    <3> QED
      BY <3>1, <3>2
  <2> QED
    BY <2>4, <2>5, <2>6 DEF SamplesInv
<1> QED
  BY <1>6, <1>7

LEMMA StepKeepsSamplesInv ==
  ASSUME TypeOK, ExecutesTheNewest, SamplesInv, [Next]_vars
  PROVE  SamplesInv'
<1>1. ASSUME NEW gap \in 0..MaxGap, BarTooEarly(gap) PROVE SamplesInv'
  <2>1. UNCHANGED <<last, samples>> /\ ClockAdvances(gap)
    BY <1>1 DEF BarTooEarly
  <2>2. \A s \in samples : s.bucket <= bucket'
    <3>1. \A s \in samples : s.bucket \in Nat /\ s.bucket <= bucket
      BY DEF TypeOK, SamplesInv, Sample
    <3>2. bucket \in Nat /\ bucket' \in Nat /\ bucket < bucket'
      BY <2>1, ClockMovesOn
    <3> QED
      BY <3>1, <3>2
  <2> QED
    BY <2>1, <2>2 DEF SamplesInv, SamplesApart, Remembers
<1>2. ASSUME NEW q \in SUBSET Directions, NEW g \in Gates, NEW t \in BOOLEAN,
             NEW e \in 0..MaxEarly, NEW gap \in 0..MaxGap, BarCloses(q, g, t, e, gap)
      PROVE  SamplesInv'
  <2>1. /\ RowOf(q, g, t) \in Row
        /\ RowOf(q, g, t).reason \in {"TRADE", "UNCONFIRMED"} =>
             RowOf(q, g, t).direction \in Directions
    BY RowType
  <2>2. /\ ClockAdvances(gap)
        /\ Follow(NextBar, RowOf(q, g, t), bucket', bucket' * Timeframe - e)
    BY <1>2, BarClosesDoes
  <2> QED
    BY <2>1, <2>2, FollowKeeps
<1>3. CASE ExecutionBuys \/ ExecutionRefuses \/ Settles \/ UNCHANGED vars
  BY <1>3 DEF ExecutionBuys, ExecutionRefuses, Settles, vars, SamplesInv, SamplesApart, Remembers
<1> QED
  BY <1>1, <1>2, <1>3 DEF Next

(* An unconfirmed setup is sampled "window" timeframes of the clock after  *)
(* any other sample of its direction at the earliest, however late in its  *)
(* bucket the last tick of each bar comes and however many buckets have no *)
(* bar: the deduper compares tick times, not bars.                         *)
THEOREM SamplesStayApart == Spec => []SamplesApart
<1>1. ASSUME Init PROVE SamplesInv
  BY <1>1 DEF Init, SamplesInv, SamplesApart, Remembers
<1>2. TypeOK /\ ExecutesTheNewest /\ SamplesInv /\ [Next]_vars => SamplesInv'
  BY StepKeepsSamplesInv
<1>3. SamplesInv => SamplesApart
  BY DEF SamplesInv
<1> QED
  BY <1>1, <1>2, <1>3, TypesInductive, PTL DEF Spec
=============================================================================

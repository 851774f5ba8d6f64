---------------------------- MODULE ExpiryEvidence ----------------------------
(***************************************************************************)
(* The evidence the contract expiry is chosen by: outcomes emitted by the  *)
(* tracker wait in LiveTrader._outcomes (execution/live.py), are flushed   *)
(* to the setup_outcomes table (data/database.py, data/postgres.py), also  *)
(* filled by main.py --calibrate-expiry from another process, and counted  *)
(* by the ExpiryCalibrator (strategy/expiry.py).  The counts are read and  *)
(* swapped in by a worker thread, under a trading task that is computing   *)
(* estimates from them.  One direction is modelled: every key and every    *)
(* count names one, so rows of the two never meet.                         *)
(***************************************************************************)
EXTENDS Integers, Sequences, FiniteSets

CONSTANTS
  Symbols,
  Horizons,       \* candidate expiries
  MinuteHorizons, \* those a replay of stored candles can measure
  MinSamples,     \* expiry.min_samples
  Lookback,       \* expiry.lookback_days
  PoolSymbols,    \* expiry.pool_symbols
  \* bounds on the environment, not in the code:
  MaxEpoch,       \* setups close at epochs 1..MaxEpoch
  MaxEmitted,     \* outcomes the tracker emits
  MaxReplayed,    \* rows a replay offers
  MaxFaults       \* database errors and crashes

ASSUME EvidenceAssumption ==
  /\ IsFiniteSet(Symbols) /\ IsFiniteSet(Horizons) /\ MinuteHorizons \subseteq Horizons
  /\ PoolSymbols \in BOOLEAN /\ MinSamples \in Nat \ {0}
  /\ MaxEpoch \in Nat \ {0}
  /\ {Lookback, MaxEmitted, MaxReplayed, MaxFaults} \subseteq Nat

Setup == [symbol: Symbols, epoch: 1..MaxEpoch, horizon: Horizons]
Row == [symbol: Symbols, epoch: 1..MaxEpoch, horizon: Horizons,
        confirmed: BOOLEAN, won: BOOLEAN]

\* the unique index of the table
Key(row) == [symbol |-> row.symbol, epoch |-> row.epoch, horizon |-> row.horizon]
Keys(rows) == {Key(row) : row \in rows}

Population == Symbols \X Horizons \X BOOLEAN
Tally == [wins: Nat, n: Nat]
Counts == [Population -> Tally]
NoCounts == [p \in Population |-> [wins |-> 0, n |-> 0]]

\* the populations a sample may come from, in the order they are tried
Chain == <<"confirmed", "half", "qualified", "pooled-confirmed", "pooled-qualified">>
Taken == {Chain[i] : i \in DOMAIN Chain} \ {"half"}
Estimate == [horizon: Horizons, population: Taken, wins: Nat, n: Nat]

VARIABLES
  clock,      \* epoch of the newest closed bar
  emitted,    \* what the tracker has measured, this process and earlier ones
  buffer,     \* LiveTrader._outcomes
  table,      \* committed rows of setup_outcomes
  open_rows,  \* rows inserted by a transaction nobody has committed yet
  lost,       \* measured, and gone with a failed insert or a crash
  counts,     \* ExpiryCalibrator.counts
  refreshing, \* the worker thread of calibration_loop is in refresh_calibration
  reader,     \* the symbol whose estimates are being computed
  todo,       \* horizons it has not looked at
  asked,      \* the horizon at hand and the link of the chain it is at
  half,       \* confirmed half of a "qualified" sum, read before the other half
  estimates,
  spent       \* how much of each bound is used up

storeVars == <<buffer, table, open_rows, lost>>
workerVars == <<counts, refreshing>>
readerVars == <<reader, todo, asked, half, estimates>>
vars == <<clock, emitted, storeVars, workerVars, readerVars, spent>>

NoOne == "nobody"
NotAsked == [horizon |-> NoOne, link |-> 0]
Nothing == [wins |-> 0, n |-> 0]

Stored == table \cup open_rows

TypeOK ==
  /\ clock \in 1..MaxEpoch /\ emitted \subseteq Setup
  /\ buffer \in Seq(Row) /\ table \subseteq Row /\ open_rows \subseteq Row
  /\ Cardinality(Keys(Stored)) = Cardinality(Stored)
  /\ lost \subseteq emitted
  /\ counts \in Counts /\ refreshing \in BOOLEAN
  /\ reader \in Symbols \cup {NoOne} /\ todo \subseteq Horizons
  /\ asked \in [horizon: Horizons, link: DOMAIN Chain] \cup {NotAsked}
  /\ half \in Tally
  /\ estimates \subseteq Estimate

Init ==
  /\ clock = 1 /\ emitted = {}
  /\ buffer = <<>> /\ table = {} /\ open_rows = {} /\ lost = {}
  /\ counts = NoCounts /\ refreshing = FALSE
  /\ reader = NoOne /\ todo = {} /\ asked = NotAsked /\ half = Nothing /\ estimates = {}
  /\ spent = [replayed |-> 0, faults |-> 0]

\* The event loop runs one task at a time; estimates() has no await in it.
LoopIsFree == reader = NoOne

Fault == spent.faults < MaxFaults /\ spent' = [spent EXCEPT !.faults = @ + 1]

-----------------------------------------------------------------------------
(* Emission and storage                                                    *)

(* The tracker's sink is list.append; a setup is followed to an expiry     *)
(* once (SymbolFeed!EverySetupIsMeasuredOnce).                             *)
Emit ==
  /\ LoopIsFree /\ Cardinality(emitted) < MaxEmitted
  /\ \E row \in Row :
       /\ row.epoch <= clock /\ Key(row) \notin emitted
       /\ emitted' = emitted \cup {Key(row)}
       /\ buffer' = Append(buffer, row)
  /\ UNCHANGED <<clock, table, open_rows, lost, workerVars, readerVars, spent>>

MutantInserted(rows, row) == rows \cup {row}

(* INSERT OR IGNORE / on conflict do nothing: the first row of a key stays.*)
Inserted(rows, row) == IF Key(row) \in Keys(rows) THEN rows ELSE rows \cup {row}

(* executemany: of several new rows with one key the first one stays.      *)
InsertedAll(rows, new) ==
  LET first == {i \in DOMAIN new : \A j \in 1..i - 1 : Key(new[j]) # Key(new[i])}
  IN  rows \cup UNION {Inserted(rows, new[i]) : i \in first}

(* flush_outcomes empties the buffer first.  Then either all rows are      *)
(* inserted and committed, with what an earlier statement has left in the  *)
(* transaction; or the statement fails at some row, and the rows before it *)
(* stay in the open transaction (SQLite) or are committed (PostgreSQL,     *)
(* batch by batch).  The others are gone.                                  *)
FlushSucceeds ==
  /\ table' = InsertedAll(Stored, buffer) /\ open_rows' = {}
  /\ UNCHANGED <<lost, spent>>

FlushFails(committed) ==
  /\ Fault
  /\ \E k \in 0..Len(buffer) - 1 :
       LET kept == InsertedAll(Stored, SubSeq(buffer, 1, k))
       IN  /\ table' \in {committed, kept}
           /\ open_rows' = kept \ table'
           /\ lost' = lost \cup {Key(buffer[i]) : i \in k + 1..Len(buffer)}

FlushOutcomes(committed) ==
  /\ buffer' = <<>>
  /\ IF buffer = <<>>
     THEN table' = committed /\ open_rows' = Stored \ committed /\ UNCHANGED <<lost, spent>>
     ELSE FlushSucceeds \/ FlushFails(committed)

(* on_candle_closed: record_candle commits what is open, the outcomes are  *)
(* flushed, and for a signal that may trade estimates() begins.            *)
CandleCloses(s) ==
  /\ LoopIsFree
  /\ clock' \in {clock, clock + 1} \cap 1..MaxEpoch
  /\ FlushOutcomes(Stored)
  /\ \/ reader' = s /\ todo' = Horizons
     \/ UNCHANGED <<reader, todo>>
  /\ UNCHANGED <<emitted, workerVars, asked, half, estimates>>

(* --calibrate-expiry: outcomes of stored candles, for live setups too.    *)
Replay ==
  /\ spent.replayed < MaxReplayed
  /\ spent' = [spent EXCEPT !.replayed = @ + 1]
  /\ \E row \in Row :
       /\ row.epoch < clock /\ row.horizon \in MinuteHorizons
       /\ table' = IF Key(row) \in Keys(open_rows) THEN table ELSE Inserted(table, row)
  /\ UNCHANGED <<clock, emitted, buffer, open_rows, lost, workerVars, readerVars>>

-----------------------------------------------------------------------------
(* calibration_loop and refresh_calibration                                *)

MutantCountsOf(rows) ==
  [p \in Population |->
    LET those == {row \in rows : /\ <<row.symbol, row.horizon>> = <<p[1], p[2]>>
                                 /\ p[3] => row.confirmed}
    IN  [wins |-> Cardinality({row \in those : row.won}), n |-> Cardinality(those)]]

CountsOf(rows) ==
  [p \in Population |->
    LET those == {row \in rows : <<row.symbol, row.horizon, row.confirmed>> = p}
    IN  [wins |-> Cardinality({row \in those : row.won}), n |-> Cardinality(those)]]

Recent == {row \in Stored : row.epoch + Lookback >= clock}

MutantRefreshDue ==
  /\ LoopIsFree /\ ~ refreshing /\ buffer # <<>>
  /\ FlushOutcomes(table)
  /\ refreshing' = TRUE
  /\ UNCHANGED <<clock, emitted, counts, readerVars>>

(* The timer: a flush in the event loop, then the worker thread.           *)
RefreshDue ==
  /\ LoopIsFree /\ ~ refreshing
  /\ FlushOutcomes(table)
  /\ refreshing' = TRUE
  /\ UNCHANGED <<clock, emitted, counts, readerVars>>

(* load_counts assigns the new dict at any point of estimates().  The      *)
(* query before it is part of the step: this thread alone assigns, and     *)
(* what is stored meanwhile is counted by the next refresh.                *)
LoadCounts ==
  /\ refreshing /\ refreshing' = FALSE
  /\ counts' = CountsOf(Recent)
  /\ UNCHANGED <<clock, emitted, storeVars, readerVars, spent>>

(* The exception is logged by calibration_loop, which goes on.             *)
QueryFails ==
  /\ refreshing /\ refreshing' = FALSE
  /\ Fault
  /\ UNCHANGED <<clock, emitted, storeVars, counts, readerVars>>

-----------------------------------------------------------------------------
(* estimates() and _sample()                                               *)

NextHorizon ==
  /\ reader # NoOne /\ asked = NotAsked
  /\ \E h \in todo : asked' = [horizon |-> h, link |-> 1] /\ todo' = todo \ {h}
  /\ UNCHANGED <<clock, emitted, storeVars, workerVars, reader, half, estimates, spent>>

Plus(a, b) == [wins |-> a.wins + b.wins, n |-> a.n + b.n]

\* a sum of tallies, as the number of the samples they count
Total(size) == Cardinality(UNION {{p} \X (1..size[p]) : p \in DOMAIN size})

Pooled(h, confirmed) ==
  LET those == {p \in Population : p[2] = h /\ (p[3] \/ ~ confirmed)}
  IN  [wins |-> Total([p \in those |-> counts[p].wins]),
       n |-> Total([p \in those |-> counts[p].n])]

(* One read of self.counts: what it finds at a link of the chain.  The two *)
(* halves of a symbol's own sum are two reads, and may meet two dicts.     *)
Found ==
  LET h == asked.horizon
      own(confirmed) == counts[<<reader, h, confirmed>>]
  IN  CASE Chain[asked.link] \in {"confirmed", "half"} -> own(TRUE)
        [] Chain[asked.link] = "qualified" -> Plus(half, own(FALSE))
        [] Chain[asked.link] = "pooled-confirmed" -> Pooled(h, TRUE)
        [] Chain[asked.link] = "pooled-qualified" -> Pooled(h, FALSE)

LastLink == IF PoolSymbols THEN Len(Chain) ELSE 3

Enough(tally) == tally.n >= MinSamples

(* The first population with enough samples is taken; a horizon without    *)
(* one is left out.                                                        *)
Look ==
  /\ reader # NoOne /\ asked # NotAsked
  /\ LET population == Chain[asked.link]
         taken == population # "half" /\ Enough(Found)
     IN  /\ half' = IF population = "half" THEN Found ELSE Nothing
         /\ estimates' =
              IF taken
              THEN estimates \cup {[horizon |-> asked.horizon, population |-> population,
                                    wins |-> Found.wins, n |-> Found.n]}
              ELSE estimates
         /\ asked' = IF taken \/ asked.link = LastLink THEN NotAsked
                     ELSE [asked EXCEPT !.link = @ + 1]
  /\ UNCHANGED <<clock, emitted, storeVars, workerVars, reader, todo, spent>>

EstimatesEnd ==
  /\ reader # NoOne /\ asked = NotAsked /\ todo = {}
  /\ reader' = NoOne /\ estimates' = {}
  /\ UNCHANGED <<clock, emitted, storeVars, workerVars, todo, asked, half, spent>>

-----------------------------------------------------------------------------
(* The process ends and is started again: run() counts the table before    *)
(* anything else; what was not committed is gone.                          *)
Crash ==
  /\ Fault
  /\ buffer' = <<>> /\ open_rows' = {}
  /\ lost' = lost \cup Keys({buffer[i] : i \in DOMAIN buffer}) \cup (Keys(open_rows) \cap emitted)
  /\ counts' = CountsOf(Recent \ open_rows)
  /\ refreshing' = FALSE
  /\ reader' = NoOne /\ todo' = {} /\ asked' = NotAsked /\ half' = Nothing
  /\ estimates' = {}
  /\ UNCHANGED <<clock, emitted, table>>

Next ==
  \/ \E s \in Symbols : CandleCloses(s)
  \/ Emit \/ Replay
  \/ RefreshDue \/ LoadCounts \/ QueryFails
  \/ NextHorizon \/ Look \/ EstimatesEnd
  \/ Crash

Spec == Init /\ [][Next]_vars

(* The timer's task and the next candle get their turn in an event loop    *)
(* that is busy again and again (its queue is first in, first out), the    *)
(* worker thread is scheduled, and estimates() runs to its end.  Nothing   *)
(* has to be emitted, to be asked for or to fail.                          *)
FairSpec ==
  /\ Spec
  /\ SF_vars(RefreshDue) /\ SF_vars(\E s \in Symbols : CandleCloses(s))
  /\ WF_vars(LoadCounts)
  /\ WF_vars(NextHorizon) /\ WF_vars(Look) /\ WF_vars(EstimatesEnd)

-----------------------------------------------------------------------------
(* An estimate an expiry is chosen by rests on at least min_samples setups *)
(* of its population that are in the table, every setup counted once and   *)
(* with the result it really has there, whatever was replayed, lost,       *)
(* crashed or swapped under the estimator in between.                      *)
Behind(e) ==
  {row \in Stored :
     /\ row.horizon = e.horizon
     /\ e.population \in {"confirmed", "qualified"} => row.symbol = reader
     /\ e.population \in {"confirmed", "pooled-confirmed"} => row.confirmed}

EstimatesAreBacked ==
  \A e \in estimates :
    /\ MinSamples <= Cardinality(Keys(Behind(e)))
    /\ e.n <= Cardinality(Keys(Behind(e)))
    /\ e.wins <= Cardinality({row \in Behind(e) : row.won})
    /\ e.n - e.wins <= Cardinality({row \in Behind(e) : ~ row.won})

(* Every measured outcome ends up in the table, unless a failed insert or  *)
(* a crash took it, and the calibrator ends up with the counts of the      *)
(* table: no failure stops the refresh, and no row waits for ever in a     *)
(* transaction or a buffer.                                                *)
EvidenceArrives ==
  <>[](emitted \subseteq Keys(table) \cup lost /\ counts = CountsOf(Recent))
=============================================================================

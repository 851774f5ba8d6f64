------------------------------ MODULE SymbolFeed -----------------------------
(***************************************************************************)
(* The ticks of one symbol on their way through handle_symbol (execution/  *)
(* live.py): the bounded tick queue of deriv/client.py, TickValidator      *)
(* (data/validation.py), the OutcomeTracker (strategy/expiry.py), the      *)
(* CandleBuilder (data/candles.py) and the candles table.  A tick is       *)
(* identified by its epoch; its price decides nothing here but whether the *)
(* validator throws it away.  Bars are numbered by bucket.                 *)
(***************************************************************************)
EXTENDS Integers, Sequences, FiniteSets

CONSTANTS
  Bar,           \* candles.timeframe_seconds
  QueueSize,     \* maxsize of the tick queue (1000 in the code)
  TickHorizons,  \* expiries in ticks
  TimeHorizons,  \* expiries in seconds
  SeedBars,      \* candles.seed_bars
  \* bounds on the environment, not in the code:
  MaxEpoch,      \* Deriv's clock runs to MaxEpoch
  MaxTickGap,    \* at most this many seconds between two ticks of Deriv
  MaxSetups,     \* setups followed at a time
  MaxRestarts, MaxRepeats, MaxOutliers

ASSUME FeedAssumption ==
  /\ {Bar, QueueSize, MaxTickGap} \subseteq Nat \ {0}
  /\ TickHorizons \subseteq Nat \ {0} /\ TimeHorizons \subseteq Nat \ {0}
  /\ {SeedBars, MaxEpoch, MaxSetups, MaxRestarts, MaxRepeats, MaxOutliers} \subseteq Nat

Epoch == 0..MaxEpoch
None == -1
NoBar == [open |-> None, close |-> None]

VARIABLES
  mode,        \* "down", "seeding" (seed_candles), "up"
  clock,       \* epoch of Deriv's newest tick
  queue,       \* ticks the pump has put into the symbol's queue
  busy,        \* handle_symbol is inside on_candle_closed
  last_epoch,  \* TickValidator._last_epoch
  builder,     \* CandleBuilder._last_epoch and ._current
  closed,      \* CandleBuilder.closed
  fresh,       \* how many of them were built from ticks
  pending,     \* OutcomeTracker.pending
  outcomes,    \* what the tracker has emitted
  stored,      \* rows of the candles table
  accepted,    \* ticks the validator has let through since the start
  spent        \* how much of each bound is used up

memory == <<queue, busy, last_epoch, builder, closed, fresh, pending, outcomes, accepted>>
vars == <<mode, clock, memory, stored, spent>>

Bucket(e) == e \div Bar

Horizons == ({"t"} \X TickHorizons) \cup ({"s"} \X TimeHorizons)

BarType == [open: Nat, close: Nat]
Setup == [setup: Nat, entry: Epoch \cup {None}, count: Nat, last: Epoch \cup {None},
          done: SUBSET Horizons]
Outcome == [setup: Nat, horizon: Horizons, entry: Epoch, exit: Epoch, at: Epoch]

TypeOK ==
  /\ mode \in {"down", "seeding", "up"} /\ clock \in Epoch
  /\ queue \in Seq(Epoch) /\ Len(queue) <= QueueSize
  /\ busy \in BOOLEAN
  /\ last_epoch \in Epoch \cup {None}
  /\ builder \in [last: Nat \cup {None}, current: BarType \cup {NoBar}]
  /\ closed \in Seq(BarType) /\ fresh \in 0..Len(closed)
  /\ \A i \in DOMAIN closed : Bucket(closed[i].open) = Bucket(closed[i].close)
  /\ pending \subseteq Setup /\ IsFiniteSet(pending) /\ Cardinality(pending) <= MaxSetups
  /\ outcomes \subseteq Outcome
  /\ stored \subseteq BarType /\ accepted \in Seq(Epoch)

(* The database is empty, Deriv has a first tick.                          *)
Init ==
  /\ mode = "down" /\ clock = 0
  /\ queue = <<>> /\ busy = FALSE /\ last_epoch = None
  /\ builder = [last |-> None, current |-> NoBar]
  /\ closed = <<>> /\ fresh = 0 /\ pending = {} /\ outcomes = {} /\ accepted = <<>>
  /\ stored = {}
  /\ spent = [restarts |-> 0, repeats |-> 0, outliers |-> 0]

-----------------------------------------------------------------------------
(* Deriv and the pump                                                      *)

(* A full queue loses its oldest tick.                                     *)
Pushed(q, e) == Append(IF Len(q) < QueueSize THEN q ELSE Tail(q), e)

(* A tick of Deriv reaches the queue, or is lost with the socket.          *)
DerivTicks ==
  /\ \E e \in clock + 1..clock + MaxTickGap :
       /\ e <= MaxEpoch /\ clock' = e
       /\ IF mode = "up" THEN queue' = Pushed(queue, e) \/ UNCHANGED queue
          ELSE UNCHANGED queue
  /\ UNCHANGED <<mode, busy, last_epoch, builder, closed, fresh, pending, outcomes,
                 accepted, stored, spent>>

(* Subscribing again (watchdog, reconnect) sends the newest tick again.    *)
TickRepeated ==
  /\ mode = "up" /\ spent.repeats < MaxRepeats
  /\ queue' = Pushed(queue, clock)
  /\ spent' = [spent EXCEPT !.repeats = @ + 1]
  /\ UNCHANGED <<mode, clock, busy, last_epoch, builder, closed, fresh, pending,
                 outcomes, accepted, stored>>

-----------------------------------------------------------------------------
(* Start: seed_candles                                                     *)

(* candles_from_history: the rows whose whole timeframe has passed at the  *)
(* local time of the request.  The newest tick may precede it by a whole   *)
(* gap, when the tick that is due this second has not arrived.             *)
ClosedAt(now) == {b \in 0..MaxEpoch : (b + 1) * Bar <= now}

SeedBar(b) == [open |-> b * Bar, close |-> b * Bar + Bar - 1]

Seed(now) == {b \in ClosedAt(now) : b + SeedBars > Bucket(now) - 1}

(* Stored with INSERT OR IGNORE under UNIQUE(symbol, close_epoch); no two  *)
(* bars of one call close at the same time.                                *)
RecordCandles(rows, bars) ==
  rows \cup {bar \in bars : \A row \in rows : row.close # bar.close}

(* An unreadable history leaves the builder unseeded, a failed insert      *)
(* leaves the table as it was.                                             *)
SeedCandles ==
  /\ mode = "down" /\ mode' = "seeding"
  /\ \/ \E now \in clock..clock + MaxTickGap :
          LET bars == [i \in 1..Cardinality(Seed(now)) |->
                         SeedBar(CHOOSE b \in Seed(now) :
                                   Cardinality({a \in Seed(now) : a <= b}) = i)]
          IN  /\ closed' = bars
              /\ builder' = [last |-> IF bars = <<>> THEN None ELSE bars[Len(bars)].close,
                             current |-> NoBar]
              /\ \/ stored' = RecordCandles(stored, {bars[i] : i \in DOMAIN bars})
                 \/ UNCHANGED stored
     \/ UNCHANGED <<closed, builder, stored>>
  /\ UNCHANGED <<clock, queue, busy, last_epoch, fresh, pending, outcomes, accepted,
                 spent>>

(* The answer to the subscription carries the newest tick.                 *)
Subscribe ==
  /\ mode = "seeding" /\ mode' = "up"
  /\ queue' = <<clock>>
  /\ UNCHANGED <<clock, busy, last_epoch, builder, closed, fresh, pending, outcomes,
                 accepted, stored, spent>>

(* The process ends and is started again; its memory is gone.              *)
Forgotten ==
  /\ mode' = "down"
  /\ queue' = <<>> /\ busy' = FALSE /\ last_epoch' = None
  /\ builder' = [last |-> None, current |-> NoBar]
  /\ closed' = <<>> /\ fresh' = 0 /\ pending' = {} /\ outcomes' = {}
  /\ accepted' = <<>>
  /\ UNCHANGED <<clock, stored>>

Restart ==
  /\ mode # "down" /\ spent.restarts < MaxRestarts
  /\ spent' = [spent EXCEPT !.restarts = @ + 1]
  /\ Forgotten

-----------------------------------------------------------------------------
(* OutcomeTracker                                                          *)

(* ticks_after_entry counts the tick at hand already.                      *)
TickDue(p, k) == p.count + 1 = k

MutantTimeExit(p, e) == e

(* The first tick behind the expiry ends it at the tick before.            *)
TimeExit(p, e) == p.last

Due(p, e) ==
  {<<"t", k>> : k \in {k \in TickHorizons : TickDue(p, k)}}
    \cup {<<"s", d>> : d \in {d \in TimeHorizons : e > p.entry + d}}

\* "at" tells two emissions for the same setup and expiry apart
Emitted(p, e) ==
  {[setup |-> p.setup, horizon |-> h, entry |-> p.entry,
    exit |-> IF h[1] = "t" THEN e ELSE TimeExit(p, e), at |-> e] : h \in Due(p, e) \ p.done}

MutantAdvanced(p, e) ==
  IF p.entry = None THEN [p EXCEPT !.entry = e, !.last = e]
  ELSE [p EXCEPT !.count = @ + 1, !.last = e]

(* The first tick after the setup is its entry.                            *)
Advanced(p, e) ==
  IF p.entry = None THEN [p EXCEPT !.entry = e, !.last = e]
  ELSE [p EXCEPT !.count = @ + 1, !.last = e, !.done = @ \cup Due(p, e)]

OnTick(e) ==
  /\ outcomes' = outcomes \cup UNION {Emitted(p, e) : p \in {q \in pending : q.entry # None}}
  /\ pending' = {p \in {Advanced(q, e) : q \in pending} : p.done # Horizons}

-----------------------------------------------------------------------------
(* handle_symbol                                                           *)

Take == mode = "up" /\ ~ busy /\ queue # <<>>

(* A tick has to be newer than the last accepted one.                      *)
Valid(e) == e > last_epoch

RejectTick ==
  /\ Take
  /\ \/ ~ Valid(Head(queue)) /\ UNCHANGED spent
     \/ /\ Valid(Head(queue)) /\ spent.outliers < MaxOutliers
        /\ spent' = [spent EXCEPT !.outliers = @ + 1]
  /\ queue' = Tail(queue)
  /\ UNCHANGED <<mode, clock, busy, last_epoch, builder, closed, fresh, pending,
                 outcomes, accepted, stored>>

Accept(e) ==
  /\ Take /\ e = Head(queue) /\ Valid(e)
  /\ queue' = Tail(queue)
  /\ last_epoch' = e

(* add_tick refuses a tick older than the seeded history: the exception    *)
(* leaves handle_symbol and ends the process.                              *)
BuilderRaises(e) ==
  /\ Take /\ e = Head(queue) /\ Valid(e) /\ e < builder.last
  /\ Forgotten /\ UNCHANGED spent

MutantSameBar(e) == builder.current # NoBar /\ e - builder.current.open < Bar

SameBar(e) == builder.current # NoBar /\ Bucket(builder.current.open) = Bucket(e)

TickExtendsBar(e) ==
  /\ Accept(e) /\ e >= builder.last /\ (builder.current = NoBar \/ SameBar(e))
  /\ OnTick(e)
  /\ builder' = [last |-> e,
                 current |-> IF builder.current = NoBar THEN [open |-> e, close |-> e]
                             ELSE [builder.current EXCEPT !.close = e]]
  /\ accepted' = Append(accepted, e)
  /\ UNCHANGED <<mode, clock, busy, closed, fresh, stored, spent>>

(* The first tick of the next bar closes the current one: it is stored,    *)
(* evaluated and, when it is a setup, followed from the next tick on.      *)
TickClosesBar(e) ==
  /\ Accept(e) /\ e >= builder.last /\ builder.current # NoBar /\ ~ SameBar(e)
  /\ builder' = [last |-> e, current |-> [open |-> e, close |-> e]]
  /\ closed' = Append(closed, builder.current)
  /\ fresh' = fresh + 1
  /\ stored' = RecordCandles(stored, {builder.current})
  /\ accepted' = Append(accepted, e)
  /\ busy' = TRUE
  /\ OnTick(e)
  /\ UNCHANGED <<mode, clock, spent>>

(* on_candle_closed: the decision on the closed bar may start a setup; it  *)
(* may also spend its time on a trade while ticks wait in the queue.       *)
EvaluationEnds ==
  /\ busy /\ busy' = FALSE
  /\ \/ /\ Cardinality(pending) < MaxSetups
        /\ pending' = pending \cup {[setup |-> closed[Len(closed)].close, entry |-> None,
                                     count |-> 0, last |-> None, done |-> {}]}
     \/ UNCHANGED pending
  /\ UNCHANGED <<mode, clock, queue, last_epoch, builder, closed, fresh, outcomes,
                 accepted, stored, spent>>

Next ==
  \/ DerivTicks \/ TickRepeated \/ SeedCandles \/ Subscribe \/ Restart
  \/ RejectTick \/ EvaluationEnds
  \/ \E e \in Epoch : BuilderRaises(e) \/ TickExtendsBar(e) \/ TickClosesBar(e)

Spec == Init /\ [][Next]_vars

-----------------------------------------------------------------------------
(* The bars built from ticks are the accepted ticks cut at the bucket      *)
(* boundaries, in order and without loss: each is bounded by the first and *)
(* the last accepted tick of its bucket, whatever was dropped, repeated or *)
(* thrown away before.                                                     *)
InBucket(b) == {i \in DOMAIN accepted : Bucket(accepted[i]) = b}

BarsAreTheTicks ==
  LET built == SubSeq(closed, Len(closed) - fresh + 1, Len(closed))
      all == IF builder.current = NoBar THEN built ELSE Append(built, builder.current)
      buckets == {Bucket(accepted[i]) : i \in DOMAIN accepted}
  IN  /\ Len(all) = Cardinality(buckets)
      /\ \A i \in DOMAIN all :
           \E b \in buckets :
             /\ Cardinality({a \in buckets : a <= b}) = i
             /\ all[i].open = accepted[CHOOSE j \in InBucket(b) :
                                         \A k \in InBucket(b) : j <= k]
             /\ all[i].close = accepted[CHOOSE j \in InBucket(b) :
                                          \A k \in InBucket(b) : k <= j]

(* What an outcome has to be, by the accepted ticks alone: the entry is    *)
(* the first tick after the one that closed the setup's bar, a tick        *)
(* horizon k ends k ticks later, a time horizon at the last tick at or     *)
(* before its expiry.                                                      *)
EntryIndex(setup) ==
  1 + CHOOSE i \in DOMAIN accepted :
        /\ accepted[i] > setup
        /\ \A j \in DOMAIN accepted : accepted[j] > setup => i <= j

ExitIndex(setup, h) ==
  LET entry == EntryIndex(setup)
  IN  IF h[1] = "t" THEN entry + h[2]
      ELSE CHOOSE i \in entry..Len(accepted) :
             /\ accepted[i] <= accepted[entry] + h[2]
             /\ \A j \in i + 1..Len(accepted) : accepted[j] > accepted[entry] + h[2]

OutcomesAreReal ==
  \A o \in outcomes :
    /\ o.entry = accepted[EntryIndex(o.setup)]
    /\ o.exit = accepted[ExitIndex(o.setup, o.horizon)]

(* A setup gives one outcome per expiry at most, and a setup that has been *)
(* let go has given all of them.                                           *)
EverySetupIsMeasuredOnce ==
  \A o \in outcomes :
    LET same == {o2 \in outcomes : o2.setup = o.setup}
    IN  /\ \A o2 \in same : o2.horizon = o.horizon => o2 = o
        /\ o.setup \notin {p.setup : p \in pending} => {o2.horizon : o2 \in same} = Horizons

(* database.py: a candle that is seeded again after a restart is a no-op   *)
(* and not a second row.                                                   *)
OneRowPerBar ==
  \A row1, row2 \in stored : Bucket(row1.open) = Bucket(row2.open) => row1 = row2
=============================================================================

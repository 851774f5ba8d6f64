---------------------------- MODULE TradeJournal -----------------------------
(***************************************************************************)
(* The trades table of data/database.py (data/postgres.py has the same     *)
(* statements) and the queries the live bot makes of it.  A row is kept    *)
(* under its contract_id, which the schema declares UNIQUE; settled_at is  *)
(* the local day of the settlement plus the row's place in settle_order.   *)
(* A result is one of three outcomes, so SUM(pnl) is a count per outcome.  *)
(***************************************************************************)
EXTENDS Integers, Sequences, FiniteSets

CONSTANTS
  Symbols,      \* the configured symbols
  Contracts,    \* contract ids Deriv may hand out
  Stake,        \* the fixed stake, which a lost contract loses
  WinProfit,    \* profit of a won contract: payout - stake
  NoSymbol, NoContract

ASSUME JournalAssumption ==
  /\ IsFiniteSet(Contracts) /\ IsFiniteSet(Symbols)
  /\ Stake \in Nat \ {0} /\ WinProfit \in Nat \ {0}
  /\ NoSymbol \notin Symbols /\ NoContract \notin Contracts

(* "refund" is a sale at the stake: profit 0 and a status that is neither  *)
(* won nor lost.                                                           *)
Outcomes == {"won", "lost", "refund"}

Profit(outcome) ==
  CASE outcome = "won" -> WinProfit [] outcome = "lost" -> -Stake [] OTHER -> 0

Row == [status: {"none", "open", "settled"}, symbol: Symbols \cup {NoSymbol},
        outcome: Outcomes, opened: Nat, settled: Nat]

EmptyRow == [status |-> "none", symbol |-> NoSymbol, outcome |-> "refund",
             opened |-> 0, settled |-> 0]

OpenTrades(journal) == {c \in Contracts : journal[c].status = "open"}

KnownContractIds(journal) == {c \in Contracts : journal[c].status # "none"}

RecordTradeOpen(journal, c, s, today) ==
  [journal EXCEPT ![c] = [status |-> "open", symbol |-> s, outcome |-> "refund",
                          opened |-> today, settled |-> 0]]

(* WHERE contract_id = ? AND settled_at IS NULL                            *)
RecordTradeResult(journal, c, outcome, today) ==
  IF journal[c].status = "open"
  THEN [journal EXCEPT ![c] = [@ EXCEPT !.status = "settled", !.outcome = outcome,
                                        !.settled = today]]
  ELSE journal

SettledSince(journal, today, outcome) ==
  {c \in Contracts : /\ journal[c].status = "settled"
                     /\ journal[c].settled >= today
                     /\ journal[c].outcome = outcome}

OpenedSince(journal, today) ==
  {c \in KnownContractIds(journal) : journal[c].opened >= today}

DailyPnl(journal, today) ==
  WinProfit * Cardinality(SettledSince(journal, today, "won"))
    - Stake * Cardinality(SettledSince(journal, today, "lost"))

MutantLosingStreak(journal, settle_order, reset_mark) ==
  Len(settle_order) - reset_mark - 1

(* Counted from the newest settlement back to the first row that is won,   *)
(* not behind the last operator reset: the settlements with no win at or   *)
(* after them (the code's LIMIT 200 is not reached).                       *)
LosingStreak(journal, settle_order, reset_mark) ==
  Cardinality({i \in (reset_mark + 1)..Len(settle_order) :
                 \A j \in i..Len(settle_order) : journal[settle_order[j]].outcome # "won"})

RiskStateSince(journal, settle_order, reset_mark, today) ==
  [daily_pnl |-> DailyPnl(journal, today),
   trades_today |-> Cardinality(OpenedSince(journal, today)),
   consecutive_losses |-> LosingStreak(journal, settle_order, reset_mark)]
=============================================================================

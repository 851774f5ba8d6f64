----------------------------- MODULE TradeTicket -----------------------------
(***************************************************************************)
(* What a process may spend, on which account and at which price: from the *)
(* settings (config/loader.py) over the account, the Level 2 artifact and  *)
(* the horizons Deriv offers, to the stake, the quotes and the verdict of  *)
(* one symbol's trade (execution/live.py, execution/executor.py,           *)
(* strategy/edge_engine.py, strategy/decision_engine.py).                  *)
(* TradeLifecycle takes over at the buy request.  Money is in cents,       *)
(* probabilities and payout multiples are in hundredths.                   *)
(***************************************************************************)
EXTENDS Staking, Sequences, FiniteSets, SequencesExt, FiniteSetsExt

CONSTANTS
  Engines,            \* staking settings somebody may write
  Contracts,          \* contract.duration and duration_unit, as spelled
  ResearchContracts,  \* those that last duration_bars_approx candles
  UntimedContracts,   \* those in a unit other than s, m and h
  Horizons,           \* expiry.horizons
  Payouts,            \* payout multiples Deriv quotes
  PayoutFloor,        \* edge.min_payout_multiple
  MinEv,              \* level2.min_ev, in hundredths of a percent
  ProposalsToPrice,   \* expiry.proposals_to_price
  Chances,            \* estimates of P(win): mean and lower bound
  Balances,           \* account balances
  MaxLosses           \* bound: losses in a row before a trade

ASSUME TicketAssumption ==
  /\ Engines \subseteq Engine
  /\ ResearchContracts \cup UntimedContracts \subseteq Contracts
  /\ ResearchContracts \cap UntimedContracts = {}
  /\ Payouts \subseteq Nat /\ PayoutFloor \in Nat /\ MinEv \in Int
  /\ ProposalsToPrice \in Nat /\ Balances \subseteq Nat /\ MaxLosses \in Nat
  /\ Chances \subseteq [mean: 0..100, lower: 0..100]

Kinds == {"demo", "real"}
NoKind == "no kind"

Accounts == [kind: Kinds, has_id: BOOLEAN]

\* "other" stands for demo and for any other word: the loader takes them all
Settings ==
  [mode: {"research", "live", "other"}, engine: Engines, contract: Contracts,
   level2: BOOLEAN, level2_bound: BOOLEAN, expiry: BOOLEAN, expiry_bound: BOOLEAN]

NoChance == [mean |-> NoBound, lower |-> NoBound]
Quote == [horizon: Horizons \cup Contracts, chance: Chances \cup {NoChance},
          payout: Payouts, fresh: BOOLEAN]
Option == [horizon: Horizons \cup Contracts, chance: Chances \cup {NoChance}]

VARIABLES
  phase,     \* how far main.py and LiveTrader.run have come
  settings,
  login,     \* what connect() goes by, the kind of account it takes
  model,     \* LiveTrader.level2_model: there is a model the bot may trade on
  artifact,  \* the file it was read from
  offered,   \* symbol_horizons[sym]
  last_payout, \* last_payout_multiple[sym]
  pc,        \* the await the trade is in
  stake,
  prediction, \* Level 2's chance of this trade, or NoChance
  options,   \* expiry_options
  todo,      \* proposals still to be asked for, the present one first
  quotes,    \* priced
  order      \* the quote the buy request is for

startVars == <<phase, settings, login, model, artifact, offered>>
ticketVars == <<stake, prediction, options, todo, quotes, order>>
vars == <<startVars, last_payout, pc, ticketVars>>

NoLogin == [auth |-> "otp", named |-> NoKind, account |-> NoKind]
NoFile == [promoted |-> FALSE, same_config |-> FALSE]
NoOrder == <<>>

TypeOK ==
  /\ phase \in {"starting", "configured", "connected", "loaded", "serving"}
  /\ settings \in Settings
  /\ login.auth \in {"otp", "legacy"}
  /\ {login.named, login.account} \subseteq Kinds \cup {NoKind}
  /\ model \in BOOLEAN /\ artifact \in [promoted: BOOLEAN, same_config: BOOLEAN]
  /\ offered \subseteq Horizons
  /\ last_payout \in Payouts \cup {PayoutFloor}
  /\ pc \in {"idle", "pricing", "buying"}
  /\ stake \in Nat /\ prediction \in Chances \cup {NoChance}
  /\ options \in Seq([horizon: Horizons, chance: Chances])
  /\ todo \in Seq(Option) /\ quotes \in Seq(Quote)
  /\ order \in Quote \cup {NoOrder}
  /\ (pc = "pricing") = (todo # <<>>)
  /\ (pc = "buying") = (order # NoOrder)

Init ==
  /\ phase = "starting" /\ settings \in Settings /\ login = NoLogin
  /\ model = FALSE /\ artifact = NoFile
  /\ offered = {} /\ last_payout = PayoutFloor
  /\ pc = "idle" /\ stake = 0 /\ prediction = NoChance
  /\ options = <<>> /\ todo = <<>> /\ quotes = <<>> /\ order = NoOrder

-----------------------------------------------------------------------------
(* Startup                                                                 *)

(* The two switches must agree, the base stake must be allowed, and the    *)
(* contract must last as long as research measures; of one in ticks, or in *)
(* any unit that is not s, m or h, the length is not known, which is       *)
(* logged.  Anything else ends the process.                                *)
Accepted(s, use_real) ==
  /\ (s.mode = "live") = use_real
  /\ s.engine.base <= s.engine.max
  /\ s.contract \in ResearchContracts \cup UntimedContracts

LoadSettings ==
  /\ phase = "starting" /\ phase' = "configured"
  /\ \E use_real \in BOOLEAN : settings' \in {s \in Settings : Accepted(s, use_real)}
  /\ \E auth \in {"otp", "legacy"}, named \in Kinds \cup {NoKind} :
       login' = [NoLogin EXCEPT !.auth = auth, !.named = named]
  /\ UNCHANGED <<model, artifact, offered, last_payout, pc, ticketVars>>

Wanted == IF settings.mode = "live" THEN "real" ELSE "demo"

Usable(accounts) ==
  {i \in DOMAIN accounts : accounts[i] = [kind |-> Wanted, has_id |-> TRUE]}

(* _resolve_account_id: the loop over the accounts Deriv lists returns the *)
(* first of the wanted kind that has an id; when it runs out, the first    *)
(* account of all is taken, if that has an id.                             *)
Taken(accounts, i) ==
  IF Usable(accounts) = {} THEN i = 1 /\ accounts[i].has_id
  ELSE i \in Usable(accounts) /\ \A j \in Usable(accounts) : i <= j

(* A legacy token belongs to one account, a named account is not looked    *)
(* up; without an account the process ends.                                *)
Connect ==
  /\ phase = "configured"
  /\ \/ /\ login.auth = "legacy"
        /\ \E kind \in Kinds : login' = [login EXCEPT !.account = kind]
     \/ /\ login.auth = "otp" /\ login.named # NoKind
        /\ login' = [login EXCEPT !.account = login.named]
     \/ /\ login.auth = "otp" /\ login.named = NoKind
        /\ \E accounts \in TupleOf(Accounts, 1) \cup TupleOf(Accounts, 2) :
             \E i \in DOMAIN accounts :
               /\ Taken(accounts, i)
               /\ login' = [login EXCEPT !.account = accounts[i].kind]
  /\ phase' = "connected"
  /\ UNCHANGED <<settings, model, artifact, offered, last_payout, pc, ticketVars>>

MutantMayTradeOn(file) == file.promoted

MayTradeOn(file) == file.promoted /\ file.same_config

(* load_for_live: a file that is missing or unreadable is no model.  What  *)
(* only connect() needs is forgotten here.                                 *)
LoadModel ==
  /\ phase = "connected" /\ phase' = "loaded"
  /\ login' = [NoLogin EXCEPT !.account = login.account]
  /\ \/ /\ settings.level2
        /\ artifact' \in [promoted: BOOLEAN, same_config: BOOLEAN]
        /\ model' = MayTradeOn(artifact')
     \/ UNCHANGED <<model, artifact>>
  /\ UNCHANGED <<settings, offered, last_payout, pc, ticketVars>>

(* Deriv's answer to contracts_for: the horizons inside its duration       *)
(* limits, if it gives any.  A symbol without both contract types, or      *)
(* whose request fails, is not used; without a symbol the process ends.    *)
RiseFallLimits == [known: BOOLEAN, inside: SUBSET Horizons]

Offered(limits) == IF limits.known THEN limits.inside ELSE Horizons

DiscoverSymbols ==
  /\ phase = "loaded" /\ phase' = "serving"
  /\ \/ settings.expiry /\ \E limits \in RiseFallLimits : offered' = Offered(limits)
     \/ ~ settings.expiry /\ UNCHANGED offered
  /\ UNCHANGED <<settings, login, model, artifact, last_payout, pc, ticketVars>>

-----------------------------------------------------------------------------
(* One trade                                                               *)

Ended ==
  /\ pc' = "idle" /\ stake' = 0 /\ prediction' = NoChance
  /\ options' = <<>> /\ todo' = <<>> /\ quotes' = <<>> /\ order' = NoOrder

(* The process ends, by an error or a restart, at any point.               *)
Exit ==
  /\ phase # "starting" /\ phase' = "starting"
  /\ login' = NoLogin /\ model' = FALSE /\ artifact' = NoFile
  /\ offered' = {} /\ last_payout' = PayoutFloor
  /\ Ended /\ UNCHANGED settings

(* estimates(): the horizons with enough samples among those offered, best *)
(* lower bound first.                                                      *)
Estimated ==
  {seq \in UNION {TupleOf([horizon: offered, chance: Chances], n) :
                    n \in 0..Cardinality(offered)} :
     \A i, j \in DOMAIN seq :
       i < j => /\ seq[i].horizon # seq[j].horizon
                /\ seq[i].chance.lower >= seq[j].chance.lower}

Default == [horizon |-> settings.contract, chance |-> NoChance]

(* on_candle_closed with a signal that may trade: the stake is taken from  *)
(* the payout of the last quote, before this trade's is known.  The        *)
(* balance and the ladder are those of the moment, features may be none.   *)
OpenTicket ==
  /\ phase = "serving" /\ pc = "idle"
  /\ prediction' \in IF model THEN Chances \cup {NoChance} ELSE {NoChance}
  /\ \E losses \in 0..MaxLosses, balance \in Balances :
       stake' = StakeFor(settings.engine, losses, balance, prediction'.lower, last_payout)
  /\ stake' > 0
  /\ options' \in IF settings.expiry THEN Estimated ELSE {<<>>}
  /\ todo' = IF options' = <<>> THEN <<Default>>
             ELSE SubSeq(options', 1, Smaller(Len(options'), IF ProposalsToPrice > 1
                                                             THEN ProposalsToPrice ELSE 1))
  /\ pc' = "pricing"
  /\ UNCHANGED <<startVars, last_payout, quotes, order>>

WorstCase(q) == q.chance.lower * q.payout

(* max() keeps the first of equals.                                        *)
MutantChosen(received) == Head(received)

Chosen(received) ==
  received[CHOOSE i \in DOMAIN received :
             /\ \A j \in DOMAIN received : WorstCase(received[j]) <= WorstCase(received[i])
             /\ \A j \in 1..i - 1 : WorstCase(received[j]) < WorstCase(received[i])]

Lesser(a, b) ==
  [mean |-> Smaller(a.mean, b.mean), lower |-> Smaller(a.lower, b.lower)]

(* The chance the quote is judged by: the calibrated one, and Level 2's    *)
(* where the expiry is the default contract, spelled alike.                *)
MutantJudgedBy(q) == IF options = <<>> THEN prediction ELSE q.chance

JudgedBy(q) ==
  IF options = <<>> THEN prediction
  ELSE IF prediction # NoChance /\ q.horizon = settings.contract
       THEN Lesser(q.chance, prediction)
  ELSE q.chance

BreaksEven(p, payout) == p * payout > 100 * 100

(* assess_level2_economics with a chance, assess_level1_economics without. *)
EconomicallySound(q) ==
  LET p == JudgedBy(q)
      bound_required == IF options = <<>> THEN settings.level2_bound
                        ELSE settings.expiry_bound
  IN  /\ q.payout >= PayoutFloor
      /\ p # NoChance => /\ p.mean * q.payout - 100 * 100 >= MinEv
                         /\ bound_required => BreaksEven(p.lower, q.payout)

(* apply_economics_and_risk, with can_trade's answer as an input.          *)
Tradeable(q, allowed) ==
  q.fresh /\ EconomicallySound(q) /\ allowed /\ settings.mode # "research"

(* The rest of execute_trade up to the buy request, in one step: choice,   *)
(* assessment, verdict, and the check of research mode before the buy.     *)
Decide(received) ==
  IF received = <<>> THEN Ended /\ UNCHANGED last_payout
  ELSE LET q == Chosen(received)
       IN  /\ last_payout' = q.payout
           /\ \E allowed \in BOOLEAN :
                IF Tradeable(q, allowed) /\ settings.mode # "research"
                THEN /\ pc' = "buying" /\ order' = q
                     /\ quotes' = received /\ todo' = <<>>
                     /\ UNCHANGED <<stake, prediction, options>>
                ELSE Ended

(* max_proposal_age_seconds pass in a slow answer to the next request.     *)
Aged(received, slow) ==
  [i \in DOMAIN received |-> [received[i] EXCEPT !.fresh = @ /\ ~ slow]]

MutantAnswered(received) ==
  IF Len(todo) >= 1
  THEN /\ quotes' = received /\ todo' = Tail(todo)
       /\ UNCHANGED <<last_payout, pc, stake, prediction, options, order>>
  ELSE Decide(received)

(* A proposal is answered, or fails and is skipped; after the last one the *)
(* trade is decided on.                                                    *)
Answered(received) ==
  IF Len(todo) > 1
  THEN /\ quotes' = received /\ todo' = Tail(todo)
       /\ UNCHANGED <<last_payout, pc, stake, prediction, options, order>>
  ELSE Decide(received)

ProposalPriced ==
  /\ pc = "pricing"
  /\ \E payout \in Payouts, slow \in BOOLEAN :
       Answered(Append(Aged(quotes, slow),
                       [horizon |-> Head(todo).horizon, chance |-> Head(todo).chance,
                        payout |-> payout, fresh |-> TRUE]))
  /\ UNCHANGED startVars

ProposalFails ==
  /\ pc = "pricing"
  /\ \E slow \in BOOLEAN : Answered(Aged(quotes, slow))
  /\ UNCHANGED startVars

(* The buy is answered, and in time the contract settled.                  *)
TradeEnds ==
  /\ pc = "buying"
  /\ Ended /\ UNCHANGED <<startVars, last_payout>>

Next ==
  \/ LoadSettings \/ Connect \/ LoadModel \/ DiscoverSymbols \/ Exit
  \/ OpenTicket \/ ProposalPriced \/ ProposalFails \/ TradeEnds

Spec == Init /\ [][Next]_vars

-----------------------------------------------------------------------------
(* What a buy request is for, whatever was quoted, skipped, slow or        *)
(* learned on the way: never in research mode; within the stake limit; at  *)
(* a fresh price above the floor; with calibrated expiries at one Deriv    *)
(* offers, whose worst case is the best of all quotes received and better  *)
(* than break-even where that is required.                                 *)
StakeIsLimited ==
  0 < stake /\ stake <= settings.engine.max

ExpiryIsTheBest ==
  options # <<>> =>
    /\ order.horizon \in offered
    /\ \A i \in DOMAIN quotes : WorstCase(quotes[i]) <= WorstCase(order)
    /\ settings.expiry_bound => BreaksEven(order.chance.lower, order.payout)

(* Level 2 has a say in every trade on the contract it was trained for     *)
(* (as spelled), and its model is one that was promoted under this very    *)
(* configuration.                                                          *)
LevelTwoAgrees ==
  prediction # NoChance =>
    /\ artifact = [promoted |-> TRUE, same_config |-> TRUE]
    /\ (order.horizon = settings.contract /\ settings.level2_bound /\ settings.expiry_bound) =>
         BreaksEven(prediction.lower, order.payout)

OrdersAreSound ==
  pc = "buying" =>
    /\ settings.mode # "research"
    /\ StakeIsLimited
    /\ order.fresh /\ order.payout >= PayoutFloor
    /\ ExpiryIsTheBest
    /\ LevelTwoAgrees
=============================================================================

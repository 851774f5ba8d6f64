-------------------------- MODULE TradeTicketProofs --------------------------
(***************************************************************************)
(* Proofs about TradeTicket for every set of settings, engines, expiries,  *)
(* payouts, estimates and balances.  About orders nothing is assumed of    *)
(* what a staking engine computes: the cap is applied to whatever it is.   *)
(***************************************************************************)
EXTENDS TradeTicket, WellFoundedInduction, SequenceTheorems, TLAPS

-----------------------------------------------------------------------------
(* The best of a sequence of quotes                                        *)

LEMMA LeastNumber ==
  ASSUME NEW T, T \subseteq Nat, T # {}
  PROVE  \E n \in T : \A m \in T : n <= m
<1>1. \E x \in T : \A y \in T : ~ (<<y, x>> \in OpToRel(<, Nat))
  BY NatLessThanWellFounded, WFMin
<1>2. OpToRel(<, Nat) = {ss \in Nat \X Nat : ss[1] < ss[2]}
  BY DEF OpToRel
<1>3. \A x, y \in T : ~ (<<y, x>> \in {ss \in Nat \X Nat : ss[1] < ss[2]}) => x <= y
  OBVIOUS
<1> QED
  BY <1>1, <1>2, <1>3

HasLargest(n, f) == \E i \in 1..n : \A j \in 1..n : f[j] <= f[i]

(* A row of numbers has a largest one, by the least length of one without. *)
LEMMA RowHasLargest ==
  ASSUME NEW n \in Nat \ {0}, NEW f \in [1..n -> Int]
  PROVE  HasLargest(n, f)
<1> DEFINE Without == {k \in Nat \ {0} : \E g \in [1..k -> Int] : ~ HasLargest(k, g)}
<1>1. ASSUME Without # {} PROVE FALSE
  <2>1. PICK k \in Without : \A m \in Without : k <= m
    BY <1>1, LeastNumber
  <2>2. PICK g \in [1..k -> Int] : ~ HasLargest(k, g)
    OBVIOUS
  <2>3. k \in Nat \ {0}
    OBVIOUS
  <2>4. \A j \in 1..k : g[j] \in Int
    OBVIOUS
  <2>5. k # 1
    <3>1. ASSUME k = 1 PROVE \A j \in 1..k : g[j] <= g[1]
      BY <2>4, <3>1
    <3> QED
      BY <2>2, <3>1 DEF HasLargest
  <2> DEFINE h == [i \in 1..k - 1 |-> g[i]]
  <2>6. k - 1 \in Nat \ {0} /\ \A j \in 1..k - 1 : j \in 1..k
    BY <2>3, <2>5
  <2>7. h \in [1..k - 1 -> Int]
    BY <2>4, <2>6
  <2>8. k - 1 \notin Without
    BY <2>1, <2>3
  <2>9. HasLargest(k - 1, h)
    BY <2>6, <2>7, <2>8
  <2>10. PICK i \in 1..k - 1 : \A j \in 1..k - 1 : g[j] <= g[i]
    BY <2>9 DEF HasLargest
  <2> HIDE DEF h, Without
  <2>11. i \in 1..k /\ k \in 1..k /\ \A j \in 1..k : j = k \/ j \in 1..k - 1
    BY <2>3, <2>6
  <2>12. CASE g[k] <= g[i]
    BY <2>2, <2>10, <2>11, <2>12 DEF HasLargest
  <2>13. CASE ~ (g[k] <= g[i])
    <3>1. \A j \in 1..k : g[j] <= g[k]
      BY <2>4, <2>10, <2>11, <2>13
    <3> QED
      BY <2>2, <2>11, <3>1 DEF HasLargest
  <2> QED
    BY <2>12, <2>13
<1>2. n \notin Without
  BY <1>1
<1> QED
  BY <1>2

(* And a first largest one, by the least index of a largest one.           *)
LEMMA RowHasFirstLargest ==
  ASSUME NEW n \in Nat \ {0}, NEW f \in [1..n -> Int]
  PROVE  \E i \in 1..n : /\ \A j \in 1..n : f[j] <= f[i]
                         /\ \A j \in 1..i - 1 : f[j] < f[i]
<1> DEFINE Best == {i \in 1..n : \A j \in 1..n : f[j] <= f[i]}
<1>1. Best # {} /\ Best \subseteq Nat
  <2>1. PICK i \in 1..n : \A j \in 1..n : f[j] <= f[i]
    BY RowHasLargest DEF HasLargest
  <2>2. i \in Best
    BY <2>1
  <2> QED
    BY <2>2
<1>2. PICK i \in Best : \A m \in Best : i <= m
  <2> HIDE DEF Best
  <2> QED
    BY <1>1, LeastNumber
<1>3. i \in 1..n /\ \A j \in 1..n : f[j] <= f[i]
  OBVIOUS
<1>4. ASSUME NEW j \in 1..i - 1 PROVE f[j] < f[i]
  <2>1. j \in 1..n /\ ~ (i <= j)
    BY <1>3
  <2>2. j \notin Best
    BY <1>2, <2>1
  <2>3. PICK k \in 1..n : ~ (f[k] <= f[j])
    BY <2>1, <2>2
  <2>4. f[k] <= f[i] /\ f[k] \in Int /\ f[j] \in Int /\ f[i] \in Int
    BY <1>3, <2>1
  <2> QED
    BY <2>3, <2>4
<1> QED
  BY <1>3, <1>4

LEMMA QuoteTypes ==
  /\ \A q \in Quote : WorstCase(q) \in Int
  /\ \A p \in Chances : p.lower \in Nat /\ p # NoChance
  /\ \A x \in Payouts : x \in Nat
<1>1. ASSUME NEW p \in Chances PROVE p.lower \in Nat /\ p # NoChance
  <2>1. p \in [mean: 0..100, lower: 0..100]
    BY TicketAssumption
  <2> QED
    BY <2>1 DEF NoChance, NoBound
<1>2. \A x \in Payouts : x \in Nat
  BY TicketAssumption
<1>3. ASSUME NEW q \in Quote PROVE WorstCase(q) \in Int
  <2>1. q.payout \in Nat
    BY <1>2 DEF Quote
  <2>2. q.chance.lower \in Int
    BY <1>1 DEF Quote, NoChance, NoBound
  <2> QED
    BY <2>1, <2>2 DEF WorstCase
<1> QED
  BY <1>1, <1>2, <1>3

(* max() over the priced proposals: what is chosen is one of them, and none*)
(* has a better worst case.                                                *)
LEMMA ChosenIsBest ==
  ASSUME NEW received \in Seq(Quote), received # <<>>
  PROVE  \E i \in DOMAIN received :
           /\ Chosen(received) = received[i]
           /\ \A j \in DOMAIN received : WorstCase(received[j]) <= WorstCase(received[i])
<1> DEFINE n == Len(received)
           f == [i \in 1..n |-> WorstCase(received[i])]
<1>1. n \in Nat \ {0} /\ DOMAIN received = 1..n /\ \A i \in 1..n : received[i] \in Quote
  OBVIOUS
<1>2. f \in [1..n -> Int]
  BY <1>1, QuoteTypes
<1>3. \A i \in 1..n : f[i] = WorstCase(received[i])
  OBVIOUS
<1> HIDE DEF n, f
<1>4. PICK i \in 1..n : /\ \A j \in 1..n : f[j] <= f[i]
                        /\ \A j \in 1..i - 1 : f[j] < f[i]
  BY <1>1, <1>2, RowHasFirstLargest
<1>5. \A j \in 1..i - 1 : j \in 1..n
  BY <1>1, <1>4
<1>6. /\ i \in DOMAIN received
      /\ \A j \in DOMAIN received : WorstCase(received[j]) <= WorstCase(received[i])
      /\ \A j \in 1..i - 1 : WorstCase(received[j]) < WorstCase(received[i])
  BY <1>1, <1>3, <1>4, <1>5
<1> QED
  BY <1>6 DEF Chosen

-----------------------------------------------------------------------------
(* The invariant                                                           *)

Logins ==
  [auth: {"otp", "legacy"}, named: Kinds \cup {NoKind}, account: Kinds \cup {NoKind}]

Typed ==
  /\ settings \in Settings /\ login \in Logins /\ model \in BOOLEAN
  /\ offered \subseteq Horizons
  /\ prediction \in Chances \cup {NoChance}
  /\ options \in Seq([horizon: Horizons, chance: Chances])
  /\ todo \in Seq(Option) /\ quotes \in Seq(Quote)

(* Nothing of a trade is left when none is in progress.                    *)
AtRest ==
  options = <<>> /\ todo = <<>> /\ quotes = <<>> /\ prediction = NoChance

Progress ==
  /\ pc \in {"idle", "pricing", "buying"}
  /\ pc = "idle" => AtRest
  /\ pc = "pricing" => todo # <<>>
  /\ pc # "idle" => phase = "serving" /\ StakeIsLimited

(* A proposal or a quote of a trade on calibrated expiries.                *)
Calibrated(seq) ==
  \A i \in DOMAIN seq : seq[i].horizon \in offered /\ seq[i].chance \in Chances

FromOptions == options # <<>> => Calibrated(todo) /\ Calibrated(quotes)

BaseIsAllowed ==
  phase # "starting" => settings.engine.base <= settings.engine.max

ModelIsPromoted ==
  /\ model => artifact = [promoted |-> TRUE, same_config |-> TRUE]
  /\ phase \notin {"loaded", "serving"} => model = FALSE
  /\ prediction # NoChance => model

TicketInv ==
  /\ Typed /\ Progress /\ FromOptions /\ BaseIsAllowed /\ ModelIsPromoted
  /\ OrdersAreSound

LEMMA InitTicket == Init => TicketInv
<1> SUFFICES ASSUME Init PROVE TicketInv
  OBVIOUS
<1>1. Typed
  <2>1. <<>> \in Seq(Option) /\ <<>> \in Seq(Quote)
        /\ <<>> \in Seq([horizon: Horizons, chance: Chances])
    OBVIOUS
  <2>2. NoLogin \in Logins
    BY DEF NoLogin, Logins
  <2> QED
    BY <2>1, <2>2 DEF Init, Typed
<1>2. Progress /\ FromOptions /\ BaseIsAllowed /\ ModelIsPromoted
  BY DEF Init, Progress, AtRest, FromOptions, BaseIsAllowed, ModelIsPromoted
<1> QED
  BY <1>1, <1>2 DEF TicketInv, OrdersAreSound, Init

-----------------------------------------------------------------------------
(* Startup and the end of a trade                                          *)

(* However a trade ends, nothing of it is left.                            *)
LEMMA EndedIsAtRest ==
  ASSUME TicketInv, Ended, startVars' = startVars
  PROVE  TicketInv'
<1>1. options' = <<>> /\ todo' = <<>> /\ quotes' = <<>> /\ prediction' = NoChance /\ pc' = "idle"
  BY DEF Ended
<1>2. UNCHANGED <<phase, settings, login, model, artifact, offered>>
  BY DEF startVars
<1>3. Typed'
  <2>1. <<>> \in Seq(Option) /\ <<>> \in Seq(Quote)
        /\ <<>> \in Seq([horizon: Horizons, chance: Chances])
    OBVIOUS
  <2> QED
    BY <1>1, <1>2, <2>1 DEF TicketInv, Typed
<1>4. Progress' /\ FromOptions'
  BY <1>1 DEF Progress, AtRest, FromOptions
<1>5. BaseIsAllowed' /\ ModelIsPromoted'
  BY <1>1, <1>2 DEF TicketInv, BaseIsAllowed, ModelIsPromoted
<1> QED
  BY <1>1, <1>3, <1>4, <1>5 DEF TicketInv, OrdersAreSound

(* Before a process serves, no trade is in progress, and what startup      *)
(* changes cannot disturb one.                                             *)
LEMMA StartupKeeps ==
  ASSUME TicketInv, phase # "serving", UNCHANGED <<last_payout, pc, ticketVars>>,
         settings' \in Settings, login' \in Logins, model' \in BOOLEAN,
         offered' \subseteq Horizons, BaseIsAllowed',
         model' => artifact' = [promoted |-> TRUE, same_config |-> TRUE],
         phase' \notin {"loaded", "serving"} => model' = FALSE
  PROVE  TicketInv'
<1>1. pc = "idle" /\ AtRest
  BY DEF TicketInv, Progress
<1>2. UNCHANGED <<pc, stake, prediction, options, todo, quotes, order>>
  BY DEF ticketVars
<1>3. Typed'
  BY <1>2 DEF TicketInv, Typed
<1>4. Progress' /\ FromOptions' /\ OrdersAreSound'
  BY <1>1, <1>2 DEF Progress, AtRest, FromOptions, OrdersAreSound
<1>5. ModelIsPromoted'
  BY <1>1, <1>2 DEF ModelIsPromoted, AtRest
<1> QED
  BY <1>3, <1>4, <1>5 DEF TicketInv

LEMMA LoadSettingsKeeps ==
  ASSUME TicketInv, LoadSettings
  PROVE  TicketInv'
<1>1. phase = "starting" /\ phase' = "configured" /\ model = FALSE /\ model' = FALSE
  BY DEF LoadSettings, TicketInv, ModelIsPromoted
<1>2. settings' \in Settings /\ settings'.engine.base <= settings'.engine.max
  BY DEF LoadSettings, Accepted
<1>3. login' \in Logins
  <2>1. PICK auth \in {"otp", "legacy"}, named \in Kinds \cup {NoKind} :
          login' = [NoLogin EXCEPT !.auth = auth, !.named = named]
    BY DEF LoadSettings
  <2>2. NoLogin \in Logins
    BY DEF NoLogin, Logins
  <2> QED
    BY <2>1, <2>2 DEF Logins
<1>4. BaseIsAllowed'
  BY <1>1, <1>2 DEF BaseIsAllowed
<1>5. UNCHANGED <<last_payout, pc, ticketVars>>
  BY DEF LoadSettings
<1>6. offered' \subseteq Horizons
  BY DEF LoadSettings, TicketInv, Typed
<1> QED
  BY <1>1, <1>2, <1>3, <1>4, <1>5, <1>6, StartupKeeps

LEMMA ConnectKeeps ==
  ASSUME TicketInv, Connect
  PROVE  TicketInv'
<1>1. phase = "configured" /\ phase' = "connected" /\ model = FALSE /\ model' = FALSE
  BY DEF Connect, TicketInv, ModelIsPromoted
<1>2. UNCHANGED <<settings, last_payout, pc, ticketVars>>
  BY DEF Connect
<1>3. login \in Logins /\ settings \in Settings
  BY DEF TicketInv, Typed
<1>4. login' \in Logins
  <2>1. CASE \E kind \in Kinds : login' = [login EXCEPT !.account = kind]
    BY <1>3, <2>1 DEF Logins
  <2>2. CASE login' = [login EXCEPT !.account = login.named]
    BY <1>3, <2>2 DEF Logins
  <2>3. CASE \E accounts \in TupleOf(Accounts, 1) \cup TupleOf(Accounts, 2) :
               \E i \in DOMAIN accounts :
                 login' = [login EXCEPT !.account = accounts[i].kind]
    <3>1. PICK accounts \in TupleOf(Accounts, 1) \cup TupleOf(Accounts, 2) :
            \E i \in DOMAIN accounts : login' = [login EXCEPT !.account = accounts[i].kind]
      BY <2>3
    <3>2. PICK i \in DOMAIN accounts : login' = [login EXCEPT !.account = accounts[i].kind]
      BY <3>1
    <3>3. accounts[i] \in Accounts
      BY DEF TupleOf
    <3> QED
      BY <1>3, <3>2, <3>3 DEF Logins, Accounts
  <2> QED
    BY <2>1, <2>2, <2>3 DEF Connect
<1>5. BaseIsAllowed'
  BY <1>1, <1>2 DEF TicketInv, BaseIsAllowed
<1>6. offered' \subseteq Horizons
  BY DEF Connect, TicketInv, Typed
<1> QED
  BY <1>1, <1>2, <1>3, <1>4, <1>5, <1>6, StartupKeeps

LEMMA LoadModelKeeps ==
  ASSUME TicketInv, LoadModel
  PROVE  TicketInv'
<1>1. phase = "connected" /\ phase' = "loaded" /\ model = FALSE
  BY DEF LoadModel, TicketInv, ModelIsPromoted
<1>2. UNCHANGED <<settings, last_payout, pc, ticketVars>>
      /\ login' = [NoLogin EXCEPT !.account = login.account]
  BY DEF LoadModel
<1>3. settings' \in Settings /\ login' \in Logins
  BY <1>2 DEF TicketInv, Typed, NoLogin, Logins
<1>4. model' \in BOOLEAN /\ (model' => artifact' = [promoted |-> TRUE, same_config |-> TRUE])
  BY <1>1 DEF LoadModel, MayTradeOn
<1>5. BaseIsAllowed'
  BY <1>1, <1>2 DEF TicketInv, BaseIsAllowed
<1>6. offered' \subseteq Horizons
  BY DEF LoadModel, TicketInv, Typed
<1> QED
  BY <1>1, <1>2, <1>3, <1>4, <1>5, <1>6, StartupKeeps

LEMMA DiscoverSymbolsKeeps ==
  ASSUME TicketInv, DiscoverSymbols
  PROVE  TicketInv'
<1>1. phase = "loaded" /\ phase' = "serving"
  BY DEF DiscoverSymbols
<1>2. UNCHANGED <<settings, login, model, artifact, last_payout, pc, ticketVars>>
  BY DEF DiscoverSymbols
<1>3. settings' \in Settings /\ login' \in Logins /\ model' \in BOOLEAN
  BY <1>2 DEF TicketInv, Typed
<1>4. model' => artifact' = [promoted |-> TRUE, same_config |-> TRUE]
  BY <1>2 DEF TicketInv, ModelIsPromoted
<1>5. BaseIsAllowed'
  BY <1>1, <1>2 DEF TicketInv, BaseIsAllowed
<1>6. offered' \subseteq Horizons
  BY DEF DiscoverSymbols, Offered, RiseFallLimits, TicketInv, Typed
<1> QED
  BY <1>1, <1>2, <1>3, <1>4, <1>5, <1>6, StartupKeeps

LEMMA ExitKeeps ==
  ASSUME TicketInv, Exit
  PROVE  TicketInv'
<1>1. phase' = "starting" /\ model' = FALSE /\ login' = NoLogin /\ offered' = {}
      /\ UNCHANGED settings
  BY DEF Exit
<1>2. options' = <<>> /\ todo' = <<>> /\ quotes' = <<>> /\ prediction' = NoChance /\ pc' = "idle"
  BY DEF Exit, Ended
<1>3. Typed'
  <2>1. <<>> \in Seq(Option) /\ <<>> \in Seq(Quote)
        /\ <<>> \in Seq([horizon: Horizons, chance: Chances])
    OBVIOUS
  <2>2. NoLogin \in Logins
    BY DEF NoLogin, Logins
  <2> QED
    BY <1>1, <1>2, <2>1, <2>2 DEF TicketInv, Typed
<1>4. Progress' /\ FromOptions' /\ BaseIsAllowed' /\ ModelIsPromoted'
  BY <1>1, <1>2 DEF Progress, AtRest, FromOptions, BaseIsAllowed, ModelIsPromoted
<1> QED
  BY <1>1, <1>2, <1>3, <1>4 DEF TicketInv, OrdersAreSound

-----------------------------------------------------------------------------
(* Rows                                                                    *)

LEMMA TupleIsSeq ==
  ASSUME NEW S, NEW k \in Nat, NEW s \in TupleOf(S, k)
  PROVE  s \in Seq(S)
  BY DEF TupleOf

LEMMA PrefixIsSeq ==
  ASSUME NEW S, NEW s \in Seq(S), NEW k \in 1..Len(s)
  PROVE  SubSeq(s, 1, k) \in Seq(S) /\ SubSeq(s, 1, k) # <<>>
<1>1. Len(SubSeq(s, 1, k)) = k /\ k \in Nat /\ k # 0
  OBVIOUS
<1>2. SubSeq(s, 1, k) \in Seq(S)
  OBVIOUS
<1> QED
  BY <1>1, <1>2

LEMMA SeqGrows ==
  ASSUME NEW S, NEW T, S \subseteq T, NEW s \in Seq(S)
  PROVE  s \in Seq(T)
<1>1. Len(s) \in Nat /\ s \in [1..Len(s) -> T]
  OBVIOUS
<1> QED
  BY <1>1

LEMMA TailShifts ==
  ASSUME NEW S, NEW s \in Seq(S), Len(s) > 1
  PROVE  /\ Tail(s) \in Seq(S) /\ Tail(s) # <<>>
         /\ \A i \in DOMAIN Tail(s) : i + 1 \in DOMAIN s /\ Tail(s)[i] = s[i + 1]
<1>1. Len(s) \in Nat /\ DOMAIN s = 1..Len(s) /\ s # <<>>
  OBVIOUS
<1>2. Tail(s) \in Seq(S) /\ Len(Tail(s)) = Len(s) - 1
  BY <1>1, HeadTailProperties
<1>3. Tail(s) # <<>> /\ DOMAIN Tail(s) = 1..Len(s) - 1
  <2> DEFINE t == Tail(s)
  <2>1. t \in Seq(S) /\ Len(t) = Len(s) - 1
    BY <1>2
  <2> HIDE DEF t
  <2>2. t # <<>> /\ DOMAIN t = 1..Len(t)
    BY <1>1, <2>1, EmptySeq
  <2> QED
    BY <2>1, <2>2 DEF t
<1>4. \A i \in 1..Len(s) - 1 : i + 1 \in 1..Len(s)
  BY <1>1
<1>5. \A i \in 1..Len(Tail(s)) : Tail(s)[i] = s[i + 1]
  BY <1>1, HeadTailProperties
<1> QED
  BY <1>1, <1>2, <1>3, <1>4, <1>5

LEMMA SeqElements ==
  ASSUME NEW S, NEW s \in Seq(S)
  PROVE  \A i \in DOMAIN s : s[i] \in S
  OBVIOUS

-----------------------------------------------------------------------------
(* One trade                                                               *)

(* Whatever the engine asks for, the stake is at most the limit: the cap,  *)
(* or a base that the loader has compared with it.                         *)
LEMMA StakeIsCapped ==
  ASSUME NEW engine \in Engine, engine.base <= engine.max,
         NEW losses, NEW balance, NEW p_lower, NEW payout
  PROVE  StakeFor(engine, losses, balance, p_lower, payout) <= engine.max
<1>1. engine.max \in Nat
  BY DEF Engine
<1>2. ASSUME NEW x PROVE Smaller(engine.max, x) <= engine.max
  BY <1>1 DEF Smaller
<1> HIDE DEF Smaller
<1> QED
  BY <1>2 DEF StakeFor

LEMMA OpenTicketKeeps ==
  ASSUME TicketInv, OpenTicket
  PROVE  TicketInv'
<1>1. phase = "serving" /\ pc = "idle" /\ pc' = "pricing" /\ quotes = <<>> /\ quotes' = <<>>
  BY DEF TicketInv, Progress, AtRest, OpenTicket
<1>2. UNCHANGED <<phase, settings, login, model, artifact, offered, last_payout, order>>
  BY DEF OpenTicket, startVars
<1>3. prediction' \in Chances \cup {NoChance} /\ (prediction' # NoChance => model)
  BY DEF OpenTicket
<1>4. stake' > 0 /\ stake' <= settings.engine.max
  <2>1. PICK losses \in 0..MaxLosses, balance \in Balances :
          stake' = StakeFor(settings.engine, losses, balance, prediction'.lower, last_payout)
    BY DEF OpenTicket
  <2>2. settings.engine \in Engine /\ settings.engine.base <= settings.engine.max
    BY <1>1, TicketAssumption DEF TicketInv, Typed, Settings, BaseIsAllowed
  <2>3. stake' > 0
    BY DEF OpenTicket
  <2> QED
    BY <2>1, <2>2, <2>3, StakeIsCapped
<1>5. options' \in Seq([horizon: offered, chance: Chances])
  <2>1. CASE options' \in Estimated
    <3>1. PICK k \in 0..Cardinality(offered) :
            options' \in TupleOf([horizon: offered, chance: Chances], k)
      BY <2>1 DEF Estimated
    <3>2. k \in Nat
      OBVIOUS
    <3> QED
      BY <3>1, <3>2, TupleIsSeq
  <2>2. CASE options' = <<>>
    BY <2>2
  <2> QED
    BY <2>1, <2>2 DEF OpenTicket
<1>6. todo' \in Seq(Option) /\ todo' # <<>> /\ (options' # <<>> => Calibrated(todo'))
  <2>1. CASE options' = <<>>
    <3>1. todo' = <<Default>>
      BY <2>1 DEF OpenTicket
    <3>2. Default \in Option
      BY DEF TicketInv, Typed, Settings, Default, Option
    <3> QED
      BY <2>1, <3>1, <3>2
  <2>2. CASE options' # <<>>
    <3>1. PICK k \in Int : k >= 1 /\ k <= Len(options') /\ todo' = SubSeq(options', 1, k)
      <4>1. todo' = SubSeq(options', 1, Smaller(Len(options'), IF ProposalsToPrice > 1
                                                              THEN ProposalsToPrice ELSE 1))
        BY <2>2 DEF OpenTicket
      <4>2. ProposalsToPrice \in Nat /\ Len(options') \in Nat \ {0}
        BY <1>5, <2>2, TicketAssumption
      <4> QED
        BY <4>1, <4>2 DEF Smaller
    <3>2. k \in 1..Len(options')
      BY <3>1
    <3>3. todo' \in Seq([horizon: offered, chance: Chances]) /\ todo' # <<>>
      BY <1>5, <3>1, <3>2, PrefixIsSeq
    <3>4. offered \subseteq Horizons
      BY DEF TicketInv, Typed
    <3>5. [horizon: offered, chance: Chances] \subseteq Option
      BY <3>4 DEF Option
    <3>6. todo' \in Seq(Option)
      BY <3>3, <3>5, SeqGrows
    <3>7. \A i \in DOMAIN todo' : todo'[i] \in [horizon: offered, chance: Chances]
      BY <3>3, SeqElements
    <3>8. offered' = offered
      BY <1>2
    <3> QED
      BY <3>3, <3>6, <3>7, <3>8 DEF Calibrated
  <2> QED
    BY <2>1, <2>2
<1>7. options' \in Seq([horizon: Horizons, chance: Chances])
  <2>1. [horizon: offered, chance: Chances] \subseteq [horizon: Horizons, chance: Chances]
    BY DEF TicketInv, Typed
  <2> QED
    BY <1>5, <2>1, SeqGrows
<1>8. Typed'
  BY <1>1, <1>2, <1>3, <1>6, <1>7 DEF TicketInv, Typed
<1>9. Progress'
  BY <1>1, <1>2, <1>4, <1>6 DEF Progress, StakeIsLimited
<1>10. FromOptions'
  <2>1. Calibrated(quotes')
    BY <1>1 DEF Calibrated
  <2> QED
    BY <1>2, <1>6, <2>1 DEF FromOptions, Calibrated
<1>11. BaseIsAllowed' /\ ModelIsPromoted' /\ OrdersAreSound'
  BY <1>1, <1>2, <1>3 DEF TicketInv, BaseIsAllowed, ModelIsPromoted, OrdersAreSound
<1> QED
  BY <1>8, <1>9, <1>10, <1>11 DEF TicketInv

(* A price that is better than break-even at a chance is so at a higher.   *)
LEMMA BreaksEvenGrows ==
  ASSUME NEW p \in Nat, NEW c \in Nat, p <= c, NEW payout \in Nat, BreaksEven(p, payout)
  PROVE  BreaksEven(c, payout)
<1>1. (c - p) * payout \in Nat
  OBVIOUS
<1>2. c * payout = p * payout + (c - p) * payout
  OBVIOUS
<1>3. p * payout \in Nat /\ c * payout \in Nat
  OBVIOUS
<1> QED
  BY <1>1, <1>2, <1>3 DEF BreaksEven

(* The verdict of economics, in the words of OrdersAreSound.               *)
LEMMA SoundQuote ==
  ASSUME TicketInv, NEW q \in Quote, EconomicallySound(q),
         options # <<>> => q.chance \in Chances
  PROVE  /\ q.payout >= PayoutFloor
         /\ (options # <<>> /\ settings.expiry_bound) => BreaksEven(q.chance.lower, q.payout)
         /\ ( /\ prediction # NoChance
              /\ q.horizon = settings.contract /\ settings.level2_bound /\ settings.expiry_bound) =>
              BreaksEven(prediction.lower, q.payout)
<1>1. q.payout \in Nat
  BY QuoteTypes DEF Quote
<1>2. \A p \in Chances : p.lower \in Nat /\ p # NoChance
  BY QuoteTypes
<1>3. prediction \in Chances \cup {NoChance}
  BY DEF TicketInv, Typed
<1>4. CASE options = <<>>
  BY <1>4 DEF EconomicallySound, JudgedBy
<1>5. CASE options # <<>> /\ prediction # NoChance /\ q.horizon = settings.contract
  <2> DEFINE least == Lesser(q.chance, prediction)
  <2>1. q.chance.lower \in Nat /\ prediction.lower \in Nat
    BY <1>2, <1>3, <1>5
  <2>2. least.lower \in Nat /\ least.lower <= q.chance.lower /\ least.lower <= prediction.lower
    BY <2>1 DEF Lesser, Smaller
  <2>3. least # NoChance
    BY <2>2 DEF NoChance, NoBound
  <2>4. JudgedBy(q) = least
    BY <1>5 DEF JudgedBy
  <2> HIDE DEF least
  <2>5. settings.expiry_bound => BreaksEven(least.lower, q.payout)
    BY <1>5, <2>3, <2>4 DEF EconomicallySound
  <2>6. settings.expiry_bound => /\ BreaksEven(q.chance.lower, q.payout)
                                /\ BreaksEven(prediction.lower, q.payout)
    BY <1>1, <2>1, <2>2, <2>5, BreaksEvenGrows
  <2>7. q.payout >= PayoutFloor
    BY DEF EconomicallySound
  <2> QED
    BY <2>6, <2>7
<1>6. CASE options # <<>> /\ ~ (prediction # NoChance /\ q.horizon = settings.contract)
  <2>1. JudgedBy(q) = q.chance /\ q.chance # NoChance
    BY <1>2, <1>6 DEF JudgedBy
  <2> QED
    BY <1>6, <2>1 DEF EconomicallySound
<1> QED
  BY <1>4, <1>5, <1>6

LEMMA DecideKeeps ==
  ASSUME TicketInv, pc = "pricing", startVars' = startVars,
         NEW received \in Seq(Quote), options # <<>> => Calibrated(received),
         Decide(received)
  PROVE  TicketInv'
<1>1. CASE Ended
  BY <1>1, EndedIsAtRest
<1>2. ASSUME ~ Ended PROVE TicketInv'
  <2> DEFINE q == Chosen(received)
  <2>1. /\ received # <<>>
        /\ \E allowed \in BOOLEAN : Tradeable(q, allowed)
        /\ settings.mode # "research"
        /\ pc' = "buying" /\ order' = q /\ quotes' = received /\ todo' = <<>>
        /\ UNCHANGED <<stake, prediction, options>>
    BY <1>2 DEF Decide
  <2>2. UNCHANGED <<phase, settings, login, model, artifact, offered>>
    BY DEF startVars
  <2>3. PICK i \in DOMAIN received :
          /\ q = received[i]
          /\ \A j \in DOMAIN received : WorstCase(received[j]) <= WorstCase(received[i])
    BY <2>1, ChosenIsBest
  <2> HIDE DEF q
  <2>4. q \in Quote
    BY <2>3, SeqElements
  <2>5. q.fresh /\ EconomicallySound(q)
    BY <2>1 DEF Tradeable
  <2>6. options # <<>> => q.horizon \in offered /\ q.chance \in Chances
    BY <2>3 DEF Calibrated
  <2>7. /\ q.payout >= PayoutFloor
        /\ (options # <<>> /\ settings.expiry_bound) => BreaksEven(q.chance.lower, q.payout)
        /\ ( /\ prediction # NoChance
             /\ q.horizon = settings.contract /\ settings.level2_bound /\ settings.expiry_bound) =>
             BreaksEven(prediction.lower, q.payout)
    BY <2>4, <2>5, <2>6, SoundQuote
  <2>8. phase = "serving" /\ StakeIsLimited
    BY DEF TicketInv, Progress
  <2>9. Typed'
    <3>1. <<>> \in Seq(Option)
      OBVIOUS
    <3> QED
      BY <2>1, <2>2, <3>1 DEF TicketInv, Typed
  <2>10. Progress' /\ StakeIsLimited'
    BY <2>1, <2>2, <2>8 DEF Progress, StakeIsLimited
  <2>11. FromOptions'
    <3>1. Calibrated(<<>>)'
      BY DEF Calibrated
    <3> QED
      BY <2>1, <2>2, <3>1 DEF FromOptions, Calibrated
  <2>12. BaseIsAllowed' /\ ModelIsPromoted'
    BY <2>1, <2>2 DEF TicketInv, BaseIsAllowed, ModelIsPromoted
  <2>13. OrdersAreSound'
    <3>1. ExpiryIsTheBest'
      BY <2>1, <2>2, <2>3, <2>6, <2>7 DEF ExpiryIsTheBest, WorstCase
    <3>2. LevelTwoAgrees'
      BY <2>1, <2>2, <2>7 DEF LevelTwoAgrees, TicketInv, ModelIsPromoted
    <3> QED
      BY <2>1, <2>2, <2>5, <2>7, <2>10, <3>1, <3>2 DEF OrdersAreSound
  <2> QED
    BY <2>9, <2>10, <2>11, <2>12, <2>13 DEF TicketInv
<1> QED
  BY <1>1, <1>2

LEMMA AnsweredKeeps ==
  ASSUME TicketInv, pc = "pricing", startVars' = startVars,
         NEW received \in Seq(Quote), options # <<>> => Calibrated(received),
         Answered(received)
  PROVE  TicketInv'
<1>1. CASE Len(todo) > 1
  <2>1. quotes' = received /\ todo' = Tail(todo)
        /\ UNCHANGED <<last_payout, pc, stake, prediction, options, order>>
    BY <1>1 DEF Answered
  <2>2. UNCHANGED <<phase, settings, login, model, artifact, offered>>
    BY DEF startVars
  <2>3. todo \in Seq(Option)
    BY DEF TicketInv, Typed
  <2>4. /\ todo' \in Seq(Option) /\ todo' # <<>>
        /\ \A i \in DOMAIN todo' : i + 1 \in DOMAIN todo /\ todo'[i] = todo[i + 1]
    BY <1>1, <2>1, <2>3, TailShifts
  <2>5. Typed'
    BY <2>1, <2>2, <2>4 DEF TicketInv, Typed
  <2>6. Progress'
    BY <2>1, <2>2, <2>4 DEF TicketInv, Progress, StakeIsLimited
  <2>7. FromOptions'
    BY <2>1, <2>2, <2>4 DEF TicketInv, FromOptions, Calibrated
  <2>8. BaseIsAllowed' /\ ModelIsPromoted' /\ OrdersAreSound'
    BY <2>1, <2>2 DEF TicketInv, BaseIsAllowed, ModelIsPromoted, OrdersAreSound
  <2> QED
    BY <2>5, <2>6, <2>7, <2>8 DEF TicketInv
<1>2. CASE ~ (Len(todo) > 1)
  BY <1>2, DecideKeeps DEF Answered
<1> QED
  BY <1>1, <1>2

(* Quotes only grow stale while they wait.                                 *)
LEMMA AgedQuotes ==
  ASSUME TicketInv, NEW slow \in BOOLEAN
  PROVE  /\ Aged(quotes, slow) \in Seq(Quote)
         /\ options # <<>> => Calibrated(Aged(quotes, slow))
<1>1. quotes \in Seq(Quote) /\ Len(quotes) \in Nat /\ DOMAIN quotes = 1..Len(quotes)
  BY DEF TicketInv, Typed
<1>2. ASSUME NEW i \in DOMAIN quotes
      PROVE  /\ [quotes[i] EXCEPT !.fresh = @ /\ ~ slow] \in Quote
             /\ [quotes[i] EXCEPT !.fresh = @ /\ ~ slow].horizon = quotes[i].horizon
             /\ [quotes[i] EXCEPT !.fresh = @ /\ ~ slow].chance = quotes[i].chance
  <2>1. quotes[i] \in Quote
    BY <1>1, SeqElements
  <2>2. (quotes[i].fresh /\ ~ slow) \in BOOLEAN
    BY Zenon
  <2> QED
    BY <2>1, <2>2 DEF Quote
<1>3. Aged(quotes, slow) \in [1..Len(quotes) -> Quote]
  BY <1>1, <1>2 DEF Aged
<1>4. Aged(quotes, slow) \in Seq(Quote)
  BY <1>1, <1>3
<1>5. \A i \in DOMAIN Aged(quotes, slow) :
        /\ i \in DOMAIN quotes
        /\ Aged(quotes, slow)[i].horizon = quotes[i].horizon
        /\ Aged(quotes, slow)[i].chance = quotes[i].chance
  BY <1>2 DEF Aged
<1>6. options # <<>> => Calibrated(quotes)
  BY DEF TicketInv, FromOptions
<1> QED
  BY <1>4, <1>5, <1>6 DEF Calibrated

LEMMA PricedQuotes ==
  ASSUME TicketInv, ProposalPriced
  PROVE  \E received \in Seq(Quote) :
           (options # <<>> => Calibrated(received)) /\ Answered(received)
<1>1. PICK payout \in Payouts, slow \in BOOLEAN :
        Answered(Append(Aged(quotes, slow),
                        [horizon |-> Head(todo).horizon, chance |-> Head(todo).chance,
                         payout |-> payout, fresh |-> TRUE]))
  BY DEF ProposalPriced
<1> DEFINE old == Aged(quotes, slow)
           new == [horizon |-> Head(todo).horizon, chance |-> Head(todo).chance,
                   payout |-> payout, fresh |-> TRUE]
<1>2. pc = "pricing" /\ startVars' = startVars
  BY DEF ProposalPriced
<1>3. todo \in Seq(Option) /\ todo # <<>>
  BY <1>2 DEF TicketInv, Typed, Progress
<1>4. 1 \in DOMAIN todo /\ Head(todo) = todo[1] /\ todo[1] \in Option
  BY <1>3
<1>5. new \in Quote
  BY <1>4 DEF Option, Quote
<1>6. old \in Seq(Quote) /\ (options # <<>> => Calibrated(old))
  BY AgedQuotes
<1>7. options # <<>> => new.horizon \in offered /\ new.chance \in Chances
  BY <1>4 DEF TicketInv, FromOptions, Calibrated
<1> HIDE DEF old, new
<1>8. /\ Append(old, new) \in Seq(Quote)
      /\ \A i \in DOMAIN Append(old, new) :
           \/ i \in DOMAIN old /\ Append(old, new)[i] = old[i]
           \/ Append(old, new)[i] = new
  BY <1>5, <1>6
<1>9. options # <<>> => Calibrated(Append(old, new))
  BY <1>6, <1>7, <1>8 DEF Calibrated
<1>10. Answered(Append(old, new))
  BY <1>1 DEF old, new
<1> QED
  BY <1>8, <1>9, <1>10

LEMMA ProposalPricedKeeps ==
  ASSUME TicketInv, ProposalPriced
  PROVE  TicketInv'
<1>1. pc = "pricing" /\ startVars' = startVars
  BY DEF ProposalPriced
<1> QED
  BY <1>1, PricedQuotes, AnsweredKeeps

LEMMA ProposalFailsKeeps ==
  ASSUME TicketInv, ProposalFails
  PROVE  TicketInv'
<1>1. PICK slow \in BOOLEAN : Answered(Aged(quotes, slow))
  BY DEF ProposalFails
<1>2. pc = "pricing" /\ startVars' = startVars
  BY DEF ProposalFails
<1> QED
  BY <1>1, <1>2, AgedQuotes, AnsweredKeeps

-----------------------------------------------------------------------------
LEMMA StepKeepsTicket ==
  ASSUME TicketInv, [Next]_vars
  PROVE  TicketInv'
<1>1. CASE LoadSettings
  BY <1>1, LoadSettingsKeeps
<1>2. CASE Connect
  BY <1>2, ConnectKeeps
<1>3. CASE LoadModel
  BY <1>3, LoadModelKeeps
<1>4. CASE DiscoverSymbols
  BY <1>4, DiscoverSymbolsKeeps
<1>5. CASE Exit
  BY <1>5, ExitKeeps
<1>6. CASE OpenTicket
  BY <1>6, OpenTicketKeeps
<1>7. CASE ProposalPriced
  BY <1>7, ProposalPricedKeeps
<1>8. CASE ProposalFails
  BY <1>8, ProposalFailsKeeps
<1>9. CASE TradeEnds
  <2>1. Ended /\ startVars' = startVars
    BY <1>9 DEF TradeEnds
  <2> QED
    BY <2>1, EndedIsAtRest
<1>10. CASE UNCHANGED vars
  <2>1. UNCHANGED <<phase, settings, login, model, artifact, offered>>
        /\ UNCHANGED <<pc, stake, prediction, options, todo, quotes, order>>
    BY <1>10 DEF vars, startVars, ticketVars
  <2>2. Typed' /\ Progress' /\ FromOptions' /\ BaseIsAllowed' /\ ModelIsPromoted'
    BY <2>1 DEF TicketInv, Typed, Progress, AtRest, StakeIsLimited, FromOptions, Calibrated,
                BaseIsAllowed, ModelIsPromoted
  <2>3. OrdersAreSound'
    BY <2>1 DEF TicketInv, OrdersAreSound, StakeIsLimited, ExpiryIsTheBest, LevelTwoAgrees,
           WorstCase
  <2> QED
    BY <2>2, <2>3 DEF TicketInv
<1> QED
  BY <1>1, <1>2, <1>3, <1>4, <1>5, <1>6, <1>7, <1>8, <1>9, <1>10 DEF Next

LEMMA TicketInvariant == Spec => []TicketInv
  BY InitTicket, StepKeepsTicket, PTL DEF Spec

(* Whatever is quoted, skipped, slow or learned on the way, a buy request  *)
(* is never sent in research mode, stays within max_stake_amount, takes a  *)
(* fresh price above the floor and the best worst case of the quotes that  *)
(* came back, and has Level 2's consent where that model speaks for the    *)
(* contract (_open_position, execute_trade, apply_economics_and_risk).     *)
THEOREM EveryOrderIsSound == Spec => []OrdersAreSound
<1>1. TicketInv => OrdersAreSound
  BY DEF TicketInv
<1> QED
  BY <1>1, TicketInvariant, PTL

-----------------------------------------------------------------------------
(* What the engines compute                                                *)

(* What a loop computes: there is a row of the results behind each round.  *)
IsLoop(f, n, start, step) ==
  f[0] = start /\ \A i \in 1..n : f[i] = step[<<i, f[i - 1]>>]

LEMMA LoopExists ==
  ASSUME NEW n \in Nat, NEW S, NEW start \in S, NEW step \in [(1..n) \X S -> S]
  PROVE  \E f \in [0..n -> S] : IsLoop(f, n, start, step)
<1> DEFINE Without == {k \in 0..n : ~ \E f \in [0..k -> S] : IsLoop(f, k, start, step)}
<1>1. ASSUME Without # {} PROVE FALSE
  <2>1. Without \subseteq Nat
    OBVIOUS
  <2>2. PICK k \in Without : \A m \in Without : k <= m
    <3> HIDE DEF Without
    <3> QED
      BY <1>1, <2>1, LeastNumber
  <2>3. k \in 0..n /\ ~ \E f \in [0..k -> S] : IsLoop(f, k, start, step)
    OBVIOUS
  <2>4. k # 0
    <3>1. ASSUME k = 0 PROVE FALSE
      <4> DEFINE f == [i \in 0..0 |-> start]
      <4>1. f \in [0..k -> S] /\ f[0] = start /\ 1..k = {}
        BY <3>1
      <4> QED
        BY <2>3, <4>1 DEF IsLoop
    <3> QED
      BY <3>1
  <2>5. k \in Nat /\ k - 1 \in 0..n /\ ~ (k <= k - 1)
    BY <2>3, <2>4
  <2>6. k - 1 \notin Without
    BY <2>2, <2>5
  <2>7. PICK g \in [0..k - 1 -> S] : IsLoop(g, k - 1, start, step)
    BY <2>5, <2>6
  <2> HIDE DEF Without
  <2> DEFINE f == [i \in 0..k |-> IF i = k THEN step[<<k, g[k - 1]>>] ELSE g[i]]
  <2>8. /\ k \in 1..n /\ k - 1 \in 0..k - 1 /\ 0 \in 0..k - 1
        /\ \A i \in 0..k : i = k \/ i \in 0..k - 1
        /\ \A i \in 1..k : i = k \/ i \in 1..k - 1
    BY <2>3, <2>4, <2>5
  <2>9. f \in [0..k -> S]
    <3>1. <<k, g[k - 1]>> \in (1..n) \X S
      BY <2>8
    <3> QED
      BY <2>8, <3>1
  <2>10. \A i \in 0..k - 1 : i \in 0..k /\ i # k
    BY <2>5
  <2>11. f[k] = step[<<k, f[k - 1]>>] /\ \A i \in 0..k - 1 : f[i] = g[i]
    BY <2>5, <2>8, <2>10
  <2>12. \A i \in 1..k - 1 : i \in 0..k - 1 /\ i - 1 \in 0..k - 1
    BY <2>5
  <2> HIDE DEF f
  <2>13. IsLoop(f, k, start, step)
    BY <2>7, <2>8, <2>11, <2>12 DEF IsLoop
  <2> QED
    BY <2>3, <2>9, <2>13
<1>2. Without = {}
  BY <1>1
<1>3. n \in 0..n
  OBVIOUS
<1> QED
  BY <1>2, <1>3

LEMMA LadderIsANumber ==
  ASSUME NEW engine \in Engine, NEW losses \in Nat
  PROVE  Ladder(engine)[MartingaleSteps(engine, losses)] \in Int
<1> DEFINE n == engine.max_steps
           f0 == engine.base
           step == [x \in (1..n) \X Int |-> engine.factor * x[2]]
           IsIt(f) == f = [i \in 0..n |-> IF i = 0 THEN f0 ELSE engine.factor * f[i - 1]]
<1>1. n \in Nat /\ f0 \in Int /\ engine.factor \in Int /\ engine.min_losses \in Nat
  BY DEF Engine
<1>2. step \in [(1..n) \X Int -> Int]
  BY <1>1
<1>3. \A i \in 1..n, r \in Int : step[<<i, r>>] = engine.factor * r
  OBVIOUS
<1> HIDE DEF step
<1>4. PICK f \in [0..n -> Int] : IsLoop(f, n, f0, step)
  BY <1>1, <1>2, LoopExists
<1>5. \A i \in 0..n : i = 0 \/ (i \in 1..n /\ i - 1 \in 0..n)
  BY <1>1
<1>6. \A i \in 1..n : i \in 0..n /\ i # 0
  BY <1>1
<1>7. \A i \in 1..n : f[i] = engine.factor * f[i - 1]
  BY <1>3, <1>4, <1>5, <1>6 DEF IsLoop
<1>8. IsIt(f)
  BY <1>4, <1>5, <1>6, <1>7 DEF IsLoop
<1>9. Ladder(engine) = CHOOSE g : IsIt(g)
  BY DEF Ladder
<1>10. IsIt(Ladder(engine))
  BY <1>8, <1>9
<1> DEFINE g == Ladder(engine)
           Wrong == {k \in 0..n : g[k] \notin Int}
<1>11. g[0] = f0 /\ \A i \in 1..n : g[i] = engine.factor * g[i - 1]
  BY <1>1, <1>6, <1>10
<1> HIDE DEF g
<1>12. ASSUME Wrong # {} PROVE FALSE
  <2>1. PICK k \in Wrong : \A m \in Wrong : k <= m
    <3>1. Wrong \subseteq Nat
      BY <1>1
    <3> HIDE DEF Wrong
    <3> QED
      BY <1>12, <3>1, LeastNumber
  <2>2. k \in 1..n /\ k - 1 \in 0..n /\ ~ (k <= k - 1)
    BY <1>1, <1>5, <1>11
  <2>3. g[k - 1] \in Int
    BY <2>1, <2>2
  <2>4. g[k] \in Int
    BY <1>1, <1>11, <2>2, <2>3
  <2> QED
    BY <2>4
<1>13. MartingaleSteps(engine, losses) \in 0..n
  BY <1>1 DEF MartingaleSteps, Smaller
<1> QED
  BY <1>12, <1>13 DEF g

LEMMA StakeIsANumber ==
  ASSUME NEW engine \in Engine, NEW losses \in Nat, NEW balance \in Nat,
         NEW p_lower \in Int, NEW payout \in Nat
  PROVE  StakeFor(engine, losses, balance, p_lower, payout) \in Int
<1>1. /\ engine.base \in Int /\ engine.max \in Int /\ engine.percentage \in Int
      /\ engine.kelly_fraction \in Int /\ engine.kelly_cap \in Int
  BY DEF Engine
<1>2. ASSUME NEW a \in Int, NEW b \in Int PROVE Smaller(a, b) \in Int
  BY DEF Smaller
<1>3. ASSUME NEW a \in Int, NEW d \in Nat \ {0} PROVE NearestCent(a, d) \in Int
  <2>1. 2 * a + d \in Int /\ 2 * d \in Nat \ {0}
    OBVIOUS
  <2> QED
    BY <2>1 DEF NearestCent
<1>4. KellyStake(engine, balance, p_lower, payout) \in Int
  <2> DEFINE edge == p_lower * payout - 100 * 100
             b == payout - 100
             least == Smaller(edge * engine.kelly_fraction, 100 * b * engine.kelly_cap)
  <2>1. edge \in Int /\ b \in Int
    OBVIOUS
  <2>2. edge * engine.kelly_fraction \in Int /\ 100 * b * engine.kelly_cap \in Int
    BY <1>1, <2>1
  <2>3. least \in Int
    BY <1>2, <2>2
  <2> HIDE DEF least
  <2>4. balance * least \in Int
    BY <2>3
  <2>5. ASSUME ~ (b <= 0) PROVE NearestCent(balance * least, 100 * 100 * b) \in Int
    <3>1. 100 * 100 * b \in Nat \ {0}
      BY <2>1, <2>5
    <3> QED
      BY <1>3, <2>4, <3>1
  <2> QED
    BY <2>5 DEF KellyStake, least
<1>5. NearestCent(balance * engine.percentage, 100) \in Int
  <2>1. balance * engine.percentage \in Int /\ 100 \in Nat \ {0}
    BY <1>1
  <2> QED
    BY <1>3, <2>1
<1>6. engine.method \in {"fixed", "percentage", "kelly", "martingale", "unknown"}
  BY DEF Engine
<1>7. Ladder(engine)[MartingaleSteps(engine, losses)] \in Int
  BY LadderIsANumber
<1> HIDE DEF Smaller, NearestCent, KellyStake
<1> QED
  BY <1>1, <1>2, <1>4, <1>5, <1>6, <1>7 DEF StakeFor

-----------------------------------------------------------------------------
(* Types                                                                   *)

(* What TypeOK says beyond Typed and Progress: a trade is being priced     *)
(* while proposals are left to ask for, and bought while it has an order.  *)
RestTyped ==
  /\ phase \in {"starting", "configured", "connected", "loaded", "serving"}
  /\ artifact \in [promoted: BOOLEAN, same_config: BOOLEAN]
  /\ last_payout \in Payouts \cup {PayoutFloor} /\ stake \in Nat
  /\ order \in Quote \cup {NoOrder}
  /\ (pc = "pricing") = (todo # <<>>)
  /\ (pc = "buying") = (order # NoOrder)

LEMMA QuoteIsAnOrder ==
  ASSUME NEW q \in Quote
  PROVE  q # NoOrder
<1>1. "fresh" \in DOMAIN q
  BY DEF Quote
<1>2. DOMAIN NoOrder = {}
  BY DEF NoOrder
<1> QED
  BY <1>1, <1>2

LEMMA EndedIsTyped ==
  ASSUME Ended
  PROVE  /\ stake' \in Nat /\ order' \in Quote \cup {NoOrder}
         /\ (pc' = "pricing") = (todo' # <<>>) /\ (pc' = "buying") = (order' # NoOrder)
  BY DEF Ended

LEMMA RestInitially == Init => RestTyped
<1> SUFFICES ASSUME Init PROVE RestTyped
  OBVIOUS
<1>1. artifact \in [promoted: BOOLEAN, same_config: BOOLEAN]
  BY DEF Init, NoFile
<1> QED
  BY <1>1 DEF Init, RestTyped

LEMMA AnsweredIsTyped ==
  ASSUME TicketInv, RestTyped, pc = "pricing", startVars' = startVars,
         NEW received \in Seq(Quote), Answered(received)
  PROVE  RestTyped'
<1>1. UNCHANGED <<phase, artifact>>
  BY DEF startVars
<1>2. CASE Len(todo) > 1
  <2>1. todo \in Seq(Option)
    BY DEF TicketInv, Typed
  <2>2. todo' # <<>>
    BY <1>2, <2>1, TailShifts DEF Answered
  <2> QED
    BY <1>1, <1>2, <2>2 DEF Answered, RestTyped
<1>3. CASE ~ (Len(todo) > 1)
  <2>1. Decide(received)
    BY <1>3 DEF Answered
  <2>2. CASE received = <<>>
    BY <1>1, <2>1, <2>2, EndedIsTyped DEF Decide, RestTyped
  <2>3. CASE received # <<>>
    <3> DEFINE q == Chosen(received)
    <3>1. q \in Quote
      BY <2>3, ChosenIsBest, SeqElements
    <3>2. q.payout \in Payouts /\ q # NoOrder
      BY <3>1, QuoteIsAnOrder DEF Quote
    <3>3. /\ last_payout' = q.payout
          /\ \/ pc' = "buying" /\ order' = q /\ todo' = <<>> /\ UNCHANGED stake
             \/ Ended
      BY <2>1, <2>3 DEF Decide
    <3> HIDE DEF q
    <3>4. CASE Ended
      BY <1>1, <3>2, <3>3, <3>4, EndedIsTyped DEF RestTyped
    <3>5. CASE pc' = "buying" /\ order' = q /\ todo' = <<>> /\ UNCHANGED stake
      BY <1>1, <3>1, <3>2, <3>3, <3>5 DEF RestTyped
    <3> QED
      BY <3>3, <3>4, <3>5
  <2> QED
    BY <2>2, <2>3
<1> QED
  BY <1>2, <1>3

LEMMA OpenTicketIsTyped ==
  ASSUME TicketInv, TicketInv', RestTyped, OpenTicket
  PROVE  RestTyped'
<1>1. PICK losses \in 0..MaxLosses, balance \in Balances :
        stake' = StakeFor(settings.engine, losses, balance, prediction'.lower, last_payout)
  BY DEF OpenTicket
<1>2. settings.engine \in Engine
  BY TicketAssumption DEF TicketInv, Typed, Settings
<1>3. losses \in Nat /\ balance \in Nat /\ last_payout \in Nat
  BY TicketAssumption DEF RestTyped
<1>4. prediction'.lower \in Int
  <2>1. prediction' \in Chances \cup {NoChance}
    BY DEF TicketInv, Typed
  <2>2. NoChance.lower \in Int
    BY DEF NoChance, NoBound
  <2> QED
    BY <2>1, <2>2, QuoteTypes
<1>5. stake' \in Int /\ stake' > 0
  BY <1>1, <1>2, <1>3, <1>4, StakeIsANumber DEF OpenTicket
<1>6. pc = "idle" /\ pc' = "pricing"
  BY DEF OpenTicket
<1>7. todo' # <<>>
  BY <1>6 DEF TicketInv, Progress
<1>8. UNCHANGED <<phase, artifact, last_payout, order>>
  BY DEF OpenTicket, startVars
<1> QED
  BY <1>5, <1>6, <1>7, <1>8 DEF RestTyped

LEMMA RestKept ==
  ASSUME TicketInv, TicketInv', RestTyped, [Next]_vars
  PROVE  RestTyped'
<1> USE DEF RestTyped
<1>1. CASE LoadSettings
  BY <1>1 DEF LoadSettings, ticketVars
<1>2. CASE Connect
  BY <1>2 DEF Connect, ticketVars
<1>3. CASE LoadModel
  BY <1>3 DEF LoadModel, ticketVars
<1>4. CASE DiscoverSymbols
  BY <1>4 DEF DiscoverSymbols, ticketVars
<1>5. CASE Exit
  <2>1. NoFile \in [promoted: BOOLEAN, same_config: BOOLEAN]
    BY DEF NoFile
  <2> QED
    BY <1>5, <2>1, EndedIsTyped DEF Exit
<1>6. CASE OpenTicket
  BY <1>6, OpenTicketIsTyped
<1>7. CASE ProposalPriced \/ ProposalFails
  <2>1. pc = "pricing" /\ startVars' = startVars
    BY <1>7 DEF ProposalPriced, ProposalFails
  <2>2. \E received \in Seq(Quote) : Answered(received)
    BY <1>7, PricedQuotes, AgedQuotes DEF ProposalFails
  <2> QED
    BY <2>1, <2>2, AnsweredIsTyped
<1>8. CASE TradeEnds
  BY <1>8, EndedIsTyped DEF TradeEnds, startVars
<1>9. CASE UNCHANGED vars
  BY <1>9 DEF vars, startVars, ticketVars
<1> QED
  BY <1>1, <1>2, <1>3, <1>4, <1>5, <1>6, <1>7, <1>8, <1>9 DEF Next

(* Every reachable state of start, trade and order is well typed: a stake  *)
(* is a number of cents whatever the engine, a trade is in pricing exactly *)
(* while proposals are left to ask for, and buys exactly one quote.        *)
THEOREM TypeCorrect == Spec => []TypeOK
<1>1. TicketInv /\ RestTyped /\ [Next]_vars => TicketInv' /\ RestTyped'
  BY StepKeepsTicket, RestKept
<1>2. TicketInv /\ RestTyped => TypeOK
  <2> SUFFICES ASSUME TicketInv, RestTyped PROVE TypeOK
    OBVIOUS
  <2>1. login.auth \in {"otp", "legacy"}
        /\ {login.named, login.account} \subseteq Kinds \cup {NoKind}
    BY DEF TicketInv, Typed, Logins
  <2> QED
    BY <2>1 DEF TicketInv, Typed, Progress, RestTyped, TypeOK
<1> QED
  BY <1>1, <1>2, InitTicket, RestInitially, PTL DEF Spec
=============================================================================
